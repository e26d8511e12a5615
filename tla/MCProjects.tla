------------------------------ MODULE MCProjects ------------------------------
(***************************************************************************)
(* An owner, a guest, a name found by a search and one typed in.           *)
(***************************************************************************)
EXTENDS Projects
=============================================================================
