--------------------------- MODULE MCAvailability ---------------------------
(***************************************************************************)
(* Three verifications of one extension, one place at its registry, so     *)
(* that two may queue.  The extension is asked by RDAP or by WHOIS first,  *)
(* is or is not in the directory, and has or has not a wildcard.  A caller *)
(* may start again; MaxChecks bounds the verifications of all, MaxTicks    *)
(* the delays of the directory that pass.                                  *)
(***************************************************************************)
EXTENDS Availability
=============================================================================
