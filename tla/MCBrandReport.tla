---------------------------- MODULE MCBrandReport ----------------------------
(***************************************************************************)
(* Two requests at once, credits for three reports of cost 2 with one      *)
(* credit spent elsewhere at a time, a clock that passes the refresh       *)
(* interval twice.                                                         *)
(***************************************************************************)
EXTENDS BrandReport

UnitSpending == {1}
=============================================================================
