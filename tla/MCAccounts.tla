----------------------------- MODULE MCAccounts -----------------------------
(***************************************************************************)
(* Small instances of Accounts.  Overlapping requests get a quota of 1,    *)
(* costs of 1 and 2 (2 needs the pack), packs of 1 and a bonus of 1;       *)
(* isolated ones a quota of 2, costs of 1 and 3, packs of 2 and            *)
(* adjustments, so that every branch of Debited, of the renewal and of the *)
(* adjustment is taken.                                                    *)
(***************************************************************************)
EXTENDS Accounts, TLC

NoAmount == {}
MCCosts == {1, 2}
WideCosts == {1, 3}
MCPacks == {1}
WidePacks == {2}
MCDeltas == {-1, 1}

Symmetry == Permutations(Requests)
=============================================================================
