----------------------------- MODULE MCPayments -----------------------------
(***************************************************************************)
(* Two sessions of one buyer, who can be joined by another user.           *)
(***************************************************************************)
EXTENDS Payments, TLC

CONSTANTS s1, s2, buyer, stranger

OneSession == {s1}
TwoSessions == {s1, s2}
MCUsers == {buyer, stranger}
MCOwnerOf == [s \in Sessions |-> buyer]

Symmetry == Permutations(Handlers)
=============================================================================
