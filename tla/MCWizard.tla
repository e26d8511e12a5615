------------------------------ MODULE MCWizard ------------------------------
(***************************************************************************)
(* Two names, a project there is and one a search creates.                 *)
(***************************************************************************)
EXTENDS Wizard

\* Bound: three gestures of any kind; a fourth only types in a name that is under
\* analysis, after a new search of its project cleared the list and ended.
TypedAgain ==
  /\ DOMAIN rows = {} /\ drawn = Existing /\ ~Unended
  /\ \E n \in DOMAIN rows', p \in Existing : rows'[n].manual /\ <<n, p>> \in InFlight

FourthTypesAgain == gestures = 3 /\ gestures' = 4 => TypedAgain
=============================================================================
