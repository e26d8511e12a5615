------------------------------ MODULE MCVisitor ------------------------------
(***************************************************************************)
(* One visit in a tab and in its copy, two accounts.  A behaviour has many *)
(* calls, many gestures, an incident or an event, not all of them at once. *)
(***************************************************************************)
EXTENDS Visitor

Budget(c, i, e, g) == [calls |-> c, incidents |-> i, events |-> e, gestures |-> g]
MCBudgets == {Budget(4, 1, 0, 1), Budget(1, 1, 2, 1), Budget(2, 1, 0, 2), Budget(1, 0, 0, 3)}
=============================================================================
