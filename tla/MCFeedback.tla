------------------------------ MODULE MCFeedback ------------------------------
(***************************************************************************)
(* Two accounts, and the two hazards of their rows and of the feedbacks,   *)
(* one at a time.                                                          *)
(***************************************************************************)
EXTENDS Feedback

\* Bound: a behaviour has saves of whole rows and a mail by hand, or a feedback
\* and what the administrator does with it.
RowsOrFeedbacks == visited' = 0 \/ (DOMAIN feedback' = {} /\ requests' = {} /\ clicks' <= 1)
=============================================================================
