------------------------------- MODULE Ledger -------------------------------
(***************************************************************************)
(* What a Namorama account promises its owner about credits: a monthly     *)
(* quota of free credits that is whole again the instant a month begins,   *)
(* and pack credits that stay until they are spent.  Every operation is a  *)
(* single step.  The code never renews the quota eagerly and never updates *)
(* the balance in one step; Accounts shows when it still keeps this        *)
(* promise.                                                                *)
(***************************************************************************)
EXTENDS Integers

CONSTANTS
  FREE_MONTHLY_QUOTA,  \* free credits of a month
  Costs,               \* what an operation can be billed
  Grants,              \* what a purchase, a reward or a bonus can add
  Deltas               \* what an administrator can add or take back

VARIABLES
  open,   \* the account exists
  free,   \* free credits its owner can spend now
  pack    \* permanent credits

ledgerVars == <<open, free, pack>>

LedgerInit ==
  \/ open = FALSE /\ free = 0 /\ pack = 0
  \/ open = TRUE /\ free = FREE_MONTHLY_QUOTA /\ pack = 0

Open ==
  /\ ~open
  /\ open' = TRUE
  /\ free' = FREE_MONTHLY_QUOTA
  /\ pack' = 0

Close ==
  /\ open
  /\ open' = FALSE
  /\ free' = 0
  /\ pack' = 0

NewMonth ==
  /\ open
  /\ free' = FREE_MONTHLY_QUOTA
  /\ UNCHANGED <<open, pack>>

\* Free credits go first, the pack pays the rest, and nothing is ever owed.
Spend(cost) ==
  /\ open
  /\ free + pack >= cost
  /\ \/ free >= cost /\ free' = free - cost /\ pack' = pack
     \/ free < cost /\ free' = 0 /\ pack' = pack - (cost - free)
  /\ UNCHANGED open

Grant(amount) ==
  /\ open
  /\ pack' = pack + amount
  /\ UNCHANGED <<open, free>>

Adjust(delta) ==
  /\ open
  /\ pack' = IF pack + delta < 0 THEN 0 ELSE pack + delta
  /\ UNCHANGED <<open, free>>

LedgerNext ==
  \/ Open \/ Close \/ NewMonth
  \/ \E cost \in Costs : Spend(cost)
  \/ \E amount \in Grants : Grant(amount)
  \/ \E delta \in Deltas : Adjust(delta)

LedgerSpec == LedgerInit /\ [][LedgerNext]_ledgerVars
=============================================================================
