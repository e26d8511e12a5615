------------------------------ MODULE Accounts ------------------------------
(***************************************************************************)
(* One row of the `user` table and the requests that read and write it:    *)
(* findOrCreateDetaille (every authenticated call), decrementCredits       *)
(* (inside the caller's transaction), addExtraCredits, the administrator's *)
(* adjustCredits and setInternal, the one-click answer of RetoursService   *)
(* and deleteAccount.                                                      *)
(*                                                                         *)
(* `repo.save(entity)` is TypeORM's: it SELECTs the row of the entity's    *)
(* id, then UPDATEs the columns in which the entity differs from what that *)
(* SELECT returned, with the entity's values; it INSERTs the entity when   *)
(* the SELECT finds no row.  Outside a transaction the three statements    *)
(* (find, SELECT of the save, UPDATE) are three steps; inside one, the     *)
(* SELECT reads the snapshot of the find (InnoDB's REPEATABLE READ, its    *)
(* default), so the only later step is the UPDATE that commits.            *)
(*                                                                         *)
(* Columns no property tells apart (names, locale, lastLogin, flags) are   *)
(* left out; dates are the number of the month they fall in, 0 for NULL.   *)
(***************************************************************************)
EXTENDS Integers

CONSTANTS
  Requests,            \* HTTP requests in flight, for this account
  NoUser,              \* "no such row", and the entity of an idle request
  FREE_MONTHLY_QUOTA,
  CREDITS_UTILITE,     \* what a one-click answer earns
  Costs,               \* amounts a search or a report can cost
  Packs,               \* amounts a pack or a feedback reward can add
  Deltas,              \* administrator's adjustments
  Isolated,            \* TRUE: a request starts only when none is in flight
  MaxMonth,            \* bound on the months
  MaxGranted,          \* bound on the credits granted
  MaxRows              \* bound on the rows ever created

Columns == [id : 1..MaxRows, credits : 0..FREE_MONTHLY_QUOTA, extraCredits : Nat,
            lastFreeReset : 0..MaxMonth, utiliteAt : BOOLEAN, demandeRetourAt : BOOLEAN]

ASSUME ConstantsAssumption ==
  /\ FREE_MONTHLY_QUOTA \in Nat
  /\ CREDITS_UTILITE \in Nat
  /\ Costs \subseteq Nat
  /\ Packs \subseteq Nat
  /\ Deltas \subseteq Int
  /\ Isolated \in BOOLEAN
  /\ MaxMonth \in Nat \ {0}
  /\ MaxGranted \in Nat
  /\ MaxRows \in Nat \ {0}
  /\ NoUser \notin Columns

VARIABLES
  user,      \* the row, or NoUser
  month,     \* the calendar month
  nextId,    \* AUTO_INCREMENT of the table
  pc,        \* where each request is
  op,        \* which operation each request runs
  entity,    \* the entity each request holds in memory
  loaded,    \* what the SELECT of its save (or its snapshot) returned
  granted,   \* history: pack credits granted so far, whoever granted them
  rewards,   \* history: answers rewarded on the current row
  failed,    \* history: some request ended in an unexpected error
  deleted    \* history: some account was deleted

request == <<pc, op, entity, loaded>>
history == <<granted, rewards, failed, deleted>>
vars == <<user, month, nextId, request, history>>

PCs == {"idle", "insert", "reread", "resetSelect", "resetUpdate", "refind", "select", "update"}
Ops == {"none", "visit", "debit", "credit", "admin", "flag"}

TypeOK ==
  /\ user \in Columns \union {NoUser}
  /\ month \in 1..MaxMonth
  /\ nextId \in 1..(MaxRows + 1)
  /\ pc \in [Requests -> PCs]
  /\ op \in [Requests -> Ops]
  /\ entity \in [Requests -> Columns \union {NoUser}]
  /\ loaded \in [Requests -> Columns \union {NoUser}]
  /\ granted \in Nat
  /\ rewards \in Nat
  /\ failed \in BOOLEAN
  /\ deleted \in BOOLEAN

----------------------------------------------------------------------------
\* The lazy renewal.

RenouvellementDu(u) == u.lastFreeReset = 0 \/ u.lastFreeReset < month

Renewed(u) ==
  IF RenouvellementDu(u)
  THEN [u EXCEPT !.credits = FREE_MONTHLY_QUOTA, !.lastFreeReset = month]
  ELSE u

TotalCredits(u) == u.credits + u.extraCredits

\* Mutant: the subtraction of what the free credits leave is the wrong way round.
DebitedSwapped(u, amount) ==
  IF u.credits >= amount
  THEN [u EXCEPT !.credits = @ - amount]
  ELSE [u EXCEPT !.credits = 0, !.extraCredits = @ - (u.credits - amount)]

\* Mutant: the pack is spent first.
DebitedPackFirst(u, amount) ==
  IF u.extraCredits >= amount
  THEN [u EXCEPT !.extraCredits = @ - amount]
  ELSE [u EXCEPT !.extraCredits = 0, !.credits = @ - (amount - u.extraCredits)]

Debited(u, amount) ==
  IF u.credits >= amount
  THEN [u EXCEPT !.credits = @ - amount]
  ELSE [u EXCEPT !.credits = 0, !.extraCredits = @ - (amount - u.credits)]

NewAccount ==
  [id |-> nextId, credits |-> FREE_MONTHLY_QUOTA, extraCredits |-> 0,
   lastFreeReset |-> month, utiliteAt |-> FALSE, demandeRetourAt |-> FALSE]

\* A row from before the monthly quota: it was never renewed.
LegacyAccount ==
  [id |-> 1, credits |-> FREE_MONTHLY_QUOTA, extraCredits |-> 0,
   lastFreeReset |-> 0, utiliteAt |-> FALSE, demandeRetourAt |-> FALSE]

----------------------------------------------------------------------------
\* How requests start, move and end.

AllIdle == \A q \in Requests : pc[q] = "idle"

Quiet == Isolated => AllIdle

Begin(r, operation, found, next) ==
  /\ pc[r] = "idle"
  /\ Quiet
  /\ op' = [op EXCEPT ![r] = operation]
  /\ entity' = [entity EXCEPT ![r] = found]
  /\ pc' = [pc EXCEPT ![r] = next]

Finish(r) ==
  /\ pc' = [pc EXCEPT ![r] = "idle"]
  /\ op' = [op EXCEPT ![r] = "none"]
  /\ entity' = [entity EXCEPT ![r] = NoUser]
  /\ loaded' = [loaded EXCEPT ![r] = NoUser]

\* The request throws: the caller sees a 500.
Fail(r) ==
  /\ Finish(r)
  /\ failed' = TRUE
  /\ UNCHANGED <<granted, rewards, deleted>>

\* The row the entity of r stands for is still in the table.
SameRow(r) == user # NoUser /\ entity[r] # NoUser /\ user.id = entity[r].id

Written(new, old, current) == IF new # old THEN new ELSE current

\* UPDATE ... SET the columns in which the entity differs from what was loaded.
MergedRow(e, l) ==
  [id |-> user.id,
   credits |-> Written(e.credits, l.credits, user.credits),
   extraCredits |-> Written(e.extraCredits, l.extraCredits, user.extraCredits),
   lastFreeReset |-> Written(e.lastFreeReset, l.lastFreeReset, user.lastFreeReset),
   utiliteAt |-> Written(e.utiliteAt, l.utiliteAt, user.utiliteAt),
   demandeRetourAt |-> Written(e.demandeRetourAt, l.demandeRetourAt, user.demandeRetourAt)]

----------------------------------------------------------------------------
Init ==
  /\ \/ user = NoUser /\ nextId = 1
     \/ user = LegacyAccount /\ nextId = 2
  /\ month = 1
  /\ pc = [r \in Requests |-> "idle"]
  /\ op = [r \in Requests |-> "none"]
  /\ entity = [r \in Requests |-> NoUser]
  /\ loaded = [r \in Requests |-> NoUser]
  /\ granted = 0
  /\ rewards = 0
  /\ failed = FALSE
  /\ deleted = FALSE

\* findOrCreateDetaille: the first findOne, and maybeFreeReset's decision.
FindMissing(r) ==
  /\ user = NoUser
  /\ Begin(r, "visit", NoUser, "insert")
  /\ UNCHANGED <<user, month, nextId, loaded, history>>

FindExisting(r) ==
  /\ user # NoUser
  /\ Begin(r, "visit", Renewed(user), IF RenouvellementDu(user) THEN "resetSelect" ELSE "refind")
  /\ UNCHANGED <<user, month, nextId, loaded, history>>

\* The INSERT of a new account; the unique index on keycloakId arbitrates.
InsertWins(r) ==
  /\ pc[r] = "insert"
  /\ user = NoUser
  /\ user' = NewAccount
  /\ nextId' = nextId + 1
  /\ rewards' = 0
  /\ entity' = [entity EXCEPT ![r] = NewAccount]
  /\ pc' = [pc EXCEPT ![r] = "select"]
  /\ UNCHANGED <<month, op, loaded, granted, failed, deleted>>

\* Mutant: losing the race is an error.
InsertLosesThrows(r) ==
  /\ pc[r] = "insert"
  /\ user # NoUser
  /\ Fail(r)
  /\ UNCHANGED <<user, month, nextId>>

InsertLoses(r) ==
  /\ pc[r] = "insert"
  /\ user # NoUser
  /\ pc' = [pc EXCEPT ![r] = "reread"]
  /\ UNCHANGED <<user, month, nextId, op, entity, loaded, history>>

\* The loser reads the winner's row; without one it rethrows.
Reread(r) ==
  /\ pc[r] = "reread"
  /\ \/ /\ user # NoUser
        /\ entity' = [entity EXCEPT ![r] = user]
        /\ pc' = [pc EXCEPT ![r] = "select"]
        /\ UNCHANGED <<op, loaded, history>>
     \/ user = NoUser /\ Fail(r)
  /\ UNCHANGED <<user, month, nextId>>

\* After maybeFreeReset the row is read again.
Refind(r) ==
  /\ pc[r] = "refind"
  /\ entity' = [entity EXCEPT ![r] = IF user # NoUser THEN user ELSE @]
  /\ pc' = [pc EXCEPT ![r] = "select"]
  /\ UNCHANGED <<user, month, nextId, op, loaded, history>>

\* save, first statement: the row of the entity's id.
SaveSelect(r) ==
  /\ pc[r] \in {"resetSelect", "select"}
  /\ loaded' = [loaded EXCEPT ![r] = IF SameRow(r) THEN user ELSE NoUser]
  /\ pc' = [pc EXCEPT ![r] = IF @ = "select" THEN "update" ELSE "resetUpdate"]
  /\ UNCHANGED <<user, month, nextId, op, entity, history>>

AfterSave(r) ==
  IF pc[r] = "update"
  THEN Finish(r)
  ELSE pc' = [pc EXCEPT ![r] = "refind"] /\ UNCHANGED <<op, entity, loaded>>

\* save, second statement: the changed columns, in the row if it is still there.
SaveUpdate(r) ==
  /\ pc[r] \in {"resetUpdate", "update"}
  /\ loaded[r] # NoUser
  /\ user' = IF SameRow(r) THEN MergedRow(entity[r], loaded[r]) ELSE user
  /\ AfterSave(r)
  /\ UNCHANGED <<month, nextId, history>>

\* save of an entity whose row is gone: TypeORM inserts it again.
SaveInsert(r) ==
  /\ pc[r] \in {"resetUpdate", "update"}
  /\ loaded[r] = NoUser
  /\ \/ user = NoUser /\ user' = entity[r] /\ AfterSave(r) /\ UNCHANGED history
     \/ user # NoUser /\ Fail(r) /\ UNCHANGED user
  /\ UNCHANGED <<month, nextId>>

\* decrementCredits that accepts: a refusal (-1) reads the row and writes nothing.
DecrementCredits(r, amount) ==
  /\ user # NoUser
  /\ TotalCredits(Renewed(user)) >= amount
  /\ Begin(r, "debit", Debited(Renewed(user), amount), "update")
  /\ loaded' = [loaded EXCEPT ![r] = user]
  /\ UNCHANGED <<user, month, nextId, history>>

\* addExtraCredits: a pack bought, a feedback rewarded.
AddExtraCredits(r, amount) ==
  /\ user # NoUser
  /\ granted + amount <= MaxGranted
  /\ Begin(r, "credit", [user EXCEPT !.extraCredits = @ + amount], "select")
  /\ granted' = granted + amount
  /\ UNCHANGED <<user, month, nextId, loaded, rewards, failed, deleted>>

\* adjustCredits: never below zero.
AdjustCredits(r, delta) ==
  /\ user # NoUser
  /\ granted + delta <= MaxGranted
  /\ LET extra == user.extraCredits + delta
     IN  Begin(r, "admin", [user EXCEPT !.extraCredits = IF extra < 0 THEN 0 ELSE extra], "select")
  /\ granted' = IF delta > 0 THEN granted + delta ELSE granted
  /\ UNCHANGED <<user, month, nextId, loaded, rewards, failed, deleted>>

\* setInternal: the whole entity is saved for one flag.
SetInternal(r) ==
  /\ user # NoUser
  /\ Begin(r, "flag", user, "select")
  /\ UNCHANGED <<user, month, nextId, loaded, history>>

\* Mutant: the UPDATE of the answer has no `utiliteAt IS NULL`.
RepondreAgain ==
  /\ Quiet
  /\ user # NoUser
  /\ granted + CREDITS_UTILITE <= MaxGranted
  /\ user' = [user EXCEPT !.utiliteAt = TRUE, !.extraCredits = @ + CREDITS_UTILITE]
  /\ granted' = granted + CREDITS_UTILITE
  /\ rewards' = rewards + 1
  /\ UNCHANGED <<month, nextId, request, failed, deleted>>

\* repondre: one transaction whose first statement locks the row; both
\* UPDATEs are relative to the row itself, so it is one step.
Repondre ==
  /\ Quiet
  /\ user # NoUser
  /\ ~user.utiliteAt
  /\ granted + CREDITS_UTILITE <= MaxGranted
  /\ user' = [user EXCEPT !.utiliteAt = TRUE, !.extraCredits = @ + CREDITS_UTILITE]
  /\ granted' = granted + CREDITS_UTILITE
  /\ rewards' = rewards + 1
  /\ UNCHANGED <<month, nextId, request, failed, deleted>>

\* deleteAccount's DELETE; Keycloak comes after and changes nothing here.
DeleteAccount ==
  /\ Quiet
  /\ user # NoUser
  /\ nextId <= MaxRows
  /\ user' = NoUser
  /\ deleted' = TRUE
  /\ UNCHANGED <<month, nextId, request, granted, rewards, failed>>

NewMonth ==
  /\ Quiet
  /\ month < MaxMonth
  /\ month' = month + 1
  /\ UNCHANGED <<user, nextId, request, history>>

\* The container stops and starts: requests in flight vanish.
Restart ==
  /\ pc' = [r \in Requests |-> "idle"]
  /\ op' = [r \in Requests |-> "none"]
  /\ entity' = [r \in Requests |-> NoUser]
  /\ loaded' = [r \in Requests |-> NoUser]
  /\ UNCHANGED <<user, month, nextId, history>>

RequestStep(r) ==
  \/ FindMissing(r) \/ FindExisting(r)
  \/ InsertWins(r) \/ InsertLoses(r) \/ Reread(r)
  \/ Refind(r)
  \/ SaveSelect(r) \/ SaveUpdate(r) \/ SaveInsert(r)
  \/ \E amount \in Costs : DecrementCredits(r, amount)
  \/ \E amount \in Packs : AddExtraCredits(r, amount)
  \/ \E delta \in Deltas : AdjustCredits(r, delta)
  \/ SetInternal(r)

Next ==
  \/ \E r \in Requests : RequestStep(r)
  \/ Repondre \/ DeleteAccount \/ NewMonth \/ Restart

Spec == Init /\ [][Next]_vars

----------------------------------------------------------------------------
\* Whatever the interleaving of stale saves, debits and grants, an account
\* never holds more pack credits than were ever granted: a lost update can
\* only cost its owner or resell what was spent, it cannot mint credits.
NoMinting == user # NoUser => user.extraCredits <= granted

\* The race of the first page load never surfaces: a request ends in an
\* error only if the account was deleted under it.
OnlyDeletionBreaksARequest == failed => deleted

\* A debit that commits changes the pack of the row, and so can undo a purchase
\* or a bonus committed since its read, only when it leaves no free credit in the
\* row; unless another request wrote the free credits since that read
\* (users.service.ts, lines 225 to 234).
PackIsSpentLast ==
  [][\A r \in Requests :
       /\ op[r] = "debit" /\ op'[r] = "none"
       /\ user # NoUser /\ user' # NoUser
       /\ user'.extraCredits # user.extraCredits
       => user'.credits = 0 \/ user.credits # loaded[r].credits]_vars

\* The 100 credits of the one-click answer are given once per account
\* (retours.service.ts, lines 43 to 45).
RewardedOnce == rewards <= 1

----------------------------------------------------------------------------
\* The ledger an observer sees: the quota counts as renewed as soon as it is
\* due, whether or not a request has written it.
Promise == INSTANCE Ledger WITH
  Grants <- Packs \union {CREDITS_UTILITE},
  open <- user # NoUser,
  free <- IF user = NoUser THEN 0 ELSE Renewed(user).credits,
  pack <- IF user = NoUser THEN 0 ELSE user.extraCredits

\* Requests that do not overlap implement the ledger: the lazy renewal and
\* the read-then-save of every operation are invisible to the owner.
ImplementsLedger == Promise!LedgerSpec
=============================================================================
