--------------------------- MODULE AccountsProofs ---------------------------
(***************************************************************************)
(* What holds of an account row for every number of overlapping requests,  *)
(* every quota, cost, pack and adjustment; and, for requests that do not   *)
(* overlap, that it implements Ledger.                                     *)
(***************************************************************************)
EXTENDS Accounts, Feedback, TLAPS

\* A row can be created whenever there is none: the bound on deletions keeps
\* an AUTO_INCREMENT value for it.
RoomForARow == user = NoUser => nextId <= MaxRows

TypeInv == TypeOK /\ RoomForARow

\* No row, in the table or in the memory of a request, holds more pack
\* credits than were granted so far.
Backed(u) == u # NoUser => u.extraCredits <= granted

AllBacked == Backed(user) /\ \A r \in Requests : Backed(entity[r])

----------------------------------------------------------------------------
\* Overwriting balances with balances in range keeps a row well-formed.
LEMMA ColumnsUpdate ==
  ASSUME NEW u \in Columns, NEW x \in 0..FREE_MONTHLY_QUOTA, NEW y \in 0..MaxMonth, NEW z \in Nat
  PROVE  /\ [u EXCEPT !.credits = x, !.lastFreeReset = y] \in Columns
         /\ [u EXCEPT !.credits = x, !.extraCredits = z] \in Columns
         /\ [u EXCEPT !.credits = x] \in Columns
         /\ [u EXCEPT !.extraCredits = z] \in Columns
         /\ [u EXCEPT !.utiliteAt = TRUE, !.extraCredits = z] \in Columns
  BY DEF Columns

\* Renewal keeps an account well-formed and leaves its pack credits alone.
LEMMA RenewedColumns ==
  ASSUME NEW u \in Columns, month \in 1..MaxMonth
  PROVE  /\ Renewed(u) \in Columns
         /\ Renewed(u).extraCredits = u.extraCredits
  <1>1. FREE_MONTHLY_QUOTA \in 0..FREE_MONTHLY_QUOTA /\ month \in 0..MaxMonth
    BY ConstantsAssumption DEF ConstantsAssumption
  <1>2. [u EXCEPT !.credits = FREE_MONTHLY_QUOTA, !.lastFreeReset = month] \in Columns
    BY <1>1, ColumnsUpdate, 0 \in Nat
  <1>3. [u EXCEPT !.credits = FREE_MONTHLY_QUOTA, !.lastFreeReset = month].extraCredits
          = u.extraCredits
    BY DEF Columns
  <1> QED BY <1>2, <1>3 DEF Renewed

\* An accepted debit never makes a balance negative, and never adds credits.
LEMMA DebitedColumns ==
  ASSUME NEW u \in Columns, NEW amount \in Nat, TotalCredits(u) >= amount
  PROVE  /\ Debited(u, amount) \in Columns
         /\ Debited(u, amount).extraCredits <= u.extraCredits
  <1>0. u.credits \in 0..FREE_MONTHLY_QUOTA /\ u.extraCredits \in Nat /\ FREE_MONTHLY_QUOTA \in Nat
    BY ConstantsAssumption DEF ConstantsAssumption, Columns
  <1>1. CASE u.credits >= amount
    <2>1. u.credits - amount \in 0..FREE_MONTHLY_QUOTA
      BY <1>0, <1>1
    <2>2. [u EXCEPT !.credits = @ - amount] \in Columns
      BY <2>1 DEF Columns
    <2>3. [u EXCEPT !.credits = @ - amount].extraCredits = u.extraCredits
      BY DEF Columns
    <2> QED BY <1>0, <1>1, <2>2, <2>3 DEF Debited
  <1>2. CASE ~(u.credits >= amount)
    <2> DEFINE rest == u.extraCredits - (amount - u.credits)
    <2>1. rest \in Nat /\ rest <= u.extraCredits /\ 0 \in 0..FREE_MONTHLY_QUOTA
      BY <1>0, <1>2 DEF TotalCredits
    <2>2. [u EXCEPT !.credits = 0, !.extraCredits = rest] \in Columns
      BY <2>1 DEF Columns
    <2>3. [u EXCEPT !.credits = 0, !.extraCredits = rest].extraCredits = rest
      BY DEF Columns
    <2>4. Debited(u, amount) = [u EXCEPT !.credits = 0, !.extraCredits = rest]
      BY <1>2 DEF Debited
    <2> QED BY <2>1, <2>2, <2>3, <2>4
  <1> QED BY <1>1, <1>2

\* Columns merged from an entity into a row come from one or the other.
LEMMA MergedColumns ==
  ASSUME user \in Columns, NEW e \in Columns, NEW l \in Columns
  PROVE  /\ MergedRow(e, l) \in Columns
         /\ MergedRow(e, l).extraCredits \in {e.extraCredits, user.extraCredits}
  BY DEF MergedRow, Written, Columns

----------------------------------------------------------------------------
\* Types and room for a row hold initially and are kept by every step.
LEMMA TypeInit == Init => TypeInv
  <1>1. FREE_MONTHLY_QUOTA \in Nat /\ MaxMonth \in Nat \ {0} /\ MaxRows \in Nat \ {0}
        /\ NoUser \notin Columns
    BY ConstantsAssumption DEF ConstantsAssumption
  <1>2. LegacyAccount \in Columns
    BY <1>1 DEF LegacyAccount, Columns
  <1> SUFFICES ASSUME Init PROVE TypeInv
    OBVIOUS
  <1>3. user \in Columns \union {NoUser} /\ nextId \in 1..(MaxRows + 1) /\ RoomForARow
    BY <1>1, <1>2 DEF Init, RoomForARow
  <1>4. pc \in [Requests -> PCs] /\ op \in [Requests -> Ops]
    BY DEF Init, PCs, Ops
  <1>5. entity \in [Requests -> Columns \union {NoUser}] /\ loaded \in [Requests -> Columns \union {NoUser}]
    BY DEF Init
  <1>6. month \in 1..MaxMonth /\ granted \in Nat /\ rewards \in Nat
    BY <1>1 DEF Init
  <1>7. failed \in BOOLEAN /\ deleted \in BOOLEAN
    BY DEF Init
  <1> QED BY <1>3, <1>4, <1>5, <1>6, <1>7 DEF TypeInv, TypeOK

\* Every step keeps rows well-formed, and leaves room for a row.
LEMMA TypeStep ==
  ASSUME TypeInv, [Next]_vars
  PROVE  TypeInv'
  <1> USE ConstantsAssumption DEF ConstantsAssumption, TypeInv, TypeOK, RoomForARow, PCs, Ops
  <1>1. ASSUME NEW r \in Requests, RequestStep(r) PROVE TypeInv'
    <2> USE DEF Begin, Finish, Fail, history
    <2>1. CASE FindMissing(r)
      BY <2>1 DEF FindMissing
    <2>2. CASE FindExisting(r)
      BY <2>2, RenewedColumns DEF FindExisting
    <2>3. CASE InsertWins(r)
      <3>1. NewAccount \in Columns
        BY <2>3 DEF InsertWins, NewAccount, Columns
      <3> QED BY <2>3, <3>1 DEF InsertWins
    <2>4. CASE InsertLoses(r)
      BY <2>4 DEF InsertLoses
    <2>5. CASE Reread(r)
      BY <2>5 DEF Reread
    <2>6. CASE Refind(r)
      BY <2>6 DEF Refind
    <2>7. CASE SaveSelect(r)
      BY <2>7 DEF SaveSelect
    <2>8. CASE SaveUpdate(r)
      <3>1. CASE SameRow(r)
        <4>1. MergedRow(entity[r], loaded[r]) \in Columns
          BY <2>8, <3>1, MergedColumns DEF SaveUpdate, SameRow
        <4> QED BY <2>8, <3>1, <4>1 DEF SaveUpdate, AfterSave
      <3>2. CASE ~SameRow(r)
        BY <2>8, <3>2 DEF SaveUpdate, AfterSave
      <3> QED BY <3>1, <3>2
    <2>9. CASE SaveInsert(r)
      BY <2>9 DEF SaveInsert, AfterSave
    <2>10. ASSUME NEW amount \in Costs, DecrementCredits(r, amount) PROVE TypeInv'
      <3>1. Debited(Renewed(user), amount) \in Columns
        BY <2>10, RenewedColumns, DebitedColumns DEF DecrementCredits
      <3> QED BY <2>10, <3>1 DEF DecrementCredits
    <2>11. ASSUME NEW amount \in Packs, AddExtraCredits(r, amount) PROVE TypeInv'
      <3>1. user \in Columns /\ [user EXCEPT !.extraCredits = @ + amount] \in Columns
        BY <2>11 DEF AddExtraCredits, Columns
      <3> QED BY <2>11, <3>1 DEF AddExtraCredits
    <2>12. ASSUME NEW delta \in Deltas, AdjustCredits(r, delta) PROVE TypeInv'
      <3> DEFINE extra == user.extraCredits + delta
      <3>1. user \in Columns
        BY <2>12 DEF AdjustCredits
      <3>2. user.extraCredits \in Nat /\ delta \in Int
        BY <3>1 DEF Columns
      <3>3. [user EXCEPT !.extraCredits = IF extra < 0 THEN 0 ELSE extra] \in Columns
        BY <3>1, <3>2 DEF Columns
      <3>4. granted' \in Nat
        BY <2>12, <3>2 DEF AdjustCredits
      <3> QED BY <2>12, <3>1, <3>3, <3>4 DEF AdjustCredits
    <2>13. CASE SetInternal(r)
      BY <2>13 DEF SetInternal
    <2> QED
      BY <1>1, <2>1, <2>2, <2>3, <2>4, <2>5, <2>6, <2>7, <2>8, <2>9, <2>10, <2>11,
         <2>12, <2>13 DEF RequestStep
  <1>2. CASE Repondre
    <2>1. user \in Columns
          /\ [user EXCEPT !.utiliteAt = TRUE, !.extraCredits = @ + CREDITS_UTILITE] \in Columns
      <3>1. user \in Columns
        BY <1>2 DEF Repondre
      <3>2. user.extraCredits + CREDITS_UTILITE \in Nat
        BY <3>1 DEF Columns
      <3> QED BY <3>1, <3>2 DEF Columns
    <2>2. user' \in Columns /\ granted' \in Nat /\ rewards' \in Nat
      BY <1>2, <2>1 DEF Repondre
    <2> QED BY <1>2, <2>2 DEF Repondre, request
  <1>3. CASE DeleteAccount
    BY <1>3 DEF DeleteAccount, request
  <1>4. CASE NewMonth
    BY <1>4 DEF NewMonth, request, history
  <1>5. CASE Restart
    BY <1>5 DEF Restart, history
  <1>6. CASE UNCHANGED vars
    BY <1>6 DEF vars, request, history
  <1> QED BY <1>1, <1>2, <1>3, <1>4, <1>5, <1>6 DEF Next

\* Every balance stays well-formed: never negative, free credits never above
\* the quota, whatever requests overlap (users.service.ts).
THEOREM TypeCorrect == Spec => []TypeOK
  <1>1. TypeInv /\ [Next]_vars => TypeInv'
    BY TypeStep
  <1>2. TypeInv => TypeOK
    BY DEF TypeInv
  <1> QED BY TypeInit, <1>1, <1>2, PTL DEF Spec

----------------------------------------------------------------------------
\* Backing survives every step: a stale save writes a value some earlier row
\* had, or had plus a grant already counted, and grants are never uncounted.
LEMMA BackedStep ==
  ASSUME TypeInv, AllBacked, [Next]_vars
  PROVE  AllBacked'
  <1> USE DEF TypeInv, TypeOK, AllBacked, Backed
  <1>0. /\ NoUser \notin Columns
        /\ \A u \in Columns : u.extraCredits \in Nat
        /\ Costs \subseteq Nat /\ Packs \subseteq Nat /\ Deltas \subseteq Int
        /\ CREDITS_UTILITE \in Nat
    BY ConstantsAssumption DEF ConstantsAssumption, Columns
  <1>1. ASSUME NEW r \in Requests, RequestStep(r) PROVE AllBacked'
    <2> USE DEF Begin, Finish, Fail, history
    <2>1. CASE FindMissing(r)
      BY <2>1 DEF FindMissing
    <2>2. CASE FindExisting(r)
      BY <2>2, RenewedColumns DEF FindExisting
    <2>3. CASE InsertWins(r)
      <3>1. NewAccount.extraCredits = 0
        BY DEF NewAccount
      <3> QED BY <2>3, <3>1 DEF InsertWins
    <2>4. CASE InsertLoses(r)
      BY <2>4 DEF InsertLoses
    <2>5. CASE Reread(r)
      BY <2>5 DEF Reread
    <2>6. CASE Refind(r)
      BY <2>6 DEF Refind
    <2>7. CASE SaveSelect(r)
      BY <2>7 DEF SaveSelect
    <2>8. CASE SaveUpdate(r)
      <3>1. CASE SameRow(r)
        <4>1. MergedRow(entity[r], loaded[r]).extraCredits
                \in {entity[r].extraCredits, user.extraCredits}
          BY <2>8, <3>1, MergedColumns DEF SaveUpdate, SameRow
        <4> QED BY <2>8, <3>1, <4>1 DEF SaveUpdate, AfterSave, SameRow
      <3>2. CASE ~SameRow(r)
        BY <2>8, <3>2 DEF SaveUpdate, AfterSave
      <3> QED BY <3>1, <3>2
    <2>9. CASE SaveInsert(r)
      BY <2>9 DEF SaveInsert, AfterSave
    <2>10. ASSUME NEW amount \in Costs, DecrementCredits(r, amount) PROVE AllBacked'
      <3> DEFINE after == Debited(Renewed(user), amount)
      <3>1. user \in Columns /\ user.extraCredits <= granted
        BY <2>10 DEF DecrementCredits
      <3>2. after \in Columns /\ after.extraCredits <= Renewed(user).extraCredits
        BY <1>0, <2>10, RenewedColumns, DebitedColumns DEF DecrementCredits
      <3>3. after.extraCredits <= granted
        BY <1>0, <3>1, <3>2, RenewedColumns
      <3> QED BY <2>10, <3>3 DEF DecrementCredits
    <2>11. ASSUME NEW amount \in Packs, AddExtraCredits(r, amount) PROVE AllBacked'
      <3> DEFINE after == [user EXCEPT !.extraCredits = @ + amount]
      <3>1. user \in Columns /\ user.extraCredits <= granted
        BY <2>11 DEF AddExtraCredits
      <3>2. after.extraCredits = user.extraCredits + amount
        BY <3>1 DEF Columns
      <3>3. after.extraCredits <= granted' /\ granted <= granted' /\ granted' \in Nat
        BY <1>0, <2>11, <3>1, <3>2 DEF AddExtraCredits
      <3> QED BY <1>0, <2>11, <3>1, <3>3 DEF AddExtraCredits
    <2>12. ASSUME NEW delta \in Deltas, AdjustCredits(r, delta) PROVE AllBacked'
      <3> DEFINE extra == user.extraCredits + delta
                 after == [user EXCEPT !.extraCredits = IF extra < 0 THEN 0 ELSE extra]
      <3>1. user \in Columns /\ user.extraCredits <= granted
        BY <2>12 DEF AdjustCredits
      <3>2. after.extraCredits = IF extra < 0 THEN 0 ELSE extra
        BY <3>1 DEF Columns
      <3>3. after.extraCredits <= granted' /\ granted <= granted' /\ granted' \in Nat
        BY <1>0, <2>12, <3>1, <3>2 DEF AdjustCredits
      <3> QED BY <1>0, <2>12, <3>1, <3>3 DEF AdjustCredits
    <2>13. CASE SetInternal(r)
      BY <2>13 DEF SetInternal
    <2> QED
      BY <1>1, <2>1, <2>2, <2>3, <2>4, <2>5, <2>6, <2>7, <2>8, <2>9, <2>10, <2>11,
         <2>12, <2>13 DEF RequestStep
  <1>2. CASE Repondre
    <2>1. user \in Columns /\ user'.extraCredits = user.extraCredits + CREDITS_UTILITE
      BY <1>2 DEF Repondre, Columns
    <2>2. granted' = granted + CREDITS_UTILITE /\ entity' = entity
      BY <1>2 DEF Repondre, request
    <2> QED BY <1>0, <1>2, <2>1, <2>2 DEF Repondre
  <1>3. CASE DeleteAccount
    BY <1>3 DEF DeleteAccount, request
  <1>4. CASE NewMonth
    BY <1>4 DEF NewMonth, request, history
  <1>5. CASE Restart
    BY <1>5 DEF Restart, history
  <1>6. CASE UNCHANGED vars
    BY <1>6 DEF vars, request, history
  <1> QED BY <1>1, <1>2, <1>3, <1>4, <1>5, <1>6 DEF Next

\* No interleaving of stale saves, debits, purchases and answers leaves an
\* account with more pack credits than were granted to it.
THEOREM NeverMints == Spec => []NoMinting
  <1>1. Init => AllBacked
    BY DEF Init, AllBacked, Backed, LegacyAccount
  <1>2. TypeInv /\ AllBacked /\ [Next]_vars => TypeInv' /\ AllBacked'
    BY TypeStep, BackedStep
  <1>3. AllBacked => NoMinting
    BY DEF AllBacked, Backed, NoMinting
  <1> QED BY TypeInit, <1>1, <1>2, <1>3, PTL DEF Spec

----------------------------------------------------------------------------
(* Requests that do not overlap keep the promise of Ledger: the lazy renewal *)
(* and the find, SELECT, UPDATE of every operation are invisible.            *)

\* What a request may be about to write over the row u.
Outcome(u, e) ==
  \/ e = u
  \/ e = Renewed(u)
  \/ \E amount \in Packs : e = [u EXCEPT !.extraCredits = @ + amount]
  \/ \E delta \in Deltas :
       e = [u EXCEPT !.extraCredits = IF u.extraCredits + delta < 0 THEN 0 ELSE u.extraCredits + delta]
  \/ \E amount \in Costs :
       TotalCredits(Renewed(u)) >= amount /\ e = Debited(Renewed(u), amount)

OneAtATime == \A r, q \in Requests : pc[r] # "idle" /\ pc[q] # "idle" => r = q

\* Nobody else writes, so what a request holds is about the row as it is.
UpToDate ==
  \A r \in Requests :
    /\ pc[r] # "reread"
    /\ pc[r] = "insert" => user = NoUser
    /\ pc[r] \in {"resetSelect", "resetUpdate", "refind", "select", "update"} => user # NoUser
    /\ pc[r] \in {"resetSelect", "resetUpdate", "select", "update"}
         => entity[r] # NoUser /\ Outcome(user, entity[r])
    /\ pc[r] \in {"resetUpdate", "update"} => loaded[r] = user

RenewedInThePast == user # NoUser => user.lastFreeReset <= month

IsolatedInv == TypeInv /\ OneAtATime /\ UpToDate /\ RenewedInThePast

----------------------------------------------------------------------------
\* Renewing twice in a month is renewing once, and needs nothing of the pack.
LEMMA RenewedOnce ==
  ASSUME NEW u \in Columns, month \in 1..MaxMonth, u.lastFreeReset <= month
  PROVE  /\ Renewed(u) \in Columns /\ Renewed(u).id = u.id
         /\ Renewed(u).lastFreeReset = month
         /\ Renewed(u).extraCredits = u.extraCredits
         /\ u.lastFreeReset = month => Renewed(u) = u
         /\ u.lastFreeReset # month => Renewed(u).credits = FREE_MONTHLY_QUOTA
  <1>1. u.lastFreeReset \in 0..MaxMonth /\ MaxMonth \in Nat
    BY ConstantsAssumption DEF ConstantsAssumption, Columns
  <1>2. RenouvellementDu(u) <=> u.lastFreeReset # month
    BY <1>1 DEF RenouvellementDu
  <1>3. CASE RenouvellementDu(u)
    <2>1. Renewed(u) = [u EXCEPT !.credits = FREE_MONTHLY_QUOTA, !.lastFreeReset = month]
      BY <1>3 DEF Renewed
    <2>2. /\ Renewed(u).id = u.id /\ Renewed(u).lastFreeReset = month
          /\ Renewed(u).credits = FREE_MONTHLY_QUOTA
      BY <2>1 DEF Columns
    <2> QED BY <1>2, <1>3, <2>2, RenewedColumns
  <1>4. CASE ~RenouvellementDu(u)
    BY <1>2, <1>4, RenewedColumns DEF Renewed
  <1> QED BY <1>3, <1>4

\* A debit changes the two balances only, and takes the cost from them, the
\* free credits first.
LEMMA DebitedBalances ==
  ASSUME NEW u \in Columns, NEW amount \in Nat, TotalCredits(u) >= amount
  PROVE  /\ Debited(u, amount) \in Columns
         /\ Debited(u, amount).id = u.id
         /\ Debited(u, amount).lastFreeReset = u.lastFreeReset
         /\ u.credits >= amount => /\ Debited(u, amount).credits = u.credits - amount
                                   /\ Debited(u, amount).extraCredits = u.extraCredits
         /\ u.credits < amount => /\ Debited(u, amount).credits = 0
                                  /\ Debited(u, amount).extraCredits
                                       = u.extraCredits - (amount - u.credits)
  <1>0. u.credits \in Int /\ amount \in Int
    BY ConstantsAssumption DEF ConstantsAssumption, Columns
  <1>1. Debited(u, amount) \in Columns
    BY DebitedColumns
  <1>2. CASE u.credits >= amount
    <2>1. Debited(u, amount) = [u EXCEPT !.credits = @ - amount]
      BY <1>2 DEF Debited
    <2> QED BY <1>0, <1>1, <1>2, <2>1 DEF Columns
  <1>3. CASE u.credits < amount
    <2>1. Debited(u, amount) = [u EXCEPT !.credits = 0, !.extraCredits = @ - (amount - u.credits)]
      BY <1>0, <1>3 DEF Debited
    <2> QED BY <1>0, <1>1, <1>3, <2>1 DEF Columns
  <1> QED BY <1>0, <1>2, <1>3

\* Replacing the pack changes nothing else.
LEMMA PackReplaced ==
  ASSUME NEW u \in Columns, NEW x \in Nat, month \in 1..MaxMonth, u.lastFreeReset <= month
  PROVE  LET e == [u EXCEPT !.extraCredits = x]
         IN  /\ e \in Columns /\ e.id = u.id /\ e.extraCredits = x
             /\ e.lastFreeReset = u.lastFreeReset
             /\ Renewed(e).credits = Renewed(u).credits
  <1> DEFINE e == [u EXCEPT !.extraCredits = x]
  <1>1. /\ e \in Columns /\ e.id = u.id /\ e.extraCredits = x
        /\ e.lastFreeReset = u.lastFreeReset /\ e.credits = u.credits
    BY DEF Columns
  <1> HIDE DEF e
  <1>2. u.lastFreeReset = month => Renewed(e).credits = Renewed(u).credits
    BY <1>1, RenewedOnce
  <1>3. u.lastFreeReset # month => Renewed(e).credits = Renewed(u).credits
    BY <1>1, RenewedOnce
  <1>4. Renewed(e).credits = Renewed(u).credits
    BY <1>2, <1>3
  <1> QED BY <1>1, <1>4 DEF e

\* An outcome is a row of the same id, renewed in the past.
LEMMA OutcomeColumns ==
  ASSUME NEW u \in Columns, NEW e, Outcome(u, e), month \in 1..MaxMonth, u.lastFreeReset <= month
  PROVE  e \in Columns /\ e.id = u.id /\ e.lastFreeReset <= month
  <1>0. u.extraCredits \in Nat /\ Costs \subseteq Nat /\ Packs \subseteq Nat /\ Deltas \subseteq Int
        /\ month \in Nat
    BY ConstantsAssumption DEF ConstantsAssumption, Columns
  <1>1. CASE e = u
    BY <1>1
  <1>2. CASE e = Renewed(u)
    BY <1>0, <1>2, RenewedOnce
  <1>3. ASSUME NEW amount \in Packs, e = [u EXCEPT !.extraCredits = @ + amount]
        PROVE  e \in Columns /\ e.id = u.id /\ e.lastFreeReset <= month
    <2>1. u.extraCredits + amount \in Nat
      BY <1>0
    <2> QED BY <1>3, <2>1, PackReplaced
  <1>4. ASSUME NEW delta \in Deltas,
               e = [u EXCEPT !.extraCredits = IF u.extraCredits + delta < 0 THEN 0 ELSE u.extraCredits + delta]
        PROVE  e \in Columns /\ e.id = u.id /\ e.lastFreeReset <= month
    <2>1. (IF u.extraCredits + delta < 0 THEN 0 ELSE u.extraCredits + delta) \in Nat
      BY <1>0
    <2> QED BY <1>4, <2>1, PackReplaced
  <1>5. ASSUME NEW amount \in Costs, TotalCredits(Renewed(u)) >= amount, e = Debited(Renewed(u), amount)
        PROVE  e \in Columns /\ e.id = u.id /\ e.lastFreeReset <= month
    BY <1>0, <1>5, RenewedOnce, DebitedBalances
  <1> QED BY <1>1, <1>2, <1>3, <1>4, <1>5 DEF Outcome

\* A save nobody disturbed writes its entity.
LEMMA MergedIsEntity ==
  ASSUME user \in Columns, NEW e \in Columns, e.id = user.id
  PROVE  MergedRow(e, user) = e
  BY DEF MergedRow, Written, Columns

----------------------------------------------------------------------------
\* Initially no request is in flight.
LEMMA IsolatedInit == Init => IsolatedInv
  <1> SUFFICES ASSUME Init PROVE IsolatedInv
    OBVIOUS
  <1>1. OneAtATime /\ UpToDate
    BY DEF Init, OneAtATime, UpToDate
  <1>2. RenewedInThePast
    BY DEF Init, RenewedInThePast, LegacyAccount
  <1> QED BY <1>1, <1>2, TypeInit DEF IsolatedInv

\* A request that begins is alone, and what it holds is about the row.
LEMMA BeginStep ==
  ASSUME Isolated, IsolatedInv, NEW r \in Requests, NEW operation, NEW found, NEW next,
         Begin(r, operation, found, next), UNCHANGED <<user, month>>,
         next \in {"insert", "refind", "resetSelect", "select", "update"},
         next = "insert" <=> user = NoUser,
         next \notin {"insert", "refind"} => found # NoUser /\ Outcome(user, found),
         IF next = "update" THEN loaded' = [loaded EXCEPT ![r] = user] ELSE UNCHANGED loaded
  PROVE  OneAtATime' /\ UpToDate' /\ RenewedInThePast'
  <1> USE DEF IsolatedInv, TypeInv, TypeOK
  <1>1. \A q \in Requests : pc[q] = "idle"
    BY DEF Begin, Quiet, AllIdle
  <1>2. /\ pc'[r] = next /\ entity'[r] = found
        /\ \A q \in Requests : q # r => pc'[q] = "idle"
    BY <1>1 DEF Begin
  <1>3. OneAtATime'
    BY <1>2 DEF OneAtATime
  <1>4. Outcome(user, found) => Outcome(user, found)'
    BY DEF Outcome, Renewed, RenouvellementDu
  <1>5. UpToDate'
    BY <1>2, <1>4 DEF UpToDate
  <1>6. RenewedInThePast'
    BY DEF RenewedInThePast
  <1> QED BY <1>3, <1>5, <1>6
\* What a step of the only request in flight has to establish.
LEMMA AloneStep ==
  ASSUME NEW r \in Requests, TypeInv', \A q \in Requests : q # r => pc'[q] = "idle",
         pc'[r] \in {"idle", "select", "refind"}
           \/ (pc'[r] \in {"update", "resetUpdate"} /\ loaded'[r] = user'),
         pc'[r] # "idle" => user' # NoUser,
         pc'[r] \in {"select", "update", "resetUpdate"}
           => entity'[r] # NoUser /\ Outcome(user, entity[r])'
  PROVE  OneAtATime' /\ UpToDate'
  BY DEF OneAtATime, UpToDate

\* The request in flight is alone, and its entity is an outcome of the row.
LEMMA InFlight ==
  ASSUME IsolatedInv, NEW r \in Requests, pc[r] # "idle"
  PROVE  /\ \A q \in Requests : q # r => pc[q] = "idle"
         /\ pc[r] \in {"resetSelect", "resetUpdate", "select", "update"}
              => /\ user \in Columns /\ entity[r] \in Columns /\ SameRow(r)
                 /\ Outcome(user, entity[r]) /\ entity[r].lastFreeReset <= month
  <1> USE DEF IsolatedInv, TypeInv, TypeOK
  <1>1. \A q \in Requests : q # r => pc[q] = "idle"
    BY DEF OneAtATime
  <1>2. ASSUME pc[r] \in {"resetSelect", "resetUpdate", "select", "update"}
        PROVE  /\ user \in Columns /\ entity[r] \in Columns /\ SameRow(r)
               /\ Outcome(user, entity[r]) /\ entity[r].lastFreeReset <= month
    <2>1. user \in Columns /\ entity[r] # NoUser /\ Outcome(user, entity[r]) /\ user # NoUser
          /\ user.lastFreeReset <= month
      BY <1>2 DEF UpToDate, RenewedInThePast
    <2>2. entity[r] \in Columns /\ entity[r].id = user.id /\ entity[r].lastFreeReset <= month
      BY <2>1, OutcomeColumns
    <2> QED BY <2>1, <2>2 DEF SameRow
  <1> QED BY <1>1, <1>2

\* The steps that write: an undisturbed save puts the entity in the row.
LEMMA UndisturbedSave ==
  ASSUME IsolatedInv, NEW r \in Requests, SaveUpdate(r)
  PROVE  user' = entity[r] /\ Outcome(user, entity[r]) /\ entity[r].lastFreeReset <= month
         /\ user \in Columns /\ entity[r] \in Columns
  <1>1. pc[r] \in {"resetUpdate", "update"} /\ pc[r] # "idle"
    BY DEF SaveUpdate
  <1>2. /\ user \in Columns /\ entity[r] \in Columns /\ SameRow(r)
        /\ Outcome(user, entity[r]) /\ entity[r].lastFreeReset <= month
    BY <1>1, InFlight
  <1>3. loaded[r] = user
    BY <1>1 DEF IsolatedInv, UpToDate
  <1>4. MergedRow(entity[r], user) = entity[r]
    BY <1>2, MergedIsEntity DEF SameRow
  <1> QED BY <1>2, <1>3, <1>4 DEF SaveUpdate

\* Every step keeps requests alone and up to date.
LEMMA IsolatedStep ==
  ASSUME Isolated, IsolatedInv, [Next]_vars
  PROVE  IsolatedInv'
  <1>0. TypeInv' /\ NoUser \notin Columns
    BY TypeStep, ConstantsAssumption DEF IsolatedInv, ConstantsAssumption
  <1> SUFFICES OneAtATime' /\ UpToDate' /\ RenewedInThePast'
    BY <1>0 DEF IsolatedInv
  <1>1. ASSUME NEW r \in Requests, RequestStep(r)
        PROVE  OneAtATime' /\ UpToDate' /\ RenewedInThePast'
    <2> USE DEF IsolatedInv, TypeInv, TypeOK
    <2>1. CASE FindMissing(r)
      BY <2>1, BeginStep DEF FindMissing
    <2>2. CASE FindExisting(r)
      <3>1. Renewed(user) # NoUser /\ Outcome(user, Renewed(user))
        BY <1>0, <2>2, RenewedColumns DEF FindExisting, Outcome
      <3> QED BY <2>2, <3>1, BeginStep DEF FindExisting
    <2>3. CASE InsertWins(r)
      <3>0. NewAccount \in Columns
        BY <2>3, ConstantsAssumption
        DEF ConstantsAssumption, InsertWins, RoomForARow, NewAccount, Columns
      <3>1. user' # NoUser /\ user' = NewAccount /\ entity'[r] = user' /\ pc'[r] = "select"
            /\ pc[r] # "idle"
        BY <1>0, <2>3, <3>0 DEF InsertWins
      <3>2. \A q \in Requests : q # r => pc'[q] = "idle"
        BY <2>3, <3>1, InFlight DEF InsertWins
      <3>3. Outcome(user, entity[r])'
        BY <3>1 DEF Outcome
      <3>4. RenewedInThePast'
        BY <2>3, <3>1 DEF RenewedInThePast, InsertWins, NewAccount
      <3> QED BY <1>0, <3>1, <3>2, <3>3, <3>4, AloneStep
    <2>4. CASE InsertLoses(r)
      BY <2>4 DEF InsertLoses, UpToDate
    <2>5. CASE Reread(r)
      BY <2>5 DEF Reread, UpToDate
    <2>6. CASE Refind(r)
      <3>1. user # NoUser /\ user' = user /\ month' = month /\ pc[r] # "idle"
            /\ entity'[r] = user /\ pc'[r] = "select"
        BY <2>6 DEF Refind, UpToDate
      <3>2. \A q \in Requests : q # r => pc'[q] = "idle"
        BY <2>6, <3>1, InFlight DEF Refind
      <3>3. Outcome(user, entity[r])'
        BY <3>1 DEF Outcome
      <3>4. RenewedInThePast'
        BY <3>1 DEF RenewedInThePast
      <3> QED BY <1>0, <3>1, <3>2, <3>3, <3>4, AloneStep
    <2>7. CASE SaveSelect(r)
      <3>1. /\ pc[r] # "idle" /\ pc[r] \in {"resetSelect", "select"}
            /\ UNCHANGED <<user, month, entity>>
            /\ pc'[r] \in {"update", "resetUpdate"}
        BY <2>7 DEF SaveSelect
      <3>2. /\ \A q \in Requests : q # r => pc[q] = "idle"
            /\ user \in Columns /\ SameRow(r) /\ Outcome(user, entity[r]) /\ entity[r] # NoUser
        BY <1>0, <3>1, InFlight
      <3>3. loaded'[r] = user /\ \A q \in Requests : q # r => pc'[q] = "idle"
        BY <2>7, <3>2 DEF SaveSelect
      <3>4. Outcome(user, entity[r])'
        BY <3>1, <3>2 DEF Outcome, Renewed, RenouvellementDu
      <3>5. RenewedInThePast'
        BY <3>1 DEF RenewedInThePast
      <3>6. user' # NoUser /\ entity'[r] # NoUser
        BY <1>0, <3>1, <3>2
      <3> QED BY <1>0, <3>1, <3>3, <3>4, <3>5, <3>6, AloneStep
    <2>8. CASE SaveUpdate(r)
      <3>1. /\ user' = entity[r] /\ entity[r] \in Columns /\ entity[r].lastFreeReset <= month
            /\ month' = month /\ pc[r] # "idle"
        BY <2>8, UndisturbedSave DEF SaveUpdate
      <3>2. /\ \A q \in Requests : q # r => pc'[q] = "idle"
            /\ pc'[r] \in {"idle", "refind"}
        BY <2>8, <3>1, InFlight DEF SaveUpdate, AfterSave, Finish
      <3>3. user' # NoUser
        BY <1>0, <3>1
      <3>4. RenewedInThePast'
        BY <3>1 DEF RenewedInThePast
      <3> QED BY <1>0, <3>2, <3>3, <3>4, AloneStep
    <2>9. CASE SaveInsert(r)
      BY <2>9 DEF SaveInsert, UpToDate
    <2>10. ASSUME NEW amount \in Costs, DecrementCredits(r, amount)
           PROVE  OneAtATime' /\ UpToDate' /\ RenewedInThePast'
      <3> DEFINE e == Debited(Renewed(user), amount)
      <3>1. e \in Columns /\ user # NoUser
        BY <2>10, RenewedColumns, DebitedColumns, ConstantsAssumption
        DEF DecrementCredits, ConstantsAssumption
      <3>2. Outcome(user, e)
        BY <2>10 DEF DecrementCredits, Outcome
      <3>3. Begin(r, "debit", e, "update") /\ loaded' = [loaded EXCEPT ![r] = user]
            /\ UNCHANGED <<user, month>>
        BY <2>10 DEF DecrementCredits
      <3> HIDE DEF e
      <3> QED BY <1>0, <3>1, <3>2, <3>3, BeginStep
    <2>11. ASSUME NEW amount \in Packs, AddExtraCredits(r, amount)
           PROVE  OneAtATime' /\ UpToDate' /\ RenewedInThePast'
      <3> DEFINE e == [user EXCEPT !.extraCredits = @ + amount]
      <3>1. user # NoUser /\ Outcome(user, e)
        BY <2>11 DEF AddExtraCredits, Outcome
      <3>2. e \in Columns
        BY <2>11, <3>1, OutcomeColumns DEF RenewedInThePast
      <3>3. Begin(r, "credit", e, "select") /\ UNCHANGED <<user, month, loaded>>
        BY <2>11 DEF AddExtraCredits
      <3> HIDE DEF e
      <3> QED BY <1>0, <3>1, <3>2, <3>3, BeginStep
    <2>12. ASSUME NEW delta \in Deltas, AdjustCredits(r, delta)
           PROVE  OneAtATime' /\ UpToDate' /\ RenewedInThePast'
      <3> DEFINE e == [user EXCEPT !.extraCredits =
                         IF user.extraCredits + delta < 0 THEN 0 ELSE user.extraCredits + delta]
      <3>1. user # NoUser /\ Outcome(user, e)
        BY <2>12 DEF AdjustCredits, Outcome
      <3>2. e \in Columns
        BY <2>12, <3>1, OutcomeColumns DEF RenewedInThePast
      <3>3. Begin(r, "admin", e, "select") /\ UNCHANGED <<user, month, loaded>>
        BY <2>12 DEF AdjustCredits
      <3> HIDE DEF e
      <3> QED BY <1>0, <3>1, <3>2, <3>3, BeginStep
    <2>13. CASE SetInternal(r)
      <3>1. Outcome(user, user)
        BY DEF Outcome
      <3> QED BY <2>13, <3>1, BeginStep DEF SetInternal
    <2> QED
      BY <1>1, <2>1, <2>2, <2>3, <2>4, <2>5, <2>6, <2>7, <2>8, <2>9, <2>10, <2>11,
         <2>12, <2>13 DEF RequestStep
  <1>2. CASE Repondre
    <2>1. user \in Columns /\ user'.lastFreeReset = user.lastFreeReset
          /\ UNCHANGED <<pc, month>> /\ \A q \in Requests : pc'[q] = "idle"
      BY <1>2 DEF Repondre, Quiet, AllIdle, request, Columns, IsolatedInv, TypeInv, TypeOK
    <2> QED BY <1>2, <2>1 DEF OneAtATime, UpToDate, RenewedInThePast, IsolatedInv, Repondre
  <1>3. CASE DeleteAccount
    <2>1. user' = NoUser /\ \A q \in Requests : pc'[q] = "idle"
      BY <1>3 DEF DeleteAccount, Quiet, AllIdle, request
    <2> QED BY <2>1 DEF OneAtATime, UpToDate, RenewedInThePast
  <1>4. CASE NewMonth
    <2>1. user' = user /\ month' = month + 1 /\ \A q \in Requests : pc'[q] = "idle"
      BY <1>4 DEF NewMonth, Quiet, AllIdle, request
    <2>2. month \in Nat /\ (user # NoUser => user.lastFreeReset \in Nat)
      BY ConstantsAssumption DEF ConstantsAssumption, IsolatedInv, TypeInv, TypeOK, Columns
    <2>3. RenewedInThePast'
      BY <2>1, <2>2 DEF RenewedInThePast, IsolatedInv
    <2> QED BY <2>1, <2>3 DEF OneAtATime, UpToDate
  <1>5. CASE Restart
    BY <1>5 DEF Restart, OneAtATime, UpToDate, RenewedInThePast, IsolatedInv
  <1>6. CASE UNCHANGED vars
    <2>1. UNCHANGED <<user, month, pc, entity, loaded>>
      BY <1>6 DEF vars, request
    <2>2. ASSUME NEW r \in Requests, Outcome(user, entity[r])
          PROVE  Outcome(user, entity[r])'
      BY <2>1, <2>2 DEF Outcome, Renewed, RenouvellementDu
    <2>3. UpToDate'
      BY <2>1, <2>2 DEF UpToDate, IsolatedInv
    <2> QED BY <2>1, <2>3 DEF OneAtATime, RenewedInThePast, IsolatedInv
  <1> QED BY <1>1, <1>2, <1>3, <1>4, <1>5, <1>6 DEF Next
----------------------------------------------------------------------------
\* The ledger only sees the row and the month.
LEMMA LedgerStutter ==
  ASSUME UNCHANGED <<user, month>>
  PROVE  UNCHANGED Promise!ledgerVars
  BY DEF Promise!ledgerVars, Renewed, RenouvellementDu

\* Writing an outcome of the row is a step of the ledger, or none.
LEMMA OutcomeIsLedgerStep ==
  ASSUME user \in Columns, user' \in Columns, Outcome(user, user'), month' = month,
         month \in 1..MaxMonth, user.lastFreeReset <= month
  PROVE  [Promise!LedgerNext]_Promise!ledgerVars
  <1>0. /\ user # NoUser /\ user' # NoUser /\ Costs \subseteq Nat /\ Packs \subseteq Nat
        /\ Deltas \subseteq Int /\ user.extraCredits \in Nat
    BY ConstantsAssumption DEF ConstantsAssumption, Columns
  <1> DEFINE before == Renewed(user)
             after == Renewed(user')
  <1>1. Renewed(user)' = after
    BY DEF Renewed, RenouvellementDu
  <1>2. /\ before \in Columns /\ before.extraCredits = user.extraCredits
        /\ before.lastFreeReset = month
    BY RenewedOnce
  <1>3. CASE user' = user
    BY <1>3, LedgerStutter
  <1>4. CASE user' = Renewed(user)
    <2>1. after = before
      BY <1>2, <1>4, RenewedOnce
    <2> HIDE DEF after, before
    <2>2. after.credits = before.credits /\ user'.extraCredits = user.extraCredits
      BY <1>2, <1>4, <2>1 DEF before
    <2> QED BY <1>0, <1>1, <2>2 DEF Promise!ledgerVars, before
  <1>5. ASSUME NEW amount \in Packs, user' = [user EXCEPT !.extraCredits = @ + amount]
        PROVE  Promise!LedgerNext
    <2>1. user.extraCredits + amount \in Nat
      BY <1>0
    <2>2. user'.extraCredits = user.extraCredits + amount /\ after.credits = before.credits
      BY <1>5, <2>1, PackReplaced
    <2> HIDE DEF after
    <2>3. Promise!Grant(amount)
      BY <1>0, <1>1, <2>2 DEF Promise!Grant
    <2> QED BY <2>3 DEF Promise!LedgerNext
  <1>6. ASSUME NEW delta \in Deltas,
               user' = [user EXCEPT !.extraCredits =
                          IF user.extraCredits + delta < 0 THEN 0 ELSE user.extraCredits + delta]
        PROVE  Promise!LedgerNext
    <2> DEFINE x == IF user.extraCredits + delta < 0 THEN 0 ELSE user.extraCredits + delta
    <2>1. x \in Nat
      BY <1>0
    <2>2. user'.extraCredits = x /\ after.credits = before.credits
      BY <1>6, <2>1, PackReplaced
    <2> HIDE DEF after
    <2>3. Promise!Adjust(delta)
      BY <1>0, <1>1, <2>2 DEF Promise!Adjust
    <2> QED BY <2>3 DEF Promise!LedgerNext
  <1>7. ASSUME NEW amount \in Costs, TotalCredits(Renewed(user)) >= amount,
               user' = Debited(Renewed(user), amount)
        PROVE  Promise!LedgerNext
    <2>0. amount \in Nat /\ before.credits \in Int
      BY <1>0, <1>2, ConstantsAssumption DEF ConstantsAssumption, Columns
    <2>1. /\ user'.lastFreeReset = month
          /\ before.credits >= amount => /\ user'.credits = before.credits - amount
                                         /\ user'.extraCredits = before.extraCredits
          /\ before.credits < amount => /\ user'.credits = 0
                                        /\ user'.extraCredits
                                             = before.extraCredits - (amount - before.credits)
      BY <1>2, <1>7, <2>0, DebitedBalances
    <2>2. after = user'
      BY <2>1, RenewedOnce
    <2>3. before.credits + user.extraCredits >= amount
      BY <1>2, <1>7 DEF TotalCredits
    <2> HIDE DEF after
    <2>4. Promise!Spend(amount)
      BY <1>0, <1>1, <1>2, <2>0, <2>1, <2>2, <2>3 DEF Promise!Spend
    <2> QED BY <2>4 DEF Promise!LedgerNext
  <1> QED BY <1>3, <1>4, <1>5, <1>6, <1>7 DEF Outcome

\* Every step of an isolated account is one step of the ledger, or none.
LEMMA LedgerStep ==
  ASSUME IsolatedInv, [Next]_vars, IsolatedInv'
  PROVE  [Promise!LedgerNext]_Promise!ledgerVars
  <1> USE DEF IsolatedInv, TypeInv, TypeOK
  <1>0. NoUser \notin Columns /\ month \in Nat /\ month # 0
    BY ConstantsAssumption DEF ConstantsAssumption
  <1>1. ASSUME NEW r \in Requests, RequestStep(r)
        PROVE  [Promise!LedgerNext]_Promise!ledgerVars
    <2>1. CASE InsertWins(r)
      <3>0. NewAccount \in Columns
        BY <2>1, ConstantsAssumption
        DEF ConstantsAssumption, InsertWins, RoomForARow, NewAccount, Columns
      <3>1. user = NoUser /\ user' = NewAccount /\ user' # NoUser /\ month' = month
        BY <1>0, <2>1, <3>0 DEF InsertWins
      <3>2. ~RenouvellementDu(user)'
        BY <1>0, <3>1 DEF RenouvellementDu, NewAccount
      <3>3. Renewed(user)'.credits = FREE_MONTHLY_QUOTA /\ user'.extraCredits = 0
        BY <3>1, <3>2 DEF Renewed, NewAccount
      <3>4. Promise!Open
        BY <3>1, <3>3 DEF Promise!Open
      <3> QED BY <3>4 DEF Promise!LedgerNext
    <2>2. CASE SaveUpdate(r)
      <3>1. /\ user' = entity[r] /\ Outcome(user, entity[r]) /\ user \in Columns
            /\ entity[r] \in Columns /\ month' = month /\ user # NoUser
        BY <1>0, <2>2, UndisturbedSave DEF SaveUpdate
      <3>2. user.lastFreeReset <= month
        BY <3>1 DEF RenewedInThePast
      <3> QED BY <3>1, <3>2, OutcomeIsLedgerStep
    <2>3. CASE SaveInsert(r)
      BY <2>3 DEF SaveInsert, UpToDate
    <2>4. CASE ~InsertWins(r) /\ ~SaveUpdate(r) /\ ~SaveInsert(r)
      <3>1. UNCHANGED <<user, month>>
        BY <1>1, <2>4 DEF RequestStep, FindMissing, FindExisting, InsertLoses, Reread, Refind,
             SaveSelect, DecrementCredits, AddExtraCredits, AdjustCredits, SetInternal
      <3> QED BY <3>1, LedgerStutter
    <2> QED BY <2>1, <2>2, <2>3, <2>4
  <1>2. CASE Repondre
    <2>1. /\ user \in Columns /\ user # NoUser /\ month' = month
          /\ user' = [user EXCEPT !.utiliteAt = TRUE, !.extraCredits = @ + CREDITS_UTILITE]
      BY <1>2 DEF Repondre
    <2>2. /\ user'.extraCredits = user.extraCredits + CREDITS_UTILITE
          /\ user'.credits = user.credits /\ user'.lastFreeReset = user.lastFreeReset
      BY <2>1 DEF Columns
    <2>3. user' # NoUser
      <3>1. user.extraCredits + CREDITS_UTILITE \in Nat
        BY <2>1, ConstantsAssumption DEF ConstantsAssumption, Columns
      <3>2. user' \in Columns
        BY <2>1, <3>1 DEF Columns
      <3> QED BY <1>0, <3>2
    <2>4. Renewed(user)'.credits = Renewed(user).credits
      BY <2>1, <2>2 DEF Renewed, RenouvellementDu, Columns
    <2>5. Promise!Grant(CREDITS_UTILITE)
      BY <2>1, <2>2, <2>3, <2>4 DEF Promise!Grant
    <2> QED BY <2>5 DEF Promise!LedgerNext
  <1>3. CASE DeleteAccount
    <2>1. Promise!Close
      BY <1>3 DEF DeleteAccount, Promise!Close
    <2> QED BY <2>1 DEF Promise!LedgerNext
  <1>4. CASE NewMonth
    <2>1. user' = user /\ month' = month + 1
      BY <1>4 DEF NewMonth
    <2>2. CASE user = NoUser
      BY <2>1, <2>2 DEF Promise!ledgerVars
    <2>3. CASE user # NoUser
      <3>1. user \in Columns /\ user.lastFreeReset <= month /\ user.lastFreeReset \in Int
        BY <2>3, ConstantsAssumption DEF RenewedInThePast, Columns, ConstantsAssumption
      <3>2. RenouvellementDu(user)'
        BY <1>0, <2>1, <3>1 DEF RenouvellementDu
      <3>3. Renewed(user)' = [user EXCEPT !.credits = FREE_MONTHLY_QUOTA, !.lastFreeReset = month + 1]
        BY <2>1, <3>2 DEF Renewed
      <3>4. Renewed(user)'.credits = FREE_MONTHLY_QUOTA
        BY <3>1, <3>3 DEF Columns
      <3>5. Promise!NewMonth
        BY <2>1, <2>3, <3>4 DEF Promise!NewMonth
      <3> QED BY <3>5 DEF Promise!LedgerNext
    <2> QED BY <2>2, <2>3
  <1>5. CASE Restart \/ UNCHANGED vars
    <2>1. UNCHANGED <<user, month>>
      BY <1>5 DEF Restart, vars
    <2> QED BY <2>1, LedgerStutter
  <1> QED BY <1>1, <1>2, <1>3, <1>4, <1>5 DEF Next

\* An account whose requests never overlap implements the ledger its owner
\* was promised (users.service.ts).
THEOREM IsolatedImplementsLedger ==
  ASSUME Isolated
  PROVE  Spec => ImplementsLedger
  <1>1. Init => Promise!LedgerInit
    <2>1. CASE user = NoUser
      BY <2>1 DEF Init, Promise!LedgerInit
    <2>2. ASSUME Init, user = LegacyAccount
          PROVE  Promise!LedgerInit
      <3>1. Renewed(user).credits = FREE_MONTHLY_QUOTA /\ user.extraCredits = 0
        BY <2>2 DEF Renewed, LegacyAccount
      <3>2. LegacyAccount \in Columns
        BY ConstantsAssumption DEF ConstantsAssumption, LegacyAccount, Columns
      <3>3. user # NoUser
        BY <2>2, <3>2, ConstantsAssumption DEF ConstantsAssumption
      <3> QED BY <3>1, <3>3 DEF Promise!LedgerInit
    <2> QED BY <2>1, <2>2 DEF Init
  <1>2. IsolatedInv /\ [Next]_vars => IsolatedInv'
    BY IsolatedStep
  <1>3. IsolatedInv /\ [Next]_vars /\ IsolatedInv' => [Promise!LedgerNext]_Promise!ledgerVars
    BY LedgerStep
  <1> QED BY IsolatedInit, <1>1, <1>2, <1>3, PTL DEF Spec, ImplementsLedger, Promise!LedgerSpec
----------------------------------------------------------------------------
(* Errors.  As long as no account was deleted, a row that exists keeps its   *)
(* id, and whoever holds an entity holds one of that row.                    *)

Undeleted ==
  /\ ~failed
  /\ \A r \in Requests :
       /\ pc[r] = "reread" => user # NoUser
       /\ pc[r] \in {"resetSelect", "resetUpdate", "refind", "select", "update"} => SameRow(r)
       /\ pc[r] \in {"resetUpdate", "update"} => loaded[r] # NoUser

Unbroken == deleted \/ Undeleted

\* A request that begins holds an entity of the row, if there is one to hold.
LEMMA BeginUnbroken ==
  ASSUME TypeInv, Undeleted, NEW r \in Requests, NEW operation, NEW found, NEW next,
         Begin(r, operation, found, next), user' = user, failed' = failed,
         next \in {"insert", "refind", "resetSelect", "select", "update"},
         next # "insert" => user # NoUser /\ found # NoUser /\ found.id = user.id,
         IF next = "update" THEN loaded' = [loaded EXCEPT ![r] = user] ELSE loaded' = loaded
  PROVE  Undeleted'
  BY DEF TypeInv, TypeOK, Undeleted, SameRow, Begin

\* The other requests are as they were, and their row has kept its id.
LEMMA OthersUnbroken ==
  ASSUME TypeInv, Undeleted, NEW r \in Requests,
         \A q \in Requests \ {r} :
           pc'[q] = pc[q] /\ entity'[q] = entity[q] /\ loaded'[q] = loaded[q],
         user # NoUser => user' # NoUser /\ user'.id = user.id,
         failed' = failed,
         pc'[r] = "reread" => user' # NoUser,
         pc'[r] \in {"resetSelect", "resetUpdate", "refind", "select", "update"} => SameRow(r)',
         pc'[r] \in {"resetUpdate", "update"} => loaded'[r] # NoUser
  PROVE  Undeleted'
  BY DEF TypeInv, TypeOK, Undeleted, SameRow

\* Without a deletion no step throws, and rows keep their ids.
LEMMA UnbrokenStep ==
  ASSUME TypeInv, Unbroken, [Next]_vars
  PROVE  Unbroken'
  <1>0. /\ NoUser \notin Columns /\ Costs \subseteq Nat
        /\ Packs \subseteq Nat /\ Deltas \subseteq Int
    BY ConstantsAssumption DEF ConstantsAssumption
  <1>1. CASE deleted
    <2>1. deleted'
      BY <1>1 DEF Next, RequestStep, FindMissing, FindExisting, InsertWins, InsertLoses, Reread,
           Refind, SaveSelect, SaveUpdate, SaveInsert, DecrementCredits, AddExtraCredits,
           AdjustCredits, SetInternal, Repondre, DeleteAccount, NewMonth, Restart, Fail,
           history, vars
    <2> QED BY <2>1 DEF Unbroken
  <1>2. ASSUME Undeleted, NEW r \in Requests, RequestStep(r) PROVE Undeleted'
    <2> USE <1>2 DEF TypeInv, TypeOK
    <2>1. CASE FindMissing(r)
      BY <2>1, BeginUnbroken DEF FindMissing, history
    <2>2. CASE FindExisting(r)
      <3>1. Renewed(user) \in Columns /\ Renewed(user).id = user.id
        BY <1>0, <2>2, RenewedColumns DEF FindExisting, Renewed, Columns
      <3> QED BY <1>0, <2>2, <3>1, BeginUnbroken DEF FindExisting, history
    <2>3. CASE InsertWins(r)
      <3>1. NewAccount \in Columns
        BY <2>3, ConstantsAssumption
        DEF ConstantsAssumption, InsertWins, RoomForARow, NewAccount, Columns
      <3>2. user = NoUser /\ user' # NoUser /\ entity'[r] = user' /\ pc'[r] = "select"
        BY <1>0, <2>3, <3>1 DEF InsertWins
      <3> QED BY <2>3, <3>2, OthersUnbroken DEF InsertWins, SameRow
    <2>4. CASE InsertLoses(r)
      BY <2>4, OthersUnbroken DEF InsertLoses, history
    <2>5. CASE Reread(r)
      <3>1. user # NoUser
        BY <2>5 DEF Reread, Undeleted
      <3> QED BY <2>5, <3>1, OthersUnbroken DEF Reread, SameRow, history
    <2>6. CASE Refind(r)
      <3>1. user # NoUser
        BY <2>6 DEF Refind, Undeleted, SameRow
      <3> QED BY <2>6, <3>1, OthersUnbroken DEF Refind, SameRow, history
    <2>7. CASE SaveSelect(r)
      <3>1. SameRow(r) /\ user # NoUser
        BY <2>7 DEF SaveSelect, Undeleted, SameRow
      <3>2. /\ entity' = entity /\ user' = user /\ failed' = failed
            /\ loaded'[r] = user /\ pc'[r] \in {"update", "resetUpdate"}
            /\ \A q \in Requests \ {r} : pc'[q] = pc[q] /\ loaded'[q] = loaded[q]
        BY <2>7, <3>1 DEF SaveSelect, history
      <3>3. SameRow(r)'
        BY <3>1, <3>2 DEF SameRow
      <3> QED BY <3>1, <3>2, <3>3, OthersUnbroken
    <2>8. CASE SaveUpdate(r)
      <3>1. SameRow(r) /\ user # NoUser
        BY <2>8 DEF SaveUpdate, Undeleted, SameRow
      <3>2. user' # NoUser /\ user'.id = user.id
        <4>1. MergedRow(entity[r], loaded[r]) \in Columns
          BY <1>0, <2>8, <3>1, MergedColumns DEF SaveUpdate, SameRow
        <4> QED BY <1>0, <2>8, <3>1, <4>1 DEF SaveUpdate, MergedRow
      <3>3. /\ failed' = failed
            /\ \A q \in Requests \ {r} :
                 pc'[q] = pc[q] /\ entity'[q] = entity[q] /\ loaded'[q] = loaded[q]
            /\ pc'[r] \in {"idle", "refind"}
            /\ pc'[r] = "refind" => entity'[r] = entity[r]
        BY <2>8 DEF SaveUpdate, AfterSave, Finish, history
      <3>4. pc'[r] = "refind" => SameRow(r)'
        BY <3>1, <3>2, <3>3 DEF SameRow
      <3> QED BY <3>1, <3>2, <3>3, <3>4, OthersUnbroken
    <2>9. CASE SaveInsert(r)
      BY <2>9 DEF SaveInsert, Undeleted
    <2>10. ASSUME NEW amount \in Costs, DecrementCredits(r, amount) PROVE Undeleted'
      <3> DEFINE e == Debited(Renewed(user), amount)
      <3>1. Renewed(user) \in Columns /\ Renewed(user).id = user.id
        BY <1>0, <2>10, RenewedColumns DEF DecrementCredits, Renewed, Columns
      <3>2. e \in Columns /\ e.id = user.id
        BY <1>0, <2>10, <3>1, DebitedBalances DEF DecrementCredits
      <3>3. /\ Begin(r, "debit", e, "update") /\ loaded' = [loaded EXCEPT ![r] = user]
            /\ user' = user /\ failed' = failed /\ user # NoUser
        BY <2>10 DEF DecrementCredits, history
      <3> HIDE DEF e
      <3> QED BY <1>0, <3>2, <3>3, BeginUnbroken
    <2>11. ASSUME NEW amount \in Packs, AddExtraCredits(r, amount) PROVE Undeleted'
      <3> DEFINE e == [user EXCEPT !.extraCredits = @ + amount]
      <3>1. user \in Columns /\ user # NoUser
        BY <1>0, <2>11 DEF AddExtraCredits
      <3>2. e \in Columns /\ e.id = user.id
        BY <1>0, <3>1 DEF Columns
      <3>3. Begin(r, "credit", e, "select") /\ UNCHANGED <<user, loaded, failed>>
        BY <2>11 DEF AddExtraCredits
      <3> HIDE DEF e
      <3> QED BY <1>0, <3>1, <3>2, <3>3, BeginUnbroken
    <2>12. ASSUME NEW delta \in Deltas, AdjustCredits(r, delta) PROVE Undeleted'
      <3> DEFINE x == IF user.extraCredits + delta < 0 THEN 0 ELSE user.extraCredits + delta
                 e == [user EXCEPT !.extraCredits = x]
      <3>1. user \in Columns /\ user # NoUser
        BY <1>0, <2>12 DEF AdjustCredits
      <3>2. e \in Columns /\ e.id = user.id
        BY <1>0, <3>1 DEF Columns
      <3>3. Begin(r, "admin", e, "select") /\ UNCHANGED <<user, loaded, failed>>
        BY <2>12 DEF AdjustCredits
      <3> HIDE DEF e
      <3> QED BY <1>0, <3>1, <3>2, <3>3, BeginUnbroken
    <2>13. CASE SetInternal(r)
      <3>1. user \in Columns /\ user # NoUser
        BY <1>0, <2>13 DEF SetInternal
      <3> QED BY <2>13, <3>1, BeginUnbroken DEF SetInternal, history
    <2> QED
      BY <1>2, <2>1, <2>2, <2>3, <2>4, <2>5, <2>6, <2>7, <2>8, <2>9, <2>10, <2>11,
         <2>12, <2>13 DEF RequestStep
  <1>3. ASSUME Undeleted, Repondre PROVE Undeleted'
    <2>1. user \in Columns /\ user' \in Columns /\ user'.id = user.id
      <3>1. user \in Columns
        BY <1>3 DEF Repondre, TypeInv, TypeOK
      <3>2. user.extraCredits + CREDITS_UTILITE \in Nat
        BY <3>1, ConstantsAssumption DEF ConstantsAssumption, Columns
      <3> QED BY <1>3, <3>1, <3>2 DEF Repondre, Columns
    <2> QED BY <1>0, <1>3, <2>1 DEF Repondre, request, Undeleted, SameRow
  <1>4. DeleteAccount => deleted'
    BY DEF DeleteAccount
  <1>5. Undeleted /\ (NewMonth \/ UNCHANGED vars) => Undeleted'
    BY DEF NewMonth, vars, request, history, Undeleted, SameRow
  <1>6. Undeleted /\ Restart => Undeleted'
    BY DEF Restart, history, Undeleted
  <1> QED BY <1>1, <1>2, <1>3, <1>4, <1>5, <1>6 DEF Next, Unbroken

\* The race of the first page load, a stale entity, a refused INSERT: none of
\* them ends in an error unless the account was deleted under the request
\* (users.service.ts).
THEOREM OnlyDeletionBreaks == Spec => []OnlyDeletionBreaksARequest
  <1>1. Init => Unbroken
    BY DEF Init, Unbroken, Undeleted
  <1>2. TypeInv /\ Unbroken /\ [Next]_vars => TypeInv' /\ Unbroken'
    BY TypeStep, UnbrokenStep
  <1>3. Unbroken => OnlyDeletionBreaksARequest
    BY DEF Unbroken, Undeleted, OnlyDeletionBreaksARequest
  <1> QED BY TypeInit, <1>1, <1>2, <1>3, PTL DEF Spec

----------------------------------------------------------------------------
\* What a debit is about to write: it took from the pack after the free credits.
FreeFirst(r) ==
  op[r] = "debit" =>
    /\ pc[r] = "update"
    /\ entity[r] \in Columns /\ loaded[r] \in Columns
    /\ entity[r].extraCredits # loaded[r].extraCredits => entity[r].credits = 0

LEMMA FreeFirstStep ==
  ASSUME TypeInv, \A r \in Requests : FreeFirst(r), [Next]_vars
  PROVE  \A r \in Requests : FreeFirst(r)'
  <1> USE DEF TypeInv, TypeOK
  <1>1. ASSUME NEW q \in Requests, NEW amount \in Costs, DecrementCredits(q, amount)
        PROVE  \A r \in Requests : FreeFirst(r)'
    <2> DEFINE e == Debited(Renewed(user), amount)
    <2>1. user \in Columns /\ month \in 1..MaxMonth /\ amount \in Nat
      BY <1>1, ConstantsAssumption DEF DecrementCredits, ConstantsAssumption
    <2>2. Renewed(user) \in Columns /\ Renewed(user).extraCredits = user.extraCredits
      BY <2>1, RenewedColumns
    <2>3. e \in Columns /\ (e.extraCredits # Renewed(user).extraCredits => e.credits = 0)
      <3>1. Renewed(user).credits \in Int /\ amount \in Int
        BY <2>1, <2>2, ConstantsAssumption DEF Columns, ConstantsAssumption
      <3>2. TotalCredits(Renewed(user)) >= amount
        BY <1>1 DEF DecrementCredits
      <3>3. Renewed(user).credits >= amount \/ Renewed(user).credits < amount
        BY <3>1
      <3> QED BY <2>1, <2>2, <3>2, <3>3, DebitedBalances
    <2>4. /\ op' = [op EXCEPT ![q] = "debit"] /\ pc' = [pc EXCEPT ![q] = "update"]
          /\ entity' = [entity EXCEPT ![q] = e] /\ loaded' = [loaded EXCEPT ![q] = user]
      BY <1>1 DEF DecrementCredits, Begin
    <2> HIDE DEF e
    <2> QED BY <2>1, <2>2, <2>3, <2>4 DEF FreeFirst
  <1>2. ASSUME NEW q \in Requests, RequestStep(q), \A amount \in Costs : ~DecrementCredits(q, amount)
        PROVE  \A r \in Requests : FreeFirst(r)'
    <2>1. /\ \A r \in Requests \ {q} : UNCHANGED <<pc[r], op[r], entity[r], loaded[r]>>
          /\ op'[q] # "debit" \/ (op[q] = "debit" /\ pc[q] # "update")
      <3> USE DEF Begin, Finish, Fail, AfterSave, history
      <3>1. CASE FindMissing(q) \/ FindExisting(q) \/ InsertWins(q) \/ InsertLoses(q) \/ Reread(q) \/ Refind(q)
        BY <3>1 DEF FindMissing, FindExisting, InsertWins, InsertLoses, Reread, Refind, FreeFirst
      <3>2. CASE SaveSelect(q)
        BY <3>2 DEF SaveSelect
      <3>3. CASE SaveUpdate(q) \/ SaveInsert(q)
        BY <3>3 DEF SaveUpdate, SaveInsert
      <3>4. CASE SetInternal(q) \/ (\E x \in Packs : AddExtraCredits(q, x)) \/ (\E x \in Deltas : AdjustCredits(q, x))
        BY <3>4 DEF SetInternal, AddExtraCredits, AdjustCredits
      <3> QED BY <1>2, <3>1, <3>2, <3>3, <3>4 DEF RequestStep
    <2> QED BY <2>1 DEF FreeFirst
  <1>3. CASE Repondre \/ DeleteAccount \/ NewMonth \/ UNCHANGED vars
    BY <1>3 DEF Repondre, DeleteAccount, NewMonth, vars, request, FreeFirst
  <1>4. CASE Restart
    BY <1>4 DEF Restart, FreeFirst
  <1> QED BY <1>1, <1>2, <1>3, <1>4 DEF Next

SpentLast ==
  \A r \in Requests :
    /\ op[r] = "debit" /\ op'[r] = "none"
    /\ user # NoUser /\ user' # NoUser
    /\ user'.extraCredits # user.extraCredits
    => user'.credits = 0 \/ user.credits # loaded[r].credits

\* Only the end of its own request takes an operation back to none.
LEMMA DebitEnds ==
  ASSUME TypeInv, Next, NEW r \in Requests, op[r] = "debit", op'[r] = "none", user' # user
  PROVE  SaveUpdate(r) \/ SaveInsert(r)
  <1> USE DEF TypeInv, TypeOK
  <1>1. ASSUME NEW q \in Requests, RequestStep(q), ~SaveUpdate(q), ~SaveInsert(q)
        PROVE  FALSE
    <2>1. op' = op \/ user' = user
      BY <1>1 DEF RequestStep, FindMissing, FindExisting, InsertWins, InsertLoses, Reread, Refind,
           SaveSelect, DecrementCredits, AddExtraCredits, AdjustCredits, SetInternal
    <2> QED BY <2>1
  <1>2. ASSUME NEW q \in Requests, SaveUpdate(q) \/ SaveInsert(q)
        PROVE  q = r
    <2>1. op' = op \/ op' = [op EXCEPT ![q] = "none"]
      BY <1>2 DEF SaveUpdate, SaveInsert, AfterSave, Finish, Fail
    <2> QED BY <2>1
  <1>3. ~Repondre /\ ~DeleteAccount /\ ~NewMonth /\ ~Restart
    BY DEF Repondre, DeleteAccount, NewMonth, Restart, request
  <1> QED BY <1>1, <1>2, <1>3 DEF Next

\* A debit changes the pack only when it leaves no free credit in the row, or
\* another request wrote the free credits since its read (users.service.ts, lines
\* 225 to 234).
THEOREM DebitSpendsPackLast == Spec => PackIsSpentLast
  <1>1. ASSUME TypeInv, \A r \in Requests : FreeFirst(r), [Next]_vars PROVE SpentLast
    <2> SUFFICES ASSUME NEW r \in Requests, op[r] = "debit", op'[r] = "none",
                        user # NoUser, user' # NoUser, user'.extraCredits # user.extraCredits,
                        user.credits = loaded[r].credits
                 PROVE  user'.credits = 0
      BY DEF SpentLast
    <2>1. SaveUpdate(r) \/ SaveInsert(r)
      <3>1. ~UNCHANGED vars
        BY DEF vars
      <3> QED BY <1>1, <3>1, DebitEnds
    <2>2. user' = MergedRow(entity[r], loaded[r])
      BY <2>1 DEF SaveUpdate, SaveInsert
    <2>3. FreeFirst(r)
      BY <1>1
    <2>4. entity[r].extraCredits # loaded[r].extraCredits
      BY <2>2 DEF MergedRow, Written
    <2>5. entity[r].credits = 0
      BY <2>3, <2>4 DEF FreeFirst
    <2> QED BY <2>2, <2>5 DEF MergedRow, Written
  <1>2. Init => \A r \in Requests : FreeFirst(r)
    BY DEF Init, FreeFirst
  <1>3. TypeInv /\ [Next]_vars => TypeInv'
    BY TypeStep
  <1>4. TypeInv /\ (\A r \in Requests : FreeFirst(r)) /\ [Next]_vars => (\A r \in Requests : FreeFirst(r))'
    BY FreeFirstStep
  <1>5. TypeInv /\ (\A r \in Requests : FreeFirst(r)) /\ [Next]_vars => [SpentLast]_vars
    BY <1>1
  <1> QED BY TypeInit, <1>2, <1>3, <1>4, <1>5, PTL DEF Spec, PackIsSpentLast, SpentLast

----------------------------------------------------------------------------
\* An answer stays marked on its row until the row is gone.
AnswerIsMarked == rewards <= 1 /\ (user # NoUser /\ rewards = 1 => user.utiliteAt)

\* Whatever a request is about to write, it keeps the answer.
LEMMA OutcomeKeepsTheAnswer ==
  ASSUME NEW u \in Columns, NEW e, Outcome(u, e), month \in 1..MaxMonth
  PROVE  e.utiliteAt = u.utiliteAt
  <1>1. Renewed(u) \in Columns /\ Renewed(u).utiliteAt = u.utiliteAt
    BY RenewedColumns DEF Renewed, Columns
  <1>2. \A amount : Debited(Renewed(u), amount).utiliteAt = Renewed(u).utiliteAt
    BY <1>1 DEF Debited, Columns
  <1>3. \A x : [u EXCEPT !.extraCredits = x].utiliteAt = u.utiliteAt
    BY DEF Columns
  <1> QED BY <1>1, <1>2, <1>3 DEF Outcome

\* The 100 credits of an answer are given once to an account whose requests
\* never overlap (retours.service.ts, lines 43 to 45).  A request that holds
\* the row from before the answer can take the mark away when it saves.
THEOREM IsolatedRewardsOnce ==
  ASSUME Isolated
  PROVE  Spec => []RewardedOnce
  <1>1. Init => AnswerIsMarked
    BY DEF Init, AnswerIsMarked
  <1>2. ASSUME IsolatedInv, AnswerIsMarked, [Next]_vars PROVE AnswerIsMarked'
    <2> USE DEF IsolatedInv, TypeInv, TypeOK
    <2>1. ASSUME NEW r \in Requests, RequestStep(r) PROVE AnswerIsMarked'
      <3>1. CASE InsertWins(r)
        BY <3>1 DEF InsertWins, AnswerIsMarked
      <3>2. CASE SaveUpdate(r)
        <4>1. /\ user' = entity[r] /\ Outcome(user, entity[r]) /\ user \in Columns
              /\ rewards' = rewards
          BY <1>2, <3>2, UndisturbedSave DEF SaveUpdate, history
        <4>2. entity[r].utiliteAt = user.utiliteAt
          BY <1>2, <4>1, OutcomeKeepsTheAnswer
        <4>3. user # NoUser
          BY <1>2, <4>1, ConstantsAssumption DEF ConstantsAssumption
        <4> QED BY <1>2, <4>1, <4>2, <4>3 DEF AnswerIsMarked
      <3>3. CASE SaveInsert(r)
        BY <1>2, <3>3 DEF SaveInsert, UpToDate
      <3>4. CASE ~InsertWins(r) /\ ~SaveUpdate(r) /\ ~SaveInsert(r)
        <4>1. UNCHANGED <<user, rewards>>
          BY <2>1, <3>4 DEF RequestStep, FindMissing, FindExisting, InsertLoses, Reread, Refind,
               SaveSelect, DecrementCredits, AddExtraCredits, AdjustCredits, SetInternal, Fail,
               history
        <4> QED BY <1>2, <4>1 DEF AnswerIsMarked
      <3> QED BY <3>1, <3>2, <3>3, <3>4
    <2>2. CASE Repondre
      <3>1. user \in Columns /\ user'.utiliteAt = TRUE
        BY <1>2, <2>2 DEF Repondre, Columns
      <3>2. rewards = 0 /\ rewards' = 1
        BY <1>2, <2>2 DEF Repondre, AnswerIsMarked
      <3> QED BY <3>1, <3>2 DEF AnswerIsMarked
    <2>3. CASE DeleteAccount
      BY <1>2, <2>3 DEF DeleteAccount, AnswerIsMarked
    <2>4. CASE NewMonth \/ Restart \/ UNCHANGED vars
      BY <1>2, <2>4 DEF NewMonth, Restart, vars, history, AnswerIsMarked
    <2> QED BY <1>2, <2>1, <2>2, <2>3, <2>4 DEF Next
  <1>3. IsolatedInv /\ [Next]_vars => IsolatedInv'
    BY IsolatedStep
  <1>4. AnswerIsMarked => RewardedOnce
    BY DEF AnswerIsMarked, RewardedOnce
  <1> QED BY IsolatedInit, <1>1, <1>2, <1>3, <1>4, PTL DEF Spec

----------------------------------------------------------------------------
(* The requests for feedback. *)

\* The steps of the mails, of the saves of whole rows, and of the feedbacks.
MailStep ==
  \/ PassageStep \/ PassageFails
  \/ \E u \in Users : Day(u) \/ Write(u) \/ WrittenByHand(u) \/ Unsubscribe(u)

VisitStep ==
  \/ \E u \in Users : VisitReads(u)
  \/ \E v \in visits : VisitSelects(v) \/ VisitSaves(v)

FeedbackStep ==
  \/ \E u \in Users \union {0} : Submit(u)
  \/ \E f \in Feedbacks, kind \in {"award", "reject", "delete"} : Read(f, kind)
  \/ \E r \in requests : Pay(r) \/ Mark(r) \/ RejectOrDelete(r) \/ RequestFails(r)

LEMMA NextCases == FeedbackNext => MailStep \/ VisitStep \/ FeedbackStep \/ Stop
  BY DEF FeedbackNext, MailStep, VisitStep, FeedbackStep

LEMMA FeedbackLeavesMails ==
  ASSUME FeedbackStep
  PROVE  UNCHANGED mailVars /\ UNCHANGED visitVars
  BY DEF FeedbackStep, Submit, Read, Pay, Mark, RejectOrDelete, RequestFails, Same

LEMMA MailsLeaveFeedback ==
  ASSUME MailStep \/ VisitStep
  PROVE  UNCHANGED feedbackVars
  <1>1. PassageStep => UNCHANGED feedbackVars
    BY DEF PassageStep, Passage, Advance, Reserved, Sent, Noted
  <1>2. PassageFails => UNCHANGED feedbackVars
    BY DEF PassageFails, feedbackVars
  <1>3. ASSUME NEW u \in Users, Day(u) \/ Write(u) \/ WrittenByHand(u) \/ Unsubscribe(u)
        PROVE  UNCHANGED feedbackVars
    BY <1>3 DEF Day, Write, WrittenByHand, Unsubscribe
  <1>4. VisitStep => UNCHANGED feedbackVars
    BY DEF VisitStep, VisitReads, VisitSelects, VisitSaves
  <1> QED BY <1>1, <1>2, <1>3, <1>4 DEF MailStep

----------------------------------------------------------------------------
(* Asked once. *)

\* What keeps an account from being selected again.
Spent(u) == u \in demande \/ u \in delivered

\* An account is about to be asked.
Pending(u) == u \in lot \/ (u = current /\ step = "reserve")

\* Every request that left, or is leaving, has a reservation of its own: one that
\* stands, or that a delivered mail stands for, or that was taken away.
AskBound(u) ==
  /\ asked[u] + (IF u = current /\ step = "send" THEN 1 ELSE 0) <= erased[u] + (IF Spent(u) THEN 1 ELSE 0)
  /\ Pending(u) => asked[u] <= erased[u]

AskInv ==
  /\ asked \in [Users -> Nat] /\ erased \in [Users -> Nat] /\ lot \subseteq Users
  /\ step # "none" => enCours /\ current \in Users \ lot
  /\ \A u \in Users : AskBound(u)

LEMMA AskStep ==
  ASSUME AskInv, [FeedbackNext]_feedbackRequestVars
  PROVE  AskInv'
  <1> USE DEF AskInv
  <1>1. CASE Passage
    <2>1. /\ lot' = Selected /\ Selected \subseteq Users
          /\ UNCHANGED <<asked, erased, step, current, demande, delivered>>
      BY <1>1 DEF Passage, Selected, Same, visitVars
    <2>2. ASSUME NEW u \in Selected PROVE ~Spent(u)
      BY <2>2 DEF Selected, Eligible, Spent
    <2>3. ASSUME NEW u \in Users PROVE AskBound(u)'
      <3>1. AskBound(u)
        OBVIOUS
      <3>2. u \in Selected => asked[u] <= erased[u]
        BY <2>2, <3>1 DEF AskBound
      <3> QED BY <2>1, <3>1, <3>2 DEF AskBound, Pending, Spent
    <2>4. step = "none"
      BY <1>1 DEF Passage
    <2> QED BY <2>1, <2>3, <2>4
  <1>2. CASE Advance
    <2>0. step = "none"
      BY <1>2, FeedbackAssumption DEF Advance, FeedbackAssumption
    <2>1. /\ UNCHANGED <<asked, erased, demande, delivered>> /\ lot' \subseteq lot
          /\ \/ UNCHANGED <<step, current>>
             \/ step' = "reserve" /\ current' \in lot \ lot' /\ enCours'
      BY <1>2 DEF Advance, Same, visitVars
    <2>2. ASSUME NEW u \in Users PROVE AskBound(u)'
      <3>1. AskBound(u)
        OBVIOUS
      <3>2. Pending(u)' => Pending(u)
        BY <2>1 DEF Pending
      <3>3. asked[u] \in Nat /\ erased[u] \in Nat
        OBVIOUS
      <3>4. asked[u] <= erased[u] + (IF Spent(u) THEN 1 ELSE 0)
        BY <3>1, <3>3 DEF AskBound
      <3> QED BY <2>1, <3>1, <3>2, <3>3, <3>4 DEF AskBound, Spent
    <2> QED BY <2>0, <2>1, <2>2
  <1>3. CASE Reserved
    <2>1. UNCHANGED <<asked, erased, lot, delivered, enCours>> /\ current \in Users /\ step = "reserve"
      BY <1>3 DEF Reserved, Same, visitVars
    <2>2. CASE current \in demande
      <3>1. current' = 0 /\ step' = "none" /\ demande' = demande
        BY <1>3, <2>2 DEF Reserved, Reserve, Finished
      <3>2. ASSUME NEW u \in Users PROVE AskBound(u)'
        BY <2>1, <3>1 DEF AskBound, Pending, Spent
      <3> QED BY <2>1, <3>1, <3>2
    <2>3. CASE current \notin demande
      <3>1. demande' = demande \union {current} /\ step' = "send" /\ current' = current
        BY <1>3, <2>3 DEF Reserved, Reserve
      <3>2. ASSUME NEW u \in Users PROVE AskBound(u)'
        BY <2>1, <3>1 DEF AskBound, Pending, Spent
      <3> QED BY <2>1, <3>1, <3>2
    <2> QED BY <2>2, <2>3
  <1>4. CASE Sent
    <2>1. /\ current \in Users \ lot /\ step = "send"
          /\ UNCHANGED <<erased, lot, demande, delivered, enCours>>
      BY <1>4 DEF Sent, Same, visitVars
    <2>2. \/ asked' = [asked EXCEPT ![current] = @ + 1] /\ step' = "note" /\ current' = current
          \/ asked' = asked /\ step' = "none"
      BY <1>4 DEF Sent
    <2>3. asked' \in [Users -> Nat]
      BY <2>1, <2>2
    <2>4. ASSUME NEW u \in Users PROVE AskBound(u)'
      <3>1. AskBound(u) /\ asked[u] \in Nat /\ erased[u] \in Nat
        OBVIOUS
      <3>2. asked'[u] <= asked[u] + (IF u = current THEN 1 ELSE 0)
        BY <2>1, <2>2, <3>1
      <3>3. asked'[u] <= erased[u] + (IF Spent(u) THEN 1 ELSE 0)
        BY <2>1, <2>3, <3>1, <3>2 DEF AskBound
      <3>4. u \in lot => asked'[u] <= erased[u]
        <4>1. CASE u # current
          BY <2>3, <3>1, <3>2, <4>1 DEF AskBound, Pending
        <4>2. CASE u = current
          BY <2>1, <4>2
        <4> QED BY <4>1, <4>2
      <3> QED BY <2>1, <2>2, <2>3, <3>3, <3>4 DEF AskBound, Pending, Spent
    <2> QED BY <2>1, <2>2, <2>3, <2>4
  <1>5. CASE Noted \/ PassageFails \/ Stop
    <2>1. /\ step' = "none" /\ current' = 0 /\ lot' \subseteq lot /\ delivered \subseteq delivered'
          /\ UNCHANGED <<asked, erased, demande>>
      BY <1>5 DEF Noted, PassageFails, Stop, Finished, Same, visitVars
    <2>2. ASSUME NEW u \in Users PROVE AskBound(u)'
      <3>1. AskBound(u) /\ asked[u] \in Nat /\ erased[u] \in Nat
        OBVIOUS
      <3>2. (Pending(u)' => Pending(u)) /\ (Spent(u) => Spent(u)')
        BY <2>1 DEF Pending, Spent
      <3> QED BY <2>1, <3>1, <3>2 DEF AskBound
    <2> QED BY <2>1, <2>2
  <1>6. ASSUME NEW w \in Users, Day(w) \/ Write(w) \/ WrittenByHand(w) \/ Unsubscribe(w) PROVE AskInv'
    <2>1. /\ UNCHANGED <<asked, erased, lot, current, step, enCours, demande>>
          /\ delivered \subseteq delivered'
      BY <1>6 DEF Day, Write, WrittenByHand, Unsubscribe, Same, visitVars
    <2>2. ASSUME NEW u \in Users PROVE AskBound(u)'
      <3>1. AskBound(u) /\ asked[u] \in Nat /\ erased[u] \in Nat
        OBVIOUS
      <3>2. (Pending(u)' => Pending(u)) /\ (Spent(u) => Spent(u)')
        BY <2>1 DEF Pending, Spent
      <3> QED BY <2>1, <3>1, <3>2 DEF AskBound
    <2> QED BY <2>1, <2>2
  <1>7. CASE \E u \in Users : VisitReads(u)
    BY <1>7 DEF VisitReads, mailVars, AskBound, Pending, Spent
  <1>8. CASE \E v \in visits : VisitSelects(v)
    BY <1>8 DEF VisitSelects, mailVars, AskBound, Pending, Spent
  <1>9. ASSUME NEW v \in visits, VisitSaves(v) PROVE AskInv'
    <2>1. UNCHANGED <<asked, lot, current, step, enCours, delivered>>
      BY <1>9 DEF VisitSaves
    <2>2. erased' = [u \in Users |-> IF u \in (demande \ demande') \ delivered THEN erased[u] + 1 ELSE erased[u]]
      BY <1>9 DEF VisitSaves
    <2>3. erased' \in [Users -> Nat]
      BY <2>2
    <2>4. ASSUME NEW u \in Users PROVE AskBound(u)'
      <3>1. AskBound(u) /\ asked[u] \in Nat /\ erased[u] \in Nat
        OBVIOUS
      <3>2. erased'[u] = IF Spent(u) /\ ~Spent(u)' THEN erased[u] + 1 ELSE erased[u]
        BY <2>1, <2>2 DEF Spent
      <3> QED BY <2>1, <3>1, <3>2 DEF AskBound, Pending
    <2> QED BY <2>1, <2>3, <2>4
  <1>10. CASE FeedbackStep \/ UNCHANGED feedbackRequestVars
    <2>1. UNCHANGED mailVars /\ UNCHANGED visitVars
      BY <1>10, FeedbackLeavesMails DEF feedbackRequestVars
    <2> QED BY <2>1 DEF mailVars, visitVars, AskBound, Pending, Spent
  <1> QED BY <1>1, <1>2, <1>3, <1>4, <1>5, <1>6, <1>7, <1>8, <1>9, <1>10, NextCases
        DEF MailStep, PassageStep, VisitStep

\* An account gets one automatic request, whatever stops, fails or crosses, and
\* one more only for a reservation the save of an older row took away while no
\* delivered mail was on record (demande-de-retour.service.ts, lines 128 to 133).
THEOREM OneRequestPerReservation == FeedbackSpec => []AskedOnce
  <1>1. FeedbackInit => AskInv
    BY FeedbackAssumption DEF FeedbackInit, AskInv, AskBound, Pending, Spent, FeedbackAssumption
  <1>2. AskInv /\ [FeedbackNext]_feedbackRequestVars => AskInv'
    BY AskStep
  <1>3. AskInv => AskedOnce
    BY DEF AskInv, AskBound, AskedOnce
  <1> QED BY <1>1, <1>2, <1>3, PTL DEF FeedbackSpec

----------------------------------------------------------------------------
(* Unsubscribed. *)

\* Whoever unsubscribed in time is nowhere among the mails to come.
HeardInv ==
  /\ lot \subseteq Users /\ desinscrit \subseteq Users
  /\ current \in Users \union {0} /\ (step # "none" => current \in Users)
  /\ asked \in [Users -> Nat]
  /\ \A u \in desinscrit \ late : u \notin lot /\ u # current /\ u \notin writing

Heard == \A u \in desinscrit \ late : ~MailLeaves(u)

VisitsTyped == visits \subseteq Visit /\ visited \in Nat

LEMMA VisitsStep ==
  ASSUME VisitsTyped, [FeedbackNext]_feedbackRequestVars
  PROVE  VisitsTyped'
  <1> USE DEF VisitsTyped
  <1>1. ASSUME NEW u \in Users PROVE DatesOf(u) \in Dates
    BY DEF DatesOf, Dates
  <1>2. ASSUME NEW u \in Users, VisitReads(u) PROVE VisitsTyped'
    <2>1. [who |-> u, n |-> visited, saving |-> FALSE, held |-> DatesOf(u), found |-> DatesOf(u)] \in Visit
      BY <1>1 DEF Visit
    <2>2. visits' \subseteq Visit
      BY <1>2, <2>1, Zenon DEF VisitReads
    <2>3. visited' \in Nat
      <3>1. visited' = visited + 1
        BY <1>2 DEF VisitReads
      <3> QED BY <3>1
    <2> QED BY <2>2, <2>3
  <1>3. ASSUME NEW v \in visits, VisitSelects(v) PROVE VisitsTyped'
    <2>1. v.who \in Users /\ v \in Visit
      BY DEF Visit
    <2>2. [v EXCEPT !.saving = TRUE, !.found = DatesOf(v.who)] \in Visit
      BY <1>1, <2>1 DEF Visit
    <2> QED BY <1>3, <2>2 DEF VisitSelects
  <1>4. ASSUME NEW v \in visits, VisitSaves(v) PROVE VisitsTyped'
    BY <1>4 DEF VisitSaves
  <1>5. CASE MailStep \/ Stop
    <2>1. visits' \subseteq visits /\ visited' = visited
      BY <1>5 DEF MailStep, PassageStep, Passage, Advance, Reserved, Sent, Noted, PassageFails, Stop,
           Day, Write, WrittenByHand, Unsubscribe, Same, visitVars
    <2> QED BY <2>1
  <1>6. CASE FeedbackStep \/ UNCHANGED feedbackRequestVars
    <2>1. UNCHANGED visitVars
      BY <1>6, FeedbackLeavesMails DEF feedbackRequestVars
    <2> QED BY <2>1 DEF visitVars
  <1> QED BY <1>2, <1>3, <1>4, <1>5, <1>6, NextCases DEF VisitStep

LEMMA HeardStep ==
  ASSUME HeardInv, VisitsTyped, [FeedbackNext]_feedbackRequestVars
  PROVE  HeardInv' /\ Heard
  <1> USE DEF HeardInv
  <1>0. 0 \notin Users
    BY FeedbackAssumption DEF FeedbackAssumption
  <1>1. CASE Passage
    <2>1. /\ lot' = Selected /\ late' = late \ Selected
          /\ UNCHANGED <<desinscrit, current, step, writing, asked, delivered>>
      BY <1>1 DEF Passage
    <2>2. Selected \subseteq Users /\ \A u \in Selected : u \notin desinscrit
      BY DEF Selected, Eligible
    <2> QED BY <2>1, <2>2 DEF Heard, MailLeaves
  <1>2. CASE Advance
    <2>1. /\ UNCHANGED <<desinscrit, late, writing, asked, delivered>> /\ lot' \subseteq lot
          /\ \/ UNCHANGED <<step, current>>
             \/ current' \in lot
      BY <1>2 DEF Advance
    <2> QED BY <2>1 DEF Heard, MailLeaves
  <1>3. CASE Reserved
    <2>1. /\ UNCHANGED <<desinscrit, late, writing, asked, delivered, lot>>
          /\ current \in Users /\ current' \in {current, 0} /\ (current' = 0 => step' = "none")
      BY <1>0, <1>3 DEF Reserved, Reserve, Finished
    <2> QED BY <1>0, <2>1 DEF Heard, MailLeaves
  <1>4. CASE Sent
    <2>1. /\ UNCHANGED <<desinscrit, late, writing, delivered, lot>> /\ current \in Users
          /\ asked' \in {asked, [asked EXCEPT ![current] = @ + 1]}
          /\ \/ step' = "note" /\ current' = current
             \/ step' = "none" /\ current' = 0
      BY <1>4 DEF Sent
    <2>2. asked' \in [Users -> Nat] /\ \A u \in Users : u # current => asked'[u] = asked[u]
      BY <2>1
    <2>3. Heard
      BY <2>1, <2>2 DEF Heard, MailLeaves
    <2> QED BY <1>0, <2>1, <2>2, <2>3
  <1>5. CASE Noted
    <2>1. /\ UNCHANGED <<desinscrit, late, writing, asked, lot>>
          /\ step' = "none" /\ current' = 0
          /\ delivered' \subseteq delivered \union {current}
      BY <1>5 DEF Noted, Finished
    <2> QED BY <1>0, <2>1 DEF Heard, MailLeaves
  <1>6. CASE PassageFails \/ Stop
    <2>1. /\ UNCHANGED <<desinscrit, late, asked, delivered>>
          /\ step' = "none" /\ current' = 0 /\ lot' = {} /\ writing' \subseteq writing
      BY <1>6 DEF PassageFails, Stop, Finished
    <2> QED BY <1>0, <2>1 DEF Heard, MailLeaves
  <1>7. ASSUME NEW u \in Users, Day(u) \/ Write(u) \/ WrittenByHand(u) PROVE HeardInv' /\ Heard
    <2>1. UNCHANGED <<desinscrit, late, asked, lot, current, step>>
      BY <1>7 DEF Day, Write, WrittenByHand
    <2>2. /\ writing' \subseteq writing \union ({u} \ desinscrit)
          /\ delivered' \subseteq delivered \union (writing \cap {u})
      BY <1>7 DEF Day, Write, WrittenByHand
    <2> QED BY <2>1, <2>2 DEF Heard, MailLeaves
  <1>8. ASSUME NEW u \in Users, Unsubscribe(u) PROVE HeardInv' /\ Heard
    <2>1. /\ UNCHANGED <<asked, delivered, lot, current, step, writing>>
          /\ desinscrit' = desinscrit \union {u} /\ late' = late \union ({u} \cap MailsToCome)
      BY <1>8 DEF Unsubscribe
    <2> QED BY <2>1 DEF Heard, MailLeaves, MailsToCome
  <1>9. CASE FeedbackStep \/ UNCHANGED feedbackRequestVars
    <2>1. UNCHANGED mailVars
      BY <1>9, FeedbackLeavesMails DEF feedbackRequestVars
    <2> QED BY <2>1 DEF mailVars, visitVars, Heard, MailLeaves
  <1>10. CASE \E u \in Users : VisitReads(u)
    <2>1. UNCHANGED mailVars
      BY <1>10 DEF VisitReads
    <2> QED BY <2>1 DEF mailVars, Heard, MailLeaves
  <1>11. CASE \E v \in visits : VisitSelects(v)
    <2>1. UNCHANGED mailVars
      BY <1>11 DEF VisitSelects
    <2> QED BY <2>1 DEF mailVars, Heard, MailLeaves
  <1>12. ASSUME NEW v \in visits, VisitSaves(v) PROVE HeardInv' /\ Heard
    <2>1. /\ UNCHANGED <<asked, delivered, lot, current, step, writing>>
          /\ late' = late \union ((desinscrit' \ desinscrit) \cap MailsToCome)
      BY <1>12 DEF VisitSaves
    <2>2. desinscrit' \subseteq Users
      <3>1. v.who \in Users
        BY DEF VisitsTyped, Visit
      <3> QED BY <1>12, <3>1 DEF VisitSaves, WithDate
    <2> QED BY <2>1, <2>2 DEF Heard, MailLeaves, MailsToCome
  <1> QED BY <1>1, <1>2, <1>3, <1>4, <1>5, <1>6, <1>7, <1>8, <1>9, <1>10, <1>11, <1>12, NextCases
        DEF MailStep, PassageStep, VisitStep

\* No request leaves for an account that unsubscribed before it was selected, or
\* before the manual mail was checked (demande-de-retour.service.ts, eligibles;
\* admin-mail.service.ts, envoyer).
THEOREM UnsubscribedLeftAlone == FeedbackSpec => UnsubscribedIsHeard
  <1>1. FeedbackInit => HeardInv
    BY DEF FeedbackInit, HeardInv
  <1>2. FeedbackInit => VisitsTyped
    BY DEF FeedbackInit, VisitsTyped
  <1>3. VisitsTyped /\ [FeedbackNext]_feedbackRequestVars => VisitsTyped'
    BY VisitsStep
  <1>4. HeardInv /\ VisitsTyped /\ [FeedbackNext]_feedbackRequestVars => HeardInv'
    BY HeardStep
  <1>5. HeardInv /\ VisitsTyped /\ [FeedbackNext]_feedbackRequestVars => [Heard]_feedbackRequestVars
    BY HeardStep
  <1> QED BY <1>1, <1>2, <1>3, <1>4, <1>5, PTL DEF FeedbackSpec, UnsubscribedIsHeard, Heard

----------------------------------------------------------------------------
(* Paid as marked. *)

PayTyped ==
  /\ payments \in [Feedbacks -> Nat]
  /\ \A f \in DOMAIN feedback : f \in Feedbacks /\ feedback[f] \in Row
  /\ \A r \in requests : r.f \in Feedbacks /\ r.row \in Row /\ r.op \in {"award", "mark", "reject", "delete"}

\* A feedback that nothing crossed has one request at most, which holds the row
\* as it is; and between the payment and the mark it is paid and not marked.
OneRequest ==
  /\ \A r, q \in requests : r.f = q.f /\ r.f \notin crossed => r = q
  /\ \A r \in requests : r.f \notin crossed =>
       /\ r.f \in DOMAIN feedback /\ r.row = feedback[r.f]
       /\ r.op # "delete" => ~r.row.awarded
       /\ r.op = "mark" => payments[r.f] = 1

PaidOrBeingMarked ==
  \A f \in DOMAIN feedback \ crossed :
    \/ \E r \in requests : r.f = f /\ r.op = "mark"
    \/ payments[f] = IF feedback[f].awarded THEN 1 ELSE 0

PayInv == PayTyped /\ OneRequest /\ PaidOrBeingMarked

\* A row put in the table.
LEMMA PutRow ==
  ASSUME NEW f, NEW row, feedback' = Put(f, row)
  PROVE  /\ DOMAIN feedback' = DOMAIN feedback \union {f} /\ feedback'[f] = row
         /\ \A x \in DOMAIN feedback : x # f => feedback'[x] = feedback[x]
  BY DEF Put

\* A request ends: the feedback keeps its row, or the row takes the mark.
LEMMA RequestEnds ==
  ASSUME PayInv, NEW r \in requests, requests' = requests \ {r}, UNCHANGED <<payments, crossed>>,
         NEW row \in Row, feedback' = Put(r.f, row),
         r.f \notin crossed => payments[r.f] = IF row.awarded THEN 1 ELSE 0
  PROVE  PayInv'
  <1> USE DEF PayInv, PayTyped
  <1>1. /\ DOMAIN feedback' = DOMAIN feedback \union {r.f} /\ feedback'[r.f] = row
        /\ \A x \in DOMAIN feedback : x # r.f => feedback'[x] = feedback[x]
    BY PutRow
  <1>2. PayTyped'
    BY <1>1
  <1>3. OneRequest'
    BY <1>1 DEF OneRequest
  <1>4. PaidOrBeingMarked'
    BY <1>1 DEF PaidOrBeingMarked
  <1> QED BY <1>2, <1>3, <1>4

LEMMA PayStep ==
  ASSUME PayInv, [FeedbackNext]_feedbackRequestVars
  PROVE  PayInv'
  <1> USE DEF PayInv, PayTyped
  <1>1. ASSUME NEW u \in Users \union {0}, Submit(u) PROVE PayInv'
    <2> DEFINE row == [who |-> u, awarded |-> FALSE, rejected |-> FALSE]
    <2>1. PICK f \in Feedbacks \ DOMAIN feedback :
            payments[f] = 0 /\ f \notin crossed /\ feedback' = Put(f, row)
      BY <1>1 DEF Submit
    <2>2. UNCHANGED <<requests, payments, crossed>>
      BY <1>1 DEF Submit
    <2>3. row \in Row /\ ~row.awarded
      BY DEF Row
    <2> HIDE DEF row
    <2>4. /\ DOMAIN feedback' = DOMAIN feedback \union {f} /\ feedback'[f] = row
          /\ \A x \in DOMAIN feedback : feedback'[x] = feedback[x]
      BY <2>1, PutRow
    <2>5. PayTyped'
      BY <2>1, <2>2, <2>3, <2>4
    <2>6. OneRequest'
      BY <2>1, <2>2, <2>4 DEF OneRequest
    <2>7. PaidOrBeingMarked'
      BY <2>1, <2>2, <2>3, <2>4 DEF PaidOrBeingMarked
    <2> QED BY <2>5, <2>6, <2>7
  <1>2. ASSUME NEW f \in Feedbacks, NEW kind \in {"award", "reject", "delete"}, Read(f, kind) PROVE PayInv'
    <2> DEFINE new == [f |-> f, op |-> kind, row |-> feedback[f], n |-> clicks]
    <2>1. /\ requests' = requests \union {new} /\ UNCHANGED <<feedback, payments>>
          /\ f \in DOMAIN feedback /\ (kind # "delete" => ~feedback[f].awarded)
          /\ crossed \subseteq crossed' /\ (Busy(f) => f \in crossed')
      BY <1>2 DEF Read
    <2>2. new.f = f /\ new.op = kind /\ new.row = feedback[f]
      OBVIOUS
    <2> HIDE DEF new
    <2>3. PayTyped'
      BY <2>1, <2>2
    <2>4. OneRequest'
      BY <2>1, <2>2 DEF OneRequest, Busy
    <2>5. PaidOrBeingMarked'
      BY <2>1 DEF PaidOrBeingMarked
    <2> QED BY <2>3, <2>4, <2>5
  <1>3. ASSUME NEW r \in requests, Pay(r) PROVE PayInv'
    <2> DEFINE q == [r EXCEPT !.op = "mark"]
    <2>1. /\ requests' = (requests \ {r}) \union {q} /\ r.op = "award"
          /\ payments' = [payments EXCEPT ![r.f] = @ + 1] /\ UNCHANGED <<feedback, crossed>>
      BY <1>3 DEF Pay
    <2>2. q.f = r.f /\ q.op = "mark" /\ q.row = r.row
      BY <2>1
    <2> HIDE DEF q
    <2>3. /\ payments' \in [Feedbacks -> Nat] /\ payments'[r.f] = payments[r.f] + 1
          /\ \A f \in Feedbacks : f # r.f => payments'[f] = payments[f]
      BY <2>1
    <2>4. r.f \notin crossed => payments[r.f] = 0
      BY <2>1 DEF OneRequest, PaidOrBeingMarked
    <2>5. PayTyped'
      BY <2>1, <2>2, <2>3
    <2>6. OneRequest'
      BY <2>1, <2>2, <2>3, <2>4 DEF OneRequest
    <2>7. PaidOrBeingMarked'
      BY <2>1, <2>2, <2>3 DEF PaidOrBeingMarked
    <2> QED BY <2>5, <2>6, <2>7
  <1>4. ASSUME NEW r \in requests, Mark(r) PROVE PayInv'
    <2> DEFINE row == [r.row EXCEPT !.awarded = TRUE]
    <2>1. /\ r.op = "mark" /\ requests' = requests \ {r} /\ UNCHANGED <<payments, crossed>>
          /\ feedback' = Put(r.f, row)
      BY <1>4 DEF Mark, Marked
    <2>2. row \in Row /\ row.awarded
      BY DEF Row
    <2>3. r.f \notin crossed => payments[r.f] = 1
      BY <2>1 DEF OneRequest
    <2> HIDE DEF row
    <2> QED BY <2>1, <2>2, <2>3, RequestEnds
  <1>5. ASSUME NEW r \in requests, RejectOrDelete(r) PROVE PayInv'
    <2>1. requests' = requests \ {r} /\ UNCHANGED <<payments, crossed>> /\ r.op \in {"reject", "delete"}
      BY <1>5 DEF RejectOrDelete
    <2>2. CASE r.op = "reject"
      <3> DEFINE row == [r.row EXCEPT !.rejected = TRUE]
      <3>1. feedback' = Put(r.f, row) /\ row \in Row /\ row.awarded = r.row.awarded
        BY <1>5, <2>2 DEF RejectOrDelete, Row
      <3>2. r.f \notin crossed => ~r.row.awarded /\ payments[r.f] = 0
        BY <2>2 DEF OneRequest, PaidOrBeingMarked
      <3> HIDE DEF row
      <3> QED BY <2>1, <3>1, <3>2, RequestEnds
    <2>3. CASE r.op = "delete"
      <3>1. feedback' = [x \in DOMAIN feedback \ {r.f} |-> feedback[x]]
        BY <1>5, <2>3 DEF RejectOrDelete
      <3>2. DOMAIN feedback' = DOMAIN feedback \ {r.f} /\ \A x \in DOMAIN feedback' : feedback'[x] = feedback[x]
        BY <3>1
      <3>3. PayTyped'
        BY <2>1, <3>2
      <3>4. OneRequest'
        BY <2>1, <3>2 DEF OneRequest
      <3>5. PaidOrBeingMarked'
        BY <2>1, <3>2 DEF PaidOrBeingMarked
      <3> QED BY <3>3, <3>4, <3>5
    <2> QED BY <2>1, <2>2, <2>3
  <1>6. ASSUME NEW r \in requests, RequestFails(r) PROVE PayInv'
    <2>1. /\ requests' = requests \ {r} /\ UNCHANGED <<feedback, payments>>
          /\ crossed \subseteq crossed' /\ (r.op = "mark" => r.f \in crossed')
      BY <1>6 DEF RequestFails
    <2>2. PayTyped' /\ OneRequest'
      BY <2>1 DEF OneRequest
    <2>3. PaidOrBeingMarked'
      BY <2>1 DEF PaidOrBeingMarked
    <2> QED BY <2>2, <2>3
  <1>7. CASE Stop
    <2>1. /\ requests' = {} /\ UNCHANGED <<feedback, payments>> /\ crossed \subseteq crossed'
          /\ \A r \in requests : r.op = "mark" => r.f \in crossed'
      BY <1>7 DEF Stop
    <2>2. PayTyped' /\ OneRequest'
      BY <2>1 DEF OneRequest
    <2>3. PaidOrBeingMarked'
      BY <2>1 DEF PaidOrBeingMarked
    <2> QED BY <2>2, <2>3
  <1>8. CASE MailStep \/ VisitStep \/ UNCHANGED feedbackRequestVars
    <2>1. UNCHANGED feedbackVars
      BY <1>8, MailsLeaveFeedback DEF feedbackRequestVars
    <2> QED BY <2>1 DEF feedbackVars, OneRequest, PaidOrBeingMarked
  <1> QED BY <1>1, <1>2, <1>3, <1>4, <1>5, <1>6, <1>7, <1>8, NextCases DEF FeedbackStep

\* A feedback is paid once if it is marked so, and not otherwise, once no request
\* is about it, unless two requests crossed on it or one failed between the
\* payment and the mark (feedback.service.ts, lines 48 to 57).
THEOREM PaidOnceAndMarked == FeedbackSpec => []PaidAsMarked
  <1>1. FeedbackInit => PayInv
    BY DEF FeedbackInit, PayInv, PayTyped, OneRequest, PaidOrBeingMarked
  <1>2. PayInv /\ [FeedbackNext]_feedbackRequestVars => PayInv'
    BY PayStep
  <1>3. PayInv => PaidAsMarked
    BY DEF PayInv, PaidOrBeingMarked, PaidAsMarked, Busy
  <1> QED BY <1>1, <1>2, <1>3, PTL DEF FeedbackSpec
=============================================================================
