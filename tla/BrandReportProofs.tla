--------------------------- MODULE BrandReportProofs ---------------------------
(***************************************************************************)
(* What holds of the paid report, at the server for every number of        *)
(* overlapping requests, every cost, balance and spending, and every bound *)
(* on time and failures, and on its page for every number of names, of     *)
(* gestures, of purchases and of answers that come late.                   *)
(***************************************************************************)
EXTENDS BrandReport, ReportDialog, FiniteSetTheorems, TLAPS

Busy == {h \in Handlers : handler[h] # Idle}

\* Requests that found no report and may still be debited.
MayDebit == {h \in Handlers : handler[h].pc \in {"generate", "debit"} /\ ~handler[h].isRefresh}

\* What a request holds: only a refresh goes round the debit, and there is a
\* report to refresh; what a save found is the report of the store, whose
\* token and cost nothing changes.
HandlerFits(q) ==
  /\ q \in Requests \union {Idle}
  /\ q # Idle =>
       /\ q.pc \in {"find", "debit"} => ~q.isRefresh
       /\ q.isRefresh => row # NoRow
       /\ q.pc # "saveWrite" => q.existing = NoRow
       /\ q.pc \in {"saveFind", "saveWrite"} /\ ~q.isRefresh => debits > 0
       /\ q.token <= issued
  /\ q # Idle /\ q.pc = "saveWrite" =>
       /\ q.token # 0
       /\ q.isRefresh => q.existing # NoRow
       /\ q.existing # NoRow => /\ row # NoRow
                                /\ q.token = row.token
                                /\ q.existing.costCredits = BRAND_REPORT_COST

TokenIssued == row # NoRow => row.token <= issued

ReportInv ==
  /\ TypeOK
  /\ \A h \in Handlers : HandlerFits(handler[h])
  /\ TokenIssued
  /\ CostIsKept

\* As long as no report is stored, every debit is owed, failed or was cut
\* short; once one is, those who may still be debited passed before it.
PaidBeforeStored ==
  /\ row = NoRow => debits <= Cardinality(Owed) + failures + restarts
  /\ row # NoRow => debits + Cardinality(MayDebit) <= Cardinality(Handlers) + failures + restarts

CountInv == DebitedIsServed /\ PaidBeforeStored

----------------------------------------------------------------------------
\* Subsets of the requests are counted by numbers.
LEMMA Countable ==
  ASSUME NEW S \in SUBSET Handlers
  PROVE  /\ IsFiniteSet(S) /\ Cardinality(S) \in Nat
         /\ Cardinality(Handlers) \in Nat /\ Cardinality(S) <= Cardinality(Handlers)
         /\ \A h \in S : Cardinality(S \ {h}) = Cardinality(S) - 1 /\ Cardinality(S \ {h}) \in Nat
         /\ \A h \in Handlers \ S : Cardinality(S \union {h}) = Cardinality(S) + 1
  <1>1. IsFiniteSet(S) /\ Cardinality(S) <= Cardinality(Handlers)
    BY FS_Subset, ReportAssumption DEF ReportAssumption
  <1>2. Cardinality(S) \in Nat /\ Cardinality(Handlers) \in Nat
    BY <1>1, FS_CardinalityType, ReportAssumption DEF ReportAssumption
  <1>3. \A h \in S : IsFiniteSet(S \ {h}) /\ Cardinality(S \ {h}) = Cardinality(S) - 1
    BY <1>1, FS_RemoveElement
  <1>4. \A h \in S : Cardinality(S \ {h}) \in Nat
    BY <1>3, FS_CardinalityType
  <1>5. \A h \in Handlers \ S : Cardinality(S \union {h}) = Cardinality(S) + 1
    BY <1>1, FS_AddElement
  <1> QED BY <1>1, <1>2, <1>3, <1>4, <1>5

\* The requests that owe and those that may owe are different ones.
LEMMA OwedAndMayDebit ==
  /\ Owed \in SUBSET Handlers /\ MayDebit \in SUBSET Handlers
  /\ Cardinality(Owed) \in Nat /\ Cardinality(MayDebit) \in Nat /\ Cardinality(Handlers) \in Nat
  /\ Cardinality(Owed) + Cardinality(MayDebit) <= Cardinality(Handlers)
  <1>1. Owed \in SUBSET Handlers /\ MayDebit \in SUBSET Handlers /\ Owed \cap MayDebit = {}
    BY DEF Owed, MayDebit
  <1>2. /\ IsFiniteSet(Owed) /\ IsFiniteSet(MayDebit)
        /\ Cardinality(Owed) \in Nat /\ Cardinality(MayDebit) \in Nat /\ Cardinality(Handlers) \in Nat
    BY <1>1, Countable
  <1>3. Cardinality(Owed \union MayDebit) = Cardinality(Owed) + Cardinality(MayDebit)
    <2>1. Cardinality(Owed \union MayDebit)
            = Cardinality(Owed) + Cardinality(MayDebit) - Cardinality(Owed \cap MayDebit)
      BY <1>2, FS_Union
    <2> QED BY <1>1, <1>2, <2>1, FS_EmptySet
  <1>4. Cardinality(Owed \union MayDebit) <= Cardinality(Handlers)
    BY <1>1, Countable
  <1> QED BY <1>1, <1>2, <1>3, <1>4

\* A request that is at a step is at work.
LEMMA AtWork ==
  ASSUME ReportInv, NEW h \in Handlers, NEW step \in Steps, At(h, step)
  PROVE  handler[h] \in Requests /\ handler[h] # Idle /\ handler[h].pc = step
         /\ HandlerFits(handler[h])
  BY DEF At, Idle, Steps, ReportInv, HandlerFits

\* A step of one request keeps what requests hold, if what it now holds fits
\* and the report, once stored, keeps its token and its cost.
LEMMA Moves ==
  ASSUME ReportInv, NEW h \in Handlers, NEW q, handler' = [handler EXCEPT ![h] = q],
         HandlerFits(q)', row # NoRow => row' # NoRow /\ row'.token = row.token,
         debits \in Nat, debits' \in Nat, debits <= debits',
         issued \in Nat, issued' \in Nat, issued <= issued'
  PROVE  \A k \in Handlers : HandlerFits(handler[k])'
  <1> USE DEF ReportInv, TypeOK
  <1> SUFFICES ASSUME NEW k \in Handlers PROVE HandlerFits(handler[k])'
    OBVIOUS
  <1>1. CASE k = h
    BY <1>1
  <1>2. CASE k # h
    <2>1. handler'[k] = handler[k] /\ HandlerFits(handler[k])
      BY <1>2
    <2>2. handler[k] # Idle => handler[k].token \in Nat
      BY DEF HandlerFits, Requests
    <2> QED BY <2>1, <2>2 DEF HandlerFits
  <1> QED BY <1>1, <1>2
\* A request that ends holds nothing.
LEMMA IdleFits == HandlerFits(Idle)'
  BY DEF HandlerFits

----------------------------------------------------------------------------
\* Nothing is stored, nothing is owed.
LEMMA ReportInit == Init => ReportInv
  <1> SUFFICES ASSUME Init PROVE ReportInv
    OBVIOUS
  <1>1. TypeOK
    BY ReportAssumption DEF ReportAssumption, Init, TypeOK
  <1>2. \A h \in Handlers : HandlerFits(handler[h])
    BY DEF Init, HandlerFits
  <1>3. TokenIssued /\ CostIsKept
    BY DEF Init, TokenIssued, CostIsKept
  <1> QED BY <1>1, <1>2, <1>3 DEF ReportInv

\* Steps of one request that leave the store alone.
LEMMA StoreUntouched ==
  ASSUME ReportInv, NEW h \in Handlers, NEW q, handler' = [handler EXCEPT ![h] = q],
         HandlerFits(q)', UNCHANGED <<row, now, restarts>>,
         balance' \in Nat, served' \in Nat, failures' \in 0..MaxFailures,
         debits' \in Nat, debits <= debits', issued' \in Nat, issued <= issued',
         delivered' \subseteq 0..issued', unsaved' \subseteq 0..issued'
  PROVE  ReportInv'
  <1> USE DEF ReportInv, TypeOK
  <1>1. debits \in Nat /\ issued \in Nat
    OBVIOUS
  <1>2. \A k \in Handlers : HandlerFits(handler[k])'
    BY <1>1, Moves
  <1>3. handler' \in [Handlers -> Requests \union {Idle}]
    BY DEF HandlerFits
  <1>4. TypeOK'
    BY <1>3
  <1>5. row # NoRow => row.token \in Nat /\ row.token <= issued'
    BY <1>1 DEF TokenIssued, Rows
  <1>6. TokenIssued' /\ CostIsKept'
    BY <1>1, <1>5 DEF TokenIssued, CostIsKept
  <1> QED BY <1>2, <1>4, <1>6

\* A request starts with nothing in its hands.
LEMMA FullStep ==
  ASSUME ReportInv, NEW h \in Handlers, NEW force \in BOOLEAN, Full(h, force)
  PROVE  ReportInv'
  <1> USE DEF ReportInv, TypeOK
  <1>1. PICK q : q = [pc |-> "find", force |-> force, credits |-> balance, isRefresh |-> FALSE,
                      generatedAt |-> 0, token |-> 0, existing |-> NoRow]
    OBVIOUS
  <1>2. q \in Requests
    BY <1>1 DEF Requests, Steps
  <1>3. HandlerFits(q)'
    BY <1>1, <1>2 DEF HandlerFits, Full
  <1>4. handler' = [handler EXCEPT ![h] = q]
    BY <1>1 DEF Full, Set
  <1>5. UNCHANGED <<balance, row, now, issued, delivered, unsaved, debits, served, failures, restarts>>
    BY DEF Full
  <1>6. /\ debits' \in Nat /\ debits <= debits' /\ issued' \in Nat /\ issued <= issued'
        /\ balance' \in Nat /\ served' \in Nat /\ delivered' \subseteq 0..issued'
        /\ unsaved' \subseteq 0..issued'
        /\ failures' \in 0..MaxFailures
    BY <1>5
  <1> QED BY <1>3, <1>4, <1>5, <1>6, StoreUntouched

\* Answering with a token already drawn, or with none, or not at all.
LEMMA EndStep ==
  ASSUME ReportInv, NEW h \in Handlers, handler' = [handler EXCEPT ![h] = Idle],
         UNCHANGED <<balance, row, now, issued, debits, restarts>>,
         served' \in {served, served + 1}, failures' \in 0..MaxFailures,
         \/ delivered' = delivered
         \/ \E token \in 0..issued : delivered' = delivered \union {token},
         \/ unsaved' = unsaved
         \/ \E token \in 0..issued : unsaved' = unsaved \union {token}
  PROVE  ReportInv'
  <1> USE DEF ReportInv, TypeOK
  <1>0. served' \in Nat
    OBVIOUS
  <1>1. delivered' \subseteq 0..issued' /\ unsaved' \subseteq 0..issued'
    <2>1. delivered \subseteq 0..issued /\ unsaved \subseteq 0..issued /\ issued' = issued
      OBVIOUS
    <2> QED BY <2>1
  <1>2. debits' \in Nat /\ debits <= debits' /\ issued' \in Nat /\ issued <= issued' /\ balance' \in Nat
    OBVIOUS
  <1> QED BY <1>0, <1>1, <1>2, IdleFits, StoreUntouched

\* A token drawn for the stored report has been issued.
LEMMA StoredToken ==
  ASSUME ReportInv, row # NoRow
  PROVE  row \in Rows /\ row.token \in 0..issued /\ row.token # 0
  BY DEF ReportInv, TypeOK, TokenIssued, Rows

\* A request without a report goes on to pay, or is refused.
LEMMA MissStep ==
  ASSUME ReportInv, NEW h \in Handlers, At(h, "find"), Miss(h),
         UNCHANGED <<balance, row, now, issued, unsaved, debits, restarts>>, failures' \in 0..MaxFailures
  PROVE  ReportInv'
  <1> USE DEF ReportInv, TypeOK
  <1>0. /\ handler[h] \in Requests /\ handler[h] # Idle /\ handler[h].pc = "find"
        /\ HandlerFits(handler[h])
    BY AtWork DEF Steps
  <1>1. CASE Refuse(h)
    BY <1>1, EndStep DEF Refuse, Set
  <1>2. CASE Goto(h, "generate") /\ UNCHANGED <<delivered, served>>
    <2>1. PICK q : q = [handler[h] EXCEPT !.pc = "generate"]
      OBVIOUS
    <2>2. /\ q \in Requests /\ q.pc = "generate" /\ q.isRefresh = handler[h].isRefresh
          /\ q.existing = handler[h].existing /\ q.token = handler[h].token
      BY <1>0, <2>1 DEF Requests, Steps
    <2>3. HandlerFits(q)'
      BY <1>0, <2>2 DEF HandlerFits
    <2>4. handler' = [handler EXCEPT ![h] = q]
      BY <1>2, <2>1 DEF Goto
    <2>5. debits' \in Nat /\ debits <= debits' /\ issued' \in Nat /\ issued <= issued'
          /\ balance' \in Nat /\ served' \in Nat /\ delivered' \subseteq 0..issued'
        /\ unsaved' \subseteq 0..issued'
      BY <1>2
    <2> QED BY <2>3, <2>4, <2>5, StoreUntouched
  <1> QED BY <1>1, <1>2 DEF Miss

\* A stored report is given back or refreshed: there is one to refresh.
LEMMA FindStep ==
  ASSUME ReportInv, NEW h \in Handlers, Find(h)
  PROVE  ReportInv'
  <1> USE DEF ReportInv, TypeOK
  <1>0. /\ handler[h] \in Requests /\ handler[h] # Idle /\ handler[h].pc = "find"
        /\ HandlerFits(handler[h]) /\ At(h, "find")
        /\ UNCHANGED <<balance, row, now, issued, unsaved, debits, failures, restarts>>
        /\ failures' \in 0..MaxFailures
    BY AtWork DEF Steps, Find
  <1>1. CASE Miss(h)
    BY <1>0, <1>1, MissStep
  <1>2. CASE /\ row # NoRow
             /\ handler' = [handler EXCEPT ![h].pc = "generate", ![h].isRefresh = TRUE]
             /\ UNCHANGED <<delivered, served>>
    <2>1. PICK q : q = [handler[h] EXCEPT !.pc = "generate", !.isRefresh = TRUE]
      OBVIOUS
    <2>2. /\ q \in Requests /\ q.pc = "generate" /\ q.isRefresh
          /\ q.existing = handler[h].existing /\ q.token = handler[h].token
      BY <1>0, <2>1 DEF Requests, Steps
    <2>3. HandlerFits(q)'
      BY <1>0, <1>2, <2>2 DEF HandlerFits
    <2>4. handler' = [handler EXCEPT ![h] = q]
      BY <1>2, <2>1
    <2>5. debits' \in Nat /\ debits <= debits' /\ issued' \in Nat /\ issued <= issued'
          /\ balance' \in Nat /\ served' \in Nat /\ delivered' \subseteq 0..issued'
        /\ unsaved' \subseteq 0..issued'
      BY <1>0, <1>2
    <2> QED BY <1>0, <2>3, <2>4, <2>5, StoreUntouched
  <1>3. CASE row # NoRow /\ Answer(h, row.token) /\ UNCHANGED served
    BY <1>0, <1>3, StoredToken, EndStep DEF Answer, Set
  <1> QED BY <1>1, <1>2, <1>3 DEF Find

\* One more failure is within the bound.
LEMMA FailsType ==
  ASSUME TypeOK, Fails
  PROVE  failures' = failures + 1 /\ failures' \in 0..MaxFailures /\ failures \in Nat
  BY ReportAssumption DEF ReportAssumption, Fails, TypeOK

\* A store that does not answer is a miss.
LEMMA FindFailsStep ==
  ASSUME ReportInv, NEW h \in Handlers, FindFails(h)
  PROVE  ReportInv'
  BY FailsType, MissStep DEF FindFails, ReportInv

\* Generating changes no account.
LEMMA GenerateStep ==
  ASSUME ReportInv, NEW h \in Handlers, Generate(h)
  PROVE  ReportInv'
  <1> USE DEF ReportInv, TypeOK
  <1>0. /\ handler[h] \in Requests /\ handler[h] # Idle /\ handler[h].pc = "generate"
        /\ HandlerFits(handler[h])
        /\ UNCHANGED <<balance, row, now, issued, unsaved, debits, restarts>>
    BY AtWork DEF Steps, Generate
  <1> DEFINE next == IF handler[h].isRefresh THEN "saveFind" ELSE "debit"
  <1>1. CASE /\ handler' = [handler EXCEPT ![h].pc = next, ![h].generatedAt = now]
             /\ UNCHANGED <<failures, delivered, served>>
    <2>1. PICK q : q = [handler[h] EXCEPT !.pc = next, !.generatedAt = now]
      OBVIOUS
    <2>0. now \in Nat
      BY ReportAssumption DEF ReportAssumption
    <2>2. /\ q \in Requests /\ q.pc = next /\ q.isRefresh = handler[h].isRefresh
          /\ q.existing = handler[h].existing /\ q.token = handler[h].token
      BY <1>0, <2>0, <2>1 DEF Requests, Steps
    <2>3. HandlerFits(q)'
      BY <1>0, <2>2 DEF HandlerFits
    <2>4. handler' = [handler EXCEPT ![h] = q]
      BY <1>1, <2>1
    <2>5. debits' \in Nat /\ debits <= debits' /\ issued' \in Nat /\ issued <= issued'
          /\ balance' \in Nat /\ served' \in Nat /\ delivered' \subseteq 0..issued'
        /\ unsaved' \subseteq 0..issued'
          /\ failures' \in 0..MaxFailures
      BY <1>0, <1>1
    <2> HIDE DEF next
    <2> QED BY <1>0, <2>3, <2>4, <2>5, StoreUntouched
  <1>2. CASE Fails /\ Refuse(h)
    BY <1>0, <1>2, FailsType, EndStep DEF Refuse, Set
  <1> QED BY <1>1, <1>2 DEF Generate

\* A debit that goes through leaves a debit behind.
LEMMA DebitStep ==
  ASSUME ReportInv, NEW h \in Handlers, Debit(h)
  PROVE  ReportInv'
  <1> USE DEF ReportInv, TypeOK
  <1>0. /\ handler[h] \in Requests /\ handler[h] # Idle /\ handler[h].pc = "debit"
        /\ HandlerFits(handler[h])
        /\ UNCHANGED <<row, now, issued, unsaved, restarts>>
    BY AtWork DEF Steps, Debit
  <1>1. CASE /\ balance >= BRAND_REPORT_COST
             /\ balance' = balance - BRAND_REPORT_COST
             /\ debits' = debits + 1
             /\ Goto(h, "saveFind")
             /\ UNCHANGED <<delivered, served, failures>>
    <2>1. PICK q : q = [handler[h] EXCEPT !.pc = "saveFind"]
      OBVIOUS
    <2>2. /\ q \in Requests /\ q.pc = "saveFind" /\ q.isRefresh = handler[h].isRefresh
          /\ q.existing = handler[h].existing /\ q.token = handler[h].token
      BY <1>0, <2>1 DEF Requests, Steps
    <2>3. debits' > 0
      BY <1>1
    <2>4. HandlerFits(q)'
      BY <1>0, <2>2, <2>3 DEF HandlerFits
    <2>5. handler' = [handler EXCEPT ![h] = q]
      BY <1>1, <2>1 DEF Goto
    <2>6. debits' \in Nat /\ debits <= debits' /\ issued' \in Nat /\ issued <= issued'
          /\ balance' \in Nat /\ served' \in Nat /\ delivered' \subseteq 0..issued'
        /\ unsaved' \subseteq 0..issued'
          /\ failures' \in 0..MaxFailures
      BY <1>0, <1>1, ReportAssumption DEF ReportAssumption
    <2> QED BY <1>0, <2>4, <2>5, <2>6, StoreUntouched
  <1>2. CASE Refuse(h) /\ UNCHANGED <<balance, debits, failures>>
    BY <1>0, <1>2, EndStep DEF Refuse, Set
  <1>3. CASE Fails /\ Refuse(h) /\ UNCHANGED <<balance, debits>>
    BY <1>0, <1>3, FailsType, EndStep DEF Refuse, Set
  <1> QED BY <1>1, <1>2, <1>3 DEF Debit
\* The end of a request that saved, or failed to: it answers.
LEMMA FinishIsEnd ==
  ASSUME TypeOK, NEW h \in Handlers, NEW token, Finish(h, token)
  PROVE  /\ handler' = [handler EXCEPT ![h] = Idle]
         /\ served' \in {served, served + 1} /\ served' \in Nat
         /\ delivered' = delivered \union {token}
  BY DEF TypeOK, Finish, Answer, Set

\* The save holds the stored report, or a token of its own.
LEMMA SaveFindStep ==
  ASSUME ReportInv, NEW h \in Handlers, SaveFind(h)
  PROVE  ReportInv'
  <1> USE DEF ReportInv, TypeOK
  <1>0. /\ handler[h] \in Requests /\ handler[h] # Idle /\ handler[h].pc = "saveFind"
        /\ HandlerFits(handler[h])
        /\ UNCHANGED <<balance, row, now, unsaved, debits, restarts>>
    BY AtWork DEF Steps, SaveFind
  <1>1. CASE /\ row # NoRow
             /\ handler' = [handler EXCEPT ![h].pc = "saveWrite", ![h].existing = row,
                                           ![h].token = row.token]
             /\ UNCHANGED <<issued, delivered, served, failures>>
    <2>1. PICK q : q = [handler[h] EXCEPT !.pc = "saveWrite", !.existing = row, !.token = row.token]
      OBVIOUS
    <2>0. row \in Rows /\ row.token \in Nat /\ row.token <= issued /\ row.token # 0
          /\ row.costCredits = BRAND_REPORT_COST
      BY <1>1, StoredToken DEF CostIsKept
    <2>2. /\ q \in Requests /\ q.pc = "saveWrite" /\ q.isRefresh = handler[h].isRefresh
          /\ q.existing = row /\ q.token = row.token
      BY <1>0, <2>0, <2>1 DEF Requests, Steps
    <2>3. HandlerFits(q)'
      BY <1>0, <1>1, <2>0, <2>2 DEF HandlerFits
    <2>4. handler' = [handler EXCEPT ![h] = q]
      BY <1>1, <2>1
    <2>5. debits' \in Nat /\ debits <= debits' /\ issued' \in Nat /\ issued <= issued'
          /\ balance' \in Nat /\ served' \in Nat /\ delivered' \subseteq 0..issued'
        /\ unsaved' \subseteq 0..issued'
          /\ failures' \in 0..MaxFailures
      BY <1>0, <1>1
    <2> QED BY <1>0, <2>3, <2>4, <2>5, StoreUntouched
  <1>2. CASE /\ row = NoRow
             /\ handler' = [handler EXCEPT ![h].pc = "saveWrite", ![h].token = issued + 1]
             /\ issued' = issued + 1
             /\ UNCHANGED <<delivered, served, failures>>
    <2>1. PICK q : q = [handler[h] EXCEPT !.pc = "saveWrite", !.token = issued + 1]
      OBVIOUS
    <2>0. issued \in Nat /\ issued + 1 \in Nat /\ issued + 1 # 0
      OBVIOUS
    <2>2. /\ q \in Requests /\ q.pc = "saveWrite" /\ q.isRefresh = handler[h].isRefresh
          /\ q.existing = handler[h].existing /\ q.token = issued + 1
      BY <1>0, <2>0, <2>1 DEF Requests, Steps
    <2>3. q.existing = NoRow /\ ~q.isRefresh
      BY <1>0, <1>2, <2>2 DEF HandlerFits
    <2>4. HandlerFits(q)'
      BY <1>0, <1>2, <2>0, <2>2, <2>3 DEF HandlerFits
    <2>5. handler' = [handler EXCEPT ![h] = q]
      BY <1>2, <2>1
    <2>6. debits' \in Nat /\ debits <= debits' /\ issued' \in Nat /\ issued <= issued'
          /\ balance' \in Nat /\ served' \in Nat /\ failures' \in 0..MaxFailures
      BY <1>0, <1>2
    <2>7. delivered' \subseteq 0..issued' /\ unsaved' \subseteq 0..issued'
      <3>1. delivered \subseteq 0..issued /\ unsaved \subseteq 0..issued /\ 0..issued \subseteq 0..(issued + 1)
        BY <2>0
      <3> QED BY <1>0, <1>2, <3>1
    <2> QED BY <1>0, <2>4, <2>5, <2>6, <2>7, StoreUntouched
  <1>3. CASE Fails /\ Finish(h, 0) /\ UNCHANGED issued
    <2>1. 0 \in 0..issued
      OBVIOUS
    <2> QED BY <1>0, <1>3, <2>1, FailsType, FinishIsEnd, EndStep
  <1> QED BY <1>1, <1>2, <1>3 DEF SaveFind

\* What is written: a row whose token is the stored one, if there is one, and
\* whose cost is what was paid.
LEMMA RowWritten ==
  ASSUME ReportInv, NEW h \in Handlers, At(h, "saveWrite"), handler[h].existing # NoRow \/ row = NoRow
  PROVE  LET new == [token |-> handler[h].token, generatedAt |-> handler[h].generatedAt,
                     costCredits |-> CostWritten(h)]
         IN  /\ new \in Rows /\ new.token <= issued /\ debits > 0
             /\ new.costCredits = BRAND_REPORT_COST
             /\ row # NoRow => new.token = row.token
  <1> USE DEF ReportInv, TypeOK
  <1>0. /\ handler[h] \in Requests /\ handler[h].pc = "saveWrite" /\ handler[h] # Idle
        /\ HandlerFits(handler[h])
    BY AtWork DEF Steps
  <1>1. CostWritten(h) = BRAND_REPORT_COST /\ BRAND_REPORT_COST \in Nat
    BY <1>0, ReportAssumption DEF CostWritten, HandlerFits, ReportAssumption
  <1>2. debits > 0
    BY <1>0 DEF HandlerFits, CostIsKept
  <1>3. handler[h].token \in Nat \ {0} /\ handler[h].token <= issued /\ handler[h].generatedAt \in Nat
    BY <1>0 DEF HandlerFits, Requests
  <1>4. row # NoRow => handler[h].token = row.token
    BY <1>0 DEF HandlerFits
  <1> QED BY <1>1, <1>2, <1>3, <1>4 DEF Rows

\* What is written was paid for and keeps the token of the stored report.
LEMMA SaveWriteStep ==
  ASSUME ReportInv, NEW h \in Handlers, SaveWrite(h)
  PROVE  ReportInv'
  <1> USE DEF ReportInv, TypeOK
  <1>0. /\ handler[h] \in Requests /\ At(h, "saveWrite") /\ HandlerFits(handler[h])
        /\ handler[h].token \in 0..issued /\ Finish(h, handler[h].token)
        /\ UNCHANGED <<balance, now, issued, debits, restarts>>
        /\ unsaved' = unsaved \/ unsaved' = unsaved \union {handler[h].token}
    BY AtWork DEF Steps, SaveWrite, HandlerFits, Requests, Unsave
  <1>1. CASE UNCHANGED row /\ failures' \in 0..MaxFailures
    <2>1. /\ handler' = [handler EXCEPT ![h] = Idle] /\ served' \in {served, served + 1}
          /\ delivered' = delivered \union {handler[h].token}
      BY <1>0, FinishIsEnd
    <2>2. \/ unsaved' = unsaved
          \/ \E token \in 0..issued : unsaved' = unsaved \union {token}
      BY <1>0
    <2> QED BY <1>0, <1>1, <2>1, <2>2, EndStep
  <1>2. CASE /\ handler[h].existing # NoRow \/ row = NoRow
             /\ row' = [token |-> handler[h].token, generatedAt |-> handler[h].generatedAt,
                        costCredits |-> CostWritten(h)]
             /\ UNCHANGED failures
    <2>1. /\ row' \in Rows /\ row'.token <= issued /\ debits > 0
          /\ row'.costCredits = BRAND_REPORT_COST
          /\ row # NoRow => row'.token = row.token
      BY <1>0, <1>2, RowWritten
    <2>2. row' # NoRow
      BY <2>1, ReportAssumption DEF ReportAssumption
    <2>3. handler' = [handler EXCEPT ![h] = Idle] /\ served' \in Nat
          /\ delivered' = delivered \union {handler[h].token}
      BY <1>0, FinishIsEnd
    <2>4. \A k \in Handlers : HandlerFits(handler[k])'
      <3>1. debits \in Nat /\ debits' = debits /\ issued \in Nat /\ issued' = issued
        BY <1>0
      <3>2. debits' \in Nat /\ debits <= debits' /\ issued' \in Nat /\ issued <= issued'
        BY <3>1
      <3>3. row # NoRow => row' # NoRow /\ row'.token = row.token
        BY <2>1, <2>2
      <3>4. HandlerFits(Idle)' /\ handler' = [handler EXCEPT ![h] = Idle]
        BY <2>3, IdleFits
      <3> QED BY <3>1, <3>2, <3>3, <3>4, Moves
    <2>5. delivered' \subseteq 0..issued' /\ unsaved' \subseteq 0..issued'
      BY <1>0, <2>3
    <2>6. TypeOK'
      BY <1>0, <1>2, <2>1, <2>3, <2>5
    <2>7. TokenIssued' /\ CostIsKept'
      BY <1>0, <2>1 DEF TokenIssued, CostIsKept
    <2> QED BY <2>4, <2>6, <2>7
  <1>3. \/ UNCHANGED row /\ failures' \in 0..MaxFailures
        \/ /\ handler[h].existing # NoRow \/ row = NoRow
           /\ row' = [token |-> handler[h].token, generatedAt |-> handler[h].generatedAt,
                      costCredits |-> CostWritten(h)]
           /\ UNCHANGED failures
    BY FailsType DEF SaveWrite
  <1> QED BY <1>1, <1>2, <1>3

\* A restart leaves the store as it is.
LEMMA RestartStep ==
  ASSUME ReportInv, Restart
  PROVE  ReportInv'
  <1> USE DEF ReportInv, TypeOK
  <1>1. handler' = [k \in Handlers |-> Idle] /\ failures' \in 0..MaxFailures
        /\ UNCHANGED <<balance, row, now, issued, delivered, unsaved, debits, served>>
    BY FailsType DEF Restart
  <1>2. restarts' \in Nat
    <2>1. {k \in Handlers : handler[k] # Idle} \in SUBSET Handlers
      OBVIOUS
    <2>2. Cardinality({k \in Handlers : handler[k] # Idle}) \in Nat
      BY <2>1, Countable
    <2> QED BY <2>2 DEF Restart
  <1>3. \A k \in Handlers : HandlerFits(handler[k])'
    BY <1>1 DEF HandlerFits
  <1>4. TypeOK'
    BY <1>1, <1>2
  <1>5. TokenIssued' /\ CostIsKept'
    BY <1>1 DEF TokenIssued, CostIsKept
  <1> QED BY <1>3, <1>4, <1>5

\* The clock and the payer's other spending touch no request.
LEMMA ElsewhereStep ==
  ASSUME ReportInv, UNCHANGED <<row, handler, issued, delivered, unsaved, debits, served, failures, restarts>>,
         balance' \in Nat, now' \in 0..MaxTime
  PROVE  ReportInv'
  <1> USE DEF ReportInv, TypeOK
  <1>1. TypeOK'
    OBVIOUS
  <1>2. TokenIssued' /\ CostIsKept' /\ \A k \in Handlers : HandlerFits(handler[k])'
    BY DEF TokenIssued, CostIsKept, HandlerFits
  <1> QED BY <1>1, <1>2

\* Every step keeps the invariant.
LEMMA ReportStep ==
  ASSUME ReportInv, [Next]_vars
  PROVE  ReportInv'
  <1>1. ASSUME NEW h \in Handlers, Step(h) PROVE ReportInv'
    BY <1>1, FullStep, FindStep, FindFailsStep, GenerateStep, DebitStep, SaveFindStep,
       SaveWriteStep DEF Step
  <1>2. CASE Restart
    BY <1>2, RestartStep
  <1>3. CASE Tick
    <2>1. now' \in 0..MaxTime /\ balance' \in Nat
      BY <1>3, ReportAssumption DEF ReportAssumption, ReportInv, TypeOK, Tick
    <2> QED BY <1>3, <2>1, ElsewhereStep DEF Tick
  <1>4. ASSUME NEW amount \in SpendingElsewhere, SpendElsewhere(amount) PROVE ReportInv'
    <2>1. now' \in 0..MaxTime /\ balance' \in Nat
      BY <1>4, ReportAssumption DEF ReportAssumption, ReportInv, TypeOK, SpendElsewhere
    <2> QED BY <1>4, <2>1, ElsewhereStep DEF SpendElsewhere
  <1>5. CASE UNCHANGED vars
    <2>1. now' \in 0..MaxTime /\ balance' \in Nat
      BY <1>5 DEF vars, ReportInv, TypeOK
    <2> QED BY <1>5, <2>1, ElsewhereStep DEF vars
  <1> QED BY <1>1, <1>2, <1>3, <1>4, <1>5 DEF Next
----------------------------------------------------------------------------
\* Who owes and who may be debited after one request moved.
LEMMA SetsAfter ==
  ASSUME TypeOK, NEW h \in Handlers, NEW q, handler' = [handler EXCEPT ![h] = q]
  PROVE  /\ Owed' = IF q.pc \in {"saveFind", "saveWrite"} /\ ~q.isRefresh
                    THEN Owed \union {h} ELSE Owed \ {h}
         /\ MayDebit' = IF q.pc \in {"generate", "debit"} /\ ~q.isRefresh
                        THEN MayDebit \union {h} ELSE MayDebit \ {h}
  <1>1. handler'[h] = q /\ \A k \in Handlers : k # h => handler'[k] = handler[k]
    BY DEF TypeOK
  <1> QED BY <1>1 DEF Owed, MayDebit

\* Steps that debit nobody and answer nobody who owes: somebody new may be
\* debited only while nothing is stored, or at the price of a failure.
LEMMA CountKept ==
  ASSUME ReportInv, ReportInv', CountInv, NEW h \in Handlers,
         UNCHANGED <<row, debits, served, restarts>>, failures <= failures', Owed' = Owed,
         \/ MayDebit' \subseteq MayDebit
         \/ row = NoRow
         \/ MayDebit' = MayDebit \union {h} /\ failures' = failures + 1
  PROVE  CountInv'
  <1>0. /\ debits \in Nat /\ served \in Nat /\ restarts \in Nat
        /\ failures \in Nat /\ failures' \in Nat
    BY ReportAssumption DEF ReportAssumption, ReportInv, TypeOK
  <1>1. /\ MayDebit \in SUBSET Handlers /\ MayDebit' \in SUBSET Handlers
        /\ Cardinality(Owed) \in Nat /\ Cardinality(MayDebit) \in Nat /\ Cardinality(Handlers) \in Nat
    BY OwedAndMayDebit DEF MayDebit
  <1>2. Cardinality(MayDebit') \in Nat
    BY <1>1, Countable
  <1>3. DebitedIsServed' /\ (row' = NoRow => debits' <= Cardinality(Owed') + failures' + restarts')
    BY <1>0, <1>1 DEF CountInv, DebitedIsServed, PaidBeforeStored
  <1>4. ASSUME row # NoRow
        PROVE  debits + Cardinality(MayDebit') <= Cardinality(Handlers) + failures' + restarts
    <2>1. debits + Cardinality(MayDebit) <= Cardinality(Handlers) + failures + restarts
      BY <1>4 DEF CountInv, PaidBeforeStored
    <2>2. CASE MayDebit' \subseteq MayDebit
      <3>1. IsFiniteSet(MayDebit)
        BY <1>1, Countable
      <3>2. Cardinality(MayDebit') <= Cardinality(MayDebit)
        BY <2>2, <3>1, FS_Subset
      <3> QED BY <1>0, <1>1, <1>2, <2>1, <3>2
    <2>3. CASE MayDebit' = MayDebit \union {h} /\ failures' = failures + 1
      <3>1. Cardinality(MayDebit') <= Cardinality(MayDebit) + 1
        <4>1. CASE h \in MayDebit
          BY <1>1, <2>3, <4>1, MayDebit' = MayDebit
        <4>2. CASE h \notin MayDebit
          BY <1>1, <2>3, <4>2, Countable
        <4> QED BY <4>1, <4>2
      <3> QED BY <1>0, <1>1, <1>2, <2>1, <2>3, <3>1
    <2> QED BY <1>4, <2>2, <2>3
  <1> QED BY <1>3, <1>4 DEF CountInv, PaidBeforeStored

\* A debit: one who may be debited owes.
LEMMA DebitCount ==
  ASSUME ReportInv, CountInv, NEW h \in Handlers,
         h \in MayDebit, h \notin Owed, Owed' = Owed \union {h}, MayDebit' = MayDebit \ {h},
         UNCHANGED <<row, served, failures, restarts>>, debits' = debits + 1
  PROVE  CountInv'
  <1>0. debits \in Nat /\ served \in Nat /\ restarts \in Nat /\ failures \in Nat
    BY ReportAssumption DEF ReportAssumption, ReportInv, TypeOK
  <1>1. /\ Owed \in SUBSET Handlers /\ MayDebit \in SUBSET Handlers
        /\ Cardinality(Owed) \in Nat /\ Cardinality(MayDebit) \in Nat /\ Cardinality(Handlers) \in Nat
    BY OwedAndMayDebit
  <1>2. Cardinality(Owed') = Cardinality(Owed) + 1
    BY <1>1, Countable
  <1>3. Cardinality(MayDebit') = Cardinality(MayDebit) - 1
    BY <1>1, Countable
  <1> QED BY <1>0, <1>1, <1>2, <1>3 DEF CountInv, DebitedIsServed, PaidBeforeStored

\* The end of a save: the answer is served if it was owed, and either a report
\* is stored now or something failed.
LEMMA EndCount ==
  ASSUME ReportInv, ReportInv', CountInv, NEW h \in Handlers,
         handler[h].pc \in {"saveFind", "saveWrite"}, handler' = [handler EXCEPT ![h] = Idle],
         served' = IF handler[h].isRefresh THEN served ELSE served + 1,
         UNCHANGED <<debits, restarts>>, row # NoRow => row' # NoRow,
         \/ row' # NoRow /\ failures' = failures
         \/ failures' = failures + 1
  PROVE  CountInv'
  <1>0. /\ debits \in Nat /\ served \in Nat /\ restarts \in Nat
        /\ failures \in Nat /\ failures' \in Nat /\ failures <= failures'
    BY ReportAssumption DEF ReportAssumption, ReportInv, TypeOK
  <1>1. /\ Owed \in SUBSET Handlers
        /\ Cardinality(Owed) \in Nat /\ Cardinality(MayDebit) \in Nat /\ Cardinality(Handlers) \in Nat
        /\ Cardinality(Owed) + Cardinality(MayDebit) <= Cardinality(Handlers)
    BY OwedAndMayDebit
  <1>2. Owed' = Owed \ {h} /\ MayDebit' = MayDebit \ {h}
    BY SetsAfter DEF ReportInv, Idle
  <1>3. h \notin MayDebit /\ (h \in Owed <=> ~handler[h].isRefresh)
    BY DEF MayDebit, Owed
  <1>4. MayDebit' = MayDebit
    BY <1>2, <1>3
  <1>5. CASE handler[h].isRefresh
    <2>1. Owed' = Owed /\ row # NoRow /\ served' = served
      BY <1>2, <1>3, <1>5 DEF ReportInv, HandlerFits, Idle
    <2>2. DebitedIsServed'
      BY <1>0, <1>1, <2>1 DEF CountInv, DebitedIsServed
    <2>3. PaidBeforeStored'
      BY <1>0, <1>1, <1>4, <2>1 DEF CountInv, PaidBeforeStored
    <2> QED BY <2>2, <2>3 DEF CountInv
  <1>6. CASE ~handler[h].isRefresh
    <2>1. Cardinality(Owed') = Cardinality(Owed) - 1 /\ served' = served + 1
      BY <1>1, <1>2, <1>3, <1>6, Countable
    <2>2. DebitedIsServed'
      BY <1>0, <1>1, <2>1 DEF CountInv, DebitedIsServed
    <2>3. PaidBeforeStored'
      BY <1>0, <1>1, <1>4, <2>1 DEF CountInv, PaidBeforeStored
    <2> QED BY <2>2, <2>3 DEF CountInv
  <1> QED BY <1>5, <1>6

\* A restart cuts short everyone who owes.
LEMMA RestartCount ==
  ASSUME ReportInv, CountInv, Restart
  PROVE  CountInv'
  <1>0. /\ debits \in Nat /\ served \in Nat /\ restarts \in Nat /\ failures \in Nat
        /\ failures' = failures + 1 /\ UNCHANGED <<row, debits, served>>
        /\ restarts' = restarts + Cardinality(Busy)
    BY ReportAssumption, FailsType DEF ReportAssumption, ReportInv, TypeOK, Restart, Busy
  <1>1. Owed' = {} /\ MayDebit' = {}
    BY DEF Owed, MayDebit, Restart, Idle
  <1>2. Cardinality(Owed') = 0 /\ Cardinality(MayDebit') = 0
    BY <1>1, FS_EmptySet
  <1>3. Busy \in SUBSET Handlers /\ Owed \in SUBSET Busy
    BY DEF Busy, Owed, Idle
  <1>4. IsFiniteSet(Busy) /\ Cardinality(Busy) \in Nat
    BY <1>3, Countable
  <1>5. Cardinality(Owed) <= Cardinality(Busy)
    BY <1>3, <1>4, FS_Subset
  <1>6. Cardinality(Owed) \in Nat /\ Cardinality(MayDebit) \in Nat /\ Cardinality(Handlers) \in Nat
    BY OwedAndMayDebit
  <1> QED BY <1>0, <1>2, <1>4, <1>5, <1>6 DEF CountInv, DebitedIsServed, PaidBeforeStored
\* A request that may not be debited after its step lets the count be.
LEMMA QuietMove ==
  ASSUME ReportInv, ReportInv', CountInv, NEW h \in Handlers, NEW q,
         handler' = [handler EXCEPT ![h] = q], h \notin Owed,
         q.pc \notin {"saveFind", "saveWrite"} \/ q.isRefresh,
         UNCHANGED <<row, debits, served, restarts>>,
         failures' \in {failures, failures + 1},
         \/ h \in MayDebit
         \/ q.pc \notin {"generate", "debit"} \/ q.isRefresh
         \/ row = NoRow
         \/ failures' = failures + 1
  PROVE  CountInv'
  <1>0. failures \in Nat /\ failures <= failures'
    BY ReportAssumption DEF ReportAssumption, ReportInv, TypeOK
  <1>1. Owed' = Owed \ {h} /\ MayDebit' \in {MayDebit \union {h}, MayDebit \ {h}}
        /\ (q.pc \notin {"generate", "debit"} \/ q.isRefresh => MayDebit' = MayDebit \ {h})
    BY SetsAfter DEF ReportInv
  <1>2. Owed' = Owed
    BY <1>1
  <1>3. \/ MayDebit' \subseteq MayDebit
        \/ row = NoRow
        \/ MayDebit' = MayDebit \union {h} /\ failures' = failures + 1
    BY <1>1
  <1> QED BY <1>0, <1>2, <1>3, CountKept

\* Refusing or giving back a stored report owes nothing.
LEMMA QuietEnd ==
  ASSUME ReportInv, ReportInv', CountInv, NEW h \in Handlers, handler[h].pc \notin {"saveFind", "saveWrite"},
         handler' = [handler EXCEPT ![h] = Idle],
         UNCHANGED <<row, debits, served, restarts>>, failures' \in {failures, failures + 1}
  PROVE  CountInv'
  BY QuietMove DEF Idle, Owed

\* A miss may lead to a debit: nothing is stored, or the store failed.
LEMMA MissCount ==
  ASSUME ReportInv, ReportInv', CountInv, NEW h \in Handlers, At(h, "find"), Miss(h),
         UNCHANGED <<row, debits, restarts>>,
         (row = NoRow /\ failures' = failures) \/ failures' = failures + 1
  PROVE  CountInv'
  <1>0. handler[h] \in Requests /\ handler[h].pc = "find" /\ h \notin Owed
    BY AtWork DEF Steps, Owed
  <1>1. CASE Refuse(h)
    BY <1>0, <1>1, QuietEnd DEF Refuse, Set
  <1>2. CASE Goto(h, "generate") /\ UNCHANGED <<delivered, served>>
    <2>1. PICK q : q = [handler[h] EXCEPT !.pc = "generate"]
      OBVIOUS
    <2>2. q.pc = "generate"
      BY <1>0, <2>1 DEF Requests, Steps
    <2>3. handler' = [handler EXCEPT ![h] = q]
      BY <1>2, <2>1 DEF Goto
    <2> QED BY <1>0, <1>2, <2>2, <2>3, QuietMove
  <1> QED BY <1>1, <1>2 DEF Miss

\* Every step keeps the count of debits.
LEMMA CountStep ==
  ASSUME ReportInv, ReportInv', CountInv, [Next]_vars
  PROVE  CountInv'
  <1>1. ASSUME NEW h \in Handlers, NEW force \in BOOLEAN, Full(h, force) PROVE CountInv'
    <2>1. PICK q : q = [pc |-> "find", force |-> force, credits |-> balance, isRefresh |-> FALSE,
                        generatedAt |-> 0, token |-> 0, existing |-> NoRow]
      OBVIOUS
    <2>2. q.pc = "find" /\ handler' = [handler EXCEPT ![h] = q] /\ h \notin Owed
      BY <1>1, <2>1 DEF Full, Set, Owed, Idle
    <2>3. UNCHANGED <<row, debits, served, failures, restarts>>
      BY <1>1 DEF Full
    <2> QED BY <2>2, <2>3, QuietMove
  <1>2. ASSUME NEW h \in Handlers, Find(h) PROVE CountInv'
    <2>0. /\ handler[h] \in Requests /\ handler[h].pc = "find" /\ At(h, "find") /\ h \notin Owed
          /\ UNCHANGED <<row, debits, failures, restarts>>
      BY <1>2, AtWork DEF Find, Steps, Owed
    <2>1. CASE row = NoRow /\ Miss(h)
      BY <2>0, <2>1, MissCount
    <2>2. CASE /\ handler' = [handler EXCEPT ![h].pc = "generate", ![h].isRefresh = TRUE]
               /\ UNCHANGED <<delivered, served>>
      <3>1. PICK q : q = [handler[h] EXCEPT !.pc = "generate", !.isRefresh = TRUE]
        OBVIOUS
      <3>2. q.pc = "generate" /\ q.isRefresh
        BY <2>0, <3>1 DEF Requests, Steps
      <3>3. handler' = [handler EXCEPT ![h] = q]
        BY <2>2, <3>1 DEF ReportInv, TypeOK
      <3> QED BY <2>0, <2>2, <3>2, <3>3, QuietMove
    <2>3. CASE Answer(h, row.token) /\ UNCHANGED served
      BY <2>0, <2>3, QuietEnd DEF Answer, Set
    <2> QED BY <1>2, <2>1, <2>2, <2>3 DEF Find
  <1>3. ASSUME NEW h \in Handlers, FindFails(h) PROVE CountInv'
    BY <1>3, MissCount DEF FindFails, Fails
  <1>4. ASSUME NEW h \in Handlers, Generate(h) PROVE CountInv'
    <2>0. /\ handler[h] \in Requests /\ handler[h].pc = "generate" /\ h \notin Owed
          /\ UNCHANGED <<row, debits, restarts>>
      BY <1>4, AtWork DEF Generate, Steps, Owed
    <2> DEFINE next == IF handler[h].isRefresh THEN "saveFind" ELSE "debit"
    <2>1. CASE /\ handler' = [handler EXCEPT ![h].pc = next, ![h].generatedAt = now]
               /\ UNCHANGED <<failures, delivered, served>>
      <3>1. PICK q : q = [handler[h] EXCEPT !.pc = next, !.generatedAt = now]
        OBVIOUS
      <3>2. q.pc = next /\ q.isRefresh = handler[h].isRefresh
        BY <2>0, <3>1 DEF Requests, Steps
      <3>3. handler' = [handler EXCEPT ![h] = q]
        BY <2>1, <3>1 DEF ReportInv, TypeOK
      <3>4. q.pc \notin {"saveFind", "saveWrite"} \/ q.isRefresh
        BY <3>2
      <3>5. h \in MayDebit \/ q.isRefresh
        BY <2>0, <3>2 DEF MayDebit
      <3> HIDE DEF next
      <3> QED BY <2>0, <2>1, <3>3, <3>4, <3>5, QuietMove
    <2>2. CASE Fails /\ Refuse(h)
      BY <2>0, <2>2, QuietEnd DEF Fails, Refuse, Set
    <2> QED BY <1>4, <2>1, <2>2 DEF Generate
  <1>5. ASSUME NEW h \in Handlers, Debit(h) PROVE CountInv'
    <2>0. /\ handler[h] \in Requests /\ handler[h].pc = "debit" /\ ~handler[h].isRefresh
          /\ h \notin Owed /\ h \in MayDebit /\ UNCHANGED <<row, restarts>>
      BY <1>5, AtWork DEF Debit, Steps, Owed, MayDebit, HandlerFits
    <2>1. CASE /\ debits' = debits + 1
               /\ Goto(h, "saveFind")
               /\ UNCHANGED <<delivered, served, failures>>
      <3>1. PICK q : q = [handler[h] EXCEPT !.pc = "saveFind"]
        OBVIOUS
      <3>2. q.pc = "saveFind" /\ ~q.isRefresh
        BY <2>0, <3>1 DEF Requests, Steps
      <3>3. handler' = [handler EXCEPT ![h] = q]
        BY <2>1, <3>1 DEF Goto
      <3>4. Owed' = Owed \union {h} /\ MayDebit' = MayDebit \ {h}
        BY <3>2, <3>3, SetsAfter DEF ReportInv
      <3> QED BY <2>0, <2>1, <3>4, DebitCount
    <2>2. CASE Refuse(h) /\ debits' = debits /\ failures' \in {failures, failures + 1}
      BY <2>0, <2>2, QuietEnd DEF Refuse, Set
    <2> QED BY <1>5, <2>1, <2>2 DEF Debit, Fails
  <1>6. ASSUME NEW h \in Handlers, SaveFind(h) PROVE CountInv'
    <2>0. /\ handler[h] \in Requests /\ handler[h].pc = "saveFind"
          /\ UNCHANGED <<row, debits, restarts>>
      BY <1>6, AtWork DEF SaveFind, Steps
    <2>1. ASSUME NEW q, handler' = [handler EXCEPT ![h] = q], q.pc = "saveWrite",
                 q.isRefresh = handler[h].isRefresh, UNCHANGED <<served, failures>>
          PROVE  CountInv'
      <3>1. Owed' = Owed /\ MayDebit' \subseteq MayDebit
        BY <2>0, <2>1, SetsAfter DEF ReportInv, Owed
      <3>2. failures <= failures'
        BY <2>1, ReportAssumption DEF ReportAssumption, ReportInv, TypeOK
      <3> QED BY <2>0, <2>1, <3>1, <3>2, CountKept
    <2>2. CASE /\ handler' = [handler EXCEPT ![h].pc = "saveWrite", ![h].existing = row,
                                             ![h].token = row.token]
               /\ UNCHANGED <<issued, delivered, served, failures>>
      <3>1. PICK q : q = [handler[h] EXCEPT !.pc = "saveWrite", !.existing = row, !.token = row.token]
        OBVIOUS
      <3>2. q.pc = "saveWrite" /\ q.isRefresh = handler[h].isRefresh
        BY <2>0, <3>1 DEF Requests, Steps
      <3>3. handler' = [handler EXCEPT ![h] = q]
        BY <2>2, <3>1 DEF ReportInv, TypeOK
      <3> QED BY <2>1, <2>2, <3>2, <3>3
    <2>3. CASE /\ handler' = [handler EXCEPT ![h].pc = "saveWrite", ![h].token = issued + 1]
               /\ UNCHANGED <<delivered, served, failures>>
      <3>1. PICK q : q = [handler[h] EXCEPT !.pc = "saveWrite", !.token = issued + 1]
        OBVIOUS
      <3>2. q.pc = "saveWrite" /\ q.isRefresh = handler[h].isRefresh
        BY <2>0, <3>1 DEF Requests, Steps
      <3>3. handler' = [handler EXCEPT ![h] = q]
        BY <2>3, <3>1 DEF ReportInv, TypeOK
      <3> QED BY <2>1, <2>3, <3>2, <3>3
    <2>4. CASE Fails /\ Finish(h, 0)
      BY <2>0, <2>4, EndCount DEF Fails, Finish, Answer, Set
    <2> QED BY <1>6, <2>2, <2>3, <2>4 DEF SaveFind
  <1>7. ASSUME NEW h \in Handlers, SaveWrite(h) PROVE CountInv'
    <2>0. /\ handler[h].pc = "saveWrite" /\ At(h, "saveWrite")
          /\ UNCHANGED <<debits, restarts>> /\ Finish(h, handler[h].token)
      BY <1>7, AtWork DEF SaveWrite, Steps
    <2>1. handler' = [handler EXCEPT ![h] = Idle]
          /\ served' = IF handler[h].isRefresh THEN served ELSE served + 1
      BY <2>0 DEF Finish, Answer, Set
    <2>2. /\ row # NoRow => row' # NoRow
          /\ (row' # NoRow /\ failures' = failures) \/ failures' = failures + 1
      BY <1>7, <2>0, RowWritten, ReportAssumption DEF ReportAssumption, SaveWrite, Fails
    <2> QED BY <2>0, <2>1, <2>2, EndCount
  <1>8. CASE Restart
    BY <1>8, RestartCount
  <1>9. ASSUME UNCHANGED <<row, handler, debits, served, failures, restarts>> PROVE CountInv'
    BY <1>9 DEF CountInv, DebitedIsServed, PaidBeforeStored, Owed, MayDebit
  <1> QED
    BY <1>1, <1>2, <1>3, <1>4, <1>5, <1>6, <1>7, <1>8, <1>9
    DEF Next, Step, Tick, SpendElsewhere, vars

\* So both always hold.
LEMMA ReportInductive == Spec => [](ReportInv /\ CountInv)
  <1>1. Init => CountInv
    <2> SUFFICES ASSUME Init PROVE CountInv
      OBVIOUS
    <2>1. Cardinality(Owed) \in Nat
      BY OwedAndMayDebit
    <2> QED BY <2>1 DEF Init, CountInv, DebitedIsServed, PaidBeforeStored
  <1>2. ReportInv /\ CountInv /\ [Next]_vars => ReportInv' /\ CountInv'
    BY ReportStep, CountStep
  <1> QED BY ReportInit, <1>1, <1>2, PTL DEF Spec

----------------------------------------------------------------------------
\* Whoever is debited is answered with the report, unless a restart comes in
\* between (brand-report.controller.ts, generation before the debit).
THEOREM NoDebitForNothing == Spec => []DebitedIsServed
  <1>1. CountInv => DebitedIsServed
    BY DEF CountInv
  <1> QED BY ReportInductive, <1>1, PTL

\* A report is paid once, and once more at most for each request that
\* overlapped and each failure, however often it is asked for.
THEOREM PaidOnce == Spec => []PaidOncePerOverlap
  <1>1. ReportInv /\ CountInv => PaidOncePerOverlap
    <2> SUFFICES ASSUME ReportInv, CountInv PROVE PaidOncePerOverlap
      OBVIOUS
    <2>1. debits \in Nat /\ failures \in Nat /\ restarts \in Nat
      BY ReportAssumption DEF ReportAssumption, ReportInv, TypeOK
    <2>2. /\ Cardinality(Owed) \in Nat /\ Cardinality(MayDebit) \in Nat /\ Cardinality(Handlers) \in Nat
          /\ Cardinality(Owed) + Cardinality(MayDebit) <= Cardinality(Handlers)
      BY OwedAndMayDebit
    <2> QED BY <2>1, <2>2 DEF CountInv, PaidBeforeStored, PaidOncePerOverlap
  <1> QED BY ReportInductive, <1>1, PTL

\* A stored report was paid and keeps its cost, whoever refreshes it.
THEOREM CostKept == Spec => []CostIsKept
  <1>1. ReportInv => CostIsKept
    BY DEF ReportInv
  <1> QED BY ReportInductive, <1>1, PTL

\* No step changes the token of the stored report.
LEMMA TokenKept ==
  ASSUME ReportInv, Next, row # NoRow
  PROVE  row' # NoRow /\ row'.token = row.token
  <1>1. ASSUME NEW h \in Handlers, SaveWrite(h)
        PROVE  row' # NoRow /\ row'.token = row.token
    BY <1>1, RowWritten, ReportAssumption DEF ReportAssumption, SaveWrite
  <1>2. CASE UNCHANGED row
    BY <1>2
  <1> QED
    BY <1>1, <1>2
    DEF Next, Step, Full, Find, FindFails, Generate, Debit, SaveFind, Restart, Tick, SpendElsewhere

\* The tokens noted as unsaved stay noted.
LEMMA UnsavedGrows ==
  ASSUME Next
  PROVE  unsaved \subseteq unsaved'
  BY DEF Next, Step, Full, Find, FindFails, Generate, Debit, SaveFind, SaveWrite, Unsave, Restart,
         Tick, SpendElsewhere

\* A token someone receives for the first time is none, or the stored one, or
\* one whose INSERT did not happen.
LEMMA TokenReceived ==
  ASSUME ReportInv, Next, NEW token \in delivered' \ delivered, token # 0
  PROVE  token \in unsaved' \/ (row' # NoRow /\ row'.token = token)
  <1>1. CASE UNCHANGED delivered
    BY <1>1
  <1>2. ASSUME NEW h \in Handlers, Find(h)
        PROVE  row' # NoRow /\ row'.token = token
    BY <1>2, <1>1 DEF Find, Miss, Refuse, Answer
  <1>3. ASSUME NEW h \in Handlers, SaveFind(h)
        PROVE  FALSE
    BY <1>3, <1>1 DEF SaveFind, Finish, Answer
  <1>4. ASSUME NEW h \in Handlers, SaveWrite(h)
        PROVE  token \in unsaved' \/ (row' # NoRow /\ row'.token = token)
    <2>1. token = handler[h].token /\ At(h, "saveWrite")
      BY <1>4 DEF SaveWrite, Finish, Answer
    <2>2. CASE handler[h].existing # NoRow
      <3>1. row # NoRow /\ row.token = token
        BY <2>1, <2>2, AtWork DEF HandlerFits, Steps
      <3> QED BY <3>1, TokenKept
    <2>3. CASE handler[h].existing = NoRow
      <3>1. row' \in Rows => row' # NoRow
        BY ReportAssumption DEF ReportAssumption
      <3>2. CASE /\ row = NoRow
                 /\ row' = [token |-> handler[h].token, generatedAt |-> handler[h].generatedAt,
                            costCredits |-> CostWritten(h)]
        BY <2>1, <3>1, <3>2, RowWritten
      <3>3. CASE unsaved' = unsaved \union {handler[h].token}
        BY <2>1, <3>3
      <3> QED BY <1>4, <2>3, <3>2, <3>3 DEF SaveWrite, Unsave
    <2> QED BY <2>2, <2>3
  <1>5. ASSUME NEW h \in Handlers, FindFails(h) \/ Generate(h) \/ Debit(h) \/ \E force \in BOOLEAN : Full(h, force)
        PROVE  UNCHANGED delivered
    BY <1>5 DEF FindFails, Miss, Refuse, Generate, Debit, Full
  <1> QED
    BY <1>1, <1>2, <1>3, <1>4, <1>5 DEF Next, Step, Restart, Tick, SpendElsewhere

\* The link of a report someone received goes on opening the stored one, but
\* for the reports whose own INSERT was refused or failed.
THEOREM ReturnedTokens == Spec => []ReturnedTokenOpens
  <1>1. Init => ReturnedTokenOpens
    BY DEF Init, ReturnedTokenOpens
  <1>2. ReportInv /\ ReturnedTokenOpens /\ [Next]_vars => ReturnedTokenOpens'
    <2> SUFFICES ASSUME ReportInv, ReturnedTokenOpens, [Next]_vars, NEW token \in delivered' \ {0}
                 PROVE  token \in unsaved' \/ (row' # NoRow /\ row'.token = token)
      BY DEF ReturnedTokenOpens
    <2>1. CASE UNCHANGED vars
      BY <2>1 DEF vars, ReturnedTokenOpens
    <2>2. CASE Next /\ token \in delivered
      BY <2>2, TokenKept, UnsavedGrows DEF ReturnedTokenOpens
    <2>3. CASE Next /\ token \notin delivered
      BY <2>3, TokenReceived
    <2> QED BY <2>1, <2>2, <2>3
  <1> QED BY ReportInductive, <1>1, <1>2, PTL DEF Spec

----------------------------------------------------------------------------
(* The page of the report. *)

\* One purchase is awaited at a time, and what a retry repeats is known: an error, or a
\* purchase awaited, has a name.
Remembered ==
  /\ Awaited # {} => loading
  /\ \A i, j \in Awaited : i = j
  /\ loading \/ page.brandReportError => lastName \in Names

DialogTypeInv == DialogTypeOK /\ Remembered

\* The cases of syncReportFromUrl exclude one another.
LEMMA SyncIs ==
  ASSUME NEW p, NEW url \in Addresses
  PROVE  /\ url = None => SyncReportFromUrl(p, url) =
              [p EXCEPT !.reportUrlPushed = FALSE, !.preloadedReportName = None,
                        !.showReportDialog = FALSE]
         /\ url = SAMPLE_PARAM => SyncReportFromUrl(p, url) =
              [p EXCEPT !.brandReportName = SAMPLE_NAME, !.brandReport = SAMPLE_NAME,
                        !.brandReportError = FALSE, !.showReportDialog = TRUE]
         /\ url \in Names /\ p.preloadedReportName = url => SyncReportFromUrl(p, url) =
              [p EXCEPT !.preloadedReportName = None, !.showReportDialog = TRUE]
         /\ Loads(p, url) => SyncReportFromUrl(p, url) = LoadReportInto(p, url)
         /\ url \in Names /\ p.preloadedReportName # url /\ ~Loads(p, url) =>
              SyncReportFromUrl(p, url) = p
PROOF
  <1>1. CASE url = None
    BY <1>1, DialogAssumption DEF SyncReportFromUrl, Loads
  <1>2. CASE url = SAMPLE_PARAM
    BY <1>2, DialogAssumption DEF SyncReportFromUrl, Loads
  <1>3. CASE url \in Names
    <2>1. url # None /\ url # SAMPLE_PARAM
      BY <1>3, DialogAssumption
    <2>2. CASE p.preloadedReportName = url
      <3>1. ~Loads(p, url)
        BY <2>2 DEF Loads
      <3>2. QED
        BY <1>3, <2>1, <2>2, <3>1 DEF SyncReportFromUrl
    <2>3. CASE p.preloadedReportName # url
      <3> HIDE DEF Loads, LoadReportInto
      <3>1. CASE Loads(p, url)
        BY <1>3, <2>1, <2>3, <3>1 DEF SyncReportFromUrl
      <3>2. CASE ~Loads(p, url)
        BY <1>3, <2>1, <2>3, <3>2 DEF SyncReportFromUrl
      <3>3. QED
        BY <3>1, <3>2
    <2>4. QED
      BY <2>2, <2>3
  <1>4. QED
    BY <1>1, <1>2, <1>3 DEF Addresses

LEMMA SyncTyped ==
  ASSUME NEW p \in Pages, NEW url \in Addresses
  PROVE  /\ SyncReportFromUrl(p, url) \in Pages
         /\ SyncReportFromUrl(p, url).reportUrlPushed => p.reportUrlPushed /\ url # None
         /\ p.reportUrlPushed /\ url # None => SyncReportFromUrl(p, url).reportUrlPushed
         /\ SyncReportFromUrl(p, url).brandReportError => p.brandReportError
PROOF
  <1> DEFINE q == SyncReportFromUrl(p, url)
  <1>a. p \in [brandReportName : Names \union {None}, brandReport : Names \union {None},
               showReportDialog : BOOLEAN, preloadedReportName : Names \union {None},
               reportUrlPushed : BOOLEAN, brandReportError : BOOLEAN]
    BY DEF Pages
  <1>1. CASE url = None
    <2>1. q = [p EXCEPT !.reportUrlPushed = FALSE, !.preloadedReportName = None,
                        !.showReportDialog = FALSE]
      BY <1>1, SyncIs
    <2> HIDE DEF q
    <2>2. /\ q \in Pages
          /\ q.reportUrlPushed => p.reportUrlPushed /\ url # None
          /\ p.reportUrlPushed /\ url # None => q.reportUrlPushed
          /\ q.brandReportError => p.brandReportError
      BY <1>a, <1>1, <2>1 DEF Pages, Addresses
    <2>3. QED
      BY <2>2 DEF q
  <1>2. CASE url = SAMPLE_PARAM
    <2>1. q = [p EXCEPT !.brandReportName = SAMPLE_NAME, !.brandReport = SAMPLE_NAME,
                        !.brandReportError = FALSE, !.showReportDialog = TRUE]
      BY <1>2, SyncIs
    <2> HIDE DEF q
    <2>2. /\ q \in Pages
          /\ q.reportUrlPushed => p.reportUrlPushed /\ url # None
          /\ p.reportUrlPushed /\ url # None => q.reportUrlPushed
          /\ q.brandReportError => p.brandReportError
      BY <1>a, <1>2, <2>1, DialogAssumption DEF Pages, Addresses
    <2>3. QED
      BY <2>2 DEF q
  <1>3. CASE url \in Names /\ p.preloadedReportName = url
    <2>1. q = [p EXCEPT !.preloadedReportName = None, !.showReportDialog = TRUE]
      BY <1>3, SyncIs
    <2> HIDE DEF q
    <2>2. /\ q \in Pages
          /\ q.reportUrlPushed => p.reportUrlPushed /\ url # None
          /\ p.reportUrlPushed /\ url # None => q.reportUrlPushed
          /\ q.brandReportError => p.brandReportError
      BY <1>a, <1>3, <2>1, DialogAssumption DEF Pages, Addresses
    <2>3. QED
      BY <2>2 DEF q
  <1>4. CASE Loads(p, url)
    <2>1. q = [p EXCEPT !.brandReportName = url, !.brandReport = None, !.brandReportError = FALSE]
      BY <1>4, SyncIs DEF LoadReportInto
    <2>2. url \in Names
      BY <1>4 DEF Loads
    <2> HIDE DEF q
    <2>3. /\ q \in Pages
          /\ q.reportUrlPushed => p.reportUrlPushed /\ url # None
          /\ p.reportUrlPushed /\ url # None => q.reportUrlPushed
          /\ q.brandReportError => p.brandReportError
      BY <1>a, <1>4, <2>1, <2>2, DialogAssumption DEF Pages, Addresses
    <2>4. QED
      BY <2>3 DEF q
  <1>5. CASE url \in Names /\ p.preloadedReportName # url /\ ~Loads(p, url)
    <2>1. q = p
      BY <1>5, SyncIs
    <2>2. p.showReportDialog /\ p.brandReportName = url
      BY <1>5 DEF Loads
    <2> HIDE DEF q
    <2>3. /\ q \in Pages
          /\ q.reportUrlPushed => p.reportUrlPushed /\ url # None
          /\ p.reportUrlPushed /\ url # None => q.reportUrlPushed
          /\ q.brandReportError => p.brandReportError
      BY <1>a, <1>5, <2>1, <2>2, DialogAssumption DEF Pages, Addresses
    <2>4. QED
      BY <2>3 DEF q
  <1>6. QED
    BY <1>1, <1>2, <1>3, <1>4, <1>5 DEF Addresses, Loads

\* What a page shows is of one name.
OneName(p) == p.brandReport # None => p.brandReport = p.brandReportName

\* What the page is at an address the router has just come to.
LEMMA SyncNames ==
  ASSUME NEW p \in Pages, NEW url \in Addresses, OneName(p),
         p.preloadedReportName # None => p.preloadedReportName = p.brandReportName
  PROVE  /\ OneName(SyncReportFromUrl(p, url))
         /\ url # None => SyncReportFromUrl(p, url).brandReportName = NameAt(url)
         /\ url # None /\ ~SyncReportFromUrl(p, url).showReportDialog => Loads(p, url)
PROOF
  <1> DEFINE q == SyncReportFromUrl(p, url)
  <1>a. p \in [brandReportName : Names \union {None}, brandReport : Names \union {None},
               showReportDialog : BOOLEAN, preloadedReportName : Names \union {None},
               reportUrlPushed : BOOLEAN, brandReportError : BOOLEAN]
    BY DEF Pages
  <1>1. CASE url = None
    <2>1. q = [p EXCEPT !.reportUrlPushed = FALSE, !.preloadedReportName = None,
                        !.showReportDialog = FALSE]
      BY <1>1, SyncIs
    <2> HIDE DEF q
    <2>2. /\ OneName(q)
          /\ url # None => q.brandReportName = NameAt(url)
          /\ url # None /\ ~q.showReportDialog => Loads(p, url)
      BY <1>a, <1>1, <2>1 DEF OneName
    <2>3. QED
      BY <2>2 DEF q
  <1>2. CASE url = SAMPLE_PARAM
    <2>1. q = [p EXCEPT !.brandReportName = SAMPLE_NAME, !.brandReport = SAMPLE_NAME,
                        !.brandReportError = FALSE, !.showReportDialog = TRUE]
      BY <1>2, SyncIs
    <2> HIDE DEF q
    <2>2. /\ OneName(q)
          /\ url # None => q.brandReportName = NameAt(url)
          /\ url # None /\ ~q.showReportDialog => Loads(p, url)
      BY <1>a, <1>2, <2>1, DialogAssumption DEF OneName, NameAt
    <2>3. QED
      BY <2>2 DEF q
  <1>3. CASE url \in Names /\ p.preloadedReportName = url
    <2>1. q = [p EXCEPT !.preloadedReportName = None, !.showReportDialog = TRUE]
      BY <1>3, SyncIs
    <2> HIDE DEF q
    <2>2. /\ OneName(q)
          /\ url # None => q.brandReportName = NameAt(url)
          /\ url # None /\ ~q.showReportDialog => Loads(p, url)
      BY <1>a, <1>3, <2>1, DialogAssumption DEF OneName, NameAt
    <2>3. QED
      BY <2>2 DEF q
  <1>4. CASE Loads(p, url)
    <2>1. q = [p EXCEPT !.brandReportName = url, !.brandReport = None, !.brandReportError = FALSE]
      BY <1>4, SyncIs DEF LoadReportInto
    <2>2. url \in Names
      BY <1>4 DEF Loads
    <2> HIDE DEF q
    <2>3. /\ OneName(q)
          /\ url # None => q.brandReportName = NameAt(url)
          /\ url # None /\ ~q.showReportDialog => Loads(p, url)
      BY <1>a, <1>4, <2>1, <2>2, DialogAssumption DEF OneName, NameAt
    <2>4. QED
      BY <2>3 DEF q
  <1>5. CASE url \in Names /\ p.preloadedReportName # url /\ ~Loads(p, url)
    <2>1. q = p
      BY <1>5, SyncIs
    <2>2. p.showReportDialog /\ p.brandReportName = NameAt(url)
      BY <1>5, DialogAssumption DEF Loads, NameAt
    <2> HIDE DEF q
    <2>3. /\ OneName(q)
          /\ url # None => q.brandReportName = NameAt(url)
          /\ url # None /\ ~q.showReportDialog => Loads(p, url)
      BY <1>a, <1>5, <2>1, <2>2, DialogAssumption DEF OneName, NameAt
    <2>4. QED
      BY <2>3 DEF q
  <1>6. QED
    BY <1>1, <1>2, <1>3, <1>4, <1>5 DEF Addresses, Loads

\* An answer that is awaited is counted.
Answering(answered) == answered \in Asks => asks[answered] > 0

LEMMA ArriveTyped ==
  ASSUME asks \in [Asks -> Nat], NEW p \in Pages, NEW url \in Addresses,
         NEW answered, Answering(answered), Arrive(p, url, answered)
  PROVE  /\ page' \in Pages /\ asks' \in [Asks -> Nat]
         /\ page'.reportUrlPushed => p.reportUrlPushed /\ url # None
         /\ p.reportUrlPushed /\ url # None => page'.reportUrlPushed
         /\ page'.brandReportError => p.brandReportError
PROOF
  <1>1. page' = SyncReportFromUrl(p, url)
    BY DEF Arrive
  <1>2. asks' \in [Asks -> Nat]
    <2> SUFFICES ASSUME NEW a \in Asks
                 PROVE  asks[a] - (IF a = answered THEN 1 ELSE 0)
                           + (IF Loads(p, url) /\ a = <<"into", url>> THEN 1 ELSE 0) \in Nat
      BY DEF Arrive
    <2>1. asks[a] \in Nat
      OBVIOUS
    <2>2. CASE a = answered
      BY <2>1, <2>2 DEF Answering
    <2>3. CASE a # answered
      BY <2>1, <2>3
    <2>4. QED
      BY <2>2, <2>3
  <1>3. QED
    BY <1>1, <1>2, SyncTyped

LEMMA PushTyped ==
  ASSUME DialogTypeOK, OnSite, NEW p \in Pages, NEW url \in Names \union {SAMPLE_PARAM},
         NEW answered, Answering(answered), PushReportUrl(p, url, answered)
  PROVE  /\ page' \in Pages /\ page'.reportUrlPushed /\ asks' \in [Asks -> Nat]
         /\ history' \in Seq(Addresses) /\ pos' \in 1..Len(history')
         /\ history'[pos'] = url /\ history'[1] = history[1]
         /\ IF url = Url THEN pos' = pos ELSE pos' = pos + 1
         /\ page'.brandReportError => p.brandReportError
PROOF
  <1> DEFINE q == [p EXCEPT !.reportUrlPushed = TRUE]
  <1>1. /\ q \in Pages /\ q.reportUrlPushed /\ q.brandReportError = p.brandReportError
        /\ url \in Addresses /\ url # None
    BY DialogAssumption DEF Pages, Addresses
  <1>2. /\ history \in Seq(Addresses) /\ pos \in 1..Len(history) /\ asks \in [Asks -> Nat]
    BY DEF DialogTypeOK, OnSite
  <1>3. CASE url = Url
    <2>1. /\ page' = q /\ history' = history /\ pos' = pos
          /\ asks' = [a \in Asks |-> asks[a] - (IF a = answered THEN 1 ELSE 0)]
      BY <1>3 DEF PushReportUrl
    <2>2. asks' \in [Asks -> Nat]
      <3> SUFFICES ASSUME NEW a \in Asks
                   PROVE  asks[a] - (IF a = answered THEN 1 ELSE 0) \in Nat
        BY <2>1
      <3>1. asks[a] \in Nat
        BY <1>2
      <3>2. QED
        BY <3>1 DEF Answering
    <2> HIDE DEF q
    <2>3. QED
      BY <1>1, <1>2, <1>3, <2>1, <2>2 DEF Url
  <1>4. CASE url # Url
    <2>1. /\ history' = Append(SubSeq(history, 1, pos), url) /\ pos' = pos + 1
          /\ Arrive(q, url, answered)
      BY <1>4 DEF PushReportUrl
    <2> HIDE DEF q
    <2>2. /\ page' \in Pages /\ asks' \in [Asks -> Nat] /\ page'.reportUrlPushed
          /\ page'.brandReportError => p.brandReportError
      BY <1>1, <1>2, <2>1, ArriveTyped
    <2>3. /\ SubSeq(history, 1, pos) \in Seq(Addresses) /\ Len(SubSeq(history, 1, pos)) = pos
          /\ SubSeq(history, 1, pos)[1] = history[1]
      BY <1>2
    <2>4. /\ history' \in Seq(Addresses) /\ Len(history') = pos + 1 /\ history'[pos + 1] = url
          /\ history'[1] = history[1]
      BY <1>1, <1>2, <2>1, <2>3
    <2>5. QED
      BY <1>2, <1>4, <2>1, <2>2, <2>4
  <1>5. QED
    BY <1>3, <1>4

----------------------------------------------------------------------------
(* The types. *)

LEMMA SiteTyped == ASSUME DialogTypeOK, OnSite PROVE Url \in Addresses /\ pos \in 1..Len(history)
PROOF BY DEF DialogTypeOK, OnSite, Url

LEMMA CallTyped == ASSUME DialogTypeOK, NEW i \in DOMAIN calls
                   PROVE  calls[i] \in Calls /\ calls[i].name \in Names
PROOF
  <1>1. calls \in Seq(Calls)
    BY DEF DialogTypeOK
  <1>2. calls[i] \in Calls
    BY <1>1
  <1>3. QED
    BY <1>2 DEF Calls

\* A purchase, with another stage or no longer awaited.
LEMMA CallChanged ==
  ASSUME DialogTypeOK, NEW i \in DOMAIN calls, NEW c \in Calls, calls' = [calls EXCEPT ![i] = c]
  PROVE  /\ calls' \in Seq(Calls) /\ DOMAIN calls' = DOMAIN calls /\ calls'[i] = c
         /\ \A j \in DOMAIN calls : j # i => calls'[j] = calls[j]
PROOF
  <1>1. calls \in Seq(Calls)
    BY DEF DialogTypeOK
  <1>2. QED
    BY <1>1

\* The server goes on with a purchase.
LEMMA StageChanged ==
  ASSUME DialogTypeOK, NEW i \in DOMAIN calls, NEW st \in Stages, calls' = [calls EXCEPT ![i].stage = st]
  PROVE  /\ calls' \in Seq(Calls) /\ DOMAIN calls' = DOMAIN calls /\ Awaited' = Awaited
         /\ calls'[i].stage = st /\ \A j \in DOMAIN calls : j # i => calls'[j] = calls[j]
         /\ \A j \in DOMAIN calls : calls'[j].name = calls[j].name /\ calls'[j].awaited = calls[j].awaited
PROOF
  <1> DEFINE c == [calls[i] EXCEPT !.stage = st]
  <1>1. calls[i] \in Calls
    BY CallTyped
  <1>2. c \in Calls /\ c.stage = st /\ c.name = calls[i].name /\ c.awaited = calls[i].awaited
    BY <1>1 DEF Calls
  <1>3. calls' = [calls EXCEPT ![i] = c]
    OBVIOUS
  <1> HIDE DEF c
  <1>4. /\ calls' \in Seq(Calls) /\ DOMAIN calls' = DOMAIN calls /\ calls'[i] = c
        /\ \A j \in DOMAIN calls : j # i => calls'[j] = calls[j]
    BY <1>2, <1>3, CallChanged
  <1>5. QED
    BY <1>2, <1>4 DEF Awaited

\* The client stops waiting for the one purchase it waited for.
LEMMA NoLongerAwaited ==
  ASSUME DialogTypeInv, NEW i \in Awaited, calls' = [calls EXCEPT ![i].awaited = FALSE]
  PROVE  /\ calls' \in Seq(Calls) /\ DOMAIN calls' = DOMAIN calls /\ Awaited' = {}
         /\ \A j \in DOMAIN calls : calls'[j].name = calls[j].name /\ calls'[j].stage = calls[j].stage
         /\ \A j \in DOMAIN calls : j # i => calls'[j] = calls[j]
PROOF
  <1>0. DialogTypeOK /\ i \in DOMAIN calls /\ \A j \in Awaited : j = i
    BY DEF DialogTypeInv, Remembered, Awaited
  <1> DEFINE c == [calls[i] EXCEPT !.awaited = FALSE]
  <1>1. calls[i] \in Calls
    BY <1>0, CallTyped
  <1>2. c \in Calls /\ ~c.awaited /\ c.name = calls[i].name /\ c.stage = calls[i].stage
    BY <1>1 DEF Calls
  <1>3. calls' = [calls EXCEPT ![i] = c]
    OBVIOUS
  <1> HIDE DEF c
  <1>4. /\ calls' \in Seq(Calls) /\ DOMAIN calls' = DOMAIN calls /\ calls'[i] = c
        /\ \A j \in DOMAIN calls : j # i => calls'[j] = calls[j]
    BY <1>0, <1>2, <1>3, CallChanged
  <1>5. QED
    BY <1>0, <1>2, <1>4 DEF Awaited

\* A purchase asked for, or skipped.
LEMMA GenerateTyped ==
  ASSUME DialogTypeInv, NEW name \in Names, GenerateBrandReport(name)
  PROVE  /\ loading' = TRUE /\ lastName' \in Names /\ calls' \in Seq(Calls)
         /\ Remembered'
         /\ Generating(page) \in Pages
         /\ Generating(page).reportUrlPushed = page.reportUrlPushed
PROOF
  <1>1. /\ calls \in Seq(Calls) /\ page \in Pages /\ loading \in BOOLEAN
        /\ loading => lastName \in Names
    BY DEF DialogTypeInv, DialogTypeOK, Remembered
  <1>2. /\ Generating(page) \in Pages
        /\ Generating(page).reportUrlPushed = page.reportUrlPushed
    BY <1>1 DEF Generating, Pages, Addresses
  <1>3. CASE loading
    <2>1. UNCHANGED <<loading, lastName, calls>>
      BY <1>3 DEF GenerateBrandReport
    <2>2. Remembered'
      BY <1>1, <1>3, <2>1 DEF DialogTypeInv, Remembered, Awaited
    <2>3. QED
      BY <1>1, <1>2, <1>3, <2>1, <2>2
  <1>4. CASE ~loading
    <2> DEFINE c == [name |-> name, stage |-> "sent", awaited |-> TRUE]
    <2>1. loading' = TRUE /\ lastName' = name /\ calls' = Append(calls, c)
      BY <1>4 DEF GenerateBrandReport
    <2>2. c \in Calls
      BY DEF Calls, Stages
    <2> HIDE DEF c
    <2>3. /\ calls' \in Seq(Calls) /\ DOMAIN calls' = DOMAIN calls \union {Len(calls) + 1}
          /\ \A i \in DOMAIN calls : calls'[i] = calls[i]
      BY <1>1, <2>1, <2>2
    <2>4. Awaited = {}
      BY <1>4 DEF DialogTypeInv, Remembered
    <2>5. Awaited' \subseteq {Len(calls) + 1}
      BY <2>3, <2>4 DEF Awaited
    <2>6. QED
      BY <1>2, <2>1, <2>3, <2>5 DEF Remembered
  <1>5. QED
    BY <1>1, <1>3, <1>4

\* Another entry of the tab.
LEMMA TravelTyped ==
  ASSUME DialogTypeInv, OnSite, NEW to \in DOMAIN history, Travel(to)
  PROVE  /\ page' \in Pages /\ asks' \in [Asks -> Nat]
         /\ page'.reportUrlPushed => page.reportUrlPushed /\ (history[to] # None \/ history[to] = Url)
         /\ page'.brandReportError => page.brandReportError
         /\ pos' = to /\ pos' \in 1..Len(history)
PROOF
  <1>1. /\ history[to] \in Addresses /\ page \in Pages /\ asks \in [Asks -> Nat]
        /\ to \in 1..Len(history)
    BY DEF DialogTypeInv, DialogTypeOK
  <1>2. pos' = to
    BY DEF Travel
  <1>3. CASE history[to] = Url
    BY <1>1, <1>2, <1>3 DEF Travel
  <1>4. CASE history[to] # Url
    <2>1. Arrive(page, history[to], Nobody)
      BY <1>4 DEF Travel
    <2>2. Answering(Nobody)
      BY DialogAssumption DEF Answering, Nobody, Asks
    <2>3. QED
      BY <1>1, <1>2, <2>1, <2>2, ArriveTyped
  <1>5. QED
    BY <1>3, <1>4

LEMMA GestureTyped == ASSUME DialogTypeOK, Gesture PROVE gestures' \in 0..MaxGestures /\ OnSite
PROOF BY DialogAssumption DEF DialogTypeOK, Gesture

LEMMA NobodyAnswers == Answering(Nobody) /\ \A url : Nobody # <<"into", url>> \/ url = None
PROOF BY DialogAssumption DEF Answering, Nobody, Asks

\* Where neither a purchase nor an error comes up, what a retry repeats stays known.
LEMMA StillRemembered ==
  ASSUME DialogTypeInv, UNCHANGED <<loading, lastName, calls>>,
         page'.brandReportError => page.brandReportError
  PROVE  Remembered'
PROOF BY DEF DialogTypeInv, Remembered, Awaited

\* A step leaves the marks of the history as truth values.
LEMMA NoteTyped == ASSUME DialogTypeOK, Note
                   PROVE  strayed' \in BOOLEAN /\ misjudged' \in BOOLEAN
PROOF BY DEF DialogTypeOK, Note, Strays, Misjudges, AtTheBottom, PushesNothing, KeepsThePush

LEMMA DialogTypeStep == DialogTypeInv /\ [DialogNext]_dialogVars => DialogTypeInv'
PROOF
  <1> SUFFICES ASSUME DialogTypeInv, [DialogNext]_dialogVars PROVE DialogTypeInv'
    OBVIOUS
  <1>0. DialogTypeOK
    BY DEF DialogTypeInv
  <1>1. ASSUME NEW name \in Names, OpenFullReport(name) PROVE DialogTypeInv'
    <2>1. OnSite /\ gestures' \in 0..MaxGestures /\ PushReportUrl(page, name, Nobody)
      BY <1>0, <1>1, GestureTyped DEF OpenFullReport
    <2>2. /\ page' \in Pages /\ asks' \in [Asks -> Nat] /\ history' \in Seq(Addresses)
          /\ pos' \in 1..Len(history') /\ (page'.brandReportError => page.brandReportError)
      BY <1>0, <2>1, PushTyped, NobodyAnswers DEF DialogTypeOK
    <2>3. Remembered'
      BY <1>1, <2>2, StillRemembered DEF OpenFullReport
    <2>4. QED
      BY <1>0, <1>1, <2>1, <2>2, <2>3, NoteTyped DEF DialogTypeInv, DialogTypeOK, OpenFullReport, serverVars
  <1>2. ASSUME NEW name \in Names, AskBrandReport(name) PROVE DialogTypeInv'
    <2>1. page' \in Pages /\ ~page'.brandReportError
      BY <1>0, <1>2 DEF AskBrandReport, LoadReportInto, DialogTypeOK, Pages, Addresses
    <2>2. asks' \in [Asks -> Nat] /\ gestures' \in 0..MaxGestures
      BY <1>0, <1>2, GestureTyped DEF AskBrandReport, DialogTypeOK, Asks
    <2>3. Remembered'
      BY <1>2, <2>1, StillRemembered DEF AskBrandReport
    <2>4. QED
      BY <1>0, <1>2, <2>1, <2>2, <2>3, NoteTyped DEF DialogTypeInv, DialogTypeOK, AskBrandReport, serverVars, addressVars
  <1>3. ASSUME NEW name \in Names, IntoAnswered(name) PROVE DialogTypeInv'
    <2>1. page' \in Pages /\ (page'.brandReportError => page.brandReportError)
      BY <1>0, <1>3 DEF IntoAnswered, DialogTypeOK, Pages, Addresses
    <2>2. asks' \in [Asks -> Nat]
      BY <1>0, <1>3 DEF IntoAnswered, DialogTypeOK, Asks
    <2>3. Remembered'
      BY <1>3, <2>1, StillRemembered DEF IntoAnswered
    <2>4. QED
      BY <1>0, <1>3, <2>1, <2>2, <2>3, NoteTyped DEF DialogTypeInv, DialogTypeOK, IntoAnswered, serverVars, addressVars
  <1>4. ASSUME NEW name \in Names, AskAnswered(name) PROVE DialogTypeInv'
    <2> DEFINE a == <<"ask", name>>
    <2>0. /\ a \in Asks /\ asks[a] > 0 /\ OnSite
          /\ UNCHANGED <<popping, loading, lastName, popup, credits, calls, serverVars, givenUp, gestures>>
          /\ Note
      BY <1>4 DEF AskAnswered, Asks
    <2>1. CASE /\ ShowReport([page EXCEPT !.brandReport = name], name, a)
               /\ UNCHANGED confirm
      <3> DEFINE p == [[page EXCEPT !.brandReport = name] EXCEPT !.preloadedReportName = name]
      <3>1. /\ PushReportUrl(p, name, a)
            /\ p \in Pages /\ p.brandReportError = page.brandReportError
        BY <1>0, <2>1 DEF ShowReport, DialogTypeOK, Pages, Addresses
      <3> HIDE DEF p
      <3>2. /\ page' \in Pages /\ asks' \in [Asks -> Nat] /\ history' \in Seq(Addresses)
            /\ pos' \in 1..Len(history') /\ (page'.brandReportError => page.brandReportError)
        BY <1>0, <2>0, <3>1, PushTyped DEF Answering
      <3>3. Remembered'
        BY <2>0, <3>2, StillRemembered
      <3>4. QED
        BY <1>0, <2>0, <2>1, <3>2, <3>3, NoteTyped, SMTT(60) DEF DialogTypeInv, DialogTypeOK, serverVars
    <2>2. CASE /\ confirm' = TRUE /\ asks' = [asks EXCEPT ![a] = @ - 1]
               /\ UNCHANGED <<history, pos, page>>
      <3>1. asks' \in [Asks -> Nat]
        BY <1>0, <2>0, <2>2 DEF DialogTypeOK
      <3>2. Remembered'
        BY <2>0, <2>2, StillRemembered
      <3>3. QED
        BY <1>0, <2>0, <2>2, <3>1, <3>2, NoteTyped DEF DialogTypeInv, DialogTypeOK, serverVars
    <2>3. QED
      BY <1>4, <2>1, <2>2 DEF AskAnswered
  <1>5. ASSUME ShowSampleReport PROVE DialogTypeInv'
    <2>1. OnSite /\ gestures' \in 0..MaxGestures /\ PushReportUrl(page, SAMPLE_PARAM, Nobody)
      BY <1>0, <1>5, GestureTyped DEF ShowSampleReport
    <2>2. /\ page' \in Pages /\ asks' \in [Asks -> Nat] /\ history' \in Seq(Addresses)
          /\ pos' \in 1..Len(history') /\ (page'.brandReportError => page.brandReportError)
      BY <1>0, <2>1, PushTyped, NobodyAnswers DEF DialogTypeOK
    <2>3. Remembered'
      BY <1>5, <2>2, StillRemembered DEF ShowSampleReport
    <2>4. /\ UNCHANGED <<popping, loading, lastName, popup, credits, calls, givenUp>>
          /\ UNCHANGED <<bought, serverBalance, debited>> /\ confirm' = FALSE
          /\ gestures' \in 0..MaxGestures
      BY <1>5, <2>1 DEF ShowSampleReport, serverVars
    <2>5. strayed' \in BOOLEAN /\ misjudged' \in BOOLEAN
      BY <1>0, <1>5, NoteTyped DEF ShowSampleReport
    <2>6. QED
      <3>1. pos' \in 0..Len(history')
        BY <2>2
      <3>2. DialogTypeOK'
        BY <1>0, <2>2, <2>4, <2>5, <3>1 DEF DialogTypeOK
      <3>3. QED
        BY <2>3, <3>2 DEF DialogTypeInv
  <1>6. ASSUME CancelConfirm \/ ConfirmBrandReport \/ RejectPopup PROVE DialogTypeInv'
    <2>1. Gesture /\ Note /\ confirm' \in BOOLEAN /\ popup' \in BOOLEAN
      BY <1>0, <1>6 DEF CancelConfirm, ConfirmBrandReport, RejectPopup, DialogTypeOK
    <2>2. UNCHANGED <<addressVars, page, loading, lastName, credits, asks, calls, serverVars, givenUp>>
      BY <1>6 DEF CancelConfirm, ConfirmBrandReport, RejectPopup
    <2>3. Remembered'
      BY <2>2, StillRemembered
    <2>4. QED
      BY <1>0, <2>1, <2>2, <2>3, NoteTyped, GestureTyped DEF DialogTypeInv, DialogTypeOK, serverVars, addressVars
  <1>7. ASSUME LaunchBrandReport PROVE DialogTypeInv'
    <2> DEFINE name == page.brandReportName
               p == [Generating(page) EXCEPT !.preloadedReportName = name]
    <2>1. /\ Gesture /\ name \in Names /\ Note /\ popup' = FALSE /\ confirm' = FALSE
          /\ PushReportUrl(p, name, Nobody) /\ GenerateBrandReport(name)
          /\ UNCHANGED <<popping, credits, serverVars, givenUp>>
      BY <1>0, <1>7 DEF LaunchBrandReport, ShowReport, Pages, DialogTypeOK
    <2>2. /\ loading' = TRUE /\ lastName' \in Names /\ calls' \in Seq(Calls)
          /\ Generating(page) \in Pages /\ Remembered'
      BY <2>1, GenerateTyped
    <2>3. p \in Pages
      BY <2>1, <2>2 DEF Pages, Addresses
    <2> HIDE DEF name, p
    <2>4. /\ page' \in Pages /\ asks' \in [Asks -> Nat] /\ history' \in Seq(Addresses)
          /\ pos' \in 1..Len(history')
      BY <1>0, <2>1, <2>3, PushTyped, NobodyAnswers, GestureTyped
    <2>5. /\ UNCHANGED <<popping, credits, givenUp, bought, serverBalance, debited>>
          /\ gestures' \in 0..MaxGestures
      BY <1>0, <2>1, GestureTyped DEF serverVars
    <2>6. strayed' \in BOOLEAN /\ misjudged' \in BOOLEAN
          /\ popup' = FALSE /\ confirm' = FALSE
      BY <1>0, <2>1, NoteTyped
    <2>7. QED
      <3>1. pos' \in 0..Len(history')
        BY <2>4
      <3>2. DialogTypeOK'
        BY <1>0, <2>2, <2>4, <2>5, <2>6, <3>1 DEF DialogTypeOK
      <3>3. QED
        BY <2>2, <3>2 DEF DialogTypeInv
  <1>8. ASSUME RetryBrandReport PROVE DialogTypeInv'
    <2>1. lastName \in Names
      BY <1>8 DEF RetryBrandReport, DialogTypeInv, Remembered
    <2>2. /\ loading' = TRUE /\ lastName' \in Names /\ calls' \in Seq(Calls) /\ page' \in Pages
          /\ Remembered'
      BY <1>8, <2>1, GenerateTyped DEF RetryBrandReport
    <2>3. Gesture /\ Note /\ UNCHANGED <<addressVars, confirm, popup, credits, asks, serverVars, givenUp>>
      BY <1>8 DEF RetryBrandReport
    <2>4. QED
      BY <1>0, <2>2, <2>3, NoteTyped, GestureTyped DEF DialogTypeInv, DialogTypeOK, serverVars, addressVars
  <1>9. ASSUME CloseReport PROVE DialogTypeInv'
    <2>1. /\ Gesture /\ Note
          /\ UNCHANGED <<pos, loading, lastName, confirm, popup, credits, calls, serverVars, givenUp>>
      BY <1>9 DEF CloseReport
    <2>2. /\ page' \in Pages /\ asks' \in [Asks -> Nat] /\ history' \in Seq(Addresses)
          /\ Len(history') = Len(history) /\ popping' \in Nat
          /\ page'.brandReportError => page.brandReportError
      <3>1. CASE Pop
        <4>1. page \in Pages /\ popping \in Nat /\ history \in Seq(Addresses) /\ asks \in [Asks -> Nat]
          BY <1>0 DEF DialogTypeOK
        <4>2. page' \in Pages /\ page'.brandReportError = page.brandReportError
          BY <3>1, <4>1 DEF Pop, Pages
        <4>3. QED
          BY <3>1, <4>1, <4>2 DEF Pop
      <3>2. CASE UNCHANGED <<history, popping, page, asks>>
        BY <1>0, <3>2 DEF DialogTypeOK
      <3>3. CASE history' = [history EXCEPT ![pos] = None] /\ Arrive(page, None, Nobody) /\ UNCHANGED popping
        <4>1. history' \in Seq(Addresses) /\ Len(history') = Len(history)
          <5>1. history \in Seq(Addresses) /\ None \in Addresses /\ pos \in 1..Len(history)
            BY <1>0, <2>1, SiteTyped, GestureTyped DEF DialogTypeOK, Addresses
          <5>2. QED
            BY <3>3, <5>1
        <4>2. QED
          BY <1>0, <3>3, <4>1, ArriveTyped, NobodyAnswers DEF DialogTypeOK, Addresses
      <3>4. QED
        BY <1>9, <3>1, <3>2, <3>3 DEF CloseReport
    <2>3. Remembered'
      BY <2>1, <2>2, StillRemembered
    <2>4. QED
      BY <1>0, <2>1, <2>2, <2>3, NoteTyped, GestureTyped DEF DialogTypeInv, DialogTypeOK, serverVars
  <1>10. ASSUME BackOrForward PROVE DialogTypeInv'
    <2>1. PICK to \in DOMAIN history : Travel(to)
      BY <1>10 DEF BackOrForward
    <2>2. Gesture /\ Note /\ UNCHANGED popping
      BY <1>10 DEF BackOrForward
    <2>3. /\ page' \in Pages /\ asks' \in [Asks -> Nat] /\ pos' \in 1..Len(history)
          /\ (page'.brandReportError => page.brandReportError)
      BY <1>0, <2>1, <2>2, TravelTyped, GestureTyped
    <2>4. UNCHANGED <<history, loading, lastName, confirm, popup, credits, calls, serverVars, givenUp>>
      BY <2>1 DEF Travel
    <2>5. Remembered'
      BY <2>3, <2>4, StillRemembered
    <2>6. QED
      BY <1>0, <2>2, <2>3, <2>4, <2>5, NoteTyped, GestureTyped DEF DialogTypeInv, DialogTypeOK, serverVars
  <1>11. ASSUME PopState PROVE DialogTypeInv'
    <2>1. OnSite /\ popping > 0 /\ popping' = popping - 1 /\ UNCHANGED gestures /\ Note
      BY <1>11 DEF PopState
    <2>2. /\ page' \in Pages /\ asks' \in [Asks -> Nat] /\ pos' \in 0..Len(history)
          /\ (page'.brandReportError => page.brandReportError)
          /\ UNCHANGED <<history, loading, lastName, confirm, popup, credits, calls, serverVars, givenUp>>
      <3>1. CASE pos > 1
        <4>1. pos - 1 \in DOMAIN history /\ Travel(pos - 1)
          BY <1>0, <1>11, <3>1 DEF PopState, DialogTypeOK
        <4>2. QED
          BY <2>1, <4>1, TravelTyped DEF Travel
      <3>2. CASE ~(pos > 1)
        BY <1>0, <1>11, <3>2 DEF PopState, DialogTypeOK
      <3>3. QED
        BY <3>1, <3>2
    <2>3. Remembered'
      BY <2>2, StillRemembered
    <2>4. QED
      BY <1>0, <2>1, <2>2, <2>3, NoteTyped DEF DialogTypeInv, DialogTypeOK, serverVars
  <1>12. ASSUME Reload PROVE DialogTypeInv'
    <2>1. page' \in Pages /\ ~page'.brandReportError
      <3>1. Blank \in Pages /\ ~Blank.brandReportError
        BY DialogAssumption DEF Blank, Pages, Addresses
      <3>2. page' = SyncReportFromUrl(Blank, Url) /\ Url \in Addresses
        BY <1>0, <1>12, SiteTyped, GestureTyped DEF Reload
      <3>3. QED
        BY <3>1, <3>2, SyncTyped
    <2>2. calls' \in Seq(Calls) /\ \A i \in DOMAIN calls' : ~calls'[i].awaited
      <3>1. calls \in Seq(Calls) /\ calls' = [i \in DOMAIN calls |-> [calls[i] EXCEPT !.awaited = FALSE]]
        BY <1>0, <1>12 DEF Reload, DialogTypeOK
      <3>2. ASSUME NEW i \in DOMAIN calls
            PROVE  calls'[i] \in Calls /\ ~calls'[i].awaited
        <4>1. calls[i] \in Calls /\ calls'[i] = [calls[i] EXCEPT !.awaited = FALSE]
          BY <1>0, <3>1, CallTyped
        <4>2. QED
          BY <4>1 DEF Calls
      <3>3. DOMAIN calls' = 1..Len(calls) /\ Len(calls) \in Nat
        BY <3>1
      <3>4. calls' = [i \in 1..Len(calls) |-> calls'[i]] /\ \A i \in 1..Len(calls) : calls'[i] \in Calls
        BY <3>1, <3>2, <3>3
      <3>5. calls' \in Seq(Calls)
        BY <3>3, <3>4
      <3>6. QED
        BY <3>1, <3>2, <3>5
    <2>3. givenUp' \in [Names -> Nat]
      <3>1. CASE Awaited = {}
        BY <1>0, <1>12, <3>1 DEF Reload, DialogTypeOK
      <3>2. CASE Awaited # {}
        <4>1. PICK i \in Awaited : GiveUp(calls[i].name)
          BY <1>12, <3>2 DEF Reload
        <4>2. QED
          <5>1. calls[i].name \in Names /\ givenUp \in [Names -> Nat]
            BY <1>0, <4>1, CallTyped DEF Awaited, DialogTypeOK
          <5>2. QED
            BY <4>1, <5>1 DEF GiveUp
      <3>3. QED
        BY <3>1, <3>2
    <2>4. Awaited' = {}
      BY <2>2 DEF Awaited
    <2>5. Remembered'
      BY <1>12, <2>1, <2>4 DEF Reload, Remembered
    <2>6. asks' \in [Asks -> Nat] /\ lastName' = None /\ credits' = serverBalance /\ popping' = 0
          /\ loading' = FALSE /\ confirm' = FALSE /\ popup' = FALSE /\ Gesture /\ Note
          /\ UNCHANGED <<history, pos, serverVars>>
      BY <1>12 DEF Reload
    <2>7. QED
      BY <1>0, <2>1, <2>2, <2>3, <2>5, <2>6, NoteTyped, GestureTyped DEF DialogTypeInv, DialogTypeOK, serverVars
  <1>13. ASSUME NEW i \in DOMAIN calls, FullAnswered(i) \/ FullTimesOut(i) PROVE DialogTypeInv'
    <2>1. /\ i \in Awaited /\ loading' = FALSE /\ Note
          /\ calls' = [calls EXCEPT ![i].awaited = FALSE]
          /\ UNCHANGED <<addressVars, lastName, confirm, popup, asks, serverVars, gestures>>
      BY <1>13 DEF FullAnswered, FullTimesOut
    <2>2. page' \in Pages /\ (credits' = credits \/ credits' = serverBalance)
      <3>1. page \in Pages /\ calls[i].name \in Names
        BY <1>0, CallTyped DEF DialogTypeOK, Addresses
      <3>2. \/ page' = [page EXCEPT !.brandReport = calls[i].name] /\ credits' = serverBalance
            \/ page' = [page EXCEPT !.brandReportError = TRUE] /\ credits' = credits
        BY <1>13 DEF FullAnswered, FullTimesOut
      <3>3. page' \in Pages
        <4> DEFINE name == calls[i].name
        <4> HIDE DEF name
        <4>1. CASE page' = [page EXCEPT !.brandReport = name]
          BY <3>1, <4>1 DEF Pages, name
        <4>2. CASE page' = [page EXCEPT !.brandReportError = TRUE]
          BY <3>1, <4>2 DEF Pages
        <4>3. QED
          BY <3>2, <4>1, <4>2 DEF name
      <3>4. QED
        BY <3>2, <3>3
    <2>3. calls' \in Seq(Calls) /\ Awaited' = {}
      BY <2>1, NoLongerAwaited
    <2>4. givenUp' \in [Names -> Nat]
      <3>1. givenUp' = givenUp \/ GiveUp(calls[i].name)
        BY <1>13 DEF FullAnswered, FullTimesOut
      <3>2. calls[i].name \in Names /\ givenUp \in [Names -> Nat]
        BY <1>0, CallTyped DEF DialogTypeOK
      <3>3. QED
        BY <3>1, <3>2 DEF GiveUp
    <2>5. Remembered'
      BY <2>1, <2>3 DEF DialogTypeInv, Remembered
    <2>6. QED
      BY <1>0, <2>1, <2>2, <2>3, <2>4, <2>5, NoteTyped DEF DialogTypeInv, DialogTypeOK, serverVars, addressVars
  <1>14. ASSUME NEW i \in DOMAIN calls, Server(i) PROVE DialogTypeInv'
    <2>1. /\ UNCHANGED <<addressVars, page, loading, lastName, confirm, popup, credits, asks, givenUp, gestures>>
          /\ Note
      BY <1>14 DEF Server
    <2>2. PICK st \in Stages : calls' = [calls EXCEPT ![i].stage = st]
      BY <1>14 DEF Server, FullFind, FullDebit, FullRefuse, FullFail, Stages
    <2>3. calls' \in Seq(Calls) /\ Awaited' = Awaited
      BY <1>0, <2>2, StageChanged
    <2>4. bought' \subseteq Names /\ serverBalance' \in 0..Balance /\ debited' \in [Names -> Nat]
      <3>1. CASE FullDebit(i)
        <4>1. /\ calls[i].name \in Names /\ bought \subseteq Names /\ serverBalance \in 0..Balance
              /\ debited \in [Names -> Nat] /\ Balance \in Nat
          BY <1>0, CallTyped, DialogAssumption DEF DialogTypeOK
        <4>2. QED
          BY <3>1, <4>1 DEF FullDebit
      <3>2. CASE UNCHANGED serverVars
        BY <1>0, <3>2 DEF serverVars, DialogTypeOK
      <3>3. QED
        BY <1>14, <3>1, <3>2 DEF Server
    <2>5. Remembered'
      BY <2>1, <2>3 DEF DialogTypeInv, Remembered
    <2>6. QED
      BY <1>0, <2>1, <2>3, <2>4, <2>5, NoteTyped DEF DialogTypeInv, DialogTypeOK, addressVars
  <1>15. CASE UNCHANGED dialogVars
    <2>1. Remembered'
      BY <1>15, StillRemembered DEF dialogVars
    <2>2. QED
      BY <1>0, <1>15, <2>1 DEF DialogTypeInv, DialogTypeOK, dialogVars, addressVars, serverVars
  <1>16. QED
    BY <1>1, <1>2, <1>3, <1>4, <1>5, <1>6, <1>7, <1>8, <1>9, <1>10, <1>11, <1>12, <1>13, <1>14, <1>15
    DEF DialogNext

LEMMA DialogTypeInit == DialogInit => DialogTypeInv
PROOF
  <1> SUFFICES ASSUME DialogInit PROVE DialogTypeInv
    OBVIOUS
  <1>1. PICK url \in Addresses :
             /\ history = <<url>>
             /\ page = SyncReportFromUrl(Blank, url)
             /\ asks = [a \in Asks |-> IF a = <<"into", url>> THEN 1 ELSE 0]
    BY DEF DialogInit
  <1>2. url \in Addresses /\ Blank \in Pages /\ ~Blank.brandReportError
    BY DialogAssumption DEF Addresses, Blank, Pages
  <1>3. page \in Pages /\ ~page.brandReportError
    BY <1>1, <1>2, SyncTyped
  <1>4. history \in Seq(Addresses) /\ Len(history) = 1 /\ asks \in [Asks -> Nat]
    BY <1>1, <1>2
  <1>5. calls \in Seq(Calls) /\ Awaited = {}
    BY DEF DialogInit, Awaited
  <1>6. Remembered
    BY <1>3, <1>5 DEF Remembered, DialogInit
  <1>7. QED
    <2>1. /\ pos = 1 /\ popping = 0 /\ loading = FALSE /\ lastName = None
          /\ confirm = FALSE /\ popup = FALSE /\ bought \subseteq Names /\ serverBalance = Balance
          /\ credits = Balance /\ debited \in [Names -> Nat] /\ givenUp \in [Names -> Nat]
          /\ strayed = FALSE /\ misjudged = FALSE /\ gestures = 0
      BY <1>1, <1>2 DEF DialogInit
    <2>2. pos \in 0..Len(history)
      BY <1>4, <2>1
    <2>3. credits \in 0..Balance /\ serverBalance \in 0..Balance /\ gestures \in 0..MaxGestures
      BY <2>1, DialogAssumption
    <2>4. DialogTypeOK
      BY <1>3, <1>4, <1>5, <2>1, <2>2, <2>3 DEF DialogTypeOK
    <2>5. QED
      BY <1>6, <2>4 DEF DialogTypeInv

THEOREM DialogTypes == DialogSpec => []DialogTypeInv
PROOF BY DialogTypeInit, DialogTypeStep, PTL DEF DialogSpec

----------------------------------------------------------------------------
(* The button that closes the report. *)

\* An entry is taken for a pushed one only under a report.
PushedIsNamed == OnSite /\ page.reportUrlPushed => Url # None

\* The calls of location.back() still to be done leave an entry, and one more below an entry the
\* wizard pushed.
RoomToPop ==
  ~misjudged =>
    /\ OnSite
    /\ pos > popping
    /\ page.reportUrlPushed => pos > popping + 1

ButtonInv == PushedIsNamed /\ RoomToPop

\* The address of the tab and what the wizard takes for pushed stay.
LEMMA ButtonAtRest ==
  ASSUME DialogTypeOK, Note, ButtonInv, UNCHANGED addressVars, page'.reportUrlPushed = page.reportUrlPushed
  PROVE  ButtonInv'
PROOF
  <1>1. UNCHANGED <<history, pos, popping>> /\ (~misjudged' => ~misjudged)
    BY DEF Note, addressVars
  <1>2. QED
    BY <1>1 DEF ButtonInv, PushedIsNamed, RoomToPop, OnSite, Url

\* A report pushed; on an entry that is there already, only with nothing to be popped.
LEMMA ButtonPushes ==
  ASSUME DialogTypeOK, Note, OnSite, ButtonInv, UNCHANGED popping,
         NEW p \in Pages, p.reportUrlPushed = page.reportUrlPushed,
         NEW url \in Names \union {SAMPLE_PARAM}, NEW answered, Answering(answered),
         PushReportUrl(p, url, answered)
  PROVE  ButtonInv'
PROOF
  <1>1. /\ page'.reportUrlPushed /\ history' \in Seq(Addresses) /\ pos' \in 1..Len(history')
        /\ history'[pos'] = url
        /\ IF url = Url THEN pos' = pos ELSE pos' = pos + 1
    BY PushTyped
  <1>2. url # None /\ (~misjudged' => ~misjudged /\ ~Misjudges)
    BY DialogAssumption DEF Note
  <1>3. pos \in 1..Len(history) /\ popping \in Nat /\ page'.reportUrlPushed \in BOOLEAN
    BY <1>1 DEF DialogTypeOK, OnSite
  <1>4. PushedIsNamed'
    BY <1>1, <1>2 DEF PushedIsNamed, Url
  <1>5. RoomToPop'
    <2> SUFFICES ASSUME ~misjudged, ~Misjudges PROVE pos' > popping + 1
      BY <1>1, <1>2, <1>3 DEF RoomToPop, OnSite
    <2>1. pos > popping /\ (page.reportUrlPushed => pos > popping + 1)
      BY DEF ButtonInv, RoomToPop
    <2>2. CASE url # Url
      BY <1>1, <1>3, <2>1, <2>2
    <2>3. CASE url = Url /\ ~page.reportUrlPushed
      <3>1. PushesNothing
        BY <1>1, <2>3 DEF PushesNothing
      <3>2. ~(pos - popping <= 1)
        BY <3>1 DEF Misjudges, AtTheBottom
      <3>3. QED
        BY <1>1, <1>3, <2>3, <3>2
    <2>4. CASE url = Url /\ page.reportUrlPushed
      BY <1>1, <1>3, <2>1, <2>4
    <2>5. QED
      BY <2>2, <2>3, <2>4
  <1>6. QED
    BY <1>4, <1>5 DEF ButtonInv

\* The tab goes to another entry of its own, one further down at most if a location.back() was due.
LEMMA ButtonTravels ==
  ASSUME DialogTypeInv, Note, OnSite, ButtonInv, NEW to \in DOMAIN history, Travel(to),
         popping' \in Nat, to - popping' >= pos - popping \/ (popping' = 0 /\ to # pos)
  PROVE  ButtonInv'
PROOF
  <1>1. /\ page' \in Pages /\ pos' = to /\ pos' \in 1..Len(history)
        /\ page'.reportUrlPushed => page.reportUrlPushed /\ (history[to] # None \/ history[to] = Url)
    BY TravelTyped
  <1>2. history' = history /\ (~misjudged' => ~misjudged /\ ~Misjudges) /\ pos' > 0
    <2>1. ~misjudged' => ~misjudged /\ ~Misjudges
      BY DEF Note
    <2>2. QED
      BY <1>1, <2>1 DEF Travel, DialogTypeInv, DialogTypeOK
  <1>3. PushedIsNamed'
    BY <1>1, <1>2 DEF ButtonInv, PushedIsNamed, Url
  <1>4. RoomToPop'
    <2> SUFFICES ASSUME ~misjudged, ~Misjudges
                 PROVE  to > popping' /\ (page'.reportUrlPushed => to > popping' + 1)
      BY <1>1, <1>2 DEF RoomToPop, OnSite
    <2>1. pos > popping /\ (page.reportUrlPushed => pos > popping + 1)
      BY DEF ButtonInv, RoomToPop
    <2>2. pos \in Nat /\ popping \in Nat /\ to \in Nat \ {0}
      BY <1>1 DEF DialogTypeInv, DialogTypeOK
    <2>3. CASE to - popping' >= pos - popping
      BY <1>1, <2>1, <2>2, <2>3
    <2>4. CASE popping' = 0 /\ to # pos
      <3>1. page'.reportUrlPushed => Url' # None
        BY <1>2, <1>3 DEF PushedIsNamed, OnSite
      <3>2. page'.reportUrlPushed => to # 1
        BY <1>1, <2>4, <3>1 DEF Misjudges, KeepsThePush
      <3>3. QED
        BY <2>2, <2>4, <3>2
    <2>5. QED
      BY <2>3, <2>4
  <1>5. QED
    BY <1>3, <1>4 DEF ButtonInv

LEMMA ButtonStep == DialogTypeInv /\ ButtonInv /\ [DialogNext]_dialogVars => ButtonInv'
PROOF
  <1> SUFFICES ASSUME DialogTypeInv, ButtonInv, [DialogNext]_dialogVars PROVE ButtonInv'
    OBVIOUS
  <1>0. DialogTypeOK /\ page \in Pages
    BY DEF DialogTypeInv, DialogTypeOK
  <1>1. ASSUME NEW name \in Names, OpenFullReport(name) PROVE ButtonInv'
    BY <1>0, <1>1, ButtonPushes, NobodyAnswers, GestureTyped DEF OpenFullReport
  <1>2. ASSUME NEW name \in Names, AskBrandReport(name) PROVE ButtonInv'
    <2>1. page'.reportUrlPushed = page.reportUrlPushed
      BY <1>0, <1>2 DEF AskBrandReport, LoadReportInto, Pages
    <2>2. QED
      BY <1>0, <1>2, <2>1, ButtonAtRest DEF AskBrandReport
  <1>3. ASSUME NEW name \in Names, IntoAnswered(name) PROVE ButtonInv'
    <2>1. page'.reportUrlPushed = page.reportUrlPushed
      BY <1>0, <1>3 DEF IntoAnswered, Pages
    <2>2. QED
      BY <1>0, <1>3, <2>1, ButtonAtRest DEF IntoAnswered
  <1>4. ASSUME NEW name \in Names, AskAnswered(name) PROVE ButtonInv'
    <2> DEFINE a == <<"ask", name>>
               p == [[page EXCEPT !.brandReport = name] EXCEPT !.preloadedReportName = name]
    <2>1. a \in Asks /\ asks[a] > 0 /\ OnSite /\ UNCHANGED popping /\ Note
      BY <1>4 DEF AskAnswered, Asks
    <2>2. PushReportUrl(p, name, a) \/ UNCHANGED <<history, pos, page>>
      BY <1>4 DEF AskAnswered, ShowReport
    <2>3. p \in Pages /\ p.reportUrlPushed = page.reportUrlPushed
      BY <1>0 DEF Pages, Addresses
    <2> HIDE DEF a, p
    <2>4. CASE PushReportUrl(p, name, a)
      BY <1>0, <2>1, <2>3, <2>4, ButtonPushes DEF Answering
    <2>5. CASE UNCHANGED <<history, pos, page>>
      BY <1>0, <2>1, <2>5, ButtonAtRest DEF addressVars
    <2>6. QED
      BY <2>2, <2>4, <2>5
  <1>5. ASSUME ShowSampleReport PROVE ButtonInv'
    BY <1>0, <1>5, ButtonPushes, NobodyAnswers, GestureTyped DEF ShowSampleReport
  <1>6. ASSUME CancelConfirm \/ ConfirmBrandReport \/ RejectPopup PROVE ButtonInv'
    BY <1>0, <1>6, ButtonAtRest DEF CancelConfirm, ConfirmBrandReport, RejectPopup
  <1>7. ASSUME LaunchBrandReport PROVE ButtonInv'
    <2> DEFINE name == page.brandReportName
               p == [Generating(page) EXCEPT !.preloadedReportName = name]
    <2>1. /\ Gesture /\ name \in Names /\ Note /\ UNCHANGED popping
          /\ PushReportUrl(p, name, Nobody) /\ GenerateBrandReport(name)
      BY <1>0, <1>7 DEF LaunchBrandReport, ShowReport, Pages, DialogTypeOK
    <2>2. /\ Generating(page) \in Pages
          /\ Generating(page).reportUrlPushed = page.reportUrlPushed
      BY <2>1, GenerateTyped
    <2>3. p \in Pages /\ p.reportUrlPushed = page.reportUrlPushed
      BY <2>1, <2>2 DEF Pages, Addresses
    <2> HIDE DEF name, p
    <2>4. QED
      BY <1>0, <2>1, <2>3, ButtonPushes, NobodyAnswers, GestureTyped
  <1>8. ASSUME RetryBrandReport PROVE ButtonInv'
    <2>1. lastName \in Names
      BY <1>8 DEF RetryBrandReport, DialogTypeInv, Remembered
    <2>2. page'.reportUrlPushed = page.reportUrlPushed
      BY <1>8, <2>1, GenerateTyped DEF RetryBrandReport
    <2>3. QED
      BY <1>0, <1>8, <2>2, ButtonAtRest DEF RetryBrandReport
  <1>9. ASSUME CloseReport PROVE ButtonInv'
    <2>1. /\ Gesture /\ OnSite /\ Note /\ UNCHANGED pos /\ (~misjudged' => ~misjudged)
      BY <1>9 DEF CloseReport, Note, Gesture
    <2>2. /\ history \in Seq(Addresses) /\ pos \in 1..Len(history) /\ popping \in Nat
      BY <1>0, <2>1 DEF DialogTypeOK, OnSite
    <2>3. CASE page.reportUrlPushed /\ Pop
      <3>1. ~page'.reportUrlPushed /\ popping' = popping + 1 /\ UNCHANGED history
        BY <1>0, <2>3 DEF Pop, Pages
      <3>2. QED
        BY <2>1, <2>2, <2>3, <3>1 DEF ButtonInv, PushedIsNamed, RoomToPop, OnSite
    <2>4. CASE UNCHANGED <<history, popping, page, asks>>
      BY <1>0, <2>1, <2>4, ButtonAtRest DEF addressVars
    <2>5. CASE history' = [history EXCEPT ![pos] = None] /\ Arrive(page, None, Nobody) /\ UNCHANGED popping
      <3>1. ~page'.reportUrlPushed
        BY <1>0, <2>5, ArriveTyped, NobodyAnswers DEF DialogTypeOK, Addresses
      <3>2. QED
        BY <2>1, <2>2, <2>5, <3>1 DEF ButtonInv, PushedIsNamed, RoomToPop, OnSite
    <2>6. QED
      BY <1>9, <2>3, <2>4, <2>5 DEF CloseReport
  <1>10. ASSUME BackOrForward PROVE ButtonInv'
    <2>1. PICK to \in DOMAIN history : Travel(to) /\ to \in {pos - 1, pos + 1}
      BY <1>10 DEF BackOrForward
    <2>4. to # pos
      BY <1>0, <2>1 DEF DialogTypeOK
    <2>2. /\ OnSite /\ Note /\ popping' \in Nat /\ popping' = 0
      BY <1>0, <1>10 DEF BackOrForward, Gesture
    <2>3. QED
      BY <2>1, <2>2, <2>4, ButtonTravels
  <1>11. ASSUME PopState PROVE ButtonInv'
    <2>1. OnSite /\ popping > 0 /\ popping' = popping - 1 /\ Note
      BY <1>11 DEF PopState
    <2>2. pos \in 1..Len(history) /\ popping \in Nat /\ popping' \in Nat
      BY <1>0, <2>1 DEF DialogTypeOK, OnSite
    <2>3. CASE pos > 1
      <3>1. pos - 1 \in DOMAIN history /\ Travel(pos - 1)
        BY <1>0, <1>11, <2>3 DEF PopState, DialogTypeOK
      <3>2. (pos - 1) - popping' >= pos - popping
        BY <2>1, <2>2
      <3>3. QED
        BY <2>1, <2>2, <3>1, <3>2, ButtonTravels
    <2>4. CASE ~(pos > 1)
      <3>1. pos = 1 /\ pos' = 0 /\ UNCHANGED history
        BY <1>11, <2>2, <2>4 DEF PopState
      <3>5. ~(pos > popping)
        BY <2>1, <2>2, <3>1
      <3>2. misjudged /\ (~misjudged' => ~misjudged)
        BY <2>1, <3>5 DEF ButtonInv, RoomToPop, Note
      <3>3. QED
        BY <3>1, <3>2 DEF ButtonInv, PushedIsNamed, RoomToPop, OnSite
    <2>5. QED
      BY <2>3, <2>4
  <1>12. ASSUME Reload PROVE ButtonInv'
    <2>1. /\ OnSite /\ Note /\ popping' = 0 /\ UNCHANGED <<history, pos>>
          /\ page' = SyncReportFromUrl(Blank, Url)
      BY <1>12 DEF Reload, Gesture
    <2>2. Blank \in Pages /\ ~Blank.reportUrlPushed
      BY DialogAssumption DEF Blank, Pages, Addresses
    <2>3. ~page'.reportUrlPushed
      BY <1>0, <2>1, <2>2, SyncTyped, SiteTyped
    <2>4. pos \in Nat /\ popping \in Nat /\ (~misjudged' => ~misjudged)
      BY <1>0, <2>1 DEF DialogTypeOK, Note
    <2>5. QED
      BY <2>1, <2>3, <2>4 DEF ButtonInv, PushedIsNamed, RoomToPop, OnSite
  <1>13. ASSUME NEW i \in DOMAIN calls, FullAnswered(i) \/ FullTimesOut(i) PROVE ButtonInv'
    <2>1. page'.reportUrlPushed = page.reportUrlPushed
      BY <1>0, <1>13 DEF FullAnswered, FullTimesOut, Pages
    <2>2. QED
      BY <1>0, <1>13, <2>1, ButtonAtRest DEF FullAnswered, FullTimesOut
  <1>14. ASSUME NEW i \in DOMAIN calls, Server(i) PROVE ButtonInv'
    BY <1>0, <1>14, ButtonAtRest DEF Server
  <1>15. CASE UNCHANGED dialogVars
    BY <1>15 DEF dialogVars, addressVars, ButtonInv, PushedIsNamed, RoomToPop, OnSite, Url
  <1>16. QED
    BY <1>1, <1>2, <1>3, <1>4, <1>5, <1>6, <1>7, <1>8, <1>9, <1>10, <1>11, <1>12, <1>13, <1>14, <1>15
    DEF DialogNext

LEMMA ButtonInit == DialogInit => ButtonInv
PROOF
  <1> SUFFICES ASSUME DialogInit PROVE ButtonInv
    OBVIOUS
  <1>1. PICK url \in Addresses :
             history = <<url>> /\ page = SyncReportFromUrl(Blank, url)
    BY DEF DialogInit
  <1>2. Blank \in Pages /\ ~Blank.reportUrlPushed /\ url \in Addresses
    BY DialogAssumption DEF Blank, Pages, Addresses
  <1>3. ~page.reportUrlPushed
    BY <1>1, <1>2, SyncTyped
  <1>4. QED
    BY <1>1, <1>3 DEF DialogInit, ButtonInv, PushedIsNamed, RoomToPop, OnSite

\* "Retour" does not leave the site, but where the entry the visitor came by was taken for a
\* pushed one.
THEOREM ButtonStays == DialogSpec => []ButtonStaysOnSite
PROOF
  <1>1. ButtonInv => ButtonStaysOnSite
    BY DEF ButtonInv, RoomToPop, ButtonStaysOnSite
  <1>2. QED
    BY <1>1, DialogTypeInit, DialogTypeStep, ButtonInit, ButtonStep, PTL DEF DialogSpec

----------------------------------------------------------------------------
(* The name on the page. *)

\* The page is of the report the address asks for, or awaits it.
Headed ==
  Url # None =>
    /\ page.brandReportName = NameAt(Url)
    /\ ~page.showReportDialog => Url \in Names /\ asks[<<"into", Url>>] > 0

NamesInv == ~strayed => ~Strays /\ OneName(page) /\ (OnSite => Headed)

\* Whoever is awaited is on the page.
LEMMA AwaitedIsHeaded ==
  ASSUME ~Strays, NEW name \in Names,
         (\E a \in Asks : a[2] = name /\ asks[a] > 0) \/ \E i \in Awaited : calls[i].name = name
  PROVE  name = page.brandReportName /\ page.preloadedReportName = None
PROOF BY DEF Strays, Pending

LEMMA ArriveHeads ==
  ASSUME asks \in [Asks -> Nat], NEW p \in Pages, NEW url \in Addresses, OneName(p),
         p.preloadedReportName # None => p.preloadedReportName = p.brandReportName,
         NEW answered, url # None => answered # <<"into", url>>, Arrive(p, url, answered)
  PROVE  /\ OneName(page')
         /\ url # None => /\ page'.brandReportName = NameAt(url)
                          /\ ~page'.showReportDialog => url \in Names /\ asks'[<<"into", url>>] > 0
PROOF
  <1>1. page' = SyncReportFromUrl(p, url)
    BY DEF Arrive
  <1>2. /\ OneName(page') /\ (url # None => page'.brandReportName = NameAt(url))
        /\ url # None /\ ~page'.showReportDialog => Loads(p, url)
    BY <1>1, SyncNames
  <1>3. ASSUME url # None, Loads(p, url) PROVE url \in Names /\ asks'[<<"into", url>>] > 0
    <2>1. url \in Names
      BY <1>3 DEF Loads
    <2>2. <<"into", url>> \in Asks
      BY <2>1 DEF Asks
    <2>3. asks'[<<"into", url>>] = asks[<<"into", url>>] + 1
      BY <1>3, <2>2 DEF Arrive
    <2>4. QED
      BY <2>1, <2>2, <2>3
  <1>4. QED
    BY <1>2, <1>3

LEMMA PushHeads ==
  ASSUME DialogTypeOK, OnSite, Headed, NEW p \in Pages, OneName(p),
         p.brandReportName = page.brandReportName, p.showReportDialog = page.showReportDialog,
         p.preloadedReportName # None => p.preloadedReportName = p.brandReportName,
         NEW url \in Names \union {SAMPLE_PARAM}, NEW answered, Answering(answered),
         answered # <<"into", url>>, PushReportUrl(p, url, answered)
  PROVE  OneName(page') /\ Headed'
PROOF
  <1> DEFINE q == [p EXCEPT !.reportUrlPushed = TRUE]
  <1>1. /\ q \in Pages /\ OneName(q) /\ q.brandReportName = page.brandReportName
        /\ q.showReportDialog = page.showReportDialog
        /\ q.preloadedReportName # None => q.preloadedReportName = q.brandReportName
    BY DEF Pages, OneName
  <1>2. asks \in [Asks -> Nat] /\ history'[pos'] = url /\ url \in Addresses
    BY PushTyped DEF DialogTypeOK, Addresses
  <1>3. CASE url = Url
    <2>1. /\ page' = q /\ history' = history /\ pos' = pos
          /\ asks' = [a \in Asks |-> asks[a] - (IF a = answered THEN 1 ELSE 0)]
      BY <1>3 DEF PushReportUrl
    <2> HIDE DEF q
    <2>2. ASSUME Url \in Names PROVE asks'[<<"into", Url>>] = asks[<<"into", Url>>]
      <3>1. <<"into", Url>> \in Asks
        BY <2>2 DEF Asks
      <3>2. asks[<<"into", Url>>] \in Nat /\ answered # <<"into", Url>>
        BY <1>2, <1>3, <3>1
      <3>3. QED
        BY <2>1, <3>1, <3>2
    <2>3. QED
      BY <1>1, <2>1, <2>2 DEF Headed, Url
  <1>4. CASE url # Url
    <2>1. Arrive(q, url, answered)
      BY <1>4 DEF PushReportUrl
    <2> HIDE DEF q
    <2>2. /\ OneName(page')
          /\ url # None => /\ page'.brandReportName = NameAt(url)
                           /\ ~page'.showReportDialog => url \in Names /\ asks'[<<"into", url>>] > 0
      BY <1>1, <1>2, <2>1, ArriveHeads DEF Addresses
    <2>3. QED
      BY <1>2, <2>2 DEF Headed, Url
  <1>5. QED
    BY <1>3, <1>4

LEMMA TravelHeads ==
  ASSUME DialogTypeInv, OnSite, Headed, OneName(page), page.preloadedReportName = None,
         NEW to \in DOMAIN history, Travel(to)
  PROVE  OneName(page') /\ Headed'
PROOF
  <1>1. /\ history[to] \in Addresses /\ page \in Pages /\ asks \in [Asks -> Nat]
        /\ pos' = to /\ history' = history
    BY DEF DialogTypeInv, DialogTypeOK, Travel
  <1>2. CASE history[to] = Url
    BY <1>1, <1>2 DEF Travel, Headed, Url
  <1>3. CASE history[to] # Url
    <2>1. Arrive(page, history[to], Nobody)
      BY <1>3 DEF Travel
    <2>2. history[to] # None => Nobody # <<"into", history[to]>>
      BY NobodyAnswers
    <2>3. QED
      BY <1>1, <2>1, <2>2, ArriveHeads DEF Headed, Url
  <1>4. QED
    BY <1>2, <1>3

\* The page and what it awaits stay.
LEMMA NamesAtRest ==
  ASSUME Headed, OneName(page), UNCHANGED <<history, pos, page, asks>>
  PROVE  OneName(page') /\ Headed'
PROOF BY DEF Headed, Url

\* The name on the page stays, as well as what is shown or awaited.
LEMMA NamesKept ==
  ASSUME Headed, UNCHANGED <<history, pos>>, OneName(page'),
         page'.brandReportName = page.brandReportName,
         \/ page'.showReportDialog
         \/ page'.showReportDialog = page.showReportDialog /\ asks' = asks
  PROVE  Headed'
PROOF BY DEF Headed, Url

LEMMA NamesStep == DialogTypeInv /\ NamesInv /\ [DialogNext]_dialogVars => NamesInv'
PROOF
  <1> SUFFICES ASSUME DialogTypeInv, NamesInv, [DialogNext]_dialogVars, ~strayed'
               PROVE  ~Strays' /\ OneName(page') /\ (OnSite' => Headed')
    BY DEF NamesInv, OneName
  <1>0. /\ DialogTypeOK /\ page \in Pages /\ asks \in [Asks -> Nat]
        /\ \A name \in Names : name \in Addresses
    BY DEF DialogTypeInv, DialogTypeOK, Addresses
  <1>a. ~strayed
    <2>1. CASE Note
      BY <2>1 DEF Note
    <2>2. CASE UNCHANGED dialogVars
      BY <2>2 DEF dialogVars
    <2>3. Note \/ UNCHANGED dialogVars
      BY DEF DialogNext, OpenFullReport, AskBrandReport, IntoAnswered, AskAnswered, ShowSampleReport,
             CancelConfirm, ConfirmBrandReport, RejectPopup, LaunchBrandReport, RetryBrandReport,
             CloseReport, BackOrForward, PopState, Reload, FullAnswered, FullTimesOut, Server
    <2>4. QED
      BY <2>1, <2>2, <2>3
  <1>b. ~Strays /\ OneName(page) /\ (OnSite => Headed) /\ page.preloadedReportName = None
    BY <1>a DEF NamesInv, Strays
  <1>c. ~Strays'
    <2>1. CASE Note
      BY <2>1 DEF Note
    <2>2. CASE UNCHANGED dialogVars
      BY <1>b, <2>2 DEF dialogVars, Strays, Pending, Awaited
    <2>3. Note \/ UNCHANGED dialogVars
      BY DEF DialogNext, OpenFullReport, AskBrandReport, IntoAnswered, AskAnswered, ShowSampleReport,
             CancelConfirm, ConfirmBrandReport, RejectPopup, LaunchBrandReport, RetryBrandReport,
             CloseReport, BackOrForward, PopState, Reload, FullAnswered, FullTimesOut, Server
    <2>4. QED
      BY <2>1, <2>2, <2>3
  <1>d. SUFFICES OneName(page') /\ (OnSite' => Headed')
    BY <1>c
  <1>1. ASSUME NEW name \in Names, OpenFullReport(name) PROVE OneName(page') /\ Headed'
    <2>1. OnSite /\ PushReportUrl(page, name, Nobody)
      BY <1>0, <1>1, GestureTyped DEF OpenFullReport
    <2>2. Nobody # <<"into", name>>
      BY NobodyAnswers, DialogAssumption
    <2>3. QED
      BY <1>0, <1>b, <2>1, <2>2, NobodyAnswers, PushHeads
  <1>2. ASSUME NEW name \in Names, AskBrandReport(name) PROVE OneName(page') /\ Headed'
    <2>1. /\ OnSite /\ GridShown /\ page' = LoadReportInto(page, name)
          /\ asks' = [asks EXCEPT ![<<"ask", name>>] = @ + 1] /\ UNCHANGED <<history, pos>>
      BY <1>0, <1>2, GestureTyped DEF AskBrandReport, addressVars
    <2>2. page'.brandReport = None /\ page'.showReportDialog = FALSE
      BY <1>0, <2>1 DEF LoadReportInto, Pages, GridShown
    <2>3. ASSUME Url # None
          PROVE  Url \in Names /\ asks'[<<"into", Url>>] > 0
      <3>1. Url \in Names /\ asks[<<"into", Url>>] > 0
        BY <1>b, <2>1, <2>3 DEF Headed, GridShown
      <3>2. asks'[<<"into", Url>>] = asks[<<"into", Url>>]
        BY <1>0, <2>1, <3>1 DEF Asks
      <3>3. QED
        BY <3>1, <3>2
    <2>4. ASSUME Url # None PROVE page'.brandReportName = NameAt(Url)
      <3>1. /\ Url \in Names /\ <<"into", Url>> \in Asks
            /\ asks'[<<"into", Url>>] > 0
        BY <2>3, <2>4 DEF Asks
      <3>2. Url \in Pending'
        BY <3>1 DEF Pending
      <3>3. QED
        BY <1>c, <3>1, <3>2, DialogAssumption DEF Strays, NameAt
    <2>5. QED
      BY <2>1, <2>2, <2>3, <2>4 DEF OneName, Headed, Url
  <1>3. ASSUME NEW name \in Names, IntoAnswered(name) PROVE OneName(page') /\ Headed'
    <2> DEFINE a == <<"into", name>>
    <2>1. OnSite /\ a \in Asks /\ a[2] = name /\ asks[a] > 0 /\ UNCHANGED <<history, pos>>
      BY <1>3 DEF IntoAnswered, Asks, addressVars
    <2>2. name = page.brandReportName
      BY <1>b, <2>1, AwaitedIsHeaded
    <2>3. \/ page' = [page EXCEPT !.brandReport = name, !.showReportDialog = TRUE]
          \/ page' = [page EXCEPT !.showReportDialog = TRUE]
      BY <1>3 DEF IntoAnswered
    <2>4. OneName(page') /\ page'.showReportDialog /\ page'.brandReportName = page.brandReportName
      BY <1>0, <1>b, <2>2, <2>3 DEF OneName, Pages
    <2>5. QED
      BY <1>b, <2>1, <2>4, NamesKept
  <1>4. ASSUME NEW name \in Names, AskAnswered(name) PROVE OneName(page') /\ Headed'
    <2> DEFINE a == <<"ask", name>>
               p == [[page EXCEPT !.brandReport = name] EXCEPT !.preloadedReportName = name]
    <2>1. a \in Asks /\ a[2] = name /\ a # <<"into", name>> /\ asks[a] > 0 /\ OnSite
      BY <1>4 DEF AskAnswered, Asks
    <2>2. name = page.brandReportName
      BY <1>b, <2>1, AwaitedIsHeaded
    <2>3. /\ p \in Pages /\ OneName(p) /\ p.brandReportName = page.brandReportName
          /\ p.showReportDialog = page.showReportDialog /\ p.preloadedReportName = p.brandReportName
      BY <1>0, <2>2 DEF Pages, OneName
    <2>4. \/ PushReportUrl(p, name, a)
          \/ UNCHANGED <<history, pos, page>> /\ asks' = [asks EXCEPT ![a] = @ - 1]
      BY <1>4 DEF AskAnswered, ShowReport
    <2>5. CASE PushReportUrl(p, name, a)
      <3> HIDE DEF a, p
      <3>1. QED
        BY <1>0, <1>b, <2>1, <2>3, <2>5, PushHeads DEF Answering
    <2>6. CASE UNCHANGED <<history, pos, page>> /\ asks' = [asks EXCEPT ![a] = @ - 1]
      <3>1. ASSUME Url \in Names PROVE asks'[<<"into", Url>>] = asks[<<"into", Url>>]
        BY <1>0, <2>6, <3>1 DEF Asks
      <3>2. QED
        BY <1>b, <2>1, <2>6, <3>1 DEF Headed, Url
    <2>7. QED
      BY <2>4, <2>5, <2>6
  <1>5. ASSUME ShowSampleReport PROVE OneName(page') /\ Headed'
    <2>1. OnSite /\ PushReportUrl(page, SAMPLE_PARAM, Nobody)
      BY <1>0, <1>5, GestureTyped DEF ShowSampleReport
    <2>2. Nobody # <<"into", SAMPLE_PARAM>>
      BY NobodyAnswers, DialogAssumption
    <2>3. QED
      BY <1>0, <1>b, <2>1, <2>2, NobodyAnswers, PushHeads
  <1>6. ASSUME CancelConfirm \/ ConfirmBrandReport \/ RejectPopup PROVE OneName(page') /\ Headed'
    <2>1. OnSite /\ UNCHANGED <<history, pos, page, asks>>
      BY <1>6 DEF CancelConfirm, ConfirmBrandReport, RejectPopup, addressVars, Gesture
    <2>2. QED
      BY <1>b, <2>1, NamesAtRest
  <1>7. ASSUME LaunchBrandReport PROVE OneName(page') /\ Headed'
    <2> DEFINE name == page.brandReportName
               p == [Generating(page) EXCEPT !.preloadedReportName = name]
    <2>1. OnSite /\ name \in Names /\ PushReportUrl(p, name, Nobody)
      BY <1>0, <1>7 DEF LaunchBrandReport, ShowReport, Gesture, Pages, DialogTypeOK
    <2>2. /\ Generating(page) \in Pages /\ OneName(Generating(page))
          /\ Generating(page).brandReportName = name
          /\ Generating(page).showReportDialog = page.showReportDialog
      BY <1>0, <1>b DEF Generating, Pages, Addresses, OneName
    <2>3. /\ p \in Pages /\ OneName(p) /\ p.brandReportName = name
          /\ p.showReportDialog = page.showReportDialog /\ p.preloadedReportName = p.brandReportName
      BY <2>1, <2>2 DEF Pages, OneName
    <2>4. Nobody # <<"into", name>>
      BY <2>1, NobodyAnswers, DialogAssumption
    <2> HIDE DEF p
    <2>5. QED
      BY <1>0, <1>b, <2>1, <2>3, <2>4, NobodyAnswers, PushHeads
  <1>8. ASSUME RetryBrandReport PROVE OneName(page') /\ Headed'
    <2>1. OnSite /\ UNCHANGED <<history, pos, asks>> /\ page' = Generating(page)
      BY <1>8 DEF RetryBrandReport, addressVars, Gesture
    <2>2. /\ OneName(page') /\ page'.brandReportName = page.brandReportName
          /\ page'.showReportDialog = page.showReportDialog
      BY <1>0, <1>b, <2>1 DEF Generating, Pages, OneName
    <2>3. QED
      BY <1>b, <2>1, <2>2, NamesKept
  <1>9. ASSUME CloseReport PROVE OneName(page') /\ Headed'
    <2>1. OnSite /\ pos' = pos
      BY <1>9 DEF CloseReport, Gesture
    <2>2. CASE Pop
      <3>1. /\ OneName(page') /\ page'.brandReportName = page.brandReportName
            /\ page'.showReportDialog = page.showReportDialog /\ UNCHANGED <<history, asks>>
        BY <1>0, <1>b, <2>2 DEF Pop, Pages, OneName
      <3>2. QED
        BY <1>b, <2>1, <3>1, NamesKept
    <2>3. CASE UNCHANGED <<history, popping, page, asks>>
      BY <1>b, <2>1, <2>3, NamesAtRest
    <2>4. CASE history' = [history EXCEPT ![pos] = None] /\ Arrive(page, None, Nobody) /\ UNCHANGED popping
      <3>1. history'[pos'] = None
        BY <1>0, <2>1, <2>4 DEF DialogTypeOK, OnSite
      <3>2. OneName(page')
        BY <1>0, <1>b, <2>4, ArriveHeads DEF Addresses
      <3>3. QED
        BY <3>1, <3>2 DEF Headed, Url
    <2>5. QED
      BY <1>9, <2>2, <2>3, <2>4 DEF CloseReport
  <1>10. ASSUME BackOrForward PROVE OneName(page') /\ Headed'
    <2>1. OnSite /\ \E to \in DOMAIN history : Travel(to)
      BY <1>10 DEF BackOrForward, Gesture
    <2>2. QED
      BY <1>b, <2>1, TravelHeads
  <1>11. ASSUME PopState PROVE OneName(page') /\ (OnSite' => Headed')
    <2>1. CASE pos > 1
      <3>1. OnSite /\ pos - 1 \in DOMAIN history /\ Travel(pos - 1)
        BY <1>0, <1>11, <2>1 DEF PopState, DialogTypeOK
      <3>2. QED
        BY <1>b, <3>1, TravelHeads
    <2>2. CASE ~(pos > 1)
      BY <1>b, <1>11, <2>2 DEF PopState, OnSite
    <2>3. QED
      BY <2>1, <2>2
  <1>12. ASSUME Reload PROVE OneName(page') /\ Headed'
    <2>1. /\ OnSite /\ UNCHANGED <<history, pos>> /\ page' = SyncReportFromUrl(Blank, Url)
          /\ asks' = [a \in Asks |-> IF a = <<"into", Url>> THEN 1 ELSE 0] /\ Url \in Addresses
      BY <1>0, <1>12, SiteTyped DEF Reload, Gesture
    <2>2. Blank \in Pages /\ OneName(Blank) /\ Blank.preloadedReportName = None
      BY DialogAssumption DEF Blank, Pages, Addresses, OneName
    <2>3. /\ OneName(page') /\ (Url # None => page'.brandReportName = NameAt(Url))
          /\ Url # None /\ ~page'.showReportDialog => Loads(Blank, Url)
      BY <2>1, <2>2, SyncNames
    <2>4. ASSUME Url \in Names PROVE asks'[<<"into", Url>>] > 0
      BY <2>1, <2>4 DEF Asks
    <2>5. QED
      BY <2>1, <2>3, <2>4 DEF Headed, Url, Loads
  <1>13. ASSUME NEW i \in DOMAIN calls, FullAnswered(i) \/ FullTimesOut(i) PROVE OneName(page') /\ Headed'
    <2>1. OnSite /\ i \in Awaited /\ UNCHANGED <<history, pos, asks>>
      BY <1>13 DEF FullAnswered, FullTimesOut, addressVars
    <2>2. calls[i].name \in Names
      BY <1>0, CallTyped
    <2>3. calls[i].name = page.brandReportName
      BY <1>b, <2>1, <2>2, AwaitedIsHeaded
    <2>4. \/ page' = [page EXCEPT !.brandReport = page.brandReportName]
          \/ page' = [page EXCEPT !.brandReportError = TRUE]
      BY <1>13, <2>3 DEF FullAnswered, FullTimesOut
    <2>5. /\ OneName(page') /\ page'.brandReportName = page.brandReportName
          /\ page'.showReportDialog = page.showReportDialog
      BY <1>0, <1>b, <2>4 DEF Pages, OneName
    <2>6. QED
      BY <1>b, <2>1, <2>5, NamesKept
  <1>14. ASSUME NEW i \in DOMAIN calls, Server(i) PROVE OneName(page') /\ (OnSite' => Headed')
    BY <1>b, <1>14, NamesAtRest DEF Server, addressVars, OnSite
  <1>15. CASE UNCHANGED dialogVars
    BY <1>b, <1>15, NamesAtRest DEF dialogVars, addressVars, OnSite
  <1>16. QED
    BY <1>1, <1>2, <1>3, <1>4, <1>5, <1>6, <1>7, <1>8, <1>9, <1>10, <1>11, <1>12, <1>13, <1>14, <1>15
    DEF DialogNext

LEMMA NamesInit == DialogInit => NamesInv
PROOF
  <1> SUFFICES ASSUME DialogInit PROVE NamesInv
    OBVIOUS
  <1>1. PICK url \in Addresses :
             /\ history = <<url>> /\ page = SyncReportFromUrl(Blank, url)
             /\ asks = [a \in Asks |-> IF a = <<"into", url>> THEN 1 ELSE 0]
    BY DEF DialogInit
  <1>2. /\ Blank \in Pages /\ OneName(Blank) /\ Blank.preloadedReportName = None
        /\ url \in Addresses
    BY DialogAssumption DEF Blank, Pages, Addresses, OneName
  <1>3. /\ OneName(page) /\ (url # None => page.brandReportName = NameAt(url))
        /\ url # None /\ ~page.showReportDialog => Loads(Blank, url)
    BY <1>1, <1>2, SyncNames
  <1>4. page.preloadedReportName = None
    <2>1. url = None => page = [Blank EXCEPT !.reportUrlPushed = FALSE, !.preloadedReportName = None,
                                             !.showReportDialog = FALSE]
      BY <1>1, <1>2, SyncIs
    <2>2. url \in Names /\ Loads(Blank, url) => page = LoadReportInto(Blank, url)
      BY <1>1, <1>2, SyncIs
    <2>3. url \in Names => Blank.preloadedReportName # url
      BY <1>2, DialogAssumption
    <2>4. url \in Names /\ ~Loads(Blank, url) => page = Blank
      BY <1>1, <1>2, <2>3, SyncIs
    <2>5. url = SAMPLE_PARAM => page = [Blank EXCEPT !.brandReportName = SAMPLE_NAME,
                                                     !.brandReport = SAMPLE_NAME,
                                                     !.brandReportError = FALSE, !.showReportDialog = TRUE]
      BY <1>1, <1>2, SyncIs
    <2>6. QED
      BY <1>2, <2>1, <2>2, <2>4, <2>5 DEF LoadReportInto, Pages, Addresses
  <1>5. ASSUME NEW name \in Names, name \in Pending PROVE name = page.brandReportName
    <2>1. Awaited = {}
      BY DEF DialogInit, Awaited
    <2>2. PICK a \in Asks : a[2] = name /\ asks[a] > 0
      BY <1>5, <2>1 DEF Pending
    <2>3. url = name
      BY <1>1, <2>2
    <2>4. QED
      BY <1>3, <2>3, DialogAssumption DEF NameAt
  <1>6. ~Strays
    <2>1. Pending \subseteq Names
      BY DEF DialogInit, Pending, Awaited
    <2>2. QED
      BY <1>4, <1>5, <2>1 DEF Strays
  <1>7. url \in Names => asks[<<"into", url>>] > 0
    BY <1>1 DEF Asks
  <1>8. QED
    BY <1>1, <1>3, <1>6, <1>7 DEF NamesInv, Headed, DialogInit, Url, Loads

\* The address, the heading and the report on the page agree.
THEOREM PageIsOfOneName == DialogSpec => []OneNameOnThePage
PROOF
  <1>1. NamesInv => OneNameOnThePage
    BY DEF NamesInv, OneNameOnThePage, Headed, OneName
  <1>2. QED
    BY <1>1, DialogTypeInit, DialogTypeStep, NamesInit, NamesStep, PTL DEF DialogSpec

----------------------------------------------------------------------------
(* The purchases. *)

\* The purchases of a name nobody waits for any more, that may still be debited, and those that
\* found nothing stored and are under way.
Late(name) == {i \in DOMAIN calls : /\ calls[i].name = name /\ ~calls[i].awaited
                                    /\ calls[i].stage \in {"sent", "generating"}}
UnderWay(name) == {i \in DOMAIN calls : calls[i].name = name /\ calls[i].stage = "generating"}

\* Before the report is stored, nobody paid, and each purchase left alone was given up; from then
\* on, each debit and each purchase under way is one given up, but for one.
PaidByName(name) ==
  /\ name \notin bought => debited[name] = 0 /\ Cardinality(Late(name)) <= givenUp[name]
  /\ name \in bought => debited[name] + Cardinality(UnderWay(name)) <= 1 + givenUp[name]

PurchaseInv == \A name \in Names : PaidByName(name)

LEMMA PurchasesFinite ==
  ASSUME DialogTypeOK, NEW name
  PROVE  /\ IsFiniteSet(Late(name)) /\ IsFiniteSet(UnderWay(name))
         /\ Cardinality(Late(name)) \in Nat /\ Cardinality(UnderWay(name)) \in Nat
PROOF
  <1>1. DOMAIN calls = 1..Len(calls) /\ Len(calls) \in Nat
    BY DEF DialogTypeOK
  <1>2. IsFiniteSet(DOMAIN calls)
    BY <1>1, FS_Interval
  <1>3. Late(name) \subseteq DOMAIN calls /\ UnderWay(name) \subseteq DOMAIN calls
    BY DEF Late, UnderWay
  <1>4. QED
    BY <1>2, <1>3, FS_Subset, FS_CardinalityType

\* Nothing more is left alone nor under way.
LEMMA NothingMore ==
  ASSUME DialogTypeOK, NEW name \in Names, PaidByName(name), UNCHANGED <<debited, bought>>,
         givenUp'[name] \in Nat, givenUp'[name] >= givenUp[name],
         name \notin bought => Late(name)' \subseteq Late(name),
         name \in bought => UnderWay(name)' \subseteq UnderWay(name)
  PROVE  PaidByName(name)'
PROOF
  <1>1. debited[name] \in Nat /\ givenUp[name] \in Nat
    BY DEF DialogTypeOK
  <1>2. name \notin bought => /\ Cardinality(Late(name)') <= Cardinality(Late(name))
                              /\ Cardinality(Late(name)') \in Nat
    BY PurchasesFinite, FS_Subset, FS_CardinalityType
  <1>3. name \in bought => /\ Cardinality(UnderWay(name)') <= Cardinality(UnderWay(name))
                           /\ Cardinality(UnderWay(name)') \in Nat
    BY PurchasesFinite, FS_Subset, FS_CardinalityType
  <1>4. Cardinality(Late(name)) \in Nat /\ Cardinality(UnderWay(name)) \in Nat
    BY PurchasesFinite
  <1> DEFINE late == Cardinality(Late(name))
             lateThen == Cardinality(Late(name)')
             way == Cardinality(UnderWay(name))
             wayThen == Cardinality(UnderWay(name)')
  <1>5. /\ name \notin bought => debited[name] = 0 /\ late <= givenUp[name]
        /\ name \in bought => debited[name] + way <= 1 + givenUp[name]
    BY DEF PaidByName
  <1>6. /\ name \notin bought' => debited'[name] = 0 /\ lateThen <= givenUp'[name]
        /\ name \in bought' => debited'[name] + wayThen <= 1 + givenUp'[name]
    <2> HIDE DEF late, lateThen, way, wayThen
    <2>1. late \in Nat /\ way \in Nat /\ (name \notin bought => lateThen <= late /\ lateThen \in Nat)
          /\ (name \in bought => wayThen <= way /\ wayThen \in Nat)
      BY <1>2, <1>3, <1>4 DEF late, lateThen, way, wayThen
    <2>2. QED
      BY <1>1, <1>5, <2>1
  <1>7. QED
    BY <1>6 DEF PaidByName

\* One purchase is left alone, and given up.
LEMMA OneGivenUp ==
  ASSUME DialogTypeInv, PurchaseInv, NEW i \in Awaited, GiveUp(calls[i].name),
         UNCHANGED <<debited, bought>>, DOMAIN calls' = DOMAIN calls,
         \A j \in DOMAIN calls : calls'[j].name = calls[j].name /\ calls'[j].stage = calls[j].stage,
         \A j \in DOMAIN calls : j # i => calls'[j].awaited = calls[j].awaited
  PROVE  PurchaseInv'
PROOF
  <1> SUFFICES ASSUME NEW name \in Names PROVE PaidByName(name)'
    BY DEF PurchaseInv
  <1>0. DialogTypeOK /\ PaidByName(name) /\ i \in DOMAIN calls /\ calls[i].name \in Names
    BY CallTyped DEF DialogTypeInv, PurchaseInv, Awaited
  <1>1. debited[name] \in Nat /\ givenUp \in [Names -> Nat] /\ givenUp[name] \in Nat
    BY <1>0 DEF DialogTypeOK
  <1>2. UnderWay(name)' = UnderWay(name)
    BY DEF UnderWay
  <1>3. CASE calls[i].name # name
    <2>1. Late(name)' \subseteq Late(name)
      BY <1>3 DEF Late
    <2>2. givenUp'[name] = givenUp[name]
      BY <1>0, <1>1, <1>3 DEF GiveUp
    <2>3. QED
      BY <1>0, <1>1, <1>2, <2>1, <2>2, NothingMore
  <1>4. CASE calls[i].name = name
    <2>1. givenUp'[name] = givenUp[name] + 1
      BY <1>0, <1>1, <1>4 DEF GiveUp
    <2>2. Late(name)' \subseteq Late(name) \union {i}
      BY DEF Late
    <2>3. /\ Cardinality(Late(name)) \in Nat /\ Cardinality(UnderWay(name)) \in Nat
          /\ IsFiniteSet(Late(name))
      BY <1>0, PurchasesFinite
    <2>4. /\ IsFiniteSet(Late(name) \union {i})
          /\ Cardinality(Late(name) \union {i}) \in {Cardinality(Late(name)), Cardinality(Late(name)) + 1}
      BY <2>3, FS_AddElement
    <2>5. /\ Cardinality(Late(name)') <= Cardinality(Late(name) \union {i})
          /\ Cardinality(Late(name)') \in Nat
      BY <2>2, <2>4, FS_Subset, FS_CardinalityType
    <2>6. Cardinality(Late(name)') <= Cardinality(Late(name)) + 1
      BY <2>3, <2>4, <2>5
    <2>7. QED
      BY <1>0, <1>1, <1>2, <2>1, <2>3, <2>5, <2>6 DEF PaidByName
  <1>5. QED
    BY <1>3, <1>4

\* A purchase asked for: it waits for the answer.
LEMMA OneMoreAsked ==
  ASSUME DialogTypeOK, PurchaseInv, UNCHANGED <<debited, bought, givenUp>>, NEW name, GenerateBrandReport(name)
  PROVE  PurchaseInv'
PROOF
  <1>1. CASE loading
    BY <1>1 DEF GenerateBrandReport, PurchaseInv, PaidByName, Late, UnderWay
  <1>2. CASE ~loading
    <2> DEFINE c == [name |-> name, stage |-> "sent", awaited |-> TRUE]
    <2>1. calls' = Append(calls, c) /\ c.awaited /\ c.stage = "sent"
      BY <1>2 DEF GenerateBrandReport
    <2> HIDE DEF c
    <2>2. /\ DOMAIN calls' = DOMAIN calls \union {Len(calls) + 1} /\ calls'[Len(calls) + 1] = c
          /\ \A i \in DOMAIN calls : calls'[i] = calls[i]
      BY <2>1 DEF DialogTypeOK
    <2>3. ASSUME NEW n \in Names PROVE PaidByName(n)'
      <3>1. Late(n)' \subseteq Late(n) /\ UnderWay(n)' \subseteq UnderWay(n)
        BY <2>1, <2>2 DEF Late, UnderWay
      <3>2. givenUp'[n] \in Nat /\ givenUp'[n] >= givenUp[n]
        BY DEF DialogTypeOK
      <3>3. QED
        BY <3>1, <3>2, NothingMore DEF PurchaseInv
    <2>4. QED
      BY <2>3 DEF PurchaseInv
  <1>3. QED
    BY <1>1, <1>2

\* A debit, of a purchase that found nothing: the first one stores the report.
LEMMA DebitKeeps ==
  ASSUME DialogTypeInv, PurchaseInv, NEW i \in DOMAIN calls, FullDebit(i), UNCHANGED givenUp
  PROVE  PurchaseInv'
PROOF
  <1> PICK paid \in Names : paid = calls[i].name
    BY CallTyped DEF DialogTypeInv
  <1>0. DialogTypeOK /\ paid = calls[i].name /\ debited \in [Names -> Nat] /\ givenUp \in [Names -> Nat]
    BY CallTyped DEF DialogTypeInv, DialogTypeOK
  <1>1. /\ calls[i].stage = "generating" /\ calls' = [calls EXCEPT ![i].stage = "report"]
        /\ debited' = [debited EXCEPT ![paid] = @ + 1] /\ bought' = bought \union {paid}
    BY <1>0 DEF FullDebit
  <1>2. /\ DOMAIN calls' = DOMAIN calls /\ calls'[i].stage = "report"
        /\ \A j \in DOMAIN calls : j # i => calls'[j] = calls[j]
        /\ \A j \in DOMAIN calls : calls'[j].name = calls[j].name /\ calls'[j].awaited = calls[j].awaited
    BY <1>0, <1>1, StageChanged DEF Stages
  <1>3. ASSUME NEW name \in Names, name # paid PROVE PaidByName(name)'
    <2>1. Late(name)' = Late(name) /\ UnderWay(name)' = UnderWay(name)
      BY <1>0, <1>2, <1>3 DEF Late, UnderWay
    <2>2. debited'[name] = debited[name] /\ (name \in bought' <=> name \in bought)
      BY <1>0, <1>1, <1>3
    <2>3. QED
      BY <2>1, <2>2 DEF PurchaseInv, PaidByName
  <1>4. PaidByName(paid)'
    <2>1. UnderWay(paid)' = UnderWay(paid) \ {i} /\ i \in UnderWay(paid)
      BY <1>0, <1>1, <1>2 DEF UnderWay
    <2>2. /\ Cardinality(UnderWay(paid)') = Cardinality(UnderWay(paid)) - 1
          /\ Cardinality(UnderWay(paid)) \in Nat
      BY <1>0, <2>1, PurchasesFinite, FS_RemoveElement
    <2>3. debited'[paid] = debited[paid] + 1 /\ paid \in bought' /\ debited[paid] \in Nat
          /\ givenUp[paid] \in Nat
      BY <1>0, <1>1
    <2>4. debited[paid] + Cardinality(UnderWay(paid)) <= 1 + givenUp[paid]
      <3>1. CASE paid \in bought
        BY <1>0, <3>1 DEF PurchaseInv, PaidByName
      <3>2. CASE paid \notin bought
        <4>1. /\ debited[paid] = 0 /\ Cardinality(Late(paid)) <= givenUp[paid]
              /\ IsFiniteSet(Late(paid)) /\ Cardinality(Late(paid)) \in Nat
          BY <1>0, <3>2, PurchasesFinite DEF PurchaseInv, PaidByName
        <4>2. PICK k : Awaited \subseteq {k}
          BY DEF DialogTypeInv, Remembered
        <4>3. UnderWay(paid) \subseteq Late(paid) \union {k}
          BY <4>2 DEF UnderWay, Late, Awaited
        <4>4. /\ IsFiniteSet(Late(paid) \union {k})
              /\ Cardinality(Late(paid) \union {k}) \in {Cardinality(Late(paid)), Cardinality(Late(paid)) + 1}
          BY <4>1, FS_AddElement
        <4>5. Cardinality(UnderWay(paid)) <= Cardinality(Late(paid) \union {k})
          BY <4>3, <4>4, FS_Subset
        <4>6. QED
          BY <2>2, <2>3, <4>1, <4>4, <4>5
      <3>3. QED
        BY <3>1, <3>2
    <2>5. QED
      BY <2>2, <2>3, <2>4 DEF PaidByName
  <1>5. QED
    BY <1>3, <1>4 DEF PurchaseInv

\* A purchase that finds the report, is refused or fails is under way no more; one that finds
\* nothing sets out before anything is stored.
LEMMA StageKeeps ==
  ASSUME DialogTypeInv, PurchaseInv, NEW i \in DOMAIN calls, FullFind(i) \/ FullRefuse(i) \/ FullFail(i),
         UNCHANGED <<serverVars, givenUp>>
  PROVE  PurchaseInv'
PROOF
  <1> SUFFICES ASSUME NEW name \in Names PROVE PaidByName(name)'
    BY DEF PurchaseInv
  <1>0. /\ DialogTypeOK /\ PaidByName(name) /\ UNCHANGED <<debited, bought, givenUp>>
        /\ givenUp[name] \in Nat
    BY DEF DialogTypeInv, PurchaseInv, serverVars, DialogTypeOK
  <1>1. PICK st \in Stages : /\ calls' = [calls EXCEPT ![i].stage = st]
                             /\ st \in {"sent", "generating"} => calls[i].stage = "sent"
                             /\ st = "generating" => calls[i].name \notin bought
                             /\ calls[i].stage \in {"sent", "generating"}
    BY DEF FullFind, FullRefuse, FullFail, Stages
  <1>2. /\ DOMAIN calls' = DOMAIN calls /\ calls'[i].stage = st
        /\ \A j \in DOMAIN calls : j # i => calls'[j] = calls[j]
        /\ \A j \in DOMAIN calls : calls'[j].name = calls[j].name /\ calls'[j].awaited = calls[j].awaited
    BY <1>0, <1>1, StageChanged
  <1>3. Late(name)' \subseteq Late(name)
    BY <1>1, <1>2 DEF Late
  <1>4. name \in bought => UnderWay(name)' \subseteq UnderWay(name)
    BY <1>1, <1>2 DEF UnderWay
  <1>5. QED
    BY <1>0, <1>3, <1>4, NothingMore

LEMMA PurchaseStep == DialogTypeInv /\ PurchaseInv /\ [DialogNext]_dialogVars => PurchaseInv'
PROOF
  <1> SUFFICES ASSUME DialogTypeInv, PurchaseInv, [DialogNext]_dialogVars PROVE PurchaseInv'
    OBVIOUS
  <1>0. DialogTypeOK /\ givenUp \in [Names -> Nat]
    BY DEF DialogTypeInv, DialogTypeOK
  <1>1. CASE UNCHANGED <<calls, debited, bought, givenUp>>
    BY <1>1 DEF PurchaseInv, PaidByName, Late, UnderWay
  <1>2. CASE LaunchBrandReport \/ RetryBrandReport
    BY <1>0, <1>2, OneMoreAsked DEF LaunchBrandReport, RetryBrandReport, serverVars
  <1>3. CASE Reload
    <2>1. /\ UNCHANGED <<debited, bought>>
          /\ calls' = [i \in DOMAIN calls |-> [calls[i] EXCEPT !.awaited = FALSE]]
          /\ IF Awaited = {} THEN UNCHANGED givenUp ELSE \E i \in Awaited : GiveUp(calls[i].name)
      BY <1>3 DEF Reload, serverVars
    <2>2. ASSUME NEW j \in DOMAIN calls
          PROVE  /\ calls'[j].name = calls[j].name /\ calls'[j].stage = calls[j].stage
                 /\ calls'[j].awaited = FALSE /\ calls[j].awaited \in BOOLEAN
      <3>1. calls[j] \in Calls /\ calls'[j] = [calls[j] EXCEPT !.awaited = FALSE]
        BY <1>0, <2>1, CallTyped
      <3>2. QED
        BY <3>1 DEF Calls
    <2>3. DOMAIN calls' = DOMAIN calls
      BY <2>1
    <2>4. CASE Awaited = {}
      <3>1. ASSUME NEW name \in Names PROVE PaidByName(name)'
        <4>1. Late(name)' \subseteq Late(name) /\ UnderWay(name)' = UnderWay(name)
          BY <2>2, <2>3, <2>4 DEF Late, UnderWay, Awaited
        <4>2. givenUp'[name] \in Nat /\ givenUp'[name] >= givenUp[name]
          BY <1>0, <2>1, <2>4
        <4>3. QED
          BY <1>0, <2>1, <4>1, <4>2, NothingMore DEF PurchaseInv
      <3>2. QED
        BY <3>1 DEF PurchaseInv
    <2>5. CASE Awaited # {}
      <3>1. PICK i \in Awaited : GiveUp(calls[i].name)
        BY <2>1, <2>5
      <3>2. ASSUME NEW j \in DOMAIN calls, j # i PROVE calls'[j].awaited = calls[j].awaited
        <4>1. calls[j].awaited = FALSE
          BY <2>2, <3>2 DEF DialogTypeInv, Remembered, Awaited
        <4>2. calls'[j].awaited = FALSE
          BY <2>2
        <4>3. QED
          BY <4>1, <4>2
      <3>3. QED
        BY <2>1, <2>2, <2>3, <3>1, <3>2, OneGivenUp
    <2>6. QED
      BY <2>4, <2>5
  <1>4. ASSUME NEW i \in DOMAIN calls, FullAnswered(i) PROVE PurchaseInv'
    <2>1. /\ i \in Awaited /\ calls[i].stage \in {"report", "refused", "failed"}
          /\ calls' = [calls EXCEPT ![i].awaited = FALSE] /\ UNCHANGED <<debited, bought, givenUp>>
      BY <1>4 DEF FullAnswered, serverVars
    <2>2. /\ DOMAIN calls' = DOMAIN calls
          /\ \A j \in DOMAIN calls : calls'[j].name = calls[j].name /\ calls'[j].stage = calls[j].stage
          /\ \A j \in DOMAIN calls : j # i => calls'[j] = calls[j]
      BY <2>1, NoLongerAwaited
    <2>3. ASSUME NEW name \in Names PROVE PaidByName(name)'
      <3>1. Late(name)' \subseteq Late(name) /\ UnderWay(name)' = UnderWay(name)
        BY <2>1, <2>2 DEF Late, UnderWay
      <3>2. givenUp'[name] \in Nat /\ givenUp'[name] >= givenUp[name]
        BY <1>0, <2>1
      <3>3. QED
        BY <1>0, <2>1, <3>1, <3>2, NothingMore DEF PurchaseInv
    <2>4. QED
      BY <2>3 DEF PurchaseInv
  <1>5. ASSUME NEW i \in DOMAIN calls, FullTimesOut(i) PROVE PurchaseInv'
    <2>1. /\ i \in Awaited /\ GiveUp(calls[i].name)
          /\ calls' = [calls EXCEPT ![i].awaited = FALSE] /\ UNCHANGED <<debited, bought>>
      BY <1>5 DEF FullTimesOut, serverVars
    <2>2. /\ DOMAIN calls' = DOMAIN calls
          /\ \A j \in DOMAIN calls : calls'[j].name = calls[j].name /\ calls'[j].stage = calls[j].stage
          /\ \A j \in DOMAIN calls : j # i => calls'[j] = calls[j]
      BY <2>1, NoLongerAwaited
    <2>3. QED
      BY <2>1, <2>2, OneGivenUp
  <1>6. ASSUME NEW i \in DOMAIN calls, Server(i) PROVE PurchaseInv'
    BY <1>6, DebitKeeps, StageKeeps DEF Server
  <1>7. CASE \E name \in Names : \/ OpenFullReport(name) \/ AskBrandReport(name)
                                 \/ IntoAnswered(name) \/ AskAnswered(name)
    BY <1>1, <1>7 DEF OpenFullReport, AskBrandReport, IntoAnswered, AskAnswered, serverVars
  <1>8. CASE ShowSampleReport \/ CancelConfirm \/ ConfirmBrandReport \/ RejectPopup \/ CloseReport
    BY <1>1, <1>8 DEF ShowSampleReport, CancelConfirm, ConfirmBrandReport, RejectPopup, CloseReport,
                      serverVars
  <1>9. CASE BackOrForward \/ PopState
    BY <1>1, <1>9 DEF BackOrForward, PopState, Travel, serverVars
  <1>10. CASE UNCHANGED dialogVars
    BY <1>1, <1>10 DEF dialogVars, serverVars
  <1>11. QED
    BY <1>2, <1>3, <1>4, <1>5, <1>6, <1>7, <1>8, <1>9, <1>10 DEF DialogNext

LEMMA PurchaseInit == DialogInit => PurchaseInv
PROOF
  <1> SUFFICES ASSUME DialogInit, NEW name \in Names PROVE PaidByName(name)
    BY DEF PurchaseInv
  <1>1. calls = <<>> /\ debited[name] = 0 /\ givenUp[name] = 0
    BY DEF DialogInit
  <1>2. Late(name) = {} /\ UnderWay(name) = {}
    BY <1>1 DEF Late, UnderWay
  <1>3. QED
    BY <1>1, <1>2, FS_EmptySet DEF PaidByName

\* A name is paid once, and once more at most for each purchase the client gave up waiting for.
THEOREM DialogPaysOnce == DialogSpec => []PaidOnceUnlessGivenUp
PROOF
  <1>1. DialogTypeInv /\ PurchaseInv => PaidOnceUnlessGivenUp
    <2> SUFFICES ASSUME DialogTypeInv, PurchaseInv, NEW name \in Names
                 PROVE  debited[name] <= 1 + givenUp[name]
      BY DEF PaidOnceUnlessGivenUp
    <2>1. /\ debited[name] \in Nat /\ givenUp[name] \in Nat /\ PaidByName(name)
          /\ Cardinality(UnderWay(name)) \in Nat
      BY PurchasesFinite DEF DialogTypeInv, DialogTypeOK, PurchaseInv
    <2>2. QED
      BY <2>1 DEF PaidByName
  <1>2. QED
    BY <1>1, DialogTypeInit, DialogTypeStep, PurchaseInit, PurchaseStep, PTL DEF DialogSpec
=============================================================================
