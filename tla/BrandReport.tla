----------------------------- MODULE BrandReport -----------------------------
(***************************************************************************)
(* The paid brand report of one name for one paying account: POST          *)
(* /brand-report (look in the store, generate, debit, store, answer), by   *)
(* overlapping requests of the owner and of those the project is shared    *)
(* with, and BrandReportStore.save, which finds and then writes.           *)
(*                                                                         *)
(* The report itself is its date of generation; its verdicts, the score    *)
(* and the mail that follows are left out.  The debit is one transaction,  *)
(* one step here (its own interleavings are the subject of Accounts).      *)
(***************************************************************************)
EXTENDS Integers, FiniteSets

CONSTANTS
  Handlers,                 \* concurrent requests
  NoRow,                    \* findOne found nothing
  BRAND_REPORT_COST,
  REFRESH_MIN_INTERVAL,     \* in units of the clock
  InitialBalance,
  SpendingElsewhere,        \* amounts the payer may spend meanwhile
  MaxTime,                  \* bound on the clock
  MaxFailures               \* bound on the failures, whatever fails

\* token 0: the report was answered without a token.
Rows == [token : Nat \ {0}, generatedAt : Nat, costCredits : Nat]

ASSUME ReportAssumption ==
  /\ IsFiniteSet(Handlers)
  /\ NoRow \notin Rows
  /\ BRAND_REPORT_COST \in Nat \ {0}
  /\ REFRESH_MIN_INTERVAL \in Nat
  /\ InitialBalance \in Nat
  /\ SpendingElsewhere \subseteq Nat
  /\ MaxTime \in Nat
  /\ MaxFailures \in Nat

VARIABLES
  balance,    \* totalCredits of the payer
  row,        \* the record of (account, name) in the store
  now,
  handler,    \* where each request is, and what it holds
  issued,     \* share tokens drawn so far (randomUUID: they are numbered)
  delivered,  \* history: the tokens in the reports clients received
  unsaved,    \* history: the tokens drawn for an INSERT that did not happen
  debits,     \* history: debits for this name
  served,     \* history: reports that were paid and answered
  failures,   \* failures so far
  restarts    \* history: requests a restart cut short

vars == <<balance, row, now, handler, issued, delivered, unsaved, debits, served, failures, restarts>>

Steps == {"find", "generate", "debit", "saveFind", "saveWrite"}

Requests == [pc : Steps, force : BOOLEAN, credits : Nat, isRefresh : BOOLEAN,
             generatedAt : Nat, token : Nat, existing : Rows \union {NoRow}]

Idle == [pc |-> "idle"]

TypeOK ==
  /\ balance \in Nat
  /\ row \in Rows \union {NoRow}
  /\ now \in 0..MaxTime
  /\ handler \in [Handlers -> Requests \union {Idle}]
  /\ issued \in Nat
  /\ delivered \subseteq 0..issued
  /\ unsaved \subseteq 0..issued
  /\ debits \in Nat
  /\ served \in Nat
  /\ failures \in 0..MaxFailures
  /\ restarts \in Nat

Init ==
  /\ balance = InitialBalance
  /\ row = NoRow
  /\ now = 0
  /\ handler = [h \in Handlers |-> Idle]
  /\ issued = 0
  /\ delivered = {}
  /\ unsaved = {}
  /\ debits = 0
  /\ served = 0
  /\ failures = 0
  /\ restarts = 0

----------------------------------------------------------------------------
At(h, step) == handler[h].pc = step

Set(h, request) == handler' = [handler EXCEPT ![h] = request]

Goto(h, step) == handler' = [handler EXCEPT ![h].pc = step]

Fails == failures < MaxFailures /\ failures' = failures + 1

\* The request ends without a report.
Refuse(h) == Set(h, Idle) /\ UNCHANGED <<delivered, served>>

\* The request answers with a report that carries `token`.
Answer(h, token) ==
  /\ Set(h, Idle)
  /\ delivered' = delivered \union {token}

\* A request of the payer, or of a guest of the project: it reads the balance.
Full(h, force) ==
  /\ handler[h] = Idle
  /\ Set(h, [pc |-> "find", force |-> force, credits |-> balance, isRefresh |-> FALSE,
             generatedAt |-> 0, token |-> 0, existing |-> NoRow])
  /\ UNCHANGED <<balance, row, now, issued, delivered, unsaved, debits, served, failures, restarts>>

Throttled == now - row.generatedAt < REFRESH_MIN_INTERVAL

\* No report to give back: it will be paid.
Miss(h) ==
  /\ IF handler[h].credits < BRAND_REPORT_COST THEN Refuse(h) ELSE Goto(h, "generate") /\ UNCHANGED <<delivered, served>>

\* Mutant: the store is only looked at for a refresh.
FindForRefresh(h) ==
  /\ At(h, "find")
  /\ \/ row = NoRow /\ Miss(h)
     \/ /\ row # NoRow /\ handler[h].force /\ ~Throttled
        /\ handler' = [handler EXCEPT ![h].pc = "generate", ![h].isRefresh = TRUE]
        /\ UNCHANGED <<delivered, served>>
     \/ row # NoRow /\ ~handler[h].force /\ Miss(h)
     \/ row # NoRow /\ handler[h].force /\ Throttled /\ Answer(h, row.token) /\ UNCHANGED served
  /\ UNCHANGED <<balance, row, now, issued, unsaved, debits, failures, restarts>>

\* The report is given back as it is, or refreshed, or is to be paid.
Find(h) ==
  /\ At(h, "find")
  /\ \/ row = NoRow /\ Miss(h)
     \/ /\ row # NoRow /\ handler[h].force /\ ~Throttled
        /\ handler' = [handler EXCEPT ![h].pc = "generate", ![h].isRefresh = TRUE]
        /\ UNCHANGED <<delivered, served>>
     \/ /\ row # NoRow
        /\ handler[h].force => Throttled
        /\ Answer(h, row.token)
        /\ UNCHANGED served
  /\ UNCHANGED <<balance, row, now, issued, unsaved, debits, failures, restarts>>

\* A store that fails to answer counts as a store without the report.
FindFails(h) ==
  /\ At(h, "find")
  /\ Fails
  /\ Miss(h)
  /\ UNCHANGED <<balance, row, now, issued, unsaved, debits, restarts>>

\* Mutant: a new report is debited before it is generated.
GenerateAfterDebit(h) ==
  /\ At(h, "generate")
  /\ \/ /\ handler' = [handler EXCEPT ![h].pc = "saveFind", ![h].generatedAt = now]
        /\ UNCHANGED <<failures, delivered, served>>
     \/ Fails /\ Refuse(h)
  /\ IF handler[h].isRefresh \/ balance < BRAND_REPORT_COST
     THEN UNCHANGED <<balance, debits>>
     ELSE balance' = balance - BRAND_REPORT_COST /\ debits' = debits + 1
  /\ UNCHANGED <<row, now, issued, unsaved, restarts>>

\* The generation comes before the debit: when it fails nothing is owed.
Generate(h) ==
  /\ At(h, "generate")
  /\ \/ /\ handler' = [handler EXCEPT ![h].pc = IF handler[h].isRefresh THEN "saveFind" ELSE "debit",
                                      ![h].generatedAt = now]
        /\ UNCHANGED <<failures, delivered, served>>
     \/ Fails /\ Refuse(h)
  /\ UNCHANGED <<balance, row, now, issued, unsaved, debits, restarts>>

\* decrementCredits in its transaction; a refusal rolls back and answers 403.
Debit(h) ==
  /\ At(h, "debit")
  /\ \/ /\ balance >= BRAND_REPORT_COST
        /\ balance' = balance - BRAND_REPORT_COST
        /\ debits' = debits + 1
        /\ Goto(h, "saveFind")
        /\ UNCHANGED <<delivered, served, failures>>
     \/ /\ balance < BRAND_REPORT_COST
        /\ Refuse(h)
        /\ UNCHANGED <<balance, debits, failures>>
     \/ /\ Fails
        /\ Refuse(h)
        /\ UNCHANGED <<balance, debits>>
  /\ UNCHANGED <<row, now, issued, unsaved, restarts>>

\* The answer after the save, whether it succeeded or not.
Finish(h, token) ==
  /\ Answer(h, token)
  /\ served' = IF handler[h].isRefresh THEN served ELSE served + 1

\* Mutant: a new token at each save.
SaveFindRenewsToken(h) ==
  /\ At(h, "saveFind")
  /\ handler' = [handler EXCEPT ![h].pc = "saveWrite", ![h].existing = row, ![h].token = issued + 1]
  /\ issued' = issued + 1
  /\ UNCHANGED <<balance, row, now, delivered, unsaved, debits, served, failures, restarts>>

\* BrandReportStore.save, first statement: the row, and the share token.
SaveFind(h) ==
  /\ At(h, "saveFind")
  /\ \/ /\ row # NoRow
        /\ handler' = [handler EXCEPT ![h].pc = "saveWrite", ![h].existing = row, ![h].token = row.token]
        /\ UNCHANGED <<issued, delivered, served, failures>>
     \/ /\ row = NoRow
        /\ handler' = [handler EXCEPT ![h].pc = "saveWrite", ![h].token = issued + 1]
        /\ issued' = issued + 1
        /\ UNCHANGED <<delivered, served, failures>>
     \/ /\ Fails
        /\ Finish(h, 0)
        /\ UNCHANGED issued
  /\ UNCHANGED <<balance, row, now, unsaved, debits, restarts>>

\* The cost is only written by the request that paid it.
CostWritten(h) ==
  IF handler[h].isRefresh THEN handler[h].existing.costCredits ELSE BRAND_REPORT_COST

\* No row will hold the token the request drew for its INSERT.
Unsave(h) ==
  unsaved' = IF handler[h].existing = NoRow THEN unsaved \union {handler[h].token} ELSE unsaved

\* Second statement: the INSERT, which the unique index may refuse, or the
\* UPDATE.  A failure is logged and the report answered all the same.
SaveWrite(h) ==
  /\ At(h, "saveWrite")
  /\ \/ /\ handler[h].existing # NoRow \/ row = NoRow
        /\ row' = [token |-> handler[h].token, generatedAt |-> handler[h].generatedAt,
                   costCredits |-> CostWritten(h)]
        /\ UNCHANGED <<failures, unsaved>>
     \/ /\ handler[h].existing = NoRow /\ row # NoRow
        /\ Unsave(h)
        /\ UNCHANGED <<row, failures>>
     \/ Fails /\ Unsave(h) /\ UNCHANGED row
  /\ Finish(h, handler[h].token)
  /\ UNCHANGED <<balance, now, issued, debits, restarts>>

\* The container stops: the requests in flight vanish.
Restart ==
  /\ Fails
  /\ restarts' = restarts + Cardinality({h \in Handlers : handler[h] # Idle})
  /\ handler' = [h \in Handlers |-> Idle]
  /\ UNCHANGED <<balance, row, now, issued, delivered, unsaved, debits, served>>

Tick ==
  /\ now < MaxTime
  /\ now' = now + 1
  /\ UNCHANGED <<balance, row, handler, issued, delivered, unsaved, debits, served, failures, restarts>>

SpendElsewhere(amount) ==
  /\ amount <= balance
  /\ balance' = balance - amount
  /\ UNCHANGED <<row, now, handler, issued, delivered, unsaved, debits, served, failures, restarts>>

Step(h) ==
  \/ \E force \in BOOLEAN : Full(h, force)
  \/ Find(h) \/ FindFails(h)
  \/ Generate(h) \/ Debit(h)
  \/ SaveFind(h) \/ SaveWrite(h)

Next ==
  \/ \E h \in Handlers : Step(h)
  \/ Restart
  \/ Tick
  \/ \E amount \in SpendingElsewhere : SpendElsewhere(amount)

Spec == Init /\ [][Next]_vars

----------------------------------------------------------------------------
\* The requests that were debited and have not answered yet.
Owed == {h \in Handlers : handler[h].pc \in {"saveFind", "saveWrite"} /\ ~handler[h].isRefresh}

\* Whoever is debited is answered with the report: only a restart comes in
\* between, and no failure costs a credit (brand-report.controller.ts, lines
\* 165 to 167).
DebitedIsServed == debits <= served + Cardinality(Owed) + restarts

\* However often the report is asked for, it is paid once, and once more only
\* for a request that overlapped the first or for a failure of the store.
PaidOncePerOverlap == debits <= Cardinality(Handlers) + failures + restarts

\* The report in the store was paid, and keeps what it cost through refreshes
\* (lines 290 to 294).
CostIsKept == row # NoRow => debits > 0 /\ row.costCredits = BRAND_REPORT_COST

\* The share link of a report someone received opens the stored report, for
\* good: refreshes, purchases that overlap, failures and restarts leave it as
\* it is.  Only the link of a report whose own INSERT was refused or failed
\* opens nothing (brand-report.store.ts, lines 76 to 91), although lines 73 and
\* 74 say of every returned report that it embeds a stable token.
ReturnedTokenOpens ==
  \A token \in delivered \ {0} : token \in unsaved \/ (row # NoRow /\ row.token = token)
=============================================================================
