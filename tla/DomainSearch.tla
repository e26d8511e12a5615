---------------------------- MODULE DomainSearch ----------------------------
(***************************************************************************)
(* One search: findAvailableDomains (candidates in batches from the        *)
(* language model, verified by a few workers that draw from one queue) and *)
(* the controller around it (the limit taken from the credits, the stop    *)
(* button, the transaction that saves and bills).                          *)
(*                                                                         *)
(* A step runs from one `await` to the next.  In particular the first item *)
(* of every worker is taken as the workers are launched, and what follows  *)
(* the settling of the last candidate (end of the attempt, test of the     *)
(* thresholds, early return of an interrupted search) is part of that      *)
(* step.                                                                   *)
(*                                                                         *)
(* The language model and the registries are external: any batch, with     *)
(* repetitions and excluded names, and any verdict.  The payer may spend   *)
(* elsewhere meanwhile.  The debit is one step here; its own interleavings *)
(* are the subject of Accounts.                                            *)
(***************************************************************************)
EXTENDS Integers, FiniteSets, Sequences, SequencesExt

CONSTANTS
  Names,                   \* candidate names
  NoName,
  Extensions,              \* the extensions asked for, in order
  Exclusions,              \* lists of names a search may be asked to avoid
  Workers,                 \* CANDIDATE_CONCURRENCY of them
  TARGET,                  \* 10 in the controller
  MAX_TENTATIVES,
  Balances,                \* credits the payer may have at the start
  SpendingElsewhere,       \* amounts the payer may spend meanwhile
  MaxBatch                 \* bound on the names of a batch

ASSUME SearchAssumption ==
  /\ NoName \notin Names
  /\ IsFiniteSet(Workers)
  /\ TARGET \in Nat \ {0}
  /\ MAX_TENTATIVES \in Nat \ {0}
  /\ Balances \subseteq Nat \ {0}
  /\ SpendingElsewhere \subseteq Nat
  /\ MaxBatch \in Nat

VARIABLES
  matchMode,   \* "all" or "any" of the extensions
  excluded,    \* excludeNames
  limit,       \* targetCount, from the credits read at the start
  phase,       \* where the search is
  checked,     \* checkedNames
  verified,    \* verifiedNames
  results,     \* finalResults
  attempts,
  items,       \* newItems[cursor..] of the attempt
  working,     \* the candidate each worker has submitted to the registries
  late,        \* the time budget is spent
  aborted,     \* signal.aborted: the client closed the connection
  stopReason,
  balance,     \* totalCredits of the payer
  project,     \* the project the search is saved in
  saved,       \* suggestions saved
  debited      \* credits taken for them

request == <<matchMode, excluded, limit>>
loop == <<checked, verified, results, attempts, items, working, stopReason>>
account == <<balance, project, saved, debited>>
vars == <<request, phase, loop, late, aborted, account>>

Ext == Range(Extensions)

Verdict == {"free", "taken", "unknown"}

\* checkExtensions: one after the other until one is taken, or all of them.
ExtStatuses ==
  IF matchMode = "any"
  THEN [Ext -> Verdict]
  ELSE UNION {{status \in [Range(SubSeq(Extensions, 1, k)) -> Verdict] :
                 /\ \A i \in 1..(k - 1) : status[Extensions[i]] # "taken"
                 /\ k < Len(Extensions) => status[Extensions[k]] = "taken"} :
              k \in 1..Len(Extensions)}

Free(status) == {ext \in DOMAIN status : status[ext] = "free"}
Unknown(status) == {ext \in DOMAIN status : status[ext] = "unknown"}

\* Mutant: one extension is enough in both modes.
IsMatchAny(status) == Free(status) # {}

IsMatch(status) ==
  IF matchMode = "all"
  THEN /\ DOMAIN status = Ext
       /\ Free(status) # {}
       /\ Free(status) = DOMAIN status \ Unknown(status)
  ELSE Free(status) # {}

Phases == {"brief", "generating", "working", "billing", "done"}

TypeOK ==
  /\ matchMode \in {"all", "any"}
  /\ excluded \subseteq Names
  /\ limit \in 1..TARGET
  /\ phase \in Phases
  /\ checked \subseteq Names
  /\ verified \in Seq(Names)
  /\ \A i \in DOMAIN results : results[i].name \in Names /\ results[i].status \in ExtStatuses
  /\ attempts \in 0..MAX_TENTATIVES
  /\ items \in Seq(Names)
  /\ working \in [Workers -> Names \union {NoName}]
  /\ late \in BOOLEAN
  /\ aborted \in BOOLEAN
  /\ stopReason \in {"none", "target", "attempts", "time", "aborted"}
  /\ balance \in Nat
  /\ project \in {"new", "existing", "gone"}
  /\ saved \in Nat
  /\ debited \in Nat

Limit(credits) == IF credits < TARGET THEN credits ELSE TARGET

Init ==
  /\ matchMode \in {"all", "any"}
  /\ excluded \in Exclusions
  /\ balance \in Balances
  /\ limit = Limit(balance)
  /\ phase = "brief"
  /\ checked = excluded
  /\ verified = <<>>
  /\ results = <<>>
  /\ attempts = 0
  /\ items = <<>>
  /\ working = [w \in Workers |-> NoName]
  /\ late = FALSE
  /\ aborted = FALSE
  /\ stopReason = "none"
  /\ project \in {"new", "existing"}
  /\ saved = 0
  /\ debited = 0

----------------------------------------------------------------------------
\* The head of the loop, reached with `found` results after `tries` attempts,
\* and the controller's early return.
\* Mutant: an abort does not override what the loop ended with.
StopReasonBeforeAbort(found, tries) ==
  CASE found >= limit -> "target"
    [] found < limit /\ aborted -> "aborted"
    [] found < limit /\ ~aborted /\ tries >= MAX_TENTATIVES -> "attempts"
    [] found < limit /\ ~aborted /\ tries < MAX_TENTATIVES /\ late -> "time"
    [] OTHER -> "none"

StopReason(found, tries) ==
  CASE aborted                 -> "aborted"
    [] ~aborted /\ found >= limit -> "target"
    [] ~aborted /\ found < limit /\ tries >= MAX_TENTATIVES -> "attempts"
    [] ~aborted /\ found < limit /\ tries < MAX_TENTATIVES /\ late -> "time"
    [] OTHER -> "none"

LoopHead(found, tries) ==
  LET reason == StopReason(found, tries)
  IN  /\ attempts' = tries
      /\ stopReason' = reason
      /\ phase' = CASE reason = "none"    -> "generating"
                    [] reason = "aborted" -> "done"
                    [] OTHER              -> "billing"

\* The brief and the feedback are read by the language model.
ReadBrief ==
  /\ phase = "brief"
  /\ LoopHead(0, 0)
  /\ UNCHANGED <<request, checked, verified, results, items, working, late, aborted, account>>

\* Mutant: the batch is filtered, then marked.
NewItemsUnmarked(batch) == {SelectSeq(batch, LAMBDA name : name \notin checked)}

\* Filter and mark in one pass: a name passes once, even within a batch, in the
\* order in which the names first come (the set has one element).
NewItems(batch) ==
  {fresh \in SetToSeqs(Range(batch) \ checked) :
     \A i, j \in DOMAIN fresh :
       i < j => \E k \in DOMAIN batch : batch[k] = fresh[i] /\ \A l \in 1..k : batch[l] # fresh[j]}

\* Workers take their first items, in order, as they are launched.
Launch(fresh) ==
  LET n == IF Len(fresh) < Cardinality(Workers) THEN Len(fresh) ELSE Cardinality(Workers)
  IN  \E order \in SetToSeqs(Workers) :
        /\ working' = [w \in Workers |->
                         IF \E i \in 1..n : order[i] = w
                         THEN fresh[CHOOSE i \in 1..n : order[i] = w]
                         ELSE NoName]
        /\ verified' = verified \o SubSeq(fresh, 1, n)
        /\ items' = SubSeq(fresh, n + 1, Len(fresh))

\* Mutant: an attempt without a new name is not counted.
GeneratedUncounted(batch) ==
  /\ phase = "generating"
  /\ \E fresh \in NewItems(batch) :
       /\ checked' = checked \union Range(batch)
       /\ \/ /\ fresh = <<>> \/ aborted
             /\ LoopHead(Len(results), attempts)
             /\ UNCHANGED <<verified, items, working>>
          \/ /\ fresh # <<>> /\ ~aborted
             /\ Launch(fresh)
             /\ phase' = "working"
             /\ UNCHANGED <<attempts, stopReason>>
  /\ UNCHANGED <<request, results, late, aborted, account>>

\* generateDomainIdeas returns (an empty batch when the model fails).
Generated(batch) ==
  /\ phase = "generating"
  /\ \E fresh \in NewItems(batch) :
       /\ checked' = checked \union Range(batch)
       /\ \/ /\ fresh = <<>> \/ aborted
             /\ LoopHead(Len(results), attempts + 1)
             /\ UNCHANGED <<verified, items, working>>
          \/ /\ fresh # <<>> /\ ~aborted
             /\ Launch(fresh)
             /\ phase' = "working"
             /\ UNCHANGED <<attempts, stopReason>>
  /\ UNCHANGED <<request, results, late, aborted, account>>

\* Mutant: the count is not read again after the await.
RetainedUncounted(name, status) ==
  IF ~aborted /\ IsMatch(status)
  THEN Append(results, [name |-> name, status |-> status])
  ELSE results

\* Mutant: the signal is not read again after the await.
RetainedUnheard(name, status) ==
  IF IsMatch(status) /\ Len(results) < limit
  THEN Append(results, [name |-> name, status |-> status])
  ELSE results

\* What the worker does of a candidate: the count is read again after the await.
Retained(name, status) ==
  IF ~aborted /\ IsMatch(status) /\ Len(results) < limit
  THEN Append(results, [name |-> name, status |-> status])
  ELSE results

\* Mutant: Promise.race instead of Promise.all.
SettleRace(w, status) ==
  /\ phase = "working"
  /\ working[w] # NoName
  /\ results' = Retained(working[w], status)
  /\ \/ /\ Len(results') < limit /\ ~aborted /\ items # <<>>
        /\ working' = [working EXCEPT ![w] = Head(items)]
        /\ verified' = Append(verified, Head(items))
        /\ items' = Tail(items)
        /\ UNCHANGED <<phase, attempts, stopReason>>
     \/ /\ Len(results') >= limit \/ aborted \/ items = <<>>
        /\ working' = [working EXCEPT ![w] = NoName]
        /\ items' = <<>>
        /\ LoopHead(Len(results'), attempts + 1)
        /\ UNCHANGED verified
  /\ UNCHANGED <<request, checked, late, aborted, account>>

\* The registries answer for the candidate of w, which then takes another or
\* returns; the last to return ends the attempt.
Settle(w, status) ==
  /\ phase = "working"
  /\ working[w] # NoName
  /\ results' = Retained(working[w], status)
  /\ \/ /\ Len(results') < limit /\ ~aborted /\ items # <<>>
        /\ working' = [working EXCEPT ![w] = Head(items)]
        /\ verified' = Append(verified, Head(items))
        /\ items' = Tail(items)
        /\ UNCHANGED <<phase, attempts, stopReason>>
     \/ /\ Len(results') >= limit \/ aborted \/ items = <<>>
        /\ working' = [working EXCEPT ![w] = NoName]
        /\ UNCHANGED verified
        /\ IF \A v \in Workers \ {w} : working[v] = NoName
           THEN items' = <<>> /\ LoopHead(Len(results'), attempts + 1)
           ELSE UNCHANGED <<items, phase, attempts, stopReason>>
  /\ UNCHANGED <<request, checked, late, aborted, account>>

----------------------------------------------------------------------------
\* Mutant: the balance must exceed the cost.
BillBelowBalance ==
  /\ phase = "billing"
  /\ project # "gone"
  /\ LET cost == Len(results)
     IN  /\ debited' = IF balance > cost THEN cost ELSE 0
         /\ balance' = balance - debited'
         /\ saved' = cost
  /\ project' = "existing"
  /\ phase' = "done"
  /\ UNCHANGED <<request, loop, late, aborted>>

\* The transaction: the project, the debit (a refusal, -1, is not looked at)
\* and the suggestions.
Bill ==
  /\ phase = "billing"
  /\ project # "gone"
  /\ LET cost == Len(results)
     IN  /\ debited' = IF balance >= cost THEN cost ELSE 0
         /\ balance' = balance - debited'
         /\ saved' = cost
  /\ project' = "existing"
  /\ phase' = "done"
  /\ UNCHANGED <<request, loop, late, aborted>>

\* Any statement of it fails, or the project is gone: all is rolled back.
TransactionFails ==
  /\ phase = "billing"
  /\ phase' = "done"
  /\ UNCHANGED <<request, loop, late, aborted, account>>

\* The environment: the stop button, the clock, the payer's other requests,
\* the deletion of the project.
Abort ==
  /\ phase # "done"
  /\ ~aborted
  /\ aborted' = TRUE
  /\ UNCHANGED <<request, phase, loop, late, account>>

BudgetSpent ==
  /\ phase # "done"
  /\ ~late
  /\ late' = TRUE
  /\ UNCHANGED <<request, phase, loop, aborted, account>>

SpendElsewhere(amount) ==
  /\ phase # "done"
  /\ amount <= balance
  /\ balance' = balance - amount
  /\ UNCHANGED <<request, phase, loop, late, aborted, project, saved, debited>>

RemoveProject ==
  /\ phase # "done"
  /\ project = "existing"
  /\ project' = "gone"
  /\ UNCHANGED <<request, phase, loop, late, aborted, balance, saved, debited>>

Search ==
  \/ ReadBrief
  \/ \E batch \in BoundedSeq(Names, MaxBatch) : Generated(batch)
  \/ \E w \in Workers, status \in ExtStatuses : Settle(w, status)
  \/ Bill
  \/ TransactionFails

Next ==
  \/ Search
  \/ Abort
  \/ BudgetSpent
  \/ \E amount \in SpendingElsewhere : SpendElsewhere(amount)
  \/ RemoveProject

Spec == Init /\ [][Next]_vars

----------------------------------------------------------------------------
\* However the workers interleave, a search never retains more names than the
\* user had credits when it started, nor bills more than it retained
\* (domain.service.ts, lines 1858 to 1862).
NeverMoreThanAccepted ==
  /\ Len(results) <= limit
  /\ saved <= Len(results)
  /\ debited <= saved

\* A name is verified once, shown once and billed once, even repeated within
\* a batch, and never if the caller excluded it (lines 1843 to 1846).
EachNameOnce ==
  /\ IsInjective(verified)
  /\ IsInjective([i \in DOMAIN results |-> results[i].name])
  /\ Range(verified) \intersect excluded = {}

\* A retained name is free somewhere; asked for everywhere, none of its
\* extensions is taken and each was asked, up to registries that are down.
RetainedIsFree ==
  \A i \in DOMAIN results :
    LET status == results[i].status
    IN  /\ Free(status) # {}
        /\ matchMode = "all" => DOMAIN status = Ext /\ \A ext \in Ext : status[ext] # "taken"

\* What the user is given is what was asked for, whatever the order in which the
\* workers come back: so many names, each once, each free.
RetainedAsAsked == NeverMoreThanAccepted /\ EachNameOnce /\ RetainedIsFree

\* Once the client is gone, no new name is submitted to a registry and none is
\* retained; and an interrupted search is neither saved nor billed
\* (domain.controller.ts, lines 313 and 314): with the client gone before it
\* ends, even with its target reached, it does not come to the transaction.
AbortIsHeard ==
  [][/\ aborted => UNCHANGED <<verified, results>>
     /\ phase # "billing" /\ phase' = "billing" => ~aborted]_vars

\* The search stops for the reason it logs, and with a complete attempt: no
\* candidate is left at a registry when the results are billed.
StopReasonIsTrue ==
  phase \in {"billing", "done"} =>
    /\ \A w \in Workers : working[w] = NoName
    /\ CASE stopReason = "target"   -> Len(results) = limit
         [] stopReason = "attempts" -> Len(results) < limit /\ attempts = MAX_TENTATIVES
         [] stopReason = "time"     -> Len(results) < limit /\ late
         [] stopReason = "aborted"  -> aborted

\* A saved name costs one credit (fr.json, line 499).  Names are saved unpaid
\* only if the payer spent, during the search, the credits counted at its start.
PaidUnlessSpentElsewhere == saved > 0 => debited = saved \/ balance < saved
=============================================================================
