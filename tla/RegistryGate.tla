---------------------------- MODULE RegistryGate ----------------------------
(***************************************************************************)
(* withRegistryGate: at most PER_REGISTRY_CONCURRENCY verifications of one *)
(* extension at once, across all the searches of the process.  Each        *)
(* extension has its own gate and gates share nothing, so this is one.     *)
(*                                                                         *)
(* The one who leaves hands the place over: it resolves the promise of the *)
(* head of the queue and does not decrement; the head runs only when the   *)
(* event loop resumes it.                                                  *)
(***************************************************************************)
EXTENDS Integers, Sequences, FiniteSets

CONSTANTS
  Callers,                  \* verifications that may want the gate
  PER_REGISTRY_CONCURRENCY

ASSUME GateAssumption ==
  /\ IsFiniteSet(Callers)
  /\ PER_REGISTRY_CONCURRENCY \in Nat \ {0}

VARIABLES
  active,  \* gate.active
  queue,   \* gate.queue: whose resolve functions wait
  pc       \* "granted": resolved, not resumed yet

vars == <<active, queue, pc>>

TypeOK ==
  /\ active \in Nat
  /\ queue \in Seq(Callers)
  /\ pc \in [Callers -> {"out", "waiting", "granted", "running"}]

Init ==
  /\ active = 0
  /\ queue = <<>>
  /\ pc = [c \in Callers |-> "out"]

\* A caller finds the gate full and queues.
Wait(c) ==
  /\ pc[c] = "out"
  /\ active >= PER_REGISTRY_CONCURRENCY
  /\ queue' = Append(queue, c)
  /\ pc' = [pc EXCEPT ![c] = "waiting"]
  /\ UNCHANGED active

\* A caller finds a place and starts its task at once.
Enter(c) ==
  /\ pc[c] = "out"
  /\ active < PER_REGISTRY_CONCURRENCY
  /\ active' = active + 1
  /\ pc' = [pc EXCEPT ![c] = "running"]
  /\ UNCHANGED queue

\* Mutant: the place is given back before it is handed over.
HandOverDecrements(c) ==
  /\ pc[c] = "running"
  /\ queue # <<>>
  /\ queue' = Tail(queue)
  /\ pc' = [pc EXCEPT ![c] = "out", ![Head(queue)] = "granted"]
  /\ active' = active - 1

\* Mutant: queue.pop() instead of queue.shift().
HandOverPops(c) ==
  /\ pc[c] = "running"
  /\ queue # <<>>
  /\ queue' = SubSeq(queue, 1, Len(queue) - 1)
  /\ pc' = [pc EXCEPT ![c] = "out", ![queue[Len(queue)]] = "granted"]
  /\ UNCHANGED active

\* Mutant: a task that fails wakes nobody up.
HandOverForgets(c) ==
  /\ pc[c] = "running"
  /\ queue # <<>>
  /\ pc' = [pc EXCEPT ![c] = "out"]
  /\ UNCHANGED <<active, queue>>

\* The task ends, well or badly, and somebody waits.
HandOver(c) ==
  /\ pc[c] = "running"
  /\ queue # <<>>
  /\ queue' = Tail(queue)
  /\ pc' = [pc EXCEPT ![c] = "out", ![Head(queue)] = "granted"]
  /\ UNCHANGED active

\* The task ends and nobody waits.
Release(c) ==
  /\ pc[c] = "running"
  /\ queue = <<>>
  /\ active' = active - 1
  /\ pc' = [pc EXCEPT ![c] = "out"]
  /\ UNCHANGED queue

\* The continuation of the await: no check is made again.
Resume(c) ==
  /\ pc[c] = "granted"
  /\ pc' = [pc EXCEPT ![c] = "running"]
  /\ UNCHANGED <<active, queue>>

Next == \E c \in Callers : Wait(c) \/ Enter(c) \/ HandOver(c) \/ Release(c) \/ Resume(c)

Spec == Init /\ [][Next]_vars

----------------------------------------------------------------------------
At(step) == {c \in Callers : pc[c] = step}

\* Never more than PER_REGISTRY_CONCURRENCY verifications of one extension
\* run together, although those who were handed a place start without
\* looking at the count (domain.service.ts, lines 1593 to 1596).
NeverOverLimit == Cardinality(At("running")) <= PER_REGISTRY_CONCURRENCY

\* The count is exact: no place leaks when tasks fail, none is given twice.
PlacesAreCounted == active = Cardinality(At("running") \union At("granted"))

\* No place stays free while somebody waits.
NoIdlePlace == queue # <<>> => active = PER_REGISTRY_CONCURRENCY

\* Nobody who is queued is forgotten: the queue holds exactly those who wait.
QueueHoldsTheWaiting == \A c \in Callers : pc[c] = "waiting" <=> \E i \in DOMAIN queue : queue[i] = c

\* Nobody is overtaken: a place freed goes to the one who waited longest, and
\* nobody comes in from outside while another waits.
FirstComeFirstServed ==
  [][\A c, d \in Callers :
       pc[c] = "waiting" /\ pc'[c] = "waiting" /\ pc[d] # pc'[d] /\ pc'[d] \in {"granted", "running"}
         => \/ pc[d] = "granted"
            \/ \E i, j \in DOMAIN queue : i < j /\ queue[i] = d /\ queue[j] = c]_vars
=============================================================================
