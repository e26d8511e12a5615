------------------------- MODULE AvailabilityProofs -------------------------
(***************************************************************************)
(* The gate of an extension, for every number of callers and every limit:  *)
(* the count is exact, the limit is kept, no place stays idle, the queue   *)
(* is served in order.  Then the verification of a domain, however its     *)
(* sources fail: it goes through the gate as module RegistryGate says, its *)
(* verdicts are the registry's, and the directory of RDAP is asked once    *)
(* for all.                                                                *)
(***************************************************************************)
EXTENDS Availability, FiniteSetTheorems, SequenceTheorems, TLAPS

(* The gate. *)

\* Those who hold a place, running or about to be resumed.
Inside == At("running") \union At("granted")

\* Nobody waits in two places of the queue: a caller who is handed a place
\* leaves the queue for good.
QueuedOnce == \A i, j \in DOMAIN queue : queue[i] = queue[j] => i = j

WithinLimit == active <= PER_REGISTRY_CONCURRENCY

GateInv ==
  /\ TypeOK
  /\ PlacesAreCounted
  /\ WithinLimit
  /\ NoIdlePlace
  /\ QueueHoldsTheWaiting
  /\ QueuedOnce

----------------------------------------------------------------------------
\* Any set of callers is finite, so the places held can be counted.
LEMMA InsideFinite == IsFiniteSet(Inside) /\ Cardinality(Inside) \in Nat
  <1>1. Inside \in SUBSET Callers
    BY DEF Inside, At
  <1>2. IsFiniteSet(Inside)
    BY <1>1, FS_Subset, GateAssumption DEF GateAssumption
  <1> QED BY <1>2, FS_CardinalityType

\* The head of a queue leaves; the others keep their order.
LEMMA QueueHead ==
  ASSUME TypeOK, queue # <<>>
  PROVE  /\ Head(queue) = queue[1] /\ Head(queue) \in Callers
         /\ 1 \in DOMAIN queue
         /\ Tail(queue) \in Seq(Callers)
         /\ \A i \in DOMAIN Tail(queue) : i + 1 \in DOMAIN queue /\ Tail(queue)[i] = queue[i + 1]
         /\ \A i \in DOMAIN queue : i # 1 => i - 1 \in DOMAIN Tail(queue)
  <1>1. queue \in Seq(Callers) /\ Len(queue) \in Nat /\ DOMAIN queue = 1..Len(queue) /\ Len(queue) # 0
    BY DEF TypeOK
  <1>2. /\ Tail(queue) \in Seq(Callers) /\ Len(Tail(queue)) = Len(queue) - 1
        /\ \A i \in 1..Len(Tail(queue)) : Tail(queue)[i] = queue[i + 1]
        /\ Head(queue) \in Callers
    BY <1>1, HeadTailProperties
  <1>3. DOMAIN Tail(queue) = 1..(Len(queue) - 1)
    BY <1>2
  <1>4. Head(queue) = queue[1]
    BY <1>1
  <1> QED BY <1>1, <1>2, <1>3, <1>4

\* Nobody is inside, nobody waits.
LEMMA GateInit == Init => GateInv
  <1> SUFFICES ASSUME Init PROVE GateInv
    OBVIOUS
  <1> USE GateAssumption DEF GateAssumption
  <1>1. TypeOK
    BY DEF Init, TypeOK
  <1>2. At("running") \union At("granted") = {}
    BY DEF Init, At
  <1>3. PlacesAreCounted
    BY <1>2, FS_EmptySet DEF Init, PlacesAreCounted
  <1>4. WithinLimit /\ NoIdlePlace /\ QueueHoldsTheWaiting /\ QueuedOnce
    BY DEF Init, WithinLimit, NoIdlePlace, QueueHoldsTheWaiting, QueuedOnce
  <1> QED BY <1>1, <1>3, <1>4 DEF GateInv

\* Queueing at a full gate.
LEMMA WaitStep ==
  ASSUME GateInv, NEW c \in Callers, Wait(c)
  PROVE  GateInv'
  <1> USE DEF GateInv, TypeOK
  <1>1. /\ Append(queue, c) \in Seq(Callers) /\ Len(Append(queue, c)) = Len(queue) + 1
        /\ \A i \in 1..Len(queue) : Append(queue, c)[i] = queue[i]
        /\ Append(queue, c)[Len(queue) + 1] = c
    BY AppendProperties
  <1>2. /\ Len(queue) \in Nat /\ DOMAIN queue = 1..Len(queue)
        /\ DOMAIN queue' = 1..(Len(queue) + 1)
        /\ \A i \in 1..Len(queue) : queue'[i] = queue[i]
        /\ queue'[Len(queue) + 1] = c
    BY <1>1 DEF Wait
  <1>3. TypeOK'
    BY <1>1 DEF Wait
  <1>4. (At("running") \union At("granted"))' = At("running") \union At("granted")
    BY DEF Wait, At
  <1>5. PlacesAreCounted'
    BY <1>4 DEF PlacesAreCounted, Wait
  <1>6. WithinLimit' /\ NoIdlePlace'
    BY GateAssumption DEF GateAssumption, WithinLimit, NoIdlePlace, Wait
  <1>7. ~ \E i \in DOMAIN queue : queue[i] = c
    BY DEF QueueHoldsTheWaiting, Wait
  <1>8. QueueHoldsTheWaiting'
    <2> SUFFICES ASSUME NEW d \in Callers
                 PROVE  pc'[d] = "waiting" <=> \E i \in DOMAIN queue' : queue'[i] = d
      BY DEF QueueHoldsTheWaiting
    <2>1. CASE d = c
      <3>1. pc'[d] = "waiting"
        BY <2>1 DEF Wait
      <3>2. Len(queue) + 1 \in DOMAIN queue'
        BY <1>2
      <3> QED BY <1>2, <2>1, <3>1, <3>2
    <2>2. CASE d # c
      <3>1. pc'[d] = pc[d]
        BY <2>2 DEF Wait
      <3>2. (\E i \in DOMAIN queue' : queue'[i] = d) <=> (\E i \in DOMAIN queue : queue[i] = d)
        BY <1>2, <2>2
      <3> QED BY <3>1, <3>2 DEF QueueHoldsTheWaiting
    <2> QED BY <2>1, <2>2
  <1>9. QueuedOnce'
    BY <1>2, <1>7 DEF QueuedOnce
  <1> QED BY <1>3, <1>5, <1>6, <1>8, <1>9

\* Entering takes a free place, and a free place means an empty queue.
LEMMA EnterStep ==
  ASSUME GateInv, NEW c \in Callers, Enter(c)
  PROVE  GateInv'
  <1> USE GateAssumption DEF GateAssumption, GateInv, TypeOK
  <1>1. TypeOK'
    BY DEF Enter
  <1>2. Inside' = Inside \union {c} /\ c \notin Inside
    BY DEF Enter, Inside, At
  <1>3. Cardinality(Inside') = Cardinality(Inside) + 1
    BY <1>2, InsideFinite, FS_AddElement
  <1>4. PlacesAreCounted'
    BY <1>3 DEF Enter, PlacesAreCounted, Inside
  <1>5. WithinLimit' /\ queue = <<>>
    BY DEF Enter, WithinLimit, NoIdlePlace
  <1>6. NoIdlePlace' /\ QueuedOnce'
    BY <1>5 DEF Enter, NoIdlePlace, QueuedOnce
  <1>7. QueueHoldsTheWaiting'
    BY DEF Enter, QueueHoldsTheWaiting
  <1> QED BY <1>1, <1>4, <1>5, <1>6, <1>7

\* Handing a place over: one leaves, the head of the queue takes its place.
LEMMA HandOverStep ==
  ASSUME GateInv, NEW c \in Callers, HandOver(c)
  PROVE  GateInv'
  <1> USE DEF GateInv, TypeOK
  <1> DEFINE d == Head(queue)
  <1>0. queue # <<>> /\ pc[c] = "running"
    BY DEF HandOver
  <1>1. /\ d = queue[1] /\ d \in Callers /\ 1 \in DOMAIN queue
        /\ Tail(queue) \in Seq(Callers)
        /\ \A i \in DOMAIN Tail(queue) : i + 1 \in DOMAIN queue /\ Tail(queue)[i] = queue[i + 1]
        /\ \A i \in DOMAIN queue : i # 1 => i - 1 \in DOMAIN Tail(queue)
    BY <1>0, QueueHead
  <1>2. pc[d] = "waiting" /\ d # c
    BY <1>0, <1>1 DEF QueueHoldsTheWaiting
  <1>3. TypeOK'
    BY <1>1 DEF HandOver
  <1>4. Inside' = (Inside \ {c}) \union {d} /\ c \in Inside /\ d \notin Inside \ {c}
    BY <1>0, <1>1, <1>2 DEF HandOver, Inside, At
  <1>5. Cardinality(Inside') = Cardinality(Inside)
    <2>1. IsFiniteSet(Inside \ {c}) /\ Cardinality(Inside \ {c}) = Cardinality(Inside) - 1
      BY <1>4, InsideFinite, FS_RemoveElement
    <2>2. Cardinality((Inside \ {c}) \union {d}) = Cardinality(Inside \ {c}) + 1
      BY <1>4, <2>1, FS_AddElement
    <2> QED BY <1>4, <2>1, <2>2, InsideFinite
  <1>6. PlacesAreCounted'
    BY <1>5 DEF HandOver, PlacesAreCounted, Inside
  <1>7. WithinLimit' /\ NoIdlePlace'
    BY <1>0 DEF HandOver, WithinLimit, NoIdlePlace
  <1>8. QueueHoldsTheWaiting'
    <2> SUFFICES ASSUME NEW e \in Callers
                 PROVE  pc'[e] = "waiting" <=> \E i \in DOMAIN queue' : queue'[i] = e
      BY DEF QueueHoldsTheWaiting
    <2>0. queue' = Tail(queue)
      BY DEF HandOver
    <2>1. CASE e = d
      <3>1. pc'[e] = "granted"
        BY <1>1, <2>1 DEF HandOver
      <3>2. \A i \in DOMAIN Tail(queue) : i + 1 # 1
        BY <1>1, Len(Tail(queue)) \in Nat, DOMAIN Tail(queue) = 1..Len(Tail(queue))
      <3>3. \A i \in DOMAIN Tail(queue) : Tail(queue)[i] # d
        BY <1>1, <3>2 DEF QueuedOnce
      <3> QED BY <2>0, <2>1, <3>1, <3>3
    <2>2. CASE e = c
      <3>1. pc'[e] = "out"
        BY <1>2, <2>2 DEF HandOver
      <3>2. ~ \E i \in DOMAIN queue : queue[i] = e
        BY <1>0, <2>2 DEF QueueHoldsTheWaiting
      <3> QED BY <1>1, <2>0, <3>1, <3>2
    <2>3. CASE e # d /\ e # c
      <3>1. pc'[e] = pc[e]
        BY <2>3 DEF HandOver
      <3>2. ASSUME NEW i \in DOMAIN queue, queue[i] = e
            PROVE  \E k \in DOMAIN Tail(queue) : Tail(queue)[k] = e
        <4>1. i # 1 /\ i - 1 \in DOMAIN Tail(queue) /\ (i - 1) + 1 = i
          BY <1>1, <2>3, <3>2, DOMAIN queue = 1..Len(queue)
        <4> QED BY <1>1, <3>2, <4>1
      <3> QED BY <1>1, <2>0, <3>1, <3>2 DEF QueueHoldsTheWaiting
    <2> QED BY <2>1, <2>2, <2>3
  <1>9. QueuedOnce'
    <2> SUFFICES ASSUME NEW i \in DOMAIN Tail(queue), NEW j \in DOMAIN Tail(queue),
                        Tail(queue)[i] = Tail(queue)[j]
                 PROVE  i = j
      BY DEF QueuedOnce, HandOver
    <2>1. i + 1 = j + 1
      BY <1>1 DEF QueuedOnce
    <2>2. i \in Nat /\ j \in Nat
      BY <1>1, Len(Tail(queue)) \in Nat, DOMAIN Tail(queue) = 1..Len(Tail(queue))
    <2> QED BY <2>1, <2>2
  <1> QED BY <1>3, <1>6, <1>7, <1>8, <1>9

\* Leaving when nobody waits frees one place.
LEMMA ReleaseStep ==
  ASSUME GateInv, NEW c \in Callers, Release(c)
  PROVE  GateInv'
  <1> USE GateAssumption DEF GateAssumption, GateInv, TypeOK
  <1>1. Inside' = Inside \ {c} /\ c \in Inside
    BY DEF Release, Inside, At
  <1>2. Cardinality(Inside') = Cardinality(Inside) - 1
    BY <1>1, InsideFinite, FS_RemoveElement
  <1>3. IsFiniteSet(Inside') /\ Cardinality(Inside') \in Nat
    BY <1>1, InsideFinite, FS_RemoveElement, FS_CardinalityType
  <1>4. TypeOK' /\ PlacesAreCounted'
    BY <1>2, <1>3 DEF Release, PlacesAreCounted, Inside
  <1>5. WithinLimit' /\ NoIdlePlace' /\ QueuedOnce'
    BY DEF Release, WithinLimit, NoIdlePlace, QueuedOnce
  <1>6. QueueHoldsTheWaiting'
    BY DEF Release, QueueHoldsTheWaiting
  <1> QED BY <1>4, <1>5, <1>6

\* Resuming uses a place already counted.
LEMMA ResumeStep ==
  ASSUME GateInv, NEW c \in Callers, Resume(c)
  PROVE  GateInv'
  <1> USE DEF GateInv, TypeOK
  <1>1. TypeOK'
    BY DEF Resume
  <1>2. (At("running") \union At("granted"))' = At("running") \union At("granted")
    BY DEF Resume, At
  <1>3. PlacesAreCounted'
    BY <1>2 DEF Resume, PlacesAreCounted
  <1>4. WithinLimit' /\ NoIdlePlace' /\ QueuedOnce'
    BY DEF Resume, WithinLimit, NoIdlePlace, QueuedOnce
  <1>5. QueueHoldsTheWaiting'
    BY DEF Resume, QueueHoldsTheWaiting
  <1> QED BY <1>1, <1>3, <1>4, <1>5

\* Every step keeps the invariant.
LEMMA GateStep ==
  ASSUME GateInv, [Next]_vars
  PROVE  GateInv'
  <1>1. ASSUME NEW c \in Callers, Wait(c) \/ Enter(c) \/ HandOver(c) \/ Release(c) \/ Resume(c)
        PROVE  GateInv'
    BY <1>1, WaitStep, EnterStep, HandOverStep, ReleaseStep, ResumeStep
  <1>2. CASE UNCHANGED vars
    BY <1>2 DEF vars, GateInv, TypeOK, PlacesAreCounted, WithinLimit, NoIdlePlace,
                QueueHoldsTheWaiting, QueuedOnce, At
  <1> QED BY <1>1, <1>2 DEF Next

\* So it always holds.
LEMMA GateInductive == Spec => []GateInv
  <1>1. GateInv /\ [Next]_vars => GateInv'
    BY GateStep
  <1> QED BY GateInit, <1>1, PTL DEF Spec

----------------------------------------------------------------------------
\* The count equals the places held: none leaks when a task fails, none is
\* handed to two (domain.service.ts, withRegistryGate).
THEOREM CountIsExact == Spec => []PlacesAreCounted
  <1>1. GateInv => PlacesAreCounted
    BY DEF GateInv
  <1> QED BY GateInductive, <1>1, PTL

\* Never more than PER_REGISTRY_CONCURRENCY verifications run, although the
\* one who is handed a place does not look at the count.
THEOREM LimitKept == Spec => []NeverOverLimit
  <1>1. GateInv => NeverOverLimit
    <2> SUFFICES ASSUME GateInv PROVE NeverOverLimit
      OBVIOUS
    <2>1. At("running") \in SUBSET Inside
      BY DEF Inside
    <2>2. IsFiniteSet(At("running")) /\ Cardinality(At("running")) <= Cardinality(Inside)
      BY <2>1, InsideFinite, FS_Subset
    <2>3. Cardinality(At("running")) \in Nat
      BY <2>2, FS_CardinalityType
    <2>4. Cardinality(Inside) = active /\ active <= PER_REGISTRY_CONCURRENCY
      BY DEF GateInv, PlacesAreCounted, Inside, WithinLimit
    <2> QED BY <2>2, <2>3, <2>4, InsideFinite, GateAssumption DEF GateAssumption, NeverOverLimit
  <1> QED BY GateInductive, <1>1, PTL

\* While somebody waits, every place is held: nobody waits for nothing.
THEOREM NoPlaceWasted == Spec => []NoIdlePlace
  <1>1. GateInv => NoIdlePlace
    BY DEF GateInv
  <1> QED BY GateInductive, <1>1, PTL

\* The queue holds exactly the callers that wait: a caller handed a place has
\* left it, and nobody is lost when tasks fail.
THEOREM NobodyLost == Spec => []QueueHoldsTheWaiting
  <1>1. GateInv => QueueHoldsTheWaiting
    BY DEF GateInv
  <1> QED BY GateInductive, <1>1, PTL

\* One step never lets a later comer, or one who did not queue, pass a caller
\* who goes on waiting.
LEMMA NobodyPasses ==
  ASSUME GateInv, [Next]_vars,
         NEW c \in Callers, NEW d \in Callers,
         pc[c] = "waiting", pc'[c] = "waiting", pc[d] # pc'[d], pc'[d] \in {"granted", "running"}
  PROVE  \/ pc[d] = "granted"
         \/ \E i, j \in DOMAIN queue : i < j /\ queue[i] = d /\ queue[j] = c
  <1> USE DEF GateInv, TypeOK
  <1>1. PICK j \in DOMAIN queue : queue[j] = c
    BY DEF QueueHoldsTheWaiting
  <1>2. queue # <<>> /\ DOMAIN queue = 1..Len(queue)
    BY <1>1
  <1>3. PICK e \in Callers : Wait(e) \/ Enter(e) \/ HandOver(e) \/ Release(e) \/ Resume(e)
    BY DEF Next, vars
  <1>4. CASE Wait(e)
    BY <1>4 DEF Wait
  <1>5. CASE Enter(e)
    BY <1>2, <1>5, GateAssumption DEF Enter, NoIdlePlace, GateAssumption
  <1>6. CASE HandOver(e)
    <2>1. Head(queue) = queue[1] /\ 1 \in DOMAIN queue /\ Head(queue) \in Callers
      BY <1>2, QueueHead
    <2>2. pc'[Head(queue)] = "granted" /\ d = Head(queue)
      BY <1>6, <2>1 DEF HandOver
    <2>3. j # 1
      BY <1>1, <2>1, <2>2
    <2>4. 1 < j
      BY <1>2, <2>3
    <2> QED BY <1>1, <2>1, <2>2, <2>4
  <1>7. CASE Release(e)
    BY <1>7 DEF Release
  <1>8. CASE Resume(e)
    BY <1>8 DEF Resume
  <1> QED BY <1>3, <1>4, <1>5, <1>6, <1>7, <1>8

\* The gate serves its callers in the order in which they queued.
THEOREM ServedInOrder == Spec => FirstComeFirstServed
  <1>1. GateInv /\ [Next]_vars =>
          [\A c, d \in Callers :
             pc[c] = "waiting" /\ pc'[c] = "waiting" /\ pc[d] # pc'[d] /\ pc'[d] \in {"granted", "running"}
               => \/ pc[d] = "granted"
                  \/ \E i, j \in DOMAIN queue : i < j /\ queue[i] = d /\ queue[j] = c]_vars
    BY NobodyPasses
  <1> QED BY GateInductive, <1>1, PTL DEF Spec, FirstComeFirstServed

----------------------------------------------------------------------------
(* The verification. *)

\* The types of the variables that the gate does not have.
ProbesTyped ==
  /\ whoisFirst \in BOOLEAN /\ joker \in BOOLEAN /\ hasRdap \in BOOLEAN /\ blind \in BOOLEAN
  /\ dnsUtilisable \in {"none", "asking", "yes", "no"}
  /\ at \in [Callers -> Steps]
  /\ registered \in [Callers -> BOOLEAN]
  /\ verdict \in [Callers -> Verdicts]
  /\ servers \in BOOLEAN /\ fresh \in BOOLEAN /\ retryAfter \in BOOLEAN /\ loading \in BOOLEAN
  /\ loads \in Nat /\ checks \in 0..MaxChecks /\ ticks \in 0..MaxTicks

\* The filter is not asked before its witness answered, and is asked on a zone
\* with a wildcard only if the witness was lost.
FilterIsWarranted ==
  /\ dnsUtilisable \in {"none", "asking"} => ~blind
  /\ dnsUtilisable = "yes" => (joker => blind)
  /\ \A c \in Callers : at[c] = "dns" => dnsUtilisable = "yes"

\* A load that was asked is under way, or kept in memory, or failed a while ago;
\* or a delay passed since.
LoadsAreOwed ==
  /\ loads <= 1 + ticks
  /\ ~fresh /\ ~retryAfter /\ ~loading => loads <= ticks

ProbesInv == ProbesTyped /\ FilterIsWarranted /\ VerdictIsTrue /\ LoadsAreOwed

----------------------------------------------------------------------------
\* Nothing asked, nothing answered.
LEMMA ProbesStart == ProbesInit => ProbesInv
  <1> SUFFICES ASSUME ProbesInit PROVE ProbesInv
    OBVIOUS
  <1>1. ProbesTyped
    <2>1. loads \in Nat /\ checks \in 0..MaxChecks /\ ticks \in 0..MaxTicks
      BY ProbesAssumption DEF ProbesAssumption, ProbesInit
    <2>2. at \in [Callers -> Steps] /\ verdict \in [Callers -> Verdicts]
      BY DEF ProbesInit, Steps, Verdicts
    <2>3. registered \in [Callers -> BOOLEAN]
      BY DEF ProbesInit
    <2> QED BY <2>1, <2>2, <2>3 DEF ProbesInit, ProbesTyped
  <1>2. FilterIsWarranted
    BY DEF ProbesInit, FilterIsWarranted
  <1>3. VerdictIsTrue
    BY DEF ProbesInit, VerdictIsTrue
  <1>4. LoadsAreOwed
    BY DEF ProbesInit, LoadsAreOwed
  <1> QED BY <1>1, <1>2, <1>3, <1>4 DEF ProbesInv

\* A verification that ends tells what it read, or that it does not know.
LEMMA AnswerTells ==
  ASSUME ProbesInv, NEW c \in Callers, NEW v \in {Truth(c), "unknown"},
         Answer(c, v), UNCHANGED <<facts, filter, registered>>
  PROVE  /\ at' = [at EXCEPT ![c] = "idle"]
         /\ verdict' \in [Callers -> Verdicts]
         /\ VerdictIsTrue'
  <1>1. at' = [at EXCEPT ![c] = "idle"] /\ verdict' = [verdict EXCEPT ![c] = v]
    BY DEF Answer, Goto
  <1>2. v \in Verdicts /\ (v = "free" => ~registered[c]) /\ (v = "taken" => registered[c])
    BY DEF Truth, Verdicts
  <1>3. verdict' \in [Callers -> Verdicts]
    BY <1>1, <1>2 DEF ProbesInv, ProbesTyped
  <1>4. VerdictIsTrue'
    BY <1>1, <1>2 DEF ProbesInv, ProbesTyped, VerdictIsTrue, filter
  <1> QED BY <1>1, <1>3, <1>4

\* Without a verdict it goes on to the other protocol, or ends in doubt.
LEMMA NoVerdictTells ==
  ASSUME ProbesInv, NEW c \in Callers, NEW first, NEW next \in {"whois", "lookup"},
         NoVerdict(c, first, next), UNCHANGED <<facts, filter, registered>>
  PROVE  /\ at' \in {[at EXCEPT ![c] = next], [at EXCEPT ![c] = "idle"]}
         /\ verdict' \in [Callers -> Verdicts]
         /\ VerdictIsTrue'
  <1>1. CASE first
    <2>1. at' = [at EXCEPT ![c] = next] /\ verdict' = verdict
      BY <1>1 DEF NoVerdict, Goto
    <2> QED BY <2>1 DEF ProbesInv, ProbesTyped, VerdictIsTrue, filter
  <1>2. CASE ~first
    <2>1. Answer(c, "unknown")
      BY <1>2 DEF NoVerdict
    <2> QED BY <2>1, AnswerTells
  <1> QED BY <1>1, <1>2

\* A step of one verification that leaves the filter and the directory alone,
\* moves it to another place than the filter and keeps its verdict true.
LEMMA ProbeMoves ==
  ASSUME ProbesInv, NEW c \in Callers, NEW s \in Steps \ {"dns"},
         at' = [at EXCEPT ![c] = s], verdict' \in [Callers -> Verdicts], VerdictIsTrue',
         UNCHANGED <<facts, filter, registered, directory, checks, ticks>>
  PROVE  ProbesInv'
  <1>1. ProbesTyped'
    BY DEF ProbesInv, ProbesTyped, facts, filter, directory
  <1>2. FilterIsWarranted'
    BY DEF ProbesInv, ProbesTyped, FilterIsWarranted, facts, filter
  <1>3. LoadsAreOwed'
    BY DEF ProbesInv, LoadsAreOwed, directory
  <1> QED BY <1>1, <1>2, <1>3 DEF ProbesInv

\* A step of the filter: nothing is told but what the zone holds, unless the
\* only witness of a wildcard was lost.
LEMMA FilterSteps ==
  ASSUME ProbesInv, NEW c \in Callers, Start(c) \/ Filter(c) \/ DnsAnswered(c)
  PROVE  ProbesInv'
  <1> USE DEF ProbesInv, ProbesTyped
  <1>1. CASE Start(c)
    <2>1. PICK b \in BOOLEAN : registered' = [registered EXCEPT ![c] = b]
      BY <1>1 DEF Start
    <2>2. registered' \in [Callers -> BOOLEAN]
      BY <2>1
    <2>3. at' = [at EXCEPT ![c] = "witness"] /\ at' \in [Callers -> Steps]
      BY <1>1 DEF Start, Goto, Steps
    <2>4. verdict' = [verdict EXCEPT ![c] = "none"] /\ verdict' \in [Callers -> Verdicts]
      BY <1>1 DEF Start, Verdicts
    <2>5. checks' \in 0..MaxChecks
      BY <1>1, ProbesAssumption DEF Start, ProbesAssumption
    <2>6. ProbesTyped'
      BY <1>1, <2>2, <2>3, <2>4, <2>5 DEF Start, facts, directory
    <2>7. FilterIsWarranted'
      BY <1>1, <2>3 DEF Start, FilterIsWarranted, facts
    <2>8. VerdictIsTrue'
      BY <1>1, <2>1, <2>4 DEF Start, VerdictIsTrue
    <2>9. LoadsAreOwed'
      BY <1>1 DEF Start, LoadsAreOwed, directory
    <2> QED BY <2>6, <2>7, <2>8, <2>9
  <1>2. CASE Filter(c)
    <2>1. at' \in [Callers -> Steps]
      BY <1>2 DEF Filter, Goto, Steps
    <2>2. ProbesTyped'
      BY <1>2, <2>1 DEF Filter, facts, filter, directory
    <2>3. FilterIsWarranted'
      BY <1>2 DEF Filter, Goto, FilterIsWarranted, facts, filter
    <2>4. VerdictIsTrue' /\ LoadsAreOwed'
      BY <1>2 DEF Filter, VerdictIsTrue, LoadsAreOwed, filter, directory
    <2> QED BY <2>2, <2>3, <2>4
  <1>3. CASE DnsAnswered(c)
    <2>1. at[c] = "dns" /\ (joker => blind)
      BY <1>3 DEF DnsAnswered, FilterIsWarranted
    <2>2. CASE /\ registered[c] \/ joker
               /\ verdict' = [verdict EXCEPT ![c] = "taken"]
               /\ Goto(c, "idle")
      <3>1. verdict' \in [Callers -> Verdicts] /\ VerdictIsTrue'
        BY <1>3, <2>1, <2>2 DEF DnsAnswered, VerdictIsTrue, Verdicts, filter
      <3> QED BY <1>3, <2>2, <3>1, ProbeMoves DEF DnsAnswered, Goto, Steps
    <2>3. CASE Goto(c, "registry") /\ UNCHANGED verdict
      <3>1. verdict' \in [Callers -> Verdicts] /\ VerdictIsTrue'
        BY <1>3, <2>3 DEF DnsAnswered, VerdictIsTrue, filter
      <3> QED BY <1>3, <2>3, <3>1, ProbeMoves DEF DnsAnswered, Goto, Steps
    <2> QED BY <1>3, <2>2, <2>3 DEF DnsAnswered
  <1> QED BY <1>1, <1>2, <1>3

\* The witness answers once: after it, and never before, the filter is asked.
LEMMA WitnessStep ==
  ASSUME ProbesInv, WitnessAnswered
  PROVE  ProbesInv'
  <1> USE DEF ProbesInv, ProbesTyped
  <1>1. PICK failed \in BOOLEAN :
          /\ dnsUtilisable' = IF WitnessAbsent(failed) THEN "yes" ELSE "no"
          /\ blind' = (joker /\ failed)
    BY DEF WitnessAnswered
  <1>2. blind' \in BOOLEAN /\ dnsUtilisable' \in {"yes", "no"}
    BY <1>1
  <1>3. dnsUtilisable' = "yes" => (joker => blind')
    BY <1>1 DEF WitnessAbsent
  <1>4. ProbesTyped'
    BY <1>2 DEF WitnessAnswered, facts, directory
  <1>5. FilterIsWarranted'
    BY <1>2, <1>3 DEF WitnessAnswered, FilterIsWarranted, facts
  <1>6. ~blind
    BY DEF WitnessAnswered, FilterIsWarranted
  <1>7. VerdictIsTrue'
    BY <1>6 DEF WitnessAnswered, VerdictIsTrue
  <1>8. LoadsAreOwed'
    BY DEF WitnessAnswered, LoadsAreOwed, directory
  <1> QED BY <1>4, <1>5, <1>7, <1>8

\* A step behind the gate tells the registry's answer, or a doubt.
LEMMA RegistrySteps ==
  ASSUME ProbesInv, NEW c \in Callers,
         Arrive(c) \/ Loaded(c) \/ RdapAnswered(c) \/ WhoisAnswered(c)
  PROVE  ProbesInv'
  <1>1. CASE Arrive(c)
    <2>1. VerdictIsTrue' /\ verdict' \in [Callers -> Verdicts]
      BY <1>1 DEF Arrive, ProbesInv, ProbesTyped, VerdictIsTrue, filter
    <2>2. CASE Goto(c, FirstProbe)
      BY <1>1, <2>1, <2>2, ProbeMoves DEF Arrive, Goto, FirstProbe, Steps
    <2>3. CASE UNCHANGED at
      BY <1>1, <2>1, <2>3 DEF Arrive, ProbesInv, ProbesTyped, FilterIsWarranted, LoadsAreOwed,
                              facts, filter, directory
    <2> QED BY <1>1, <2>2, <2>3 DEF Arrive
  <1>2. ASSUME Loaded(c) \/ RdapAnswered(c) \/ WhoisAnswered(c) PROVE ProbesInv'
    <2>1. UNCHANGED <<facts, filter, registered, directory, checks, ticks>>
      BY <1>2 DEF Loaded, RdapAnswered, WhoisAnswered
    <2>2. CASE Answer(c, Truth(c))
      <3>1. UNCHANGED <<facts, filter, registered>>
        BY <2>1
      <3>2. at' = [at EXCEPT ![c] = "idle"] /\ verdict' \in [Callers -> Verdicts] /\ VerdictIsTrue'
        BY <2>2, <3>1, AnswerTells
      <3> QED BY <2>1, <3>2, ProbeMoves DEF Steps
    <2>3. ASSUME NEW first, NEW next \in {"whois", "lookup"}, NoVerdict(c, first, next)
          PROVE  ProbesInv'
      <3>1. UNCHANGED <<facts, filter, registered>>
        BY <2>1
      <3>2. /\ at' \in {[at EXCEPT ![c] = next], [at EXCEPT ![c] = "idle"]}
            /\ verdict' \in [Callers -> Verdicts] /\ VerdictIsTrue'
        BY <2>3, <3>1, NoVerdictTells
      <3>3. next \in Steps \ {"dns"} /\ "idle" \in Steps \ {"dns"}
        BY DEF Steps
      <3>4. CASE at' = [at EXCEPT ![c] = next]
        BY <2>1, <3>2, <3>3, <3>4, ProbeMoves
      <3>5. CASE at' = [at EXCEPT ![c] = "idle"]
        BY <2>1, <3>2, <3>3, <3>5, ProbeMoves
      <3> QED BY <3>2, <3>4, <3>5
    <2>4. CASE Goto(c, "rdap") /\ UNCHANGED <<vars, verdict>>
      <3>1. verdict' \in [Callers -> Verdicts] /\ VerdictIsTrue'
        BY <2>1, <2>4 DEF ProbesInv, ProbesTyped, VerdictIsTrue, filter
      <3> QED BY <2>1, <2>4, <3>1, ProbeMoves DEF Goto, Steps
    <2>5. \/ Answer(c, Truth(c))
          \/ NoVerdict(c, ~whoisFirst, "whois") \/ NoVerdict(c, whoisFirst, "lookup")
          \/ Goto(c, "rdap") /\ UNCHANGED <<vars, verdict>>
      BY <1>2 DEF Loaded, RdapAnswered, WhoisAnswered, NoRdap
    <2> QED BY <2>2, <2>3, <2>4, <2>5
  <1> QED BY <1>1, <1>2

\* The directory is asked, by whoever it is, only when nobody is at it.
LEMMA DirectoryAsked ==
  ASSUME ProbesInv, ~fresh, ~retryAfter, loading' = TRUE,
         loads' = IF MustLoad THEN loads + 1 ELSE loads,
         UNCHANGED <<servers, fresh, retryAfter, ticks>>
  PROVE  loads' \in Nat /\ LoadsAreOwed'
  <1>1. loads \in Nat /\ ticks \in Nat /\ loads <= 1 + ticks
    BY ProbesAssumption DEF ProbesInv, ProbesTyped, LoadsAreOwed, ProbesAssumption
  <1>2. CASE MustLoad
    <2>1. loads' = loads + 1 /\ loads <= ticks
      BY <1>2 DEF MustLoad, ProbesInv, LoadsAreOwed
    <2> QED BY <1>1, <2>1 DEF LoadsAreOwed
  <1>3. CASE ~MustLoad
    BY <1>1, <1>3 DEF LoadsAreOwed
  <1> QED BY <1>2, <1>3

\* A step about the directory of RDAP.
LEMMA DirectorySteps ==
  ASSUME ProbesInv,
         \/ \E c \in Callers : ServerFor(c)
         \/ ServerForOther \/ BootstrapLoaded \/ Tick
  PROVE  ProbesInv'
  <1> USE DEF ProbesInv, ProbesTyped
  <1>1. ASSUME NEW c \in Callers, ServerFor(c) PROVE ProbesInv'
    <2>1. CASE ~fresh /\ ~retryAfter
      <3>1. /\ at' = [at EXCEPT ![c] = "bootstrap"] /\ loading' = TRUE
            /\ loads' = IF MustLoad THEN loads + 1 ELSE loads
            /\ UNCHANGED <<vars, verdict>>
        BY <1>1, <2>1 DEF ServerFor, Goto
      <3>2. UNCHANGED <<facts, filter, registered, servers, fresh, retryAfter, checks, ticks>>
        BY <1>1 DEF ServerFor
      <3>3. loads' \in Nat /\ LoadsAreOwed'
        BY <2>1, <3>1, <3>2, DirectoryAsked
      <3>4. at' \in [Callers -> Steps]
        BY <3>1 DEF Steps
      <3>5. ProbesTyped'
        BY <3>1, <3>2, <3>3, <3>4 DEF facts, filter
      <3>6. FilterIsWarranted' /\ VerdictIsTrue'
        BY <3>1, <3>2 DEF FilterIsWarranted, VerdictIsTrue, facts, filter
      <3> QED BY <3>3, <3>5, <3>6
    <2>2. CASE fresh \/ retryAfter
      <3>1. UNCHANGED <<facts, filter, registered, directory, checks, ticks>>
        BY <1>1, <2>2 DEF ServerFor, directory
      <3>2. CASE Goto(c, "rdap") /\ UNCHANGED <<vars, verdict>>
        <4>1. verdict' \in [Callers -> Verdicts] /\ VerdictIsTrue'
          BY <3>1, <3>2 DEF VerdictIsTrue, filter
        <4> QED BY <3>1, <3>2, <4>1, ProbeMoves DEF Goto, Steps
      <3>3. CASE NoRdap(c)
        <4>1. NoVerdict(c, ~whoisFirst, "whois") /\ UNCHANGED <<facts, filter, registered>>
          BY <3>1, <3>3 DEF NoRdap
        <4>2. /\ at' \in {[at EXCEPT ![c] = "whois"], [at EXCEPT ![c] = "idle"]}
              /\ verdict' \in [Callers -> Verdicts] /\ VerdictIsTrue'
          BY <4>1, NoVerdictTells
        <4>3. CASE at' = [at EXCEPT ![c] = "whois"]
          BY <3>1, <4>2, <4>3, ProbeMoves DEF Steps
        <4>4. CASE at' = [at EXCEPT ![c] = "idle"]
          BY <3>1, <4>2, <4>4, ProbeMoves DEF Steps
        <4> QED BY <4>2, <4>3, <4>4
      <3> QED BY <1>1, <2>2, <3>2, <3>3 DEF ServerFor
    <2> QED BY <2>1, <2>2
  <1>2. CASE ServerForOther
    <2>1. MustLoad /\ ~fresh /\ ~retryAfter /\ loading' = TRUE /\ loads' = loads + 1
      BY <1>2 DEF ServerForOther, MustLoad
    <2>2. UNCHANGED <<facts, filter, at, registered, verdict, servers, fresh, retryAfter, checks, ticks>>
      BY <1>2 DEF ServerForOther
    <2>3. loads' \in Nat /\ LoadsAreOwed'
      BY <2>1, <2>2, DirectoryAsked
    <2>4. ProbesTyped'
      BY <2>1, <2>2, <2>3 DEF facts, filter
    <2>5. FilterIsWarranted' /\ VerdictIsTrue'
      BY <2>2 DEF FilterIsWarranted, VerdictIsTrue, facts, filter
    <2> QED BY <2>3, <2>4, <2>5
  <1>3. CASE BootstrapLoaded
    <2>1. UNCHANGED <<vars, facts, filter, at, registered, verdict, loads, checks, ticks>>
      BY <1>3 DEF BootstrapLoaded
    <2>2. servers' \in BOOLEAN /\ fresh' \in BOOLEAN /\ retryAfter' \in BOOLEAN /\ loading' \in BOOLEAN
      BY <1>3 DEF BootstrapLoaded
    <2>3. fresh' \/ retryAfter'
      BY <1>3 DEF BootstrapLoaded
    <2>4. ProbesTyped' /\ LoadsAreOwed'
      BY <2>1, <2>2, <2>3 DEF LoadsAreOwed, facts, filter
    <2>5. FilterIsWarranted' /\ VerdictIsTrue'
      BY <2>1 DEF FilterIsWarranted, VerdictIsTrue, facts, filter
    <2> QED BY <2>4, <2>5
  <1>4. CASE Tick
    <2>1. UNCHANGED <<vars, facts, filter, at, registered, verdict, servers, loading, loads, checks>>
      BY <1>4 DEF Tick
    <2>2. ticks' = ticks + 1 /\ ticks \in Nat /\ ticks' \in 0..MaxTicks
      BY <1>4, ProbesAssumption DEF Tick, ProbesAssumption
    <2>3. fresh' \in BOOLEAN /\ retryAfter' \in BOOLEAN
      BY <1>4 DEF Tick
    <2>4. ProbesTyped'
      BY <2>1, <2>2, <2>3 DEF facts, filter
    <2>5. LoadsAreOwed'
      BY <2>1, <2>2 DEF LoadsAreOwed
    <2>6. FilterIsWarranted' /\ VerdictIsTrue'
      BY <2>1 DEF FilterIsWarranted, VerdictIsTrue, facts, filter
    <2> QED BY <2>4, <2>5, <2>6
  <1> QED BY <1>1, <1>2, <1>3, <1>4

\* Every step keeps the invariant.
LEMMA ProbesStep ==
  ASSUME ProbesInv, [ProbesNext]_allVars
  PROVE  ProbesInv'
  <1>1. CASE ProbesNext
    BY <1>1, FilterSteps, WitnessStep, RegistrySteps, DirectorySteps DEF ProbesNext, Going
  <1>2. CASE UNCHANGED allVars
    BY <1>2 DEF allVars, probeVars, facts, filter, directory, ProbesInv, ProbesTyped,
                FilterIsWarranted, VerdictIsTrue, LoadsAreOwed
  <1> QED BY <1>1, <1>2

LEMMA ProbesInductive == ProbesSpec => []ProbesInv
  <1>1. ProbesInv /\ [ProbesNext]_allVars => ProbesInv'
    BY ProbesStep
  <1> QED BY ProbesStart, <1>1, PTL DEF ProbesSpec

----------------------------------------------------------------------------
\* A step of a verification is a step of the gate, or leaves the gate alone.
LEMMA ProbesStepTheGate ==
  ASSUME [ProbesNext]_allVars
  PROVE  [Next]_vars
  <1>1. ASSUME NEW c \in Callers, NEW v, Answer(c, v) PROVE Next
    BY <1>1 DEF Answer, Next
  <1>2. ASSUME NEW c \in Callers, NEW first, NEW next, NoVerdict(c, first, next) PROVE [Next]_vars
    BY <1>1, <1>2 DEF NoVerdict
  <1>3. ASSUME NEW c \in Callers, NoRdap(c) PROVE [Next]_vars
    BY <1>2, <1>3 DEF NoRdap
  <1>4. ASSUME NEW c \in Callers, Start(c) \/ Filter(c) \/ DnsAnswered(c) PROVE UNCHANGED vars
    BY <1>4 DEF Start, Filter, DnsAnswered
  <1>5. ASSUME NEW c \in Callers, Arrive(c) PROVE Next
    BY <1>5 DEF Arrive, Next
  <1>6. ASSUME NEW c \in Callers, ServerFor(c) PROVE [Next]_vars
    BY <1>3, <1>6 DEF ServerFor
  <1>7. ASSUME NEW c \in Callers, Loaded(c) PROVE [Next]_vars
    BY <1>3, <1>7 DEF Loaded
  <1>8. ASSUME NEW c \in Callers, RdapAnswered(c) PROVE [Next]_vars
    BY <1>1, <1>3, <1>8 DEF RdapAnswered
  <1>9. ASSUME NEW c \in Callers, WhoisAnswered(c) PROVE [Next]_vars
    BY <1>1, <1>2, <1>9 DEF WhoisAnswered
  <1>10. CASE WitnessAnswered \/ ServerForOther \/ BootstrapLoaded \/ Tick
    BY <1>10 DEF WitnessAnswered, ServerForOther, BootstrapLoaded, Tick
  <1>11. CASE UNCHANGED allVars
    BY <1>11 DEF allVars
  <1> QED BY <1>4, <1>5, <1>6, <1>7, <1>8, <1>9, <1>10, <1>11 DEF ProbesNext, Going

\* isDomainAvailable uses the gate as withRegistryGate lets it: every behaviour
\* of the verifications is one of the gate.
THEOREM ProbesUseTheGate == ProbesSpec => Spec
  <1>1. ProbesInit => Init
    BY DEF ProbesInit
  <1>2. [ProbesNext]_allVars => [Next]_vars
    BY ProbesStepTheGate
  <1> QED BY <1>1, <1>2, PTL DEF ProbesSpec, Spec

\* Never more verifications of one extension at its registry than allowed, with
\* the sources behind the gate that fail, retry and wait for each other.
THEOREM ProbesKeepTheLimit == ProbesSpec => []NeverOverLimit
  BY ProbesUseTheGate, LimitKept, PTL

\* Verifications are let to the registry in the order in which they queued.
THEOREM ProbesKeepTheirOrder == ProbesSpec => FirstComeFirstServed
  BY ProbesUseTheGate, ServedInOrder, PTL

\* Each variable keeps its type, the gate's and the probes'.
THEOREM ProbesTypes == ProbesSpec => []ProbesTypeOK
  <1>1. GateInv /\ ProbesInv => ProbesTypeOK
    BY DEF GateInv, ProbesInv, ProbesTyped, ProbesTypeOK
  <1> QED BY ProbesUseTheGate, GateInductive, ProbesInductive, <1>1, PTL

\* What isDomainAvailable answers is what the registry holds, or a doubt
\* (domain.service.ts, lines 1496 to 1506), but for a wildcard whose only
\* witness was lost.
THEOREM VerdictsAreTrue == ProbesSpec => []VerdictIsTrue
  <1>1. ProbesInv => VerdictIsTrue
    BY DEF ProbesInv
  <1> QED BY ProbesInductive, <1>1, PTL

\* The directory is asked once for all the verifications of the process, and
\* once more for each delay that passed (rdap.service.ts, lines 32 to 38).
THEOREM DirectoryIsSpared == ProbesSpec => []BootstrapIsSpared
  <1>1. ProbesInv => BootstrapIsSpared
    BY DEF ProbesInv, LoadsAreOwed, BootstrapIsSpared
  <1> QED BY ProbesInductive, <1>1, PTL
=============================================================================
