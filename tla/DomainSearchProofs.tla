------------------------- MODULE DomainSearchProofs -------------------------
(***************************************************************************)
(* What a search retains, why it stops, when it bills and that it hears    *)
(* the stop button, for every number of names, extensions, workers,        *)
(* credits and attempts; then its framing: that a framed search is a       *)
(* search, and applies what the screen announced, whatever the bounds,     *)
(* the demands and the readings.                                           *)
(***************************************************************************)
EXTENDS Framing, FiniteSetTheorems, TLAPS

Result == [name : Names, status : ExtStatuses]

Typed ==
  /\ matchMode \in {"all", "any"}
  /\ excluded \subseteq checked
  /\ limit \in Nat \ {0}
  /\ phase \in Phases
  /\ verified \in Seq(Names) /\ items \in Seq(Names)
  /\ results \in Seq(Result)
  /\ attempts \in Nat
  /\ working \in [Workers -> Names \union {NoName}]
  /\ late \in BOOLEAN /\ aborted \in BOOLEAN
  /\ balance \in Int

\* A name is marked, queued once and verified once, and not if it is excluded.
InOrder ==
  /\ IsInjective(verified) /\ IsInjective(items)
  /\ Range(verified) \intersect Range(items) = {}
  /\ Range(verified) \union Range(items) \subseteq checked
  /\ (Range(verified) \union Range(items)) \intersect excluded = {}

\* The candidates at the registries are verified ones, each with one worker,
\* and nothing waits outside an attempt.
AtWork ==
  /\ \A w \in Workers : working[w] # NoName => working[w] \in Range(verified)
  /\ \A v, w \in Workers : v # w /\ working[v] # NoName => working[v] # working[w]
  /\ phase # "working" => items = <<>> /\ \A w \in Workers : working[w] = NoName

RetainedNames == {results[i].name : i \in DOMAIN results}

\* A name is retained once, from among the verified, and its worker has left it.
RetainedOnce ==
  /\ \A i, j \in DOMAIN results : results[i].name = results[j].name => i = j
  /\ RetainedNames \subseteq Range(verified)
  /\ \A w \in Workers : working[w] \notin RetainedNames
  /\ Len(results) <= limit

\* Nothing is saved before the end, and then what was retained.
Billed ==
  /\ phase # "done" => saved = 0 /\ debited = 0
  /\ saved \in {0, Len(results)} /\ debited \in {0, saved}
  /\ PaidUnlessSpentElsewhere

\* The loop goes on only while there is a reason to.
GoesOn ==
  /\ phase \in {"generating", "working"} => attempts < MAX_TENTATIVES
  /\ phase = "generating" => Len(results) < limit
  /\ phase = "brief" => results = <<>> /\ attempts = 0

\* The reason noted is one of the four, and it is true.
ReasonTold ==
  /\ stopReason \in {"target", "attempts", "time", "aborted"}
  /\ stopReason = "target" => Len(results) = limit
  /\ stopReason = "attempts" => Len(results) < limit /\ attempts = MAX_TENTATIVES
  /\ stopReason = "time" => Len(results) < limit /\ late
  /\ stopReason = "aborted" => aborted

SearchInv ==
  /\ Typed /\ InOrder /\ AtWork /\ RetainedOnce /\ RetainedIsFree /\ Billed /\ GoesOn
  /\ phase \in {"billing", "done"} => ReasonTold

----------------------------------------------------------------------------
(* Sequences. *)

\* A sequence without repetition, cut in two.
LEMMA Cut ==
  ASSUME NEW S, NEW s \in Seq(S), IsInjective(s), NEW n \in 0..Len(s)
  PROVE  LET a == SubSeq(s, 1, n)
             b == SubSeq(s, n + 1, Len(s))
         IN  /\ a \in Seq(S) /\ b \in Seq(S) /\ Len(a) = n /\ Len(b) = Len(s) - n
             /\ \A i \in 1..n : a[i] = s[i]
             /\ IsInjective(a) /\ IsInjective(b)
             /\ Range(a) \intersect Range(b) = {}
             /\ Range(a) \subseteq Range(s) /\ Range(b) \subseteq Range(s)
  <1> DEFINE a == SubSeq(s, 1, n)
             b == SubSeq(s, n + 1, Len(s))
  <1>1. a \in Seq(S) /\ b \in Seq(S) /\ Len(a) = n /\ Len(b) = Len(s) - n
    OBVIOUS
  <1>2. /\ \A i \in 1..n : a[i] = s[i]
        /\ \A i \in 1..(Len(s) - n) : b[i] = s[n + i] /\ n + i \in 1..Len(s)
    OBVIOUS
  <1> HIDE DEF a, b
  <1>3. DOMAIN a = 1..n /\ DOMAIN b = 1..(Len(s) - n) /\ DOMAIN s = 1..Len(s) /\ 1..n \subseteq 1..Len(s)
    BY <1>1
  <1>4. IsInjective(a)
    BY <1>2, <1>3 DEF IsInjective
  <1>5. IsInjective(b)
    BY <1>2, <1>3 DEF IsInjective
  <1>6. Range(a) \intersect Range(b) = {}
    BY <1>2, <1>3 DEF IsInjective, Range
  <1>7. Range(a) \subseteq Range(s) /\ Range(b) \subseteq Range(s)
    BY <1>2, <1>3 DEF Range
  <1> QED BY <1>1, <1>2, <1>4, <1>5, <1>6, <1>7 DEF a, b

\* Two sequences without repetition or common element, one after the other.
LEMMA Joined ==
  ASSUME NEW S, NEW s \in Seq(S), NEW t \in Seq(S), IsInjective(s), IsInjective(t),
         Range(s) \intersect Range(t) = {}
  PROVE  /\ s \o t \in Seq(S) /\ IsInjective(s \o t)
         /\ \A x : x \in Range(s \o t) <=> x \in Range(s) \/ x \in Range(t)
  <1> DEFINE u == s \o t
  <1>1. u \in Seq(S) /\ Len(u) = Len(s) + Len(t)
    OBVIOUS
  <1>2. /\ \A i \in 1..Len(s) : u[i] = s[i]
        /\ \A i \in 1..Len(t) : u[Len(s) + i] = t[i]
        /\ \A i \in (Len(s) + 1)..Len(u) : u[i] = t[i - Len(s)] /\ i - Len(s) \in 1..Len(t)
    OBVIOUS
  <1>3. DOMAIN u = 1..Len(u) /\ DOMAIN s = 1..Len(s) /\ DOMAIN t = 1..Len(t)
    BY <1>1
  <1>4. Len(s) \in Nat /\ Len(t) \in Nat
    OBVIOUS
  <1> HIDE DEF u
  <1>5. \A i \in DOMAIN u : i \in DOMAIN s \/ i \in (Len(s) + 1)..Len(u)
    BY <1>1, <1>3, <1>4
  <1>6. IsInjective(u)
    <2> SUFFICES ASSUME NEW i \in DOMAIN u, NEW j \in DOMAIN u, u[i] = u[j] PROVE i = j
      BY DEF IsInjective
    <2>1. CASE i \in DOMAIN s /\ j \in DOMAIN s
      BY <2>1, <1>2, <1>3 DEF IsInjective
    <2>2. CASE i \in (Len(s) + 1)..Len(u) /\ j \in (Len(s) + 1)..Len(u)
      <3>1. i - Len(s) = j - Len(s)
        BY <2>2, <1>2, <1>3 DEF IsInjective
      <3> QED BY <3>1, <2>2, <1>1, <1>4
    <2>3. CASE i \in DOMAIN s /\ j \in (Len(s) + 1)..Len(u)
      BY <2>3, <1>2, <1>3 DEF Range
    <2>4. CASE j \in DOMAIN s /\ i \in (Len(s) + 1)..Len(u)
      BY <2>4, <1>2, <1>3 DEF Range
    <2> QED BY <2>1, <2>2, <2>3, <2>4, <1>5
  <1>7. Range(u) = Range(s) \union Range(t)
    <2>1. Range(s) \subseteq Range(u)
      BY <1>1, <1>2, <1>3, <1>4 DEF Range
    <2>2. Range(t) \subseteq Range(u)
      <3> SUFFICES ASSUME NEW i \in DOMAIN t PROVE t[i] \in Range(u)
        BY DEF Range
      <3>1. Len(s) + i \in DOMAIN u /\ u[Len(s) + i] = t[i]
        BY <1>1, <1>2, <1>3, <1>4
      <3> QED BY <3>1 DEF Range
    <2>3. Range(u) \subseteq Range(s) \union Range(t)
      BY <1>2, <1>3, <1>5 DEF Range
    <2> QED BY <2>1, <2>2, <2>3
  <1> QED BY <1>1, <1>6, <1>7 DEF u

\* The head of a queue goes to the end of a list.
LEMMA Moved ==
  ASSUME NEW S, NEW s \in Seq(S), NEW t \in Seq(S), IsInjective(s), IsInjective(t),
         Range(s) \intersect Range(t) = {}, t # <<>>
  PROVE  /\ Head(t) \in Range(t) /\ Append(s, Head(t)) \in Seq(S) /\ Tail(t) \in Seq(S)
         /\ IsInjective(Append(s, Head(t))) /\ IsInjective(Tail(t))
         /\ Range(Append(s, Head(t))) = Range(s) \union {Head(t)}
         /\ Range(Tail(t)) \subseteq Range(t) \ {Head(t)}
  <1> DEFINE h == <<Head(t)>>
  <1>1. h \in Seq(S) /\ h = SubSeq(t, 1, 1) /\ Tail(t) = SubSeq(t, 1 + 1, Len(t)) /\ 1 \in 0..Len(t)
    OBVIOUS
  <1>2. /\ Tail(t) \in Seq(S) /\ IsInjective(h) /\ IsInjective(Tail(t))
        /\ Range(h) \intersect Range(Tail(t)) = {}
        /\ Range(h) \subseteq Range(t) /\ Range(Tail(t)) \subseteq Range(t)
    <2> HIDE DEF h
    <2>1. IsInjective(t) /\ 1 \in 0..Len(t)
      BY <1>1
    <2>2. LET b == SubSeq(t, 1 + 1, Len(t))
          IN  /\ SubSeq(t, 1, 1) \in Seq(S) /\ b \in Seq(S)
              /\ IsInjective(SubSeq(t, 1, 1)) /\ IsInjective(b)
              /\ Range(SubSeq(t, 1, 1)) \intersect Range(b) = {}
              /\ Range(SubSeq(t, 1, 1)) \subseteq Range(t) /\ Range(b) \subseteq Range(t)
      BY <2>1, Cut, Zenon
    <2> QED BY <1>1, <2>2, Zenon
  <1>3. Range(h) = {Head(t)}
    BY DEF Range
  <1>6. Append(s, Head(t)) = s \o h
    OBVIOUS
  <1> HIDE DEF h
  <1>4. Range(s) \intersect Range(h) = {}
    BY <1>2
  <1>5. /\ s \o h \in Seq(S) /\ IsInjective(s \o h)
        /\ \A x : x \in Range(s \o h) <=> x \in Range(s) \/ x \in Range(h)
    <2>1. h \in Seq(S) /\ IsInjective(h)
      BY <1>1, <1>2
    <2> QED BY <2>1, <1>4, Joined, Zenon
  <1> QED BY <1>2, <1>3, <1>5, <1>6

\* The new names of a batch: each once, and none that was marked.
LEMMA NewItemsAreNew ==
  ASSUME NEW batch \in Seq(Names), NEW fresh \in NewItems(batch)
  PROVE  /\ fresh \in Seq(Names) /\ IsInjective(fresh)
         /\ Range(fresh) \subseteq Range(batch) \ checked
  <1> DEFINE S == Range(batch) \ checked
             n == Cardinality(S)
  <1>1. IsFiniteSet(S)
    <2>1. IsFiniteSet(1..Len(batch))
      BY FS_Interval
    <2>2. batch \in Surjection(1..Len(batch), Range(batch))
      BY DEF Range, Surjection
    <2>3. IsFiniteSet(Range(batch))
      BY <2>1, <2>2, FS_Surjection
    <2> QED BY <2>3, FS_Difference
  <1>2. n \in Nat
    BY <1>1, FS_CardinalityType
  <1>3. fresh \in [1..n -> S] /\ \A i, j \in 1..n : i # j => fresh[i] # fresh[j]
    BY DEF NewItems, SetToSeqs
  <1> HIDE DEF n
  <1>4. S \subseteq Names
    BY DEF Range
  <1>5. fresh \in Seq(Names) /\ DOMAIN fresh = 1..n
    BY <1>2, <1>3, <1>4
  <1>6. IsInjective(fresh)
    BY <1>3, <1>5 DEF IsInjective
  <1> QED BY <1>3, <1>5, <1>6 DEF Range

----------------------------------------------------------------------------
(* Parts of steps. *)

\* The head of the loop goes on for a reason, and ends for the reason it notes.
LEMMA LoopHeadTells ==
  ASSUME NEW found \in Nat, NEW tries \in Nat, tries <= MAX_TENTATIVES, found <= limit,
         Typed, LoopHead(found, tries)
  PROVE  /\ attempts' = tries
         /\ phase' \in {"generating", "billing", "done"}
         /\ phase' = "generating" => tries < MAX_TENTATIVES /\ found < limit
         /\ phase' = "billing" => ~aborted
         /\ phase' # "generating" =>
              /\ stopReason' \in {"target", "attempts", "time", "aborted"}
              /\ stopReason' = "target" => found = limit
              /\ stopReason' = "attempts" => found < limit /\ tries = MAX_TENTATIVES
              /\ stopReason' = "time" => found < limit /\ late
              /\ stopReason' = "aborted" => aborted
  <1>1. limit \in Nat /\ MAX_TENTATIVES \in Nat /\ aborted \in BOOLEAN /\ late \in BOOLEAN
    BY SearchAssumption DEF Typed, SearchAssumption
  <1>2. attempts' = tries /\ stopReason' = StopReason(found, tries)
    BY DEF LoopHead
  <1>3. CASE aborted
    <2>1. stopReason' = "aborted"
      BY <1>2, <1>3 DEF StopReason
    <2> QED BY <2>1, <1>2, <1>3 DEF LoopHead
  <1>4. CASE ~aborted /\ found >= limit
    <2>1. stopReason' = "target"
      BY <1>1, <1>2, <1>4 DEF StopReason
    <2> QED BY <2>1, <1>1, <1>2, <1>4 DEF LoopHead
  <1>5. CASE ~aborted /\ found < limit /\ tries >= MAX_TENTATIVES
    <2>1. stopReason' = "attempts"
      BY <1>1, <1>2, <1>5 DEF StopReason
    <2> QED BY <2>1, <1>1, <1>2, <1>5 DEF LoopHead
  <1>6. CASE ~aborted /\ found < limit /\ tries < MAX_TENTATIVES /\ late
    <2>1. stopReason' = "time"
      BY <1>1, <1>2, <1>6 DEF StopReason
    <2> QED BY <2>1, <1>1, <1>2, <1>6 DEF LoopHead
  <1>7. CASE ~aborted /\ found < limit /\ tries < MAX_TENTATIVES /\ ~late
    <2>1. stopReason' = "none"
      BY <1>1, <1>2, <1>7 DEF StopReason
    <2> QED BY <2>1, <1>1, <1>2, <1>7 DEF LoopHead
  <1> QED BY <1>1, <1>3, <1>4, <1>5, <1>6, <1>7

\* The launch of an attempt: the first new names go to the registries, one each.
LEMMA LaunchKeepsOrder ==
  ASSUME Typed, InOrder, items = <<>>, NEW batch \in Seq(Names), NEW fresh \in NewItems(batch),
         checked' = checked \union Range(batch), UNCHANGED request, Launch(fresh)
  PROVE  /\ verified' \in Seq(Names) /\ items' \in Seq(Names)
         /\ working' \in [Workers -> Names \union {NoName}]
         /\ InOrder'
         /\ Range(verified) \subseteq Range(verified')
         /\ \A w \in Workers : working'[w] # NoName => working'[w] \in Range(verified') \ Range(verified)
         /\ \A v, w \in Workers : v # w /\ working'[v] # NoName => working'[v] # working'[w]
  <1> DEFINE n == IF Len(fresh) < Cardinality(Workers) THEN Len(fresh) ELSE Cardinality(Workers)
             a == SubSeq(fresh, 1, n)
             b == SubSeq(fresh, n + 1, Len(fresh))
  <1>1. /\ fresh \in Seq(Names) /\ IsInjective(fresh)
        /\ Range(fresh) \subseteq Range(batch) \ checked
    BY NewItemsAreNew
  <1>2. Cardinality(Workers) \in Nat
    BY SearchAssumption, FS_CardinalityType DEF SearchAssumption
  <1>3. n \in 0..Len(fresh) /\ n \in Nat /\ n <= Cardinality(Workers)
    BY <1>1, <1>2
  <1>4. PICK order \in SetToSeqs(Workers) :
          /\ working' = [w \in Workers |->
                           IF \E i \in 1..n : order[i] = w
                           THEN fresh[CHOOSE i \in 1..n : order[i] = w]
                           ELSE NoName]
          /\ verified' = verified \o a
          /\ items' = b
    BY DEF Launch
  <1> HIDE DEF n
  <1>5. /\ a \in Seq(Names) /\ b \in Seq(Names)
        /\ \A i \in 1..n : a[i] = fresh[i] /\ i \in DOMAIN a /\ i \in DOMAIN fresh
        /\ IsInjective(a) /\ IsInjective(b)
        /\ Range(a) \intersect Range(b) = {}
        /\ Range(a) \subseteq Range(fresh) /\ Range(b) \subseteq Range(fresh)
    <2>1. LET aa == SubSeq(fresh, 1, n)
              bb == SubSeq(fresh, n + 1, Len(fresh))
          IN  /\ aa \in Seq(Names) /\ bb \in Seq(Names) /\ Len(aa) = n /\ Len(bb) = Len(fresh) - n
              /\ \A i \in 1..n : aa[i] = fresh[i]
              /\ IsInjective(aa) /\ IsInjective(bb)
              /\ Range(aa) \intersect Range(bb) = {}
              /\ Range(aa) \subseteq Range(fresh) /\ Range(bb) \subseteq Range(fresh)
      BY <1>1, <1>3, Cut, Zenon
    <2> HIDE DEF a, b
    <2>2. /\ a \in Seq(Names) /\ b \in Seq(Names) /\ Len(a) = n
          /\ \A i \in 1..n : a[i] = fresh[i]
          /\ IsInjective(a) /\ IsInjective(b)
          /\ Range(a) \intersect Range(b) = {}
          /\ Range(a) \subseteq Range(fresh) /\ Range(b) \subseteq Range(fresh)
      BY <2>1 DEF a, b
    <2>3. \A i \in 1..n : i \in DOMAIN a /\ i \in DOMAIN fresh
      BY <2>2, <1>1, <1>3
    <2> QED BY <2>2, <2>3
  <1> HIDE DEF a, b
  <1>6. Range(verified) \intersect Range(a) = {} /\ verified \in Seq(Names) /\ IsInjective(verified)
    BY <1>1, <1>5 DEF InOrder, Typed
  <1>7. /\ verified' \in Seq(Names) /\ IsInjective(verified')
        /\ \A x : x \in Range(verified') <=> x \in Range(verified) \/ x \in Range(a)
    BY <1>4, <1>5, <1>6, Joined, Zenon
  <1>8. InOrder'
    <2>1. Range(batch) \intersect Range(verified) \subseteq checked /\ excluded \subseteq checked
      BY DEF InOrder, Typed
    <2>2. excluded' = excluded
      BY DEF request
    <2> QED BY <1>1, <1>4, <1>5, <1>7, <2>1, <2>2 DEF InOrder
  <1>9. \A w \in Workers : working'[w] # NoName =>
          \E i \in 1..n : order[i] = w /\ working'[w] = fresh[i]
    BY <1>4
  <1>10. working' \in [Workers -> Names \union {NoName}]
    <2>1. \A i \in 1..n : fresh[i] \in Names
      BY <1>1, <1>5
    <2>2. \A w \in Workers : working'[w] \in Names \union {NoName}
      BY <2>1, <1>9
    <2> QED BY <2>2, <1>4
  <1>11. \A w \in Workers : working'[w] # NoName => working'[w] \in Range(a)
    BY <1>5, <1>9 DEF Range
  <1>12. \A v, w \in Workers : v # w /\ working'[v] # NoName => working'[v] # working'[w]
    BY <1>5, <1>9, <1>1 DEF IsInjective
  <1> QED BY <1>4, <1>5, <1>6, <1>7, <1>8, <1>10, <1>11, <1>12

\* A name is retained if it matches, and then it is free.
LEMMA MatchIsFree ==
  ASSUME NEW status, IsMatch(status), matchMode \in {"all", "any"}
  PROVE  /\ Free(status) # {}
         /\ matchMode = "all" => DOMAIN status = Ext /\ \A ext \in Ext : status[ext] # "taken"
  BY DEF IsMatch, Free, Unknown

\* What a worker does of its candidate leaves what was retained in order.
LEMMA RetainedKeeps ==
  ASSUME SearchInv, NEW w \in Workers, working[w] # NoName, NEW status \in ExtStatuses,
         results' = Retained(working[w], status), UNCHANGED <<request, aborted>>
  PROVE  /\ results' \in Seq(Result)' /\ RetainedIsFree'
         /\ \A i, j \in DOMAIN results' : results'[i].name = results'[j].name => i = j
         /\ RetainedNames' \subseteq RetainedNames \union {working[w]}
         /\ Len(results') <= limit
         /\ aborted => results' = results
  <1>1. Result' = Result /\ Ext' = Ext
    BY DEF Result, ExtStatuses, request
  <1>2. CASE results' = results
    BY <1>1, <1>2 DEF SearchInv, Typed, RetainedOnce, RetainedIsFree, RetainedNames, request
  <1>3. CASE results' # results
    <2> DEFINE e == [name |-> working[w], status |-> status]
    <2>1. ~aborted /\ IsMatch(status) /\ Len(results) < limit /\ results' = Append(results, e)
      BY <1>3 DEF Retained
    <2>2. working[w] \in Names /\ e \in Result
      BY DEF SearchInv, Typed, Result
    <2>3. results \in Seq(Result) /\ limit \in Nat
      BY DEF SearchInv, Typed
    <2> HIDE DEF e
    <2>4. /\ results' \in Seq(Result) /\ Len(results') = Len(results) + 1
          /\ \A i \in DOMAIN results' : \/ i \in DOMAIN results /\ results'[i] = results[i]
                                        \/ i = Len(results) + 1 /\ results'[i] = e
      BY <2>1, <2>2, <2>3
    <2>5. e.name = working[w] /\ e.status = status
      BY DEF e
    <2>6. working[w] \notin RetainedNames
      BY DEF SearchInv, RetainedOnce
    <2>7. \A i, j \in DOMAIN results' : results'[i].name = results'[j].name => i = j
      BY <2>4, <2>5, <2>6 DEF SearchInv, RetainedOnce, RetainedNames
    <2>8. RetainedNames' \subseteq RetainedNames \union {working[w]}
      BY <2>4, <2>5 DEF RetainedNames
    <2>9. RetainedIsFree'
      <3> SUFFICES ASSUME NEW i \in DOMAIN results'
                   PROVE  /\ Free(results'[i].status) # {}
                          /\ matchMode' = "all" => /\ DOMAIN results'[i].status = Ext
                                                   /\ \A ext \in Ext : results'[i].status[ext] # "taken"
        BY <1>1 DEF RetainedIsFree, Free
      <3>1. CASE i \in DOMAIN results /\ results'[i] = results[i]
        BY <3>1 DEF SearchInv, RetainedIsFree, request
      <3>2. CASE results'[i] = e
        BY <3>2, <2>1, <2>5, MatchIsFree DEF SearchInv, Typed, request
      <3> QED BY <3>1, <3>2, <2>4
    <2> QED BY <1>1, <2>1, <2>3, <2>4, <2>7, <2>8, <2>9
  <1> QED BY <1>2, <1>3

----------------------------------------------------------------------------
(* Steps. *)

\* AbortIsHeard, of one step.
Heard ==
  /\ aborted => UNCHANGED <<verified, results>>
  /\ phase # "billing" /\ phase' = "billing" => ~aborted

\* What a step at the head of the loop establishes.
LEMMA LoopHeadKeeps ==
  ASSUME NEW tries \in Nat, tries <= MAX_TENTATIVES, SearchInv, Len(results') \in Nat, Len(results') <= limit,
         LoopHead(Len(results'), tries), UNCHANGED <<request, late, aborted>>
  PROVE  /\ attempts' \in Nat /\ phase' \in Phases \ {"working", "brief"}
         /\ GoesOn' /\ (phase' \in {"billing", "done"} => ReasonTold')
         /\ phase' = "billing" => ~aborted
  <1> DEFINE found == Len(results')
  <1>1. Typed /\ found \in Nat /\ found <= limit
    BY DEF SearchInv
  <1>2. limit' = limit /\ late' = late /\ aborted' = aborted
    BY DEF request
  <1> HIDE DEF found
  <1>3. /\ attempts' = tries
        /\ phase' \in {"generating", "billing", "done"}
        /\ phase' = "generating" => tries < MAX_TENTATIVES /\ found < limit
        /\ phase' = "billing" => ~aborted
        /\ phase' # "generating" =>
             /\ stopReason' \in {"target", "attempts", "time", "aborted"}
             /\ stopReason' = "target" => found = limit
             /\ stopReason' = "attempts" => found < limit /\ tries = MAX_TENTATIVES
             /\ stopReason' = "time" => found < limit /\ late
             /\ stopReason' = "aborted" => aborted
    <2>1. LoopHead(found, tries)
      BY DEF found
    <2> QED BY <1>1, <2>1, LoopHeadTells, Zenon
  <1>4. GoesOn'
    BY <1>2, <1>3 DEF GoesOn, found
  <1>5. phase' \in {"billing", "done"} => ReasonTold'
    BY <1>2, <1>3 DEF ReasonTold, found
  <1> QED BY <1>3, <1>4, <1>5 DEF Phases

\* A search starts with nothing marked but the excluded names.
LEMMA Start == Init => SearchInv
  <1> SUFFICES ASSUME Init PROVE SearchInv
    OBVIOUS
  <1>1. limit \in Nat \ {0} /\ balance \in Int
    BY SearchAssumption DEF SearchAssumption, Init, Limit
  <1>2. Typed
    <2>1. /\ matchMode \in {"all", "any"} /\ excluded \subseteq checked /\ phase \in Phases
          /\ late \in BOOLEAN /\ aborted \in BOOLEAN /\ attempts \in Nat
      BY DEF Init, Phases
    <2>2. verified \in Seq(Names) /\ items \in Seq(Names) /\ results \in Seq(Result)
      BY DEF Init
    <2>3. working \in [Workers -> Names \union {NoName}]
      BY DEF Init
    <2> QED BY <1>1, <2>1, <2>2, <2>3 DEF Typed
  <1>3. InOrder
    BY DEF Init, InOrder, IsInjective, Range
  <1>4. AtWork /\ GoesOn
    BY DEF Init, AtWork, GoesOn
  <1>5. RetainedOnce /\ RetainedIsFree
    <2>1. results = <<>> /\ Len(results) = 0
      BY DEF Init
    <2> QED BY <1>1, <2>1 DEF RetainedOnce, RetainedIsFree, RetainedNames
  <1>6. Billed
    BY DEF Init, Billed, PaidUnlessSpentElsewhere
  <1> QED BY <1>2, <1>3, <1>4, <1>5, <1>6 DEF SearchInv, Init

\* The brief read, an interrupted search returns and the others begin.
LEMMA ReadBriefKeeps == ASSUME SearchInv, ReadBrief PROVE SearchInv' /\ Heard
  <1>1. /\ phase = "brief" /\ results = <<>> /\ results' = results
        /\ UNCHANGED <<request, late, aborted, checked, verified, items, working, account>>
        /\ LoopHead(0, 0)
    BY DEF ReadBrief, SearchInv, GoesOn
  <1>2. Len(results') = 0 /\ 0 <= limit /\ 0 <= MAX_TENTATIVES
    BY <1>1, SearchAssumption DEF SearchInv, Typed, SearchAssumption
  <1>3. /\ attempts' \in Nat /\ phase' \in Phases \ {"working", "brief"}
        /\ GoesOn' /\ (phase' \in {"billing", "done"} => ReasonTold')
        /\ phase' = "billing" => ~aborted
    BY <1>1, <1>2, LoopHeadKeeps
  <1>4. Result' = Result
    BY <1>1 DEF Result, ExtStatuses, request
  <1>5. Typed'
    BY <1>1, <1>3, <1>4 DEF SearchInv, Typed, request, account
  <1>6. InOrder' /\ AtWork' /\ RetainedOnce' /\ RetainedIsFree'
    BY <1>1, <1>3 DEF SearchInv, InOrder, AtWork, RetainedOnce, RetainedIsFree, RetainedNames, request
  <1>7. Billed'
    BY <1>1, <1>3 DEF SearchInv, Billed, PaidUnlessSpentElsewhere, account
  <1> QED BY <1>1, <1>3, <1>5, <1>6, <1>7 DEF SearchInv, Heard

\* A batch launches the workers on its new names, or ends an attempt in vain.
LEMMA GeneratedKeeps ==
  ASSUME SearchInv, NEW batch \in Seq(Names), Generated(batch)
  PROVE  SearchInv' /\ Heard
  <1>1. /\ phase = "generating" /\ checked' = checked \union Range(batch)
        /\ UNCHANGED <<request, results, late, aborted, account>>
    BY DEF Generated
  <1>2. /\ Typed /\ InOrder /\ AtWork /\ RetainedOnce /\ RetainedIsFree /\ Billed /\ GoesOn
        /\ items = <<>> /\ attempts < MAX_TENTATIVES /\ saved = 0 /\ debited = 0
    BY <1>1 DEF SearchInv, AtWork, GoesOn, Billed
  <1>3. Result' = Result
    BY <1>1 DEF Result, ExtStatuses, request
  <1>4. RetainedIsFree' /\ Billed'
    BY <1>1, <1>2 DEF RetainedIsFree, Billed, PaidUnlessSpentElsewhere, request, account
  <1>5. ASSUME LoopHead(Len(results), attempts + 1), UNCHANGED <<verified, items, working>>
        PROVE  SearchInv' /\ Heard
    <2>1. Len(results') \in Nat /\ Len(results') <= limit /\ results' = results
      BY <1>1, <1>2 DEF Typed, RetainedOnce
    <2>2. attempts + 1 \in Nat /\ attempts + 1 <= MAX_TENTATIVES
      BY <1>2, SearchAssumption DEF Typed, SearchAssumption
    <2>3. /\ attempts' \in Nat /\ phase' \in Phases \ {"working", "brief"}
          /\ GoesOn' /\ (phase' \in {"billing", "done"} => ReasonTold')
          /\ phase' = "billing" => ~aborted
      BY <1>1, <1>5, <2>1, <2>2, LoopHeadKeeps
    <2>4. Typed'
      BY <1>1, <1>2, <1>3, <1>5, <2>3 DEF Typed, request, account
    <2>5. InOrder' /\ RetainedOnce'
      BY <1>1, <1>2, <1>5 DEF InOrder, RetainedOnce, RetainedNames, request
    <2>6. AtWork'
      BY <1>1, <1>2, <1>5 DEF AtWork
    <2> QED BY <1>1, <1>4, <1>5, <2>3, <2>4, <2>5, <2>6 DEF SearchInv, Heard
  <1>6. ASSUME NEW fresh \in NewItems(batch), ~aborted, Launch(fresh), phase' = "working",
               UNCHANGED <<attempts, stopReason>>
        PROVE  SearchInv' /\ Heard
    <2>1. /\ verified' \in Seq(Names) /\ items' \in Seq(Names)
          /\ working' \in [Workers -> Names \union {NoName}]
          /\ InOrder'
          /\ Range(verified) \subseteq Range(verified')
          /\ \A w \in Workers : working'[w] # NoName => working'[w] \in Range(verified') \ Range(verified)
          /\ \A v, w \in Workers : v # w /\ working'[v] # NoName => working'[v] # working'[w]
      BY <1>1, <1>2, <1>6, LaunchKeepsOrder
    <2>2. Typed'
      BY <1>1, <1>2, <1>3, <1>6, <2>1 DEF Typed, request, account, Phases
    <2>3. AtWork' /\ GoesOn'
      BY <1>2, <1>6, <2>1 DEF AtWork, GoesOn
    <2>4. NoName \notin RetainedNames
      <3>1. Range(verified) \subseteq Names
        BY <1>2 DEF Typed, Range
      <3> QED BY <1>2, <3>1, SearchAssumption DEF RetainedOnce, SearchAssumption
    <2>5. RetainedOnce'
      <3>1. RetainedNames' = RetainedNames /\ results' = results /\ limit' = limit
        BY <1>1 DEF RetainedNames, request
      <3>2. RetainedNames \subseteq Range(verified)
        BY <1>2 DEF RetainedOnce
      <3>3. \A w \in Workers : working'[w] \notin RetainedNames
        BY <2>1, <2>4, <3>2
      <3> QED BY <1>2, <2>1, <3>1, <3>2, <3>3 DEF RetainedOnce
    <2> QED BY <1>1, <1>4, <1>6, <2>1, <2>2, <2>3, <2>5 DEF SearchInv, Heard
  <1> QED BY <1>5, <1>6 DEF Generated

\* A worker retains its candidate or not, takes the next, or returns.
LEMMA SettleKeeps ==
  ASSUME SearchInv, NEW w \in Workers, NEW status \in ExtStatuses, Settle(w, status)
  PROVE  SearchInv' /\ Heard
  <1>1. /\ phase = "working" /\ working[w] # NoName /\ results' = Retained(working[w], status)
        /\ UNCHANGED <<request, checked, late, aborted, account>>
    BY DEF Settle
  <1>2. /\ Typed /\ InOrder /\ AtWork /\ RetainedOnce /\ Billed
        /\ attempts < MAX_TENTATIVES /\ saved = 0 /\ debited = 0
    BY <1>1 DEF SearchInv, GoesOn, Billed
  <1>3. /\ results' \in Seq(Result)' /\ RetainedIsFree'
        /\ \A i, j \in DOMAIN results' : results'[i].name = results'[j].name => i = j
        /\ RetainedNames' \subseteq RetainedNames \union {working[w]}
        /\ Len(results') <= limit
        /\ aborted => results' = results
    BY <1>1, RetainedKeeps
  <1>4. Billed'
    BY <1>1, <1>2 DEF Billed, PaidUnlessSpentElsewhere, account
  <1>5. RetainedNames' \subseteq Range(verified)
    BY <1>1, <1>2, <1>3 DEF AtWork, RetainedOnce
  <1>6. \A v \in Workers \ {w} : working[v] \notin RetainedNames'
    BY <1>1, <1>2, <1>3 DEF AtWork, RetainedOnce
  <1>7. CASE ~aborted /\ items # <<>> /\ UNCHANGED <<phase, attempts, stopReason>>
             /\ working' = [working EXCEPT ![w] = Head(items)]
             /\ verified' = Append(verified, Head(items)) /\ items' = Tail(items)
    <2>1. /\ verified \in Seq(Names) /\ items \in Seq(Names) /\ IsInjective(verified) /\ IsInjective(items)
          /\ Range(verified) \intersect Range(items) = {}
      BY <1>2 DEF Typed, InOrder
    <2>2. /\ Head(items) \in Range(items) /\ verified' \in Seq(Names) /\ items' \in Seq(Names)
          /\ IsInjective(verified') /\ IsInjective(items')
          /\ Range(verified') = Range(verified) \union {Head(items)}
          /\ Range(items') \subseteq Range(items) \ {Head(items)}
      BY <1>7, <2>1, Moved
    <2>3. InOrder'
      BY <1>1, <1>2, <2>1, <2>2 DEF InOrder, request
    <2>4. Head(items) \in Names /\ Head(items) \notin Range(verified)
      <3>1. Head(items) \in Names
        BY <1>7, <2>1
      <3> QED BY <2>1, <2>2, <3>1
    <2>5. /\ working' \in [Workers -> Names \union {NoName}] /\ working'[w] = Head(items)
          /\ \A v \in Workers \ {w} : working'[v] = working[v]
      BY <1>2, <1>7, <2>4 DEF Typed
    <2>6. Typed'
      BY <1>1, <1>2, <1>3, <1>7, <2>2, <2>5 DEF Typed, request, account
    <2>7. AtWork'
      <3>1. \A v \in Workers : working'[v] # NoName => working'[v] \in Range(verified')
        BY <1>2, <2>2, <2>5 DEF AtWork
      <3>2. \A v \in Workers \ {w} : working[v] # Head(items)
        BY <1>2, <2>4, SearchAssumption DEF AtWork, SearchAssumption
      <3>3. \A u, v \in Workers : u # v /\ working'[u] # NoName => working'[u] # working'[v]
        BY <1>2, <2>5, <3>2 DEF AtWork
      <3> QED BY <1>1, <1>7, <3>1, <3>3 DEF AtWork
    <2>8. RetainedOnce'
      <3>1. \A v \in Workers : working'[v] \notin RetainedNames'
        BY <1>5, <1>6, <2>4, <2>5
      <3> QED BY <1>1, <1>3, <1>5, <2>2, <3>1 DEF RetainedOnce, request
    <2>9. GoesOn'
      BY <1>1, <1>2, <1>7 DEF GoesOn
    <2> QED BY <1>1, <1>3, <1>4, <1>7, <2>3, <2>6, <2>7, <2>8, <2>9 DEF SearchInv, Heard
  <1>8. CASE /\ working' = [working EXCEPT ![w] = NoName] /\ verified' = verified
             /\ \/ /\ \A v \in Workers \ {w} : working[v] = NoName
                   /\ items' = <<>> /\ LoopHead(Len(results'), attempts + 1)
                \/ UNCHANGED <<items, phase, attempts, stopReason>>
    <2>1. /\ working' \in [Workers -> Names \union {NoName}] /\ working'[w] = NoName
          /\ \A v \in Workers \ {w} : working'[v] = working[v]
      BY <1>2, <1>8 DEF Typed
    <2>2. NoName \notin RetainedNames'
      <3>1. Range(verified) \subseteq Names
        BY <1>2 DEF Typed, Range
      <3> QED BY <1>5, <3>1, SearchAssumption DEF SearchAssumption
    <2>3. RetainedOnce'
      <3>1. \A v \in Workers : working'[v] \notin RetainedNames'
        BY <1>6, <2>1, <2>2
      <3> QED BY <1>1, <1>3, <1>5, <1>8, <3>1 DEF RetainedOnce, request
    <2>4. /\ \A v \in Workers : working'[v] # NoName => working'[v] \in Range(verified')
          /\ \A u, v \in Workers : u # v /\ working'[u] # NoName => working'[u] # working'[v]
      BY <1>2, <1>8, <2>1 DEF AtWork
    <2>5. ASSUME \A v \in Workers \ {w} : working[v] = NoName, items' = <<>>,
                 LoopHead(Len(results'), attempts + 1)
          PROVE  SearchInv' /\ Heard
      <3>1. Len(results') \in Nat /\ attempts + 1 \in Nat /\ attempts + 1 <= MAX_TENTATIVES
        BY <1>2, <1>3, SearchAssumption DEF Typed, SearchAssumption
      <3>2. /\ attempts' \in Nat /\ phase' \in Phases \ {"working", "brief"}
            /\ GoesOn' /\ (phase' \in {"billing", "done"} => ReasonTold')
            /\ phase' = "billing" => ~aborted
        BY <1>1, <1>3, <2>5, <3>1, LoopHeadKeeps
      <3>3. AtWork'
        BY <2>1, <2>4, <2>5 DEF AtWork
      <3>4. InOrder'
        <4>1. Range(items') = {} /\ IsInjective(items')
          BY <2>5 DEF Range, IsInjective
        <4> QED BY <1>1, <1>2, <1>8, <4>1 DEF InOrder, request
      <3>5. Typed'
        BY <1>1, <1>2, <1>3, <1>8, <2>1, <2>5, <3>2 DEF Typed, request, account
      <3> QED BY <1>1, <1>3, <1>4, <1>8, <2>3, <3>2, <3>3, <3>4, <3>5 DEF SearchInv, Heard
    <2>6. ASSUME UNCHANGED <<items, phase, attempts, stopReason>>
          PROVE  SearchInv' /\ Heard
      <3>1. AtWork' /\ GoesOn'
        BY <1>1, <1>2, <2>4, <2>6 DEF AtWork, GoesOn
      <3>2. InOrder'
        BY <1>1, <1>2, <1>8, <2>6 DEF InOrder, request
      <3>3. Typed'
        BY <1>1, <1>2, <1>3, <1>8, <2>1, <2>6 DEF Typed, request, account
      <3> QED BY <1>1, <1>3, <1>4, <1>8, <2>3, <2>6, <3>1, <3>2, <3>3 DEF SearchInv, Heard
    <2> QED BY <1>8, <2>5, <2>6
  <1> QED BY <1>7, <1>8 DEF Settle

\* The transaction, committed or rolled back.
LEMMA BillKeeps == ASSUME SearchInv, Bill \/ TransactionFails PROVE SearchInv' /\ Heard
  <1>1. /\ phase = "billing" /\ phase' = "done" /\ UNCHANGED <<request, loop, late, aborted>>
        /\ Typed /\ Billed /\ RetainedOnce
    BY DEF Bill, TransactionFails, SearchInv
  <1>2. saved = 0 /\ debited = 0 /\ Len(results) \in Nat /\ balance \in Int
    BY <1>1 DEF Billed, Typed
  <1>3. Billed' /\ balance' \in Int
    <2>1. CASE Bill
      <3>1. /\ debited' = IF balance >= Len(results) THEN Len(results) ELSE 0
            /\ balance' = balance - debited' /\ saved' = Len(results)
        BY <2>1 DEF Bill
      <3> QED BY <1>1, <1>2, <3>1 DEF Billed, PaidUnlessSpentElsewhere, loop
    <2>2. CASE TransactionFails
      BY <1>1, <1>2, <2>2 DEF TransactionFails, Billed, PaidUnlessSpentElsewhere, account
    <2> QED BY <2>1, <2>2
  <1>4. Result' = Result
    BY <1>1 DEF Result, ExtStatuses, request
  <1>5. Typed'
    BY <1>1, <1>3, <1>4 DEF Typed, Phases, request, loop
  <1>6. InOrder' /\ AtWork' /\ RetainedOnce' /\ RetainedIsFree' /\ GoesOn' /\ ReasonTold'
    BY <1>1 DEF SearchInv, InOrder, AtWork, RetainedOnce, RetainedNames, RetainedIsFree, GoesOn, ReasonTold,
                request, loop
  <1> QED BY <1>1, <1>3, <1>5, <1>6 DEF SearchInv, Heard, loop

\* The stop button, the clock, the payer's other requests, the removal.
Around ==
  Abort \/ BudgetSpent \/ RemoveProject \/ \E amount \in SpendingElsewhere : SpendElsewhere(amount)

\* What happens around the search changes neither its loop nor its bill.
LEMMA AroundKeeps == ASSUME SearchInv, Around PROVE SearchInv' /\ Heard
  <1>1. /\ phase # "done" /\ UNCHANGED <<request, phase, loop, saved, debited>>
        /\ late' \in {late, TRUE} /\ aborted' \in {aborted, TRUE}
    BY DEF Around, Abort, BudgetSpent, RemoveProject, SpendElsewhere, account
  <1>2. balance' \in Int
    BY SearchAssumption DEF Around, Abort, BudgetSpent, RemoveProject, SpendElsewhere, account, SearchInv, Typed,
                            SearchAssumption
  <1>3. Result' = Result
    BY <1>1 DEF Result, ExtStatuses, request
  <1>4. Typed'
    BY <1>1, <1>2, <1>3 DEF SearchInv, Typed, request, loop
  <1>5. Billed'
    BY <1>1 DEF SearchInv, Billed, PaidUnlessSpentElsewhere, loop
  <1>6. InOrder' /\ AtWork' /\ RetainedOnce' /\ RetainedIsFree' /\ GoesOn'
    BY <1>1 DEF SearchInv, InOrder, AtWork, RetainedOnce, RetainedNames, RetainedIsFree, GoesOn, request, loop
  <1>7. phase' \in {"billing", "done"} => ReasonTold'
    <2>1. (late => late') /\ (aborted => aborted')
      <3>1. (late' = late \/ late' = TRUE) /\ (aborted' = aborted \/ aborted' = TRUE)
        BY <1>1, Zenon
      <3>2. late \in BOOLEAN /\ aborted \in BOOLEAN
        BY DEF SearchInv, Typed
      <3> QED BY <3>1, <3>2
    <2>2. /\ UNCHANGED <<phase, results, limit, attempts, stopReason>>
          /\ phase \in {"billing", "done"} => ReasonTold
      BY <1>1 DEF SearchInv, request, loop
    <2> QED BY <2>1, <2>2 DEF ReasonTold
  <1> QED BY <1>1, <1>4, <1>5, <1>6, <1>7 DEF SearchInv, Heard, loop

\* A step of something else.
LEMMA StutterKeeps == ASSUME SearchInv, UNCHANGED vars PROVE SearchInv' /\ Heard
  <1>1. UNCHANGED <<request, phase, loop, late, aborted, account>>
    BY DEF vars
  <1>2. Result' = Result
    BY <1>1 DEF Result, ExtStatuses, request
  <1>3. Typed' /\ Billed'
    BY <1>1, <1>2 DEF SearchInv, Typed, Billed, PaidUnlessSpentElsewhere, request, loop, account
  <1>4. InOrder' /\ AtWork' /\ RetainedOnce' /\ RetainedIsFree' /\ GoesOn'
    BY <1>1 DEF SearchInv, InOrder, AtWork, RetainedOnce, RetainedNames, RetainedIsFree, GoesOn, request, loop
  <1>5. phase' \in {"billing", "done"} => ReasonTold'
    BY <1>1 DEF SearchInv, ReasonTold, request, loop
  <1> QED BY <1>1, <1>3, <1>4, <1>5 DEF SearchInv, Heard, loop

\* The induction step, and what it says of an aborted search.
LEMMA SearchStep == SearchInv /\ [Next]_vars => SearchInv' /\ Heard
  <1> SUFFICES ASSUME SearchInv, [Next]_vars PROVE SearchInv' /\ Heard
    OBVIOUS
  <1>1. CASE ReadBrief
    BY <1>1, ReadBriefKeeps
  <1>2. ASSUME NEW batch \in BoundedSeq(Names, MaxBatch), Generated(batch) PROVE SearchInv' /\ Heard
    <2>1. batch \in Seq(Names)
      BY SearchAssumption DEF BoundedSeq, SeqOf, SearchAssumption
    <2> QED BY <1>2, <2>1, GeneratedKeeps
  <1>3. ASSUME NEW w \in Workers, NEW status \in ExtStatuses, Settle(w, status) PROVE SearchInv' /\ Heard
    BY <1>3, SettleKeeps
  <1>4. CASE Bill \/ TransactionFails
    BY <1>4, BillKeeps
  <1>5. CASE Around
    BY <1>5, AroundKeeps
  <1>6. CASE UNCHANGED vars
    BY <1>6, StutterKeeps
  <1> QED BY <1>1, <1>2, <1>3, <1>4, <1>5, <1>6 DEF Next, Search, Around

----------------------------------------------------------------------------
\* The invariant the four results below rest on.
THEOREM SearchInductive == Spec => []SearchInv
  <1>1. Init => SearchInv
    BY Start
  <1>2. SearchInv /\ [Next]_vars => SearchInv'
    BY SearchStep
  <1> QED BY <1>1, <1>2, PTL DEF Spec

\* The user is given what was asked for, in whatever order the workers come
\* back (findAvailableDomains): never more names than the limit, each once,
\* none that was excluded, each free.
THEOREM RetainsAsAsked == Spec => []RetainedAsAsked
  <1>1. SearchInv => RetainedAsAsked
    <2> SUFFICES ASSUME SearchInv PROVE RetainedAsAsked
      OBVIOUS
    <2>1. /\ Typed /\ InOrder /\ RetainedOnce /\ RetainedIsFree /\ Billed
      BY DEF SearchInv
    <2>2. NeverMoreThanAccepted
      <3>1. Len(results) \in Nat
        BY <2>1 DEF Typed
      <3> QED BY <2>1, <3>1 DEF NeverMoreThanAccepted, RetainedOnce, Billed
    <2>3. IsInjective([i \in DOMAIN results |-> results[i].name])
      BY <2>1 DEF IsInjective, RetainedOnce
    <2>4. EachNameOnce
      BY <2>1, <2>3 DEF EachNameOnce, InOrder
    <2> QED BY <2>1, <2>2, <2>4 DEF RetainedAsAsked
  <1> QED BY <1>1, SearchInductive, PTL

\* A search stops for the reason it logs, with no candidate left at a registry.
THEOREM StopsTruly == Spec => []StopReasonIsTrue
  <1>1. SearchInv => StopReasonIsTrue
    <2> SUFFICES ASSUME SearchInv, phase \in {"billing", "done"} PROVE StopReasonIsTrue
      BY DEF StopReasonIsTrue
    <2>1. ReasonTold /\ \A w \in Workers : working[w] = NoName
      BY DEF SearchInv, AtWork
    <2> QED BY <2>1 DEF ReasonTold, StopReasonIsTrue
  <1> QED BY <1>1, SearchInductive, PTL

\* A saved name was paid for, unless the payer spent the credits meanwhile
\* (the transaction of the controller, which does not look at a refusal).
THEOREM BillsUnlessSpent == Spec => []PaidUnlessSpentElsewhere
  <1>1. SearchInv => PaidUnlessSpentElsewhere
    BY DEF SearchInv, Billed
  <1> QED BY <1>1, SearchInductive, PTL

\* The stop button is heard at every step: nothing more is submitted, retained
\* or billed.
THEOREM HearsTheAbort == Spec => AbortIsHeard
  <1>1. SearchInv /\ [Next]_vars => [Heard]_vars
    BY SearchStep
  <1> QED BY <1>1, SearchInductive, PTL DEF Spec, AbortIsHeard, Heard

----------------------------------------------------------------------------
(* The bounds and the demands of a search. *)

\* The bounds a search applies, with and without a maximum of the screen.
LEMMA BoundsFit ==
  ASSUME NEW c, c.min \in Bound, c.max \in Bound, NEW reglage \in Bound,
         reglage # NoBound => reglage >= MIN_NAME_LENGTH_FLOOR
  PROVE  LET b == BornesDeLongueur(c, reglage)
         IN  /\ b.min \in Nat /\ b.max \in Nat
             /\ MIN_NAME_LENGTH_FLOOR <= b.min /\ b.min <= b.max
             /\ reglage # NoBound => b.max = reglage
             /\ reglage = NoBound /\ c.min # NoBound => b.min = Borne(c.min)
             /\ reglage = NoBound /\ c.max # NoBound =>
                  b.max = Larger(Larger(c.max, MIN_NAME_LENGTH_FLOOR), Borne(Or(c.min, MIN_NAME_LENGTH_FLOOR)))
  <1> DEFINE lu == Borne(Or(c.min, MIN_NAME_LENGTH_FLOOR))
             plus == MaxParDefaut(lu)
             max == IF c.max # NoBound THEN Larger(c.max, MIN_NAME_LENGTH_FLOOR) ELSE plus
             b == BornesDeLongueur(c, reglage)
  <1>1. /\ NoBound \notin Nat /\ NoBound \notin Int
        /\ MIN_NAME_LENGTH_FLOOR \in Nat /\ DEFAULT_MAX_NAME_LENGTH \in Nat /\ MAX_NAME_LENGTH_FLOOR \in Nat
        /\ MIN_NAME_LENGTH_FLOOR <= DEFAULT_MAX_NAME_LENGTH /\ MIN_NAME_LENGTH_FLOOR <= MAX_NAME_LENGTH_FLOOR
    BY RulesAssumption DEF RulesAssumption
  <1>2. Or(c.min, MIN_NAME_LENGTH_FLOOR) \in Nat
    BY <1>1 DEF Or, Bound
  <1>3. lu \in Nat /\ MIN_NAME_LENGTH_FLOOR <= lu
    BY <1>1, <1>2 DEF Borne, Larger, Smaller
  <1>4. plus \in Nat
    BY <1>1, <1>3 DEF MaxParDefaut, Larger
  <1>5. max \in Nat
    BY <1>1, <1>4 DEF Larger, Bound
  <1>6. CASE reglage # NoBound
    <2>1. reglage \in Nat /\ Larger(reglage, MIN_NAME_LENGTH_FLOOR) = reglage
      BY <1>1, <1>6 DEF Larger, Bound
    <2>2. b = [min |-> IF lu <= reglage THEN lu ELSE MIN_NAME_LENGTH_FLOOR, max |-> reglage]
      BY <1>6, <2>1 DEF BornesDeLongueur
    <2> QED BY <2>1, <2>2, <1>1, <1>3, <1>6
  <1>7. CASE reglage = NoBound /\ c.min = NoBound /\ c.max = NoBound
    <2>1. b = [min |-> MIN_NAME_LENGTH_FLOOR, max |-> DEFAULT_MAX_NAME_LENGTH]
      BY <1>7 DEF BornesDeLongueur
    <2> QED BY <2>1, <1>1, <1>7
  <1>8. CASE reglage = NoBound /\ (c.min # NoBound \/ c.max # NoBound)
    <2>1. b = [min |-> lu, max |-> Larger(max, lu)]
      BY <1>8 DEF BornesDeLongueur
    <2>2. Larger(max, lu) \in Nat /\ lu <= Larger(max, lu)
      BY <1>3, <1>5 DEF Larger
    <2>3. c.min # NoBound => lu = Borne(c.min)
      BY DEF Or
    <2> QED BY <2>1, <2>2, <2>3, <1>3, <1>8
  <1> QED BY <1>6, <1>7, <1>8

\* A wish prevails over what was read.
LEMMA WishPrevails ==
  ASSUME NEW c \in Reading, NEW i \in Reading,
         i.min # NoBound /\ i.max # NoBound => i.min <= i.max
  PROVE  LET d == AppliquerRetours(c, i)
         IN  /\ d \in Reading
             /\ d.demands = c.demands \union i.demands
             /\ i.min # NoBound => d.min = i.min
             /\ i.max # NoBound => d.max = i.max /\ (d.min # NoBound => d.min <= i.max)
  <1> DEFINE d == AppliquerRetours(c, i)
  <1>1. NoBound \notin Nat /\ NoBound \notin Int
    BY RulesAssumption DEF RulesAssumption
  <1>2. /\ c.min \in Nat \union {NoBound} /\ c.max \in Nat \union {NoBound}
        /\ i.min \in Nat \union {NoBound} /\ i.max \in Nat \union {NoBound}
        /\ c.demands \subseteq Demands /\ i.demands \subseteq Demands
    BY DEF Reading, Bound
  <1>3. d.min \in Bound /\ d.max \in Bound /\ d.demands = c.demands \union i.demands
    BY <1>2 DEF AppliquerRetours, Reading, Bound
  <1>4. d \in Reading
    BY <1>2 DEF AppliquerRetours, Reading, Bound
  <1>5. CASE i.min # NoBound /\ i.max # NoBound
    BY <1>1, <1>2, <1>4, <1>3, <1>5 DEF AppliquerRetours, Reading
  <1>6. CASE i.min # NoBound /\ i.max = NoBound
    BY <1>1, <1>2, <1>4, <1>3, <1>6 DEF AppliquerRetours, Reading
  <1>7. CASE i.min = NoBound /\ i.max # NoBound
    BY <1>1, <1>2, <1>4, <1>3, <1>7 DEF AppliquerRetours, Reading
  <1>8. CASE i.min = NoBound /\ i.max = NoBound
    BY <1>1, <1>2, <1>4, <1>3, <1>8 DEF AppliquerRetours, Reading
  <1> QED BY <1>5, <1>6, <1>7, <1>8

----------------------------------------------------------------------------
(* The framing and the search. *)

\* A step of the screen, of the login or of the request.
ScreenStep ==
  \/ \E t \in Texts : Edit(t)
  \/ PasserAuCadrage
  \/ \E t \in Texts : \E r \in Says[t] : ReadingComes(t, r)
  \/ \E t \in Texts : ReadingFails(t)
  \/ \E n \in MaxChoices : OnMaxLengthChange(n)
  \/ \E d \in Demands : RetirerContrainte(d)
  \/ \E v \in Type : ChoisirTypeDeNom(v)
  \/ LoadProject
  \/ \E t \in Texts, n \in MaxChoices \union {NoBound}, wishes \in BOOLEAN : ProjectComes(t, n, wishes)
  \/ ProjectFails
  \/ ResetProject
  \/ \E wish \in BOOLEAN : FindDomains(wish)
  \/ Return
  \/ SessionOver
  \/ Send

LEMMA ScreenLeavesTheSearch == ScreenStep => UNCHANGED vars /\ sending # "sent"
  BY DEF ScreenStep, Edit, PasserAuCadrage, ReadingComes, ReadingFails, OnMaxLengthChange, RetirerContrainte,
         ChoisirTypeDeNom, LoadProject, ProjectComes, ProjectFails, ResetProject, FindDomains, Return,
         SessionOver, Send, Gesture, OnScreen

\* A batch that the filter let through is a batch of names.
LEMMA FilteredBatch ==
  ASSUME NEW S \in SUBSET Names, NEW n \in 0..MaxBatch, NEW batch \in BoundedSeq(S, n)
  PROVE  batch \in BoundedSeq(Names, MaxBatch) /\ batch \in Seq(S)
  BY SearchAssumption DEF SearchAssumption, BoundedSeq, SeqOf

LEMMA LoopHeadLeaves ==
  ASSUME NEW found, NEW tries, LoopHead(found, tries) PROVE phase' # "brief"
  BY DEF LoopHead

\* What follows the sending: the request is read, or the search goes on.
LEMMA SentStep ==
  ASSUME FramingNext, ~ScreenStep, budget \in Budget
  PROVE  /\ sending = "sent"
         /\ Next
         /\ \/ \E r \in Says[text], i \in Wishes : ServerReads(r, i)
            \/ /\ UNCHANGED framing
               /\ UNCHANGED excluded
               /\ phase = "brief" <=> phase' = "brief"
               /\ \/ UNCHANGED checked
                  \/ \E batch \in Seq({name \in Names : Conforming(name)}) : Generated(batch)
  <1>1. CASE \E r \in Says[text], i \in Wishes : ServerReads(r, i)
    BY <1>1 DEF ServerReads, Next, Search
  <1>2. CASE ServerGenerates /\ sending = "sent" /\ UNCHANGED framing
    <2>1. PICK batch \in BoundedSeq({name \in Names : Conforming(name)}, budget.batch) : Generated(batch)
      BY <1>2 DEF ServerGenerates
    <2>2. batch \in BoundedSeq(Names, MaxBatch) /\ batch \in Seq({name \in Names : Conforming(name)})
      BY <2>1, FilteredBatch DEF Budget
    <2>3. Next
      BY <2>1, <2>2 DEF Next, Search
    <2>4. phase # "brief" /\ phase' # "brief" /\ UNCHANGED excluded
      BY <2>1, LoopHeadLeaves DEF Generated, request
    <2> QED BY <2>1, <2>2, <2>3, <2>4, <1>2
  <1>3. CASE /\ sending = "sent" /\ UNCHANGED framing
             /\ \/ phase = "working" /\ \E w \in Workers, status \in ExtStatuses : Settle(w, status)
                \/ Bill
                \/ TransactionFails
    <2>1. CASE phase = "working" /\ \E w \in Workers, status \in ExtStatuses : Settle(w, status)
      <3>1. PICK w \in Workers, status \in ExtStatuses : Settle(w, status)
        BY <2>1
      <3>2. phase # "brief" /\ phase' # "brief"
        BY <3>1, LoopHeadLeaves DEF Settle
      <3>3. UNCHANGED <<checked, excluded>>
        BY <3>1 DEF Settle, request
      <3> QED BY <1>3, <2>1, <3>2, <3>3 DEF Next, Search
    <2>2. CASE Bill \/ TransactionFails
      BY <1>3, <2>2 DEF Bill, TransactionFails, Next, Search, loop, request
    <2> QED BY <1>3, <2>1, <2>2
  <1>4. CASE Meanwhile
    BY <1>4 DEF Meanwhile, Abort, BudgetSpent, SpendElsewhere, RemoveProject, Next, loop, request
  <1> QED BY <1>1, <1>2, <1>3, <1>4 DEF FramingNext, ServerSearch, ScreenStep

\* The framing.
FramedTypes ==
  /\ text \in Texts \union {NoText}
  /\ sending = "sent" => text # NoText
  /\ read \in Reading
  /\ maxLength \in MaxChoices \union {NoBound}
  /\ typeDeNom \in Type
  /\ sending \in {"no", "click", "login", "refused", "sent"}
  /\ crossed \in BOOLEAN
  /\ budget \in Budget

\* Nothing moved the settings since the click, before a login and after it.
AsAnnounced ==
  /\ announced.bornes = BornesAffichees(announced.read, announced.max)
  /\ sending \in {"click", "login", "sent"} /\ ~crossed =>
       /\ maxLength = announced.max
       /\ retirees = announced.retirees
       /\ typeDeNom = announced.type

\* The search begins once it is sent, with terms made of what the server read,
\* and every name it marks and was not told to exclude conforms to them.
Applies ==
  /\ phase = "brief" => checked = excluded
  /\ phase # "brief" =>
       /\ sending = "sent"
       /\ applied.read \in Reading
       /\ applied.wish \in Wishes
       /\ applied.terms = Terms(applied.read, applied.wish)
       /\ \A name \in checked \ excluded : name \in Names /\ Conforming(name)

FramingInv == FramedTypes /\ AsAnnounced /\ Applies

LEMMA FramingStarts == FramingInit => FramingInv
  <1> SUFFICES ASSUME FramingInit PROVE FramingInv
    OBVIOUS
  <1>1. Silent \in Reading
    BY DEF Silent, Reading, Bound, Type
  <1>2. FramedTypes
    BY <1>1, FramingAssumption DEF FramingInit, FramedTypes, Type, FramingAssumption
  <1>3. AsAnnounced
    BY DEF FramingInit, AsAnnounced, Shown
  <1>4. Applies
    BY DEF FramingInit, Init, Applies
  <1> QED BY <1>2, <1>3, <1>4 DEF FramingInv

LEMMA GestureCounted ==
  ASSUME budget \in Budget, budget.gestures > 0, budget' = [budget EXCEPT !.gestures = @ - 1]
  PROVE  budget' \in Budget
  BY DEF Budget

\* A gesture, or an answer on the screen: crossed if it comes after the click.
LEMMA ScreenKeeps == ASSUME FramingInv, ScreenStep PROVE FramingInv'
  <1>1. UNCHANGED vars /\ sending # "sent"
    BY ScreenLeavesTheSearch
  <1>2. phase = "brief" /\ UNCHANGED <<phase, checked, excluded>>
    BY <1>1 DEF FramingInv, Applies, vars, loop, request
  <1>3. Applies'
    BY <1>2 DEF FramingInv, Applies
  <1>4. Silent \in Reading /\ "inventes" \in Type
    BY DEF Silent, Reading, Bound, Type
  <1>5. \A t \in Texts : Says[t] \subseteq Reading
    BY FramingAssumption DEF FramingAssumption
  <1>6. FramedTypes'
    <2>1. CASE \E t \in Texts : \E r \in Says[t] : ReadingComes(t, r)
      <3>1. PICK t \in Texts, r \in Reading : ReadingComes(t, r)
        BY <2>1, <1>5
      <3>2. r.type \in Type
        BY DEF Reading
      <3> QED BY <3>1, <3>2 DEF ReadingComes, OnScreen, FramingInv, FramedTypes
    <2>2. CASE \E t \in Texts, n \in MaxChoices \union {NoBound}, wishes \in BOOLEAN : ProjectComes(t, n, wishes)
      BY <2>2 DEF ProjectComes, OnScreen, FramingInv, FramedTypes, brief
    <2>3. CASE \/ \E t \in Texts : Edit(t)
               \/ PasserAuCadrage
               \/ \E n \in MaxChoices : OnMaxLengthChange(n)
               \/ \E d \in Demands : RetirerContrainte(d)
               \/ \E v \in Type : ChoisirTypeDeNom(v)
               \/ LoadProject
      <3>1. OnScreen /\ budget' \in Budget
        BY <2>3, GestureCounted DEF Edit, PasserAuCadrage, OnMaxLengthChange, RetirerContrainte, ChoisirTypeDeNom,
                                    LoadProject, Gesture, FramingInv, FramedTypes
      <3> QED BY <2>3, <3>1 DEF Edit, PasserAuCadrage, OnMaxLengthChange, RetirerContrainte, ChoisirTypeDeNom,
                                LoadProject, OnScreen, FramingInv, FramedTypes, brief, settings
    <2>4. CASE ResetProject \/ SessionOver
      <3>1. budget' \in Budget
        BY <2>4, GestureCounted DEF ResetProject, SessionOver, Gesture, FramingInv, FramedTypes
      <3> QED BY <2>4, <3>1, <1>4 DEF ResetProject, SessionOver, Blank, Gesture, OnScreen, FramingInv, FramedTypes
    <2>5. CASE \/ \E t \in Texts : ReadingFails(t)
               \/ ProjectFails
               \/ \E wish \in BOOLEAN : FindDomains(wish)
               \/ Return
               \/ Send
      BY <2>5, <1>4 DEF ReadingFails, ProjectFails, FindDomains, Return, Send, OnScreen, FramingInv, FramedTypes,
                  screen, brief, settings
    <2> QED BY <2>1, <2>2, <2>3, <2>4, <2>5 DEF ScreenStep
  <1>7. AsAnnounced'
    <2>1. CASE OnScreen
      BY <2>1 DEF OnScreen, FramingInv, AsAnnounced
    <2>2. CASE \E wish \in BOOLEAN : FindDomains(wish)
      BY <2>2 DEF FindDomains, Shown, AsAnnounced, screen, settings
    <2>3. CASE Return \/ SessionOver \/ Send
      BY <2>3 DEF Return, SessionOver, Send, FramingInv, AsAnnounced, screen, settings
    <2>4. OnScreen \/ (\E wish \in BOOLEAN : FindDomains(wish)) \/ Return \/ SessionOver \/ Send
      BY DEF ScreenStep, Edit, PasserAuCadrage, ReadingComes, ReadingFails, OnMaxLengthChange, RetirerContrainte,
             ChoisirTypeDeNom, LoadProject, ProjectComes, ProjectFails, ResetProject, Gesture
    <2> QED BY <2>1, <2>2, <2>3, <2>4
  <1> QED BY <1>3, <1>6, <1>7 DEF FramingInv

\* The server reads, or the search goes on.
LEMMA SentKeeps == ASSUME FramingInv, FramingNext, ~ScreenStep, SearchInv PROVE FramingInv'
  <1>1. budget \in Budget
    BY DEF FramingInv, FramedTypes
  <1>2. CASE \E r \in Says[text], i \in Wishes : ServerReads(r, i)
    <2>1. PICK r \in Says[text], i \in Wishes : ServerReads(r, i)
      BY <1>2
    <2>2. r \in Reading
      <3>1. text \in Texts
        BY <2>1 DEF ServerReads, FramingInv, FramedTypes
      <3>2. Says[text] \subseteq Reading
        BY <3>1, FramingAssumption DEF FramingAssumption
      <3> QED BY <3>2
    <2>3. FramedTypes' /\ AsAnnounced'
      BY <2>1 DEF ServerReads, FramingInv, FramedTypes, AsAnnounced, screen, settings, brief
    <2>4. /\ phase = "brief" /\ sending' = "sent" /\ checked' = excluded'
          /\ applied' = [read |-> r, wish |-> i, terms |-> Terms(r, i)]
      BY <2>1 DEF ServerReads, ReadBrief, FramingInv, Applies, request
    <2>5. Terms(r, i)' = Terms(r, i)
      BY <2>1 DEF ServerReads, Terms, screen, settings
    <2> QED BY <2>2, <2>3, <2>4, <2>5 DEF FramingInv, Applies
  <1>3. CASE /\ sending = "sent" /\ UNCHANGED framing /\ UNCHANGED excluded
             /\ phase = "brief" <=> phase' = "brief"
             /\ \/ UNCHANGED checked
                \/ \E batch \in Seq({name \in Names : Conforming(name)}) : Generated(batch)
    <2>1. FramedTypes' /\ AsAnnounced'
      BY <1>3 DEF FramingInv, FramedTypes, AsAnnounced, framing, screen, settings, brief
    <2>2. UNCHANGED <<applied, typeDeNom, retirees, maxLength, sending, excluded>>
      BY <1>3 DEF framing, screen, settings
    <2>3. \A name : Conforming(name)' <=> Conforming(name)
      BY <2>2 DEF Conforming
    <2>4. \A r, i : Terms(r, i)' = Terms(r, i)
      BY <2>2 DEF Terms
    <2>5. \/ UNCHANGED checked
          \/ /\ phase = "generating"
             /\ \A name \in checked' : name \in checked \/ (name \in Names /\ Conforming(name))
      <3>1. ASSUME NEW batch \in Seq({name \in Names : Conforming(name)}), Generated(batch)
            PROVE  phase = "generating" /\ \A name \in checked' : name \in checked \/ (name \in Names /\ Conforming(name))
        <4>1. phase = "generating" /\ checked' = checked \union Range(batch)
          BY <3>1 DEF Generated
        <4>2. \A name \in Range(batch) : name \in Names /\ Conforming(name)
          BY DEF Range
        <4> QED BY <4>1, <4>2
      <3> QED BY <1>3, <3>1
    <2>6. Applies'
      <3>1. CASE phase = "brief"
        BY <3>1, <1>3, <2>2, <2>5 DEF FramingInv, Applies
      <3>2. CASE phase # "brief"
        <4>1. phase' # "brief"
          BY <3>2, <1>3
        <4> QED BY <3>2, <4>1, <2>2, <2>3, <2>4, <2>5 DEF FramingInv, Applies
      <3> QED BY <3>1, <3>2
    <2> QED BY <2>1, <2>6 DEF FramingInv
  <1> QED BY <1>1, <1>2, <1>3, SentStep

LEMMA FramingStep == SearchInv /\ FramingInv /\ [FramingNext]_framingVars => FramingInv' /\ [Next]_vars
  <1> SUFFICES ASSUME SearchInv, FramingInv, [FramingNext]_framingVars PROVE FramingInv' /\ [Next]_vars
    OBVIOUS
  <1>1. CASE ScreenStep
    BY <1>1, ScreenKeeps, ScreenLeavesTheSearch
  <1>2. CASE FramingNext /\ ~ScreenStep
    BY <1>2, SentKeeps, SentStep DEF FramingInv, FramedTypes
  <1>3. CASE UNCHANGED framingVars
    <2>1. UNCHANGED <<framing, vars>>
      BY <1>3 DEF framingVars
    <2>2. \A name : Conforming(name)' <=> Conforming(name)
      BY <2>1 DEF Conforming, framing, screen, settings
    <2>3. \A r, i : Terms(r, i)' = Terms(r, i)
      BY <2>1 DEF Terms, framing, screen, settings
    <2>4. FramedTypes' /\ AsAnnounced'
      BY <2>1 DEF FramingInv, FramedTypes, AsAnnounced, framing, screen, settings, brief
    <2>5. Applies'
      BY <2>1, <2>2, <2>3 DEF FramingInv, Applies, framing, vars, request, loop
    <2> QED BY <2>1, <2>4, <2>5 DEF FramingInv
  <1> QED BY <1>1, <1>2, <1>3

\* A framed search is a search: every step of the screen leaves it alone, and
\* every other step is one of its own.  What is proved of a search holds of it.
THEOREM FramedSearchIsASearch == FramingSpec => Spec
  <1>1. FramingInit => Init /\ FramingInv
    BY FramingStarts DEF FramingInit
  <1>2. Init => SearchInv
    BY Start
  <1>3. SearchInv /\ FramingInv /\ [FramingNext]_framingVars => FramingInv' /\ [Next]_vars
    BY FramingStep
  <1>4. SearchInv /\ [Next]_vars => SearchInv'
    BY SearchStep
  <1> QED BY <1>1, <1>2, <1>3, <1>4, PTL DEF FramingSpec, Spec

THEOREM FramingInductive == FramingSpec => []FramingInv
  <1>1. FramingInit => FramingInv
    BY FramingStarts
  <1>2. SearchInv /\ FramingInv /\ [FramingNext]_framingVars => FramingInv'
    BY FramingStep
  <1> QED BY <1>1, <1>2, FramedSearchIsASearch, SearchInductive, PTL DEF FramingSpec

\* The terms drawn from a reading and a wish.
LEMMA TermsFit ==
  ASSUME FramedTypes, NEW r \in Reading, NEW i \in Wishes
  PROVE  LET t == Terms(r, i)
         IN  /\ t.min \in Nat /\ t.max \in Nat
             /\ MIN_NAME_LENGTH_FLOOR <= t.min /\ t.min <= t.max
             /\ maxLength # NoBound => t.max = maxLength
             /\ maxLength = NoBound /\ i.max # NoBound => t.max <= Larger(i.max, MIN_NAME_LENGTH_FLOOR)
             /\ maxLength = NoBound /\ i.min # NoBound => t.min = Borne(i.min)
             /\ t.demands = (r.demands \ retirees) \union i.demands
  <1> DEFINE rest == RetirerContraintes(r, retirees)
             c == AppliquerRetours(rest, i)
             b == BornesDeLongueur(c, maxLength)
  <1>1. rest \in Reading /\ rest.demands = r.demands \ retirees
    BY DEF RetirerContraintes, Reading
  <1>2. i \in Reading /\ (i.min # NoBound /\ i.max # NoBound => i.min <= i.max)
    BY FramingAssumption DEF FramingAssumption
  <1>3. maxLength \in Bound /\ (maxLength # NoBound => maxLength >= MIN_NAME_LENGTH_FLOOR)
    BY FramingAssumption DEF FramedTypes, FramingAssumption, Bound
  <1>4. /\ c \in Reading
        /\ c.demands = rest.demands \union i.demands
        /\ i.min # NoBound => c.min = i.min
        /\ i.max # NoBound => c.max = i.max /\ (c.min # NoBound => c.min <= i.max)
    BY <1>1, <1>2, WishPrevails
  <1> HIDE DEF rest, c
  <1>5. /\ b.min \in Nat /\ b.max \in Nat
        /\ MIN_NAME_LENGTH_FLOOR <= b.min /\ b.min <= b.max
        /\ maxLength # NoBound => b.max = maxLength
        /\ maxLength = NoBound /\ c.min # NoBound => b.min = Borne(c.min)
        /\ maxLength = NoBound /\ c.max # NoBound =>
             b.max = Larger(Larger(c.max, MIN_NAME_LENGTH_FLOOR), Borne(Or(c.min, MIN_NAME_LENGTH_FLOOR)))
    <2>1. c.min \in Bound /\ c.max \in Bound
      BY <1>4 DEF Reading
    <2> QED BY <1>3, <2>1, BoundsFit, Zenon
  <1> HIDE DEF b
  <1>6. Terms(r, i) = [min |-> b.min, max |-> b.max, demands |-> c.demands]
    BY DEF Terms, rest, c, b
  <1>7. maxLength = NoBound /\ i.max # NoBound => b.max <= Larger(i.max, MIN_NAME_LENGTH_FLOOR)
    <2> SUFFICES ASSUME maxLength = NoBound, i.max # NoBound PROVE b.max <= Larger(i.max, MIN_NAME_LENGTH_FLOOR)
      OBVIOUS
    <2>1. /\ i.max \in Nat /\ c.min \in Nat \union {NoBound} /\ c.max = i.max
          /\ c.min # NoBound => c.min <= i.max
      BY <1>2, <1>4 DEF Reading, Bound
    <2>2. Or(c.min, MIN_NAME_LENGTH_FLOOR) \in Nat /\ Or(c.min, MIN_NAME_LENGTH_FLOOR) <= Larger(i.max, MIN_NAME_LENGTH_FLOOR)
      BY <2>1, RulesAssumption DEF Or, Larger, RulesAssumption
    <2>3. Borne(Or(c.min, MIN_NAME_LENGTH_FLOOR)) <= Larger(i.max, MIN_NAME_LENGTH_FLOOR)
      BY <2>1, <2>2, RulesAssumption DEF Borne, Larger, Smaller, RulesAssumption
    <2>4. b.max = Larger(Larger(i.max, MIN_NAME_LENGTH_FLOOR), Borne(Or(c.min, MIN_NAME_LENGTH_FLOOR)))
      BY <1>5, <2>1, RulesAssumption DEF RulesAssumption
    <2> QED BY <2>1, <2>3, <2>4, RulesAssumption DEF Larger, RulesAssumption
  <1> QED BY <1>1, <1>4, <1>5, <1>6, <1>7

\* From the screen to the names: what was announced is applied, the settings
\* prevail, and every name retained is as was asked (findDomains of the wizard,
\* findAvailableDomains).
THEOREM FramedAsAnnounced == FramingSpec => []SearchIsAsFramed
  <1>1. SearchInv /\ FramingInv => SearchIsAsFramed
    <2> SUFFICES ASSUME SearchInv, FramingInv PROVE SearchIsAsFramed
      OBVIOUS
    <2>1. CASE phase = "brief"
      <3>1. results = <<>>
        BY <2>1 DEF SearchInv, GoesOn
      <3> QED BY <2>1, <3>1 DEF SearchIsAsFramed, AnnouncedIsApplied, SettingsPrevail, RetainedConform, Reads
    <2>2. CASE phase # "brief"
      <3> DEFINE r == applied.read
                 i == applied.wish
                 t == applied.terms
      <3>1. /\ sending = "sent" /\ r \in Reading /\ i \in Wishes /\ t = Terms(r, i)
            /\ FramedTypes
            /\ \A name \in checked \ excluded : name \in Names /\ Conforming(name)
        BY <2>2 DEF FramingInv, Applies
      <3>2. /\ announced.bornes = BornesAffichees(announced.read, announced.max)
            /\ ~crossed => /\ maxLength = announced.max
                           /\ retirees = announced.retirees
                           /\ typeDeNom = announced.type
        BY <3>1 DEF FramingInv, AsAnnounced
      <3> HIDE DEF r, i
      <3>3. /\ t.min \in Nat /\ t.max \in Nat
            /\ MIN_NAME_LENGTH_FLOOR <= t.min /\ t.min <= t.max
            /\ maxLength # NoBound => t.max = maxLength
            /\ maxLength = NoBound /\ i.max # NoBound => t.max <= Larger(i.max, MIN_NAME_LENGTH_FLOOR)
            /\ maxLength = NoBound /\ i.min # NoBound => t.min = Borne(i.min)
            /\ t.demands = (r.demands \ retirees) \union i.demands
        BY <3>1, TermsFit
      <3>4. AnnouncedIsApplied
        <4> SUFFICES ASSUME ~crossed, applied.read = announced.read, applied.wish = Silent
                     PROVE  t = [min |-> announced.bornes.min, max |-> announced.bornes.max,
                                 demands |-> announced.read.demands \ announced.retirees]
          BY DEF AnnouncedIsApplied, t
        <4>1. t = Terms(announced.read, Silent)
          BY <3>1 DEF r, i
        <4> DEFINE c == AppliquerRetours(RetirerContraintes(announced.read, retirees), Silent)
        <4>2. /\ c.min = announced.read.min /\ c.max = announced.read.max
              /\ c.demands = announced.read.demands \ retirees
          BY <3>1 DEF AppliquerRetours, RetirerContraintes, Silent, Reading, r
        <4> HIDE DEF c
        <4>3. BornesDeLongueur(c, maxLength) = announced.bornes
          BY <4>2, <3>2 DEF BornesDeLongueur, BornesAffichees
        <4> QED BY <4>1, <4>2, <4>3, <3>2 DEF Terms, c
      <3>5. SettingsPrevail
        BY <3>2, <3>3 DEF SettingsPrevail, i, t
      <3>6. ASSUME NEW k \in DOMAIN results
            PROVE  LET name == results[k].name
                   IN  /\ Length[name] >= MIN_NAME_LENGTH_FLOOR
                       /\ Breaches[name] \intersect t.demands \subseteq Unseen
                       /\ ~crossed /\ announced.type = "inventes" /\ announced.max # NoBound =>
                            Length[name] <= announced.max
        <4> DEFINE name == results[k].name
        <4>1. name \in checked \ excluded
          BY <3>6 DEF SearchInv, InOrder, RetainedOnce, RetainedNames
        <4>2. PICK style \in Styles(typeDeNom) : RespecteLesContraintes(name, style, t)
          BY <3>1, <4>1 DEF Conforming
        <4>3. name \in Names
          BY <3>1, <4>1
        <4> HIDE DEF name, t
        <4>4. Length[name] \in Nat
          BY <4>3, FramingAssumption DEF FramingAssumption
        <4>5. Length[name] >= MIN_NAME_LENGTH_FLOOR
          BY <4>2, <4>4, <3>3, RulesAssumption DEF RespecteLesContraintes, Smaller, RulesAssumption
        <4>6. Breaches[name] \intersect t.demands \subseteq Unseen
          BY <4>2 DEF RespecteLesContraintes
        <4>7. ASSUME ~crossed, announced.type = "inventes", announced.max # NoBound
              PROVE  Length[name] <= announced.max
          <5>1. style = "standard" /\ t.max = announced.max
            BY <4>2, <4>7, <3>2, <3>3 DEF Styles
          <5> QED BY <5>1, <4>2, <4>4, <3>3 DEF RespecteLesContraintes, Larger
        <4> QED BY <4>5, <4>6, <4>7 DEF name
      <3> QED BY <3>4, <3>5, <3>6 DEF SearchIsAsFramed, RetainedConform, t
    <2> QED BY <2>1, <2>2
  <1> QED BY <1>1, FramingInductive, FramedSearchIsASearch, SearchInductive, PTL
=============================================================================
