------------------------------- MODULE Replay ------------------------------
(***************************************************************************)
(* The reception of session recordings (replay.service): a batch passes    *)
(* three checks against caches of the process (the visit is known, its     *)
(* total, the total of the day), is inserted unless it is there already,   *)
(* and only then counted.  Other batches run between the checks, the       *)
(* insertion and the count.  Every batch weighs one unit.                  *)
(***************************************************************************)
EXTENDS Funnel

CONSTANTS
  Tabs,
  MAX_SESSION, MAX_DAY       \* REPLAY_MAX_SESSION_MB, REPLAY_MAX_DAY_MB

VARIABLES
  net,           \* batches sent and not yet answered
  chunks,        \* session_replay_chunk
  connues,       \* visitesConnues
  totaux,        \* totauxParVisite: None where there is no entry
  jour, totalDuJour,
  today,         \* the date of the server and of the database
  crossed,       \* history: totals read while another batch was under way, insertions after midnight
  incidents      \* bound: restarts, purges, clearings of a cache, changes of day still to come

replayVars == <<net, chunks, connues, totaux, jour, totalDuJour, today, crossed, incidents>>

\* "to" is the page that waits for the answer, "page" the page that recorded (a history).
Lot == [v : Visits, segment : Nat, seq : Nat, to : Tabs \union {None}, page : Tabs \X Nat,
        st : {"sent", "sum", "summed", "insert", "count", "2xx", "4xx"}, deja : Nat, added : BOOLEAN]
Chunk == [v : Visits, segment : Nat, seq : Nat, page : Tabs \X Nat, day : Nat]

ASSUME ReplayAssumption ==
  MAX_SESSION \in Nat /\ MAX_DAY \in Nat /\ None \notin Nat /\ None \notin Tabs

ReplayTypeOK ==
  /\ net \subseteq Lot /\ chunks \subseteq Chunk
  /\ connues \subseteq Visits /\ totaux \in [Visits -> Nat \union {None}]
  /\ jour \in Nat /\ totalDuJour \in Nat /\ today \in Nat /\ crossed \in Nat /\ incidents \in Nat

ReplayInit ==
  /\ net = {} /\ chunks = {} /\ connues = {} /\ totaux = [v \in Visits |-> None]
  /\ jour = 1 /\ totalDuJour = 0 /\ today = 1 /\ crossed = 0

Of(v) == {c \in chunks : c.v = v}
Today == {c \in chunks : c.day = today}
Received(m) == net' = (net \ {m})
Becomes(m, n) == net' = (net \ {m}) \union {n}
Incident == incidents > 0 /\ incidents' = incidents - 1

\* Batches the process has read the totals for and not yet counted.
UnderWay(m) == \E o \in net \ {m} : o.st \in {"sum", "summed", "insert", "count"}

\* changerDeJourSiBesoin.
TotalOf(day) == IF jour = day THEN totalDuJour ELSE 0

\* Mutant: the caps are compared without the batch.
VerifierSansLot(m, r) ==
  IF r.deja > MAX_SESSION
  THEN Becomes(m, [r EXCEPT !.st = "4xx"]) /\ UNCHANGED <<jour, totalDuJour>>
  ELSE /\ jour' = today /\ totalDuJour' = TotalOf(today)
       /\ Becomes(m, [r EXCEPT !.st = IF TotalOf(today) > MAX_DAY THEN "4xx" ELSE "insert"])

\* Both caps, against what was read; the statement that inserts is issued.
Verifier(m, r) ==
  IF r.deja + 1 > MAX_SESSION
  THEN Becomes(m, [r EXCEPT !.st = "4xx"]) /\ UNCHANGED <<jour, totalDuJour>>
  ELSE /\ jour' = today /\ totalDuJour' = TotalOf(today)
       /\ Becomes(m, [r EXCEPT !.st = IF TotalOf(today) + 1 > MAX_DAY THEN "4xx" ELSE "insert"])

Reads(m) == crossed' = IF UnderWay(m) THEN crossed + 1 ELSE crossed

\* visiteConnue: the row is only looked up for a visit that is not in the cache.
Connue(v) == v \in connues \/ Known(v)

\* Then the total, out of its cache if it is there.
Recevoir(m) ==
  /\ m \in net /\ m.st = "sent"
  /\ IF Connue(m.v) THEN connues' = connues \union {m.v} ELSE UNCHANGED connues
  /\ CASE m.v \notin connues' -> Becomes(m, [m EXCEPT !.st = "4xx"]) /\ UNCHANGED <<jour, totalDuJour, crossed>>
       [] totaux[m.v] # None  -> Verifier(m, [m EXCEPT !.deja = totaux[m.v]]) /\ Reads(m)
       [] OTHER               -> Becomes(m, [m EXCEPT !.st = "sum"]) /\ Reads(m) /\ UNCHANGED <<jour, totalDuJour>>
  /\ UNCHANGED <<chunks, totaux, today, incidents>>

\* totalDeLaVisite: the SELECT SUM runs ...
Sommer(m) ==
  /\ m \in net /\ m.st = "sum"
  /\ Becomes(m, [m EXCEPT !.st = "summed", !.deja = Cardinality(Of(m.v))])
  /\ UNCHANGED <<chunks, connues, totaux, jour, totalDuJour, today, crossed, incidents>>

\* ... and its answer goes into the cache, over whatever is there by then.
Somme(m) ==
  /\ m \in net /\ m.st = "summed"
  /\ totaux' = [totaux EXCEPT ![m.v] = m.deja] /\ Verifier(m, m)
  /\ UNCHANGED <<chunks, connues, today, crossed, incidents>>

Stored(m) == \E c \in chunks : c.v = m.v /\ c.segment = m.segment /\ c.seq = m.seq

\* INSERT IGNORE: a batch with the same segment and number is there already.
Inserer(m) ==
  /\ m \in net /\ m.st = "insert"
  /\ Becomes(m, [m EXCEPT !.st = "count", !.added = ~Stored(m)])
  /\ chunks' = IF Stored(m) THEN chunks
               ELSE chunks \union {[v |-> m.v, segment |-> m.segment, seq |-> m.seq, page |-> m.page, day |-> today]}
  /\ crossed' = IF jour = today THEN crossed ELSE crossed + 1
  /\ UNCHANGED <<connues, totaux, jour, totalDuJour, today, incidents>>

\* The statement fails: the answer is a success all the same.
InsererEchoue(m) ==
  /\ m \in net /\ m.st = "insert" /\ Becomes(m, [m EXCEPT !.st = "2xx"])
  /\ UNCHANGED <<chunks, connues, totaux, jour, totalDuJour, today, crossed, incidents>>

\* The total of the visit becomes what was read before the insertion plus this batch.
Compter(m) ==
  /\ m \in net /\ m.st = "count" /\ Becomes(m, [m EXCEPT !.st = "2xx"])
  /\ totaux' = IF m.added THEN [totaux EXCEPT ![m.v] = m.deja + 1] ELSE totaux
  /\ totalDuJour' = IF m.added THEN totalDuJour + 1 ELSE totalDuJour
  /\ UNCHANGED <<chunks, connues, jour, today, crossed, incidents>>

\* purger: chunks of an earlier day, here all of them, are past their retention.
Purger ==
  /\ Incident /\ chunks' = Today /\ totaux' = [v \in Visits |-> None]
  /\ UNCHANGED <<net, connues, jour, totalDuJour, today, crossed>>

\* borner: a cache that reached MAX_CACHE is cleared.
ViderTotaux ==
  /\ Incident /\ totaux' = [v \in Visits |-> None]
  /\ UNCHANGED <<net, chunks, connues, jour, totalDuJour, today, crossed>>

Minuit == Incident /\ today' = today + 1 /\ UNCHANGED <<net, chunks, connues, totaux, jour, totalDuJour, crossed>>

\* onModuleInit of a new process: the total of the day is read back, the answers are lost.
Redemarrer ==
  /\ Incident /\ net' = {m \in net : m.st \in {"sent", "2xx", "4xx"}}
  /\ connues' = {} /\ totaux' = [v \in Visits |-> None]
  /\ jour' = today /\ totalDuJour' = Cardinality(Today)
  /\ UNCHANGED <<chunks, today, crossed>>

\* lire: what the administrator replays of a visit, a segment at a time; None: not found.
Lire(v) ==
  IF Of(v) = {} THEN None
  ELSE [g \in {c.segment : c \in Of(v)} |-> {c \in Of(v) : c.segment = g}]

----------------------------------------------------------------------------
\* A visit and a day hold more than their cap by no more than the batches whose totals were
\* read while another one was under way, or that were inserted after the midnight that
\* followed their check: nothing else is lost from the totals, whatever is purged, forgotten,
\* written twice, not written or restarted (recevoir, its three checks and its two counts).
CapsBoundedByOverlap ==
  /\ \A v \in Visits : Cardinality(Of(v)) <= MAX_SESSION + crossed
  /\ Cardinality(Today) <= MAX_DAY + crossed
=============================================================================
