--------------------------- MODULE VisitorProofs ---------------------------
(***************************************************************************)
(* A visitor's pages, their recordings and the journal of their visits,    *)
(* for every number of tabs, visits, accounts and batches in flight: what  *)
(* Visitor, Replay and Funnel state of them.                               *)
(***************************************************************************)
EXTENDS Visitor, FiniteSetTheorems, TLAPS

(* Types. *)
FunnelTyped ==
  /\ FunnelTypeOK
  /\ lien \in [Visits -> Accounts \union {None}]
  /\ before \in [Visits -> (SUBSET Accounts) \union {None}]
  /\ ratees \subseteq Visits \X Quoi

ReplayTyped == ReplayTypeOK /\ IsFiniteSet(net) /\ IsFiniteSet(chunks)

PagesTyped ==
  /\ cookie \in BOOLEAN /\ page \in [Tabs -> Page \union {None}]
  /\ visit \in [Tabs -> Visits \union {None}] /\ stored \in [Tabs -> Nat] /\ loads \in [Tabs -> Nat]
  /\ copied \subseteq Visits /\ failed \subseteq Tabs /\ events \in Nat /\ gestures \in Nat
  /\ \A t \in Tabs : Opened(t) <=> visit[t] # None

\* Whoever waits for an answer is a page.
Awaited == \A m \in net : m.to # None => Opened(m.to)

VisitorTyped == FunnelTyped /\ ReplayTyped /\ PagesTyped /\ Awaited

----------------------------------------------------------------------------
(* Finite sets. *)

\* What a function covers is no larger than what it is applied to.
LEMMA Covered ==
  ASSUME NEW S, IsFiniteSet(S), NEW f, NEW T, \A y \in T : \E x \in S : f[x] = y
  PROVE  IsFiniteSet(T) /\ Cardinality(T) <= Cardinality(S) /\ Cardinality(T) \in Nat
  <1> DEFINE R == {x \in S : f[x] \in T}
             g == [x \in R |-> f[x]]
  <1>1. IsFiniteSet(R) /\ Cardinality(R) <= Cardinality(S)
    BY FS_Subset
  <1>2. g \in Surjection(R, T)
    BY DEF Surjection
  <1>3. IsFiniteSet(T) /\ Cardinality(T) <= Cardinality(R)
    BY <1>1, <1>2, FS_Surjection
  <1> QED BY <1>1, <1>3, FS_CardinalityType

\* A set that loses m and gains n.
LEMMA Exchanged ==
  ASSUME NEW S, IsFiniteSet(S), NEW m, NEW n, NEW T, T \subseteq (S \ {m}) \union {n}
  PROVE  /\ IsFiniteSet(T) /\ Cardinality(T) \in Nat /\ Cardinality(S) \in Nat
         /\ Cardinality(T) <= Cardinality(S) + 1
         /\ m \in S \/ n \notin T => Cardinality(T) <= Cardinality(S)
         /\ m \in S /\ n \notin T => Cardinality(T) <= Cardinality(S) - 1
  <1>0. Cardinality(S) \in Nat
    BY FS_CardinalityType
  <1> DEFINE R == S \ {m}
  <1>1. IsFiniteSet(R) /\ Cardinality(R) \in Nat
        /\ Cardinality(R) = IF m \in S THEN Cardinality(S) - 1 ELSE Cardinality(S)
    BY FS_RemoveElement, FS_CardinalityType
  <1>2. IsFiniteSet(R \union {n}) /\ Cardinality(R \union {n}) <= Cardinality(R) + 1
        /\ Cardinality(R \union {n}) \in Nat
    <2>1. IsFiniteSet(R \union {n})
          /\ Cardinality(R \union {n}) = IF n \in R THEN Cardinality(R) ELSE Cardinality(R) + 1
      BY <1>1, FS_AddElement
    <2> QED BY <1>1, <2>1, FS_CardinalityType
  <1>3. IsFiniteSet(T) /\ Cardinality(T) <= Cardinality(R \union {n}) /\ Cardinality(T) \in Nat
    BY <1>2, FS_Subset, FS_CardinalityType
  <1>4. n \notin T => Cardinality(T) <= Cardinality(R)
    <2>1. n \notin T => T \subseteq R
      OBVIOUS
    <2> QED BY <1>1, <2>1, FS_Subset
  <1> HIDE DEF R
  <1> QED BY <1>0, <1>1, <1>2, <1>3, <1>4

----------------------------------------------------------------------------
(* What the recorder does to a page. *)

\* Stopping, evaluating and sending keep a page a page, and its segment.
LEMMA PagesMove ==
  ASSUME NEW p \in Page
  PROVE  /\ Envoyer(p) \in Page /\ Envoyer(p).segment = p.segment
         /\ \A reste \in BOOLEAN : Stopper(p, reste) \in Page
         /\ Evaluer(p) \in Page
  <1>0. p.seq \in Nat /\ p.seq + 1 \in Nat
    BY DEF Page
  <1>1. Envoyer(p) \in Page /\ Envoyer(p).segment = p.segment
    <2>1. \A n \in Nat : [p EXCEPT !.tampon = 0, !.seq = n] \in Page
      BY DEF Page
    <2>3. [p EXCEPT !.tampon = 0, !.seq = p.seq + 1].segment = p.segment
      BY DEF Page
    <2>2. Envoyer(p) = p \/ Envoyer(p) = [p EXCEPT !.tampon = 0, !.seq = p.seq + 1]
      BY DEF Envoyer
    <2> QED BY <1>0, <2>1, <2>2, <2>3
  <1>2. ASSUME NEW reste \in BOOLEAN PROVE Stopper(p, reste) \in Page
    <2>1. \A n \in Nat : [p EXCEPT !.arreter = FALSE, !.tampon = 0, !.seq = n] \in Page
      BY DEF Page
    <2>2. \E n \in Nat : Stopper(p, reste) = [p EXCEPT !.arreter = FALSE, !.tampon = 0, !.seq = n]
      BY <1>0 DEF Stopper
    <2> QED BY <2>1, <2>2
  <1>3. [p EXCEPT !.demarrage = TRUE] \in Page /\ (p.granted /\ ~p.refuse) \in BOOLEAN
    BY DEF Page
  <1>4. Evaluer(p) \in Page
    BY <1>2, <1>3 DEF Evaluer
  <1> QED BY <1>1, <1>2, <1>4

\* A batch is a batch of the page's tab, and there is at most one.
LEMMA BatchTyped ==
  ASSUME VisitorTyped, NEW t \in Tabs, Opened(t), NEW p \in Page
  PROVE  Batch(t, p) \subseteq Lot /\ IsFiniteSet(Batch(t, p)) /\ \A m \in Batch(t, p) : m.to = t
  <1>1. visit[t] \in Visits /\ loads[t] \in Nat /\ p.segment \in Nat /\ p.seq \in Nat
    BY DEF VisitorTyped, PagesTyped, Opened, Page
  <1> DEFINE b == [v |-> visit[t], segment |-> p.segment, seq |-> p.seq, to |-> t,
                   page |-> <<t, loads[t]>>, st |-> "sent", deja |-> 0, added |-> FALSE]
  <1>2. b \in Lot /\ b.to = t
    BY <1>1 DEF Lot
  <1>3. Batch(t, p) = {b} \/ Batch(t, p) = {}
    BY DEF Batch
  <1> HIDE DEF b
  <1> QED BY <1>2, <1>3, FS_Singleton, FS_EmptySet

----------------------------------------------------------------------------
(* Types. *)

LEMMA TypedInit == Init => VisitorTyped
  <1> SUFFICES ASSUME Init PROVE VisitorTyped
    OBVIOUS
  <1>1. calls \in Nat /\ incidents \in Nat /\ events \in Nat /\ gestures \in Nat
    BY VisitorAssumption DEF VisitorAssumption, Init
  <1>2. FunnelTyped
    BY <1>1 DEF Init, FunnelInit, FunnelTypeOK, FunnelTyped
  <1>3. ReplayTyped /\ net = {}
    BY <1>1, FS_EmptySet DEF Init, ReplayInit, ReplayTypeOK, ReplayTyped
  <1>4. PagesTyped
    BY <1>1 DEF Init, Opened, PagesTyped
  <1> QED BY <1>2, <1>3, <1>4 DEF VisitorTyped, Awaited

\* What a statement writes is a row.
LEMMA RowsTyped ==
  ASSUME NEW w \in Statement, comptes \subseteq Accounts
  PROVE  New(w) \in Row /\ \A r \in Row : Updated(r, w) \in Row
  <1>1. w.compte \in Accounts \union {None} /\ w.flag \in BOOLEAN /\ w.quoi \in Quoi
    BY DEF Statement
  <1>2. New(w) \in Row
    BY <1>1 DEF New, Row
  <1>3. ASSUME NEW r \in Row PROVE Updated(r, w) \in Row
    <2>1. Linked(r, w) \in Accounts \union {None}
      BY <1>1 DEF Linked, Row
    <2>2. \A b \in BOOLEAN, c \in Accounts \union {None} :
            [r EXCEPT !.compte = c, !.cree = b] \in Row
      BY DEF Row
    <2>3. (r.cree \/ w.compte \notin r.avant) \in BOOLEAN
      OBVIOUS
    <2>4. \A x \in Steps, c \in Accounts \union {None} :
            [r EXCEPT !.compte = c, !.steps = r.steps \union {x}] \in Row
      BY DEF Row
    <2>5. CASE w.quoi = "visite"
      BY <2>5 DEF Updated
    <2>6. CASE w.quoi = "lien"
      <3>1. Updated(r, w) = [r EXCEPT !.compte = Linked(r, w), !.cree = (r.cree \/ w.compte \notin r.avant)]
        BY <2>6 DEF Updated
      <3> QED BY <2>1, <2>2, <2>3, <3>1
    <2>7. CASE w.quoi \in Steps /\ w.quoi \notin {"visite", "lien"}
      <3>1. Updated(r, w) = [r EXCEPT !.compte = Linked(r, w), !.steps = r.steps \union {w.quoi}]
        BY <2>7 DEF Updated
      <3> QED BY <2>1, <2>4, <2>7, <3>1
    <2> QED BY <1>1, <2>5, <2>6, <2>7 DEF Quoi
  <1> QED BY <1>2, <1>3

LEMMA CallTyped ==
  ASSUME FunnelTyped, NEW v \in Visits, Call(v)
  PROVE  calls' \in Nat
  BY DEF FunnelTyped, FunnelTypeOK, Call

LEMMA NoterTyped ==
  ASSUME FunnelTyped, NEW w \in Statement, Noter(w)
  PROVE  ecrites' \subseteq Visits \X Quoi /\ ecritures' \subseteq Statement
  BY DEF FunnelTyped, FunnelTypeOK, Noter, Statement

\* The journal keeps its types.
LEMMA FunnelTypedStep ==
  ASSUME FunnelTyped, FunnelNext
  PROVE  FunnelTyped'
  <1> USE DEF FunnelTyped, FunnelTypeOK
  <1>1. ASSUME NEW v \in Visits, Balise(v) PROVE FunnelTyped'
    <2>1. [v |-> v, quoi |-> "visite", compte |-> None, flag |-> FALSE] \in Statement
      BY DEF Statement, Quoi
    <2> QED BY <1>1, <2>1, CallTyped, NoterTyped DEF Balise, Rest
  <1>2. ASSUME NEW v \in Visits, NEW s \in Steps, NEW a \in Accounts \union {None}, Marquer(v, s, a)
        PROVE  FunnelTyped'
    <2>1. [v |-> v, quoi |-> s, compte |-> a, flag |-> TRUE] \in Statement
      BY DEF Statement, Quoi
    <2> QED BY <1>2, <2>1, CallTyped, NoterTyped DEF Marquer, Rest
  <1>3. ASSUME NEW v \in Visits, NEW a \in Accounts, AutreAppel(v, a) PROVE FunnelTyped'
    BY <1>3, CallTyped DEF AutreAppel, Rest
  <1>4. ASSUME NEW v \in Visits, NEW a \in Accounts, Rattacher(v, a) PROVE FunnelTyped'
    <2>1. [v |-> v, quoi |-> "lien", compte |-> a, flag |-> a \notin comptes] \in Statement
      BY DEF Statement, Quoi
    <2>2. lien' \in [Visits -> Accounts \union {None}]
      BY <1>4 DEF Rattacher
    <2> QED BY <1>4, <2>1, <2>2, CallTyped, NoterTyped DEF Rattacher, Rest
  <1>5. ASSUME NEW w \in ecritures, Ecrire(w) PROVE FunnelTyped'
    <2>1. w \in Statement /\ w.v \in Visits /\ comptes \subseteq Accounts
      BY DEF Statement
    <2>2. row' \in [Visits -> Row \union {None}]
      BY <1>5, <2>1, RowsTyped DEF Ecrire, Written, Known
    <2> QED BY <1>5, <2>2 DEF Ecrire
  <1>6. ASSUME NEW w \in ecritures, EcrireEchoue(w) PROVE FunnelTyped'
    <2>1. <<w.v, w.quoi>> \in Visits \X Quoi
      BY DEF Statement
    <2> QED BY <1>6, <2>1 DEF EcrireEchoue
  <1> QED BY <1>1, <1>2, <1>3, <1>4, <1>5, <1>6 DEF FunnelNext

\* A new visit, a new process, or nothing.
LEMMA FunnelTypedElse ==
  ASSUME FunnelTyped
  PROVE  /\ UNCHANGED funnelVars => FunnelTyped'
         /\ Forget /\ Lose /\ UNCHANGED <<comptes, row, calls, lien, before>> => FunnelTyped'
         /\ \A v \in Visits :
              Begin(v) /\ UNCHANGED <<comptes, row, ecrites, ecritures, calls, lien, ratees>> => FunnelTyped'
  <1> USE DEF FunnelTyped, FunnelTypeOK
  <1>1. UNCHANGED funnelVars => FunnelTyped'
    BY DEF funnelVars
  <1>2. Forget /\ Lose /\ UNCHANGED <<comptes, row, calls, lien, before>> => FunnelTyped'
    BY DEF Forget, Lose, Statement
  <1>3. ASSUME NEW v \in Visits, Begin(v),
               UNCHANGED <<comptes, row, ecrites, ecritures, calls, lien, ratees>>
        PROVE  FunnelTyped'
    BY <1>3 DEF Begin
  <1> QED BY <1>1, <1>2, <1>3

----------------------------------------------------------------------------
\* What a batch becomes is a batch; batches stay finitely many.
LEMMA BecomesTyped ==
  ASSUME ReplayTyped, NEW m \in net, NEW n \in Lot, Becomes(m, n)
  PROVE  net' \subseteq Lot /\ IsFiniteSet(net')
  <1>1. net' \subseteq (net \ {m}) \union {n}
    BY DEF Becomes
  <1>2. IsFiniteSet(net')
    BY <1>1, Exchanged DEF ReplayTyped
  <1> QED BY <1>2 DEF ReplayTyped, ReplayTypeOK, Becomes

\* The fields of a batch the reception writes.
LEMMA LotTyped ==
  ASSUME NEW m \in Lot
  PROVE  /\ \A s \in {"sent", "sum", "summed", "insert", "count", "2xx", "4xx"}, d \in Nat, b \in BOOLEAN :
              /\ [m EXCEPT !.st = s] \in Lot /\ [m EXCEPT !.deja = d] \in Lot
              /\ [m EXCEPT !.st = s, !.deja = d] \in Lot
              /\ [m EXCEPT !.st = s, !.added = b] \in Lot
         /\ [m EXCEPT !.to = None] \in Lot
  BY DEF Lot

LEMMA VerifierTyped ==
  ASSUME ReplayTyped, NEW m \in net, NEW r \in Lot, Verifier(m, r)
  PROVE  net' \subseteq Lot /\ IsFiniteSet(net') /\ jour' \in Nat /\ totalDuJour' \in Nat
  <1>1. \E s \in {"4xx", "insert"} : Becomes(m, [r EXCEPT !.st = s])
    BY DEF Verifier
  <1>2. PICK s \in {"4xx", "insert"} : Becomes(m, [r EXCEPT !.st = s])
    BY <1>1
  <1>3. [r EXCEPT !.st = s] \in Lot
    BY LotTyped
  <1>4. net' \subseteq Lot /\ IsFiniteSet(net')
    BY <1>2, <1>3, BecomesTyped
  <1>5. jour' \in Nat /\ totalDuJour' \in Nat
    BY DEF Verifier, TotalOf, ReplayTyped, ReplayTypeOK
  <1> QED BY <1>4, <1>5

\* Chunks are finite, and so are those of a visit or of a day.
LEMMA ChunksFinite ==
  ASSUME ReplayTyped
  PROVE  /\ \A v : IsFiniteSet(Of(v)) /\ Cardinality(Of(v)) \in Nat
         /\ IsFiniteSet(Today) /\ Cardinality(Today) \in Nat
  <1>1. \A v : Of(v) \subseteq chunks
    BY DEF Of
  <1>2. Today \subseteq chunks
    BY DEF Today
  <1> QED BY <1>1, <1>2, FS_Subset, FS_CardinalityType DEF ReplayTyped

\* The reception keeps its types.
LEMMA ReplayTypedStep ==
  ASSUME ReplayTyped, NEW m \in net,
         Recevoir(m) \/ Sommer(m) \/ Somme(m) \/ Inserer(m) \/ InsererEchoue(m) \/ Compter(m)
  PROVE  ReplayTyped'
  <1> USE DEF ReplayTyped, ReplayTypeOK
  <1>0. m \in Lot /\ m.v \in Visits /\ m.deja \in Nat
    BY DEF Lot
  <1>1. CASE Recevoir(m)
    <2>1. connues' \subseteq Visits /\ UNCHANGED <<chunks, totaux, today, incidents>>
      BY <1>0, <1>1 DEF Recevoir
    <2>2. crossed' \in Nat
      BY <1>1 DEF Recevoir, Reads
    <2>3. CASE Becomes(m, [m EXCEPT !.st = "4xx"]) /\ UNCHANGED <<jour, totalDuJour, crossed>>
      BY <1>0, <2>1, <2>3, LotTyped, BecomesTyped
    <2>4. CASE totaux[m.v] # None /\ Verifier(m, [m EXCEPT !.deja = totaux[m.v]])
      <3>1. [m EXCEPT !.deja = totaux[m.v]] \in Lot
        BY <1>0, <2>4, LotTyped
      <3> QED BY <2>1, <2>2, <2>4, <3>1, VerifierTyped
    <2>5. CASE Becomes(m, [m EXCEPT !.st = "sum"]) /\ UNCHANGED <<jour, totalDuJour>>
      BY <1>0, <2>1, <2>2, <2>5, LotTyped, BecomesTyped
    <2> QED BY <1>1, <2>3, <2>4, <2>5 DEF Recevoir
  <1>2. CASE Sommer(m)
    <2>1. [m EXCEPT !.st = "summed", !.deja = Cardinality(Of(m.v))] \in Lot
      BY <1>0, ChunksFinite, LotTyped
    <2> QED BY <1>2, <2>1, BecomesTyped DEF Sommer
  <1>3. CASE Somme(m)
    <2>1. totaux' \in [Visits -> Nat \union {None}]
      BY <1>0, <1>3 DEF Somme
    <2> QED BY <1>0, <1>3, <2>1, VerifierTyped DEF Somme
  <1>4. CASE Inserer(m)
    <2> DEFINE c == [v |-> m.v, segment |-> m.segment, seq |-> m.seq, page |-> m.page, day |-> today]
    <2>1. [m EXCEPT !.st = "count", !.added = ~Stored(m)] \in Lot
      BY <1>0, LotTyped DEF Stored
    <2>2. c \in Chunk
      BY <1>0 DEF Lot, Chunk
    <2>3. chunks' \subseteq chunks \union {c} /\ crossed' \in Nat
      BY <1>4 DEF Inserer
    <2>4. chunks \union {c} \subseteq Chunk /\ IsFiniteSet(chunks \union {c})
      BY <2>2, FS_AddElement
    <2> HIDE DEF c
    <2>5. chunks' \subseteq Chunk /\ IsFiniteSet(chunks')
      BY <2>3, <2>4, FS_Subset
    <2> QED BY <1>4, <2>1, <2>3, <2>5, BecomesTyped DEF Inserer
  <1>5. CASE InsererEchoue(m)
    BY <1>0, <1>5, LotTyped, BecomesTyped DEF InsererEchoue
  <1>6. CASE Compter(m)
    <2>1. totaux' \in [Visits -> Nat \union {None}] /\ totalDuJour' \in Nat
      BY <1>0, <1>6 DEF Compter
    <2> QED BY <1>0, <1>6, <2>1, LotTyped, BecomesTyped DEF Compter
  <1> QED BY <1>1, <1>2, <1>3, <1>4, <1>5, <1>6

LEMMA ReplayTypedIncident ==
  ASSUME ReplayTyped, Purger \/ ViderTotaux \/ Minuit \/ Redemarrer
  PROVE  ReplayTyped' /\ net' \subseteq net
  <1> USE DEF ReplayTyped, ReplayTypeOK, Incident
  <1>1. CASE Purger
    <2>1. Today \subseteq chunks
      BY DEF Today
    <2> QED BY <1>1, <2>1, ChunksFinite DEF Purger
  <1>2. CASE ViderTotaux
    BY <1>2 DEF ViderTotaux
  <1>3. CASE Minuit
    BY <1>3 DEF Minuit
  <1>4. CASE Redemarrer
    <2>1. net' \subseteq net /\ IsFiniteSet(net')
      BY <1>4, FS_Subset DEF Redemarrer
    <2> QED BY <1>4, <2>1, ChunksFinite DEF Redemarrer
  <1> QED BY <1>1, <1>2, <1>3, <1>4
----------------------------------------------------------------------------
\* A page of the tab is replaced by another.
LEMMA PutTyped ==
  ASSUME VisitorTyped, NEW t \in Tabs, NEW p \in Page, Put(t, p)
  PROVE  /\ page' \in [Tabs -> Page \union {None}]
         /\ page'[t] = p /\ \A u \in Tabs \ {t} : page'[u] = page[u]
         /\ \A u \in Tabs : Opened(u)' <=> Opened(u) \/ u = t
  BY VisitorAssumption DEF VisitorAssumption, VisitorTyped, PagesTyped, Put, Opened

\* A batch of the tab leaves.
LEMMA LeavesTyped ==
  ASSUME VisitorTyped, NEW t \in Tabs, Opened(t), NEW S, S = {} \/ \E p \in Page : S = Batch(t, p),
         net' = net \union S
  PROVE  net' \subseteq Lot /\ IsFiniteSet(net') /\ \A m \in net' : m.to # None => Opened(m.to)
  <1>1. S \subseteq Lot /\ IsFiniteSet(S) /\ \A m \in S : m.to = t
    BY BatchTyped, FS_EmptySet
  <1> QED BY <1>1, FS_Union DEF VisitorTyped, ReplayTyped, ReplayTypeOK, Awaited

\* A step of a page keeps the types, if what it writes has them.
LEMMA PageTypedStep ==
  ASSUME VisitorTyped, NEW t \in Tabs, Opened(t), NEW p \in Page, Put(t, p),
         NEW S, S = {} \/ (\E q \in Page : S = Batch(t, q)), net' = net \union S,
         cookie' \in BOOLEAN, visit' = visit, stored' \in [Tabs -> Nat], loads' \in [Tabs -> Nat],
         copied' \subseteq Visits, failed' \subseteq Tabs, events' \in Nat, gestures' \in Nat, Server
  PROVE  VisitorTyped'
  <1>1. FunnelTyped'
    BY FunnelTypedElse DEF Server, VisitorTyped
  <1>2. net' \subseteq Lot /\ IsFiniteSet(net') /\ \A m \in net' : m.to # None => Opened(m.to)
    BY LeavesTyped
  <1>3. ReplayTyped'
    BY <1>2 DEF Server, VisitorTyped, ReplayTyped, ReplayTypeOK
  <1>4. /\ page' \in [Tabs -> Page \union {None}]
        /\ \A u \in Tabs : Opened(u)' <=> Opened(u)
    BY PutTyped
  <1>5. PagesTyped'
    BY <1>4 DEF VisitorTyped, PagesTyped
  <1>6. \A m \in net' : m.to # None => m.to \in Tabs
    BY <1>2 DEF Lot
  <1>7. Awaited'
    BY <1>2, <1>4, <1>6 DEF Awaited
  <1> QED BY <1>1, <1>3, <1>5, <1>7 DEF VisitorTyped

\* The visitor's gestures keep the types.
LEMMA VisitingTyped ==
  ASSUME VisitorTyped, Visiting
  PROVE  VisitorTyped'
  <1> USE DEF VisitorTyped, PagesTyped
  <1>0. Fresh \in Page
    BY DEF Fresh, Page
  <1>1. ASSUME NEW t \in Tabs, OpenTab(t) PROVE VisitorTyped'
    <2>1. PICK v \in Visits : ~Begun(v) /\ visit' = [visit EXCEPT ![t] = v] /\ Begin(v)
      BY <1>1 DEF OpenTab
    <2>2. FunnelTyped'
      BY <1>1, <2>1, FunnelTypedElse DEF OpenTab
    <2>3. ReplayTyped' /\ net' = net
      BY <1>1 DEF OpenTab, replayVars, ReplayTyped, ReplayTypeOK
    <2>4. /\ page' \in [Tabs -> Page \union {None}]
          /\ \A u \in Tabs : Opened(u)' <=> Opened(u) \/ u = t
      BY <1>0, <1>1, PutTyped DEF OpenTab
    <2>5. v # None
      BY VisitorAssumption DEF VisitorAssumption
    <2>6. PagesTyped'
      <3>1. \A u \in Tabs : Opened(u)' <=> visit'[u] # None
        BY <2>1, <2>4, <2>5
      <3>2. visit' \in [Tabs -> Visits \union {None}] /\ loads' \in [Tabs -> Nat] /\ gestures' \in Nat
        BY <1>1, <2>1 DEF OpenTab, Gesture
      <3> QED BY <1>1, <2>4, <3>1, <3>2 DEF OpenTab
    <2>7. \A m \in net : m.to # None => m.to \in Tabs
      BY DEF ReplayTyped, ReplayTypeOK, Lot
    <2>8. Awaited'
      BY <2>3, <2>4, <2>7 DEF Awaited
    <2> QED BY <2>2, <2>3, <2>6, <2>8
  <1>2. ASSUME NEW t \in Tabs, Reload(t) PROVE VisitorTyped'
    <2>1. Opened(t) /\ page[t] \in Page /\ net \subseteq Lot /\ IsFiniteSet(net)
      BY <1>2 DEF Reload, Opened, ReplayTyped, ReplayTypeOK
    <2> DEFINE B == Batch(t, page[t])
               f == [m \in net |-> IF m.to = t THEN [m EXCEPT !.to = None] ELSE m]
               g == [m \in B |-> [m EXCEPT !.to = None]]
               N == {IF m.to = t THEN [m EXCEPT !.to = None] ELSE m : m \in net}
               L == {[m EXCEPT !.to = None] : m \in B}
    <2>2. B \subseteq Lot /\ IsFiniteSet(B)
      BY <2>1, BatchTyped
    <2>3. N \subseteq Lot /\ L \subseteq Lot
      BY <2>1, <2>2, LotTyped
    <2>4. IsFiniteSet(N)
      <3>1. \A y \in N : \E x \in net : f[x] = y
        OBVIOUS
      <3> HIDE DEF f, N
      <3> QED BY <2>1, <3>1, Covered
    <2>5. IsFiniteSet(L)
      <3>1. \A y \in L : \E x \in B : g[x] = y
        OBVIOUS
      <3> HIDE DEF g, L
      <3> QED BY <2>2, <3>1, Covered
    <2>6. net' = N \union L
      BY <1>2 DEF Reload
    <2>7. \A m \in net' : m.to # None => m \in net
      <3>1. \A m \in L : m.to = None
        BY <2>2 DEF Lot
      <3>2. \A m \in N : m \in net \/ m.to = None
        BY <2>1 DEF Lot
      <3> QED BY <2>6, <3>1, <3>2
    <2> HIDE DEF N, L
    <2>8. ReplayTyped'
      <3>1. IsFiniteSet(net') /\ net' \subseteq Lot
        BY <2>3, <2>4, <2>5, <2>6, FS_Union
      <3> QED BY <1>2, <3>1 DEF Reload, Server, ReplayTyped, ReplayTypeOK
    <2>9. FunnelTyped'
      BY <1>2, FunnelTypedElse DEF Reload, Server
    <2>10. /\ page' \in [Tabs -> Page \union {None}]
           /\ \A u \in Tabs : Opened(u)' <=> Opened(u)
      BY <1>0, <1>2, <2>1, PutTyped DEF Reload
    <2>11. PagesTyped'
      <3>1. loads' \in [Tabs -> Nat] /\ gestures' \in Nat
        BY <1>2 DEF Reload, Gesture
      <3> QED BY <1>2, <2>10, <3>1 DEF Reload
    <2>12. \A m \in net : m.to # None => m.to \in Tabs
      BY <2>1 DEF Lot
    <2>13. Awaited'
      BY <2>7, <2>10, <2>12 DEF Awaited
    <2> QED BY <2>8, <2>9, <2>11, <2>13
  <1>3. ASSUME NEW t \in Tabs, Choisir(t) PROVE VisitorTyped'
    <2>1. Opened(t) /\ page[t] \in Page
      BY <1>3 DEF Choisir, Opened
    <2>2. [page[t] EXCEPT !.granted = ~@, !.effect = TRUE] \in Page /\ (~page[t].granted) \in BOOLEAN
      BY <2>1 DEF Page
    <2>3. gestures' \in Nat /\ cookie' \in BOOLEAN
      BY <1>3, <2>2 DEF Choisir, Gesture
    <2>4. /\ Server /\ visit' = visit /\ stored' \in [Tabs -> Nat] /\ net' = net \union {}
          /\ loads' \in [Tabs -> Nat] /\ copied' \subseteq Visits /\ failed' \subseteq Tabs /\ events' \in Nat
          /\ Put(t, [page[t] EXCEPT !.granted = ~@, !.effect = TRUE])
      BY <1>3 DEF Choisir
    <2> QED BY <2>1, <2>2, <2>3, <2>4, PageTypedStep
  <1>4. ASSUME NEW t \in Tabs, Naviguer(t) PROVE VisitorTyped'
    <2> DEFINE p == [page[t] EXCEPT !.sousAdmin = ~@]
    <2>1. Opened(t) /\ page[t] \in Page
      BY <1>4 DEF Naviguer, Opened
    <2>2. p \in Page
      BY <2>1 DEF Page
    <2>3. Put(t, Evaluer(p)) /\ net' = net \union Remainder(t, p)
      BY <1>4 DEF Naviguer, Leaves
    <2> HIDE DEF p
    <2>4. Evaluer(p) \in Page /\ (Remainder(t, p) = {} \/ \E q \in Page : Remainder(t, p) = Batch(t, q))
      BY <2>2, PagesMove DEF Remainder
    <2>5. gestures' \in Nat
      BY <1>4 DEF Naviguer, Gesture
    <2>6. /\ Server /\ cookie' \in BOOLEAN /\ visit' = visit /\ stored' \in [Tabs -> Nat]
          /\ loads' \in [Tabs -> Nat] /\ copied' \subseteq Visits /\ failed' \subseteq Tabs /\ events' \in Nat
      BY <1>4 DEF Naviguer
    <2> QED BY <2>1, <2>3, <2>4, <2>5, <2>6, PageTypedStep
  <1>5. ASSUME NEW t \in Tabs, NEW u \in Tabs, Duplicate(t, u) PROVE VisitorTyped'
    <2>1. visit[t] \in Visits /\ visit[t] # None
      BY <1>5 DEF Duplicate, Opened
    <2>2. ReplayTyped' /\ net' = net
      BY <1>5 DEF Duplicate, Server, ReplayTyped, ReplayTypeOK
    <2>3. FunnelTyped'
      BY <1>5, FunnelTypedElse DEF Duplicate, Server
    <2>4. /\ page' \in [Tabs -> Page \union {None}]
          /\ \A x \in Tabs : Opened(x)' <=> Opened(x) \/ x = u
      BY <1>0, <1>5, PutTyped DEF Duplicate
    <2>5. PagesTyped'
      <3>1. \A x \in Tabs : Opened(x)' <=> visit'[x] # None
        BY <1>5, <2>1, <2>4 DEF Duplicate
      <3>2. /\ visit' \in [Tabs -> Visits \union {None}] /\ loads' \in [Tabs -> Nat]
            /\ stored' \in [Tabs -> Nat] /\ gestures' \in Nat
        BY <1>5 DEF Duplicate, Gesture
      <3> QED BY <1>5, <2>1, <2>4, <3>1, <3>2 DEF Duplicate
    <2>6. \A m \in net : m.to # None => m.to \in Tabs
      BY DEF ReplayTyped, ReplayTypeOK, Lot
    <2>7. Awaited'
      BY <2>2, <2>4, <2>6 DEF Awaited
    <2> QED BY <2>2, <2>3, <2>5, <2>7
  <1> QED BY <1>1, <1>2, <1>3, <1>4, <1>5 DEF Visiting

\* What the recorder does keeps the types.
LEMMA RecordingTyped ==
  ASSUME VisitorTyped, Recording
  PROVE  VisitorTyped'
  <1> USE DEF VisitorTyped, PagesTyped
  <1> DEFINE Quiet(t) ==
        /\ Server /\ cookie' \in BOOLEAN /\ visit' = visit /\ stored' \in [Tabs -> Nat]
        /\ loads' \in [Tabs -> Nat] /\ copied' \subseteq Visits /\ failed' \subseteq Tabs
        /\ events' \in Nat /\ gestures' \in Nat
  <1>1. ASSUME NEW t \in Tabs, Effet(t) PROVE VisitorTyped'
    <2> DEFINE p == [page[t] EXCEPT !.effect = FALSE]
    <2>1. Opened(t) /\ page[t] \in Page
      BY <1>1 DEF Effet, Opened
    <2>2. p \in Page
      BY <2>1 DEF Page
    <2>3. Put(t, Evaluer(p)) /\ net' = net \union Remainder(t, p) /\ Quiet(t)
      BY <1>1 DEF Effet, Leaves
    <2> HIDE DEF p
    <2>4. Evaluer(p) \in Page /\ (Remainder(t, p) = {} \/ \E q \in Page : Remainder(t, p) = Batch(t, q))
      BY <2>2, PagesMove DEF Remainder
    <2> QED BY <2>1, <2>3, <2>4, PageTypedStep
  <1>2. ASSUME NEW t \in Tabs, Demarrer(t) PROVE VisitorTyped'
    <2> DEFINE p == [page[t] EXCEPT !.demarrage = FALSE]
               r == [p EXCEPT !.arreter = TRUE, !.segment = Prochain(t), !.seq = 0, !.tampon = 1]
    <2>1. Opened(t) /\ page[t] \in Page /\ Prochain(t) \in Nat
      BY <1>2 DEF Demarrer, Opened, Prochain
    <2>2. p \in Page
      BY <2>1 DEF Page
    <2>3. r \in Page
      BY <2>1, <2>2 DEF Page
    <2>4. /\ Quiet(t)
          /\ \/ Put(t, Envoyer(r)) /\ net' = net \union Batch(t, r)
             \/ Put(t, p) /\ net' = net \union {}
      BY <1>2, <2>1 DEF Demarrer, Leaves
    <2> HIDE DEF p, r
    <2>5. Envoyer(r) \in Page
      BY <2>3, PagesMove
    <2> QED BY <2>1, <2>2, <2>3, <2>4, <2>5, PageTypedStep
  <1>3. ASSUME NEW t \in Tabs, DemarrerEchoue(t) PROVE VisitorTyped'
    <2> DEFINE p == [page[t] EXCEPT !.demarrage = FALSE]
    <2>1. Opened(t) /\ page[t] \in Page
      BY <1>3 DEF DemarrerEchoue, Opened
    <2>2. p \in Page
      BY <2>1 DEF Page
    <2>3. gestures' \in Nat
      BY <1>3 DEF DemarrerEchoue, Gesture
    <2>4. Put(t, p) /\ net' = net \union {} /\ Quiet(t)
      BY <1>3, <2>3 DEF DemarrerEchoue
    <2> HIDE DEF p
    <2> QED BY <2>1, <2>2, <2>4, PageTypedStep
  <1>4. ASSUME NEW t \in Tabs, Tic(t) PROVE VisitorTyped'
    <2>1. Opened(t) /\ page[t] \in Page
      BY <1>4 DEF Tic, Opened
    <2>2. Put(t, Envoyer(page[t])) /\ net' = net \union Batch(t, page[t]) /\ Quiet(t)
      BY <1>4 DEF Tic, Leaves
    <2>3. Envoyer(page[t]) \in Page
      BY <2>1, PagesMove
    <2> QED BY <2>1, <2>2, <2>3, PageTypedStep
  <1>5. ASSUME NEW t \in Tabs, NEW b \in BOOLEAN, Emettre(t, b) PROVE VisitorTyped'
    <2> DEFINE p == [page[t] EXCEPT !.tampon = @ + 1]
    <2>1. Opened(t) /\ page[t] \in Page
      BY <1>5 DEF Emettre, Opened
    <2>2. p \in Page
      BY <2>1 DEF Page
    <2>3. events' \in Nat
      BY <1>5 DEF Emettre
    <2>4. /\ Quiet(t)
          /\ \/ Put(t, Envoyer(p)) /\ net' = net \union Batch(t, p)
             \/ Put(t, p) /\ net' = net \union {}
      BY <1>5, <2>3 DEF Emettre, Leaves
    <2> HIDE DEF p
    <2>5. Envoyer(p) \in Page
      BY <2>2, PagesMove
    <2> QED BY <2>1, <2>2, <2>4, <2>5, PageTypedStep
  <1>6. ASSUME NEW m \in net, Reponse(m) PROVE VisitorTyped'
    <2>1. m \in Lot /\ m.to \in Tabs \union {None}
      BY DEF ReplayTyped, ReplayTypeOK, Lot
    <2>2. ReplayTyped' /\ net' \subseteq net
      <3>1. net' \subseteq net /\ IsFiniteSet(net')
        BY <1>6, FS_Subset DEF Reponse, Received, ReplayTyped
      <3> QED BY <1>6, <3>1 DEF Reponse, Server, ReplayTyped, ReplayTypeOK
    <2>3. FunnelTyped'
      BY <1>6, FunnelTypedElse DEF Reponse, Server
    <2>4. /\ page' \in [Tabs -> Page \union {None}]
          /\ \A u \in Tabs : Opened(u)' <=> Opened(u)
      <3>1. CASE m.to # None /\ m.st = "4xx"
        <4>1. m.to \in Tabs /\ Opened(m.to) /\ page[m.to] \in Page
          BY <2>1, <3>1 DEF Awaited, Opened
        <4>2. [page[m.to] EXCEPT !.refuse = TRUE] \in Page
          BY <4>1 DEF Page
        <4>3. Stopper([page[m.to] EXCEPT !.refuse = TRUE], FALSE) \in Page
          BY <4>2, PagesMove
        <4>4. Put(m.to, Stopper([page[m.to] EXCEPT !.refuse = TRUE], FALSE))
          BY <1>6, <3>1 DEF Reponse
        <4> QED BY <4>1, <4>3, <4>4, PutTyped
      <3>2. CASE ~(m.to # None /\ m.st = "4xx")
        BY <1>6, <3>2 DEF Reponse, Opened
      <3> QED BY <3>1, <3>2
    <2>5. PagesTyped'
      BY <1>6, <2>4 DEF Reponse
    <2>6. \A x \in net : x.to # None => x.to \in Tabs
      BY DEF ReplayTyped, ReplayTypeOK, Lot
    <2>7. Awaited'
      BY <2>2, <2>4, <2>6 DEF Awaited
    <2> QED BY <2>2, <2>3, <2>5, <2>7
  <1>7. ASSUME NEW m \in net, Perdre(m) PROVE VisitorTyped'
    <2>1. net' \subseteq net /\ IsFiniteSet(net')
      BY <1>7, FS_Subset DEF Perdre, Received, ReplayTyped
    <2>2. ReplayTyped' /\ FunnelTyped'
      BY <1>7, <2>1, FunnelTypedElse DEF Perdre, Server, ReplayTyped, ReplayTypeOK
    <2>3. PagesTyped' /\ Awaited'
      BY <1>7, <2>1 DEF Perdre, Browser, Awaited, Opened
    <2> QED BY <2>2, <2>3
  <1> QED BY <1>1, <1>2, <1>3, <1>4, <1>5, <1>6, <1>7 DEF Recording

\* The batches of the reception stay those of the pages that wait for them.
LEMMA BecomesAwaited ==
  ASSUME Awaited, NEW m \in net, NEW n, n.to = m.to, Becomes(m, n), page' = page
  PROVE  Awaited'
  BY DEF Awaited, Becomes, Opened

LEMMA ReceivingAwaited ==
  ASSUME ReplayTyped, Awaited, NEW m \in net, page' = page,
         Recevoir(m) \/ Sommer(m) \/ Somme(m) \/ Inserer(m) \/ InsererEchoue(m) \/ Compter(m)
  PROVE  Awaited'
  <1>0. m \in Lot
    BY DEF ReplayTyped, ReplayTypeOK
  <1>1. \A s, d, b : /\ [m EXCEPT !.st = s].to = m.to /\ [m EXCEPT !.st = s, !.deja = d].to = m.to
                     /\ [m EXCEPT !.st = s, !.added = b].to = m.to
    BY <1>0 DEF Lot
  <1>2. \A r : Verifier(m, r) => \E s : Becomes(m, [r EXCEPT !.st = s])
    BY DEF Verifier
  <1>3. \A s, d : [[m EXCEPT !.deja = d] EXCEPT !.st = s].to = m.to
    BY <1>0 DEF Lot
  <1>4. ASSUME NEW r, Verifier(m, r), r = m \/ \E d : r = [m EXCEPT !.deja = d]
        PROVE  \E n : n.to = m.to /\ Becomes(m, n)
    <2>1. PICK s : Becomes(m, [r EXCEPT !.st = s])
      BY <1>2, <1>4
    <2>2. [r EXCEPT !.st = s].to = m.to
      <3>1. CASE r = m
        BY <1>1, <3>1
      <3>2. ASSUME NEW d, r = [m EXCEPT !.deja = d] PROVE [r EXCEPT !.st = s].to = m.to
        BY <1>3, <3>2, Zenon
      <3> QED BY <1>4, <3>1, <3>2
    <2> QED BY <2>1, <2>2
  <1>5. CASE Recevoir(m)
    <2>1. \/ \E s : Becomes(m, [m EXCEPT !.st = s])
          \/ \E d : Verifier(m, [m EXCEPT !.deja = d])
      BY <1>5 DEF Recevoir
    <2> QED BY <1>1, <1>4, <2>1, BecomesAwaited
  <1>6. CASE Somme(m)
    <2>1. Verifier(m, m)
      BY <1>6 DEF Somme
    <2> QED BY <1>4, <2>1, BecomesAwaited
  <1>7. CASE Sommer(m) \/ Inserer(m) \/ InsererEchoue(m) \/ Compter(m)
    <2>1. \/ \E s : Becomes(m, [m EXCEPT !.st = s])
          \/ \E s, d : Becomes(m, [m EXCEPT !.st = s, !.deja = d])
          \/ \E s, b : Becomes(m, [m EXCEPT !.st = s, !.added = b])
      BY <1>7 DEF Sommer, Inserer, InsererEchoue, Compter
    <2> QED BY <1>1, <2>1, BecomesAwaited
  <1> QED BY <1>5, <1>6, <1>7

\* Every step keeps the types.
LEMMA TypedStep ==
  ASSUME VisitorTyped, [Next]_vars
  PROVE  VisitorTyped'
  <1> USE DEF VisitorTyped
  <1>1. CASE Receiving
    <2>1. UNCHANGED funnelVars /\ Browser
      BY <1>1 DEF Receiving
    <2>2. FunnelTyped' /\ PagesTyped'
      BY <2>1, FunnelTypedElse DEF Browser, PagesTyped, Opened
    <2>3. ReplayTyped' /\ Awaited'
      BY <1>1, <2>1, ReplayTypedStep, ReceivingAwaited DEF Receiving, Browser
    <2> QED BY <2>2, <2>3
  <1>2. CASE Counting
    <2>1. FunnelTyped'
      BY <1>2, FunnelTypedStep DEF Counting
    <2>2. ReplayTyped' /\ PagesTyped' /\ Awaited'
      BY <1>2 DEF Counting, replayVars, Browser, ReplayTyped, ReplayTypeOK, PagesTyped, Awaited, Opened
    <2> QED BY <2>1, <2>2
  <1>3. CASE Incidents
    <2>1. ReplayTyped' /\ net' \subseteq net /\ Browser
      BY <1>3, ReplayTypedIncident DEF Incidents
    <2>2. FunnelTyped'
      BY <1>3, FunnelTypedElse DEF Incidents
    <2>3. PagesTyped' /\ Awaited'
      BY <2>1 DEF Browser, PagesTyped, Awaited, Opened
    <2> QED BY <2>1, <2>2, <2>3
  <1>4. CASE UNCHANGED vars
    <2>1. UNCHANGED funnelVars /\ UNCHANGED replayVars /\ Browser
      BY <1>4 DEF vars, Browser
    <2>2. FunnelTyped'
      BY <2>1, FunnelTypedElse
    <2>3. ReplayTyped' /\ PagesTyped' /\ Awaited'
      BY <2>1 DEF replayVars, Browser, ReplayTyped, ReplayTypeOK, PagesTyped, Awaited, Opened
    <2> QED BY <2>2, <2>3
  <1> QED BY <1>1, <1>2, <1>3, <1>4, VisitingTyped, RecordingTyped DEF Next

LEMMA AlwaysTyped == Spec => []VisitorTyped
  <1>1. VisitorTyped /\ [Next]_vars => VisitorTyped'
    BY TypedStep
  <1> QED BY TypedInit, <1>1, PTL DEF Spec

\* Every variable of the pages, of the reception and of the journal keeps its
\* type (cookie-consent.ts, session-replay.ts, replay.service.ts,
\* funnel.service.ts).
THEOREM VisitorTypes == Spec => []TypeOK
  <1>1. VisitorTyped => TypeOK
    BY DEF VisitorTyped, FunnelTyped, ReplayTyped, PagesTyped, TypeOK
  <1> QED BY AlwaysTyped, <1>1, PTL

----------------------------------------------------------------------------
(* The recorder. *)

\* A page keeps events only while it records, records only what it may or has
\* not heard of, and records what it may unless the library is missing.
Sound(p, missing) ==
  /\ p.tampon > 0 => p.arreter
  /\ p.arreter => Allowed(p) \/ p.effect
  /\ Allowed(p) /\ ~p.effect /\ ~p.demarrage => p.arreter \/ missing

RecorderInv == \A t \in Tabs : Opened(t) => Sound(page[t], t \in failed)

\* Evaluating makes a page sound, whatever has changed since the last time.
LEMMA EvaluerSound ==
  ASSUME NEW p \in Page, p.tampon > 0 => p.arreter, NEW missing
  PROVE  Sound(Evaluer(p), missing)
  <1>1. CASE Allowed(p) /\ ~p.arreter /\ ~p.demarrage
    <2>1. Evaluer(p) = [p EXCEPT !.demarrage = TRUE]
      BY <1>1 DEF Evaluer, Stops
    <2> QED BY <1>1, <2>1 DEF Sound, Allowed, Page
  <1>2. CASE Stops(p)
    <2>1. Evaluer(p) = Stopper(p, p.granted /\ ~p.refuse) /\ ~Allowed(p)
      BY <1>2 DEF Evaluer, Stops
    <2>2. \A n : LET q == [p EXCEPT !.arreter = FALSE, !.tampon = 0, !.seq = n]
                 IN  q.tampon = 0 /\ ~q.arreter /\ (Allowed(q) <=> Allowed(p))
      BY DEF Allowed, Page
    <2>3. \E n : Evaluer(p) = [p EXCEPT !.arreter = FALSE, !.tampon = 0, !.seq = n]
      BY <2>1 DEF Stopper
    <2>4. Evaluer(p).tampon = 0 /\ ~Evaluer(p).arreter /\ ~Allowed(Evaluer(p))
      BY <2>1, <2>2, <2>3, Zenon
    <2> QED BY <2>4 DEF Sound
  <1>3. CASE ~(Allowed(p) /\ ~p.arreter /\ ~p.demarrage) /\ ~Stops(p)
    <2>1. Evaluer(p) = p
      BY <1>3 DEF Evaluer
    <2> QED BY <1>3, <2>1 DEF Sound, Stops
  <1> QED BY <1>1, <1>2, <1>3

\* Sending changes the buffer and the number of the next batch only.
LEMMA EnvoyerSound ==
  ASSUME NEW p \in Page, NEW missing, Sound(p, missing)
  PROVE  Sound(Envoyer(p), missing)
  <1>1. \A n : LET q == [p EXCEPT !.tampon = 0, !.seq = n]
               IN  /\ q.tampon = 0 /\ q.arreter = p.arreter /\ q.effect = p.effect
                   /\ q.demarrage = p.demarrage /\ (Allowed(q) <=> Allowed(p))
    BY DEF Allowed, Page
  <1>2. Envoyer(p) = p \/ Envoyer(p) = [p EXCEPT !.tampon = 0, !.seq = p.seq + 1]
    BY DEF Envoyer
  <1>3. CASE Envoyer(p) = [p EXCEPT !.tampon = 0, !.seq = p.seq + 1]
    <2>1. /\ Envoyer(p).tampon = 0 /\ Envoyer(p).arreter = p.arreter /\ Envoyer(p).effect = p.effect
          /\ Envoyer(p).demarrage = p.demarrage /\ (Allowed(Envoyer(p)) <=> Allowed(p))
      BY <1>1, <1>3, Zenon
    <2> QED BY <2>1 DEF Sound
  <1> QED BY <1>2, <1>3

\* Pages nobody touched stay sound, and so does the one that was made sound.
LEMMA PutSound ==
  ASSUME VisitorTyped, RecorderInv, NEW t \in Tabs, NEW p \in Page, Put(t, p),
         failed \subseteq failed', Sound(p, t \in failed')
  PROVE  RecorderInv'
  <1>1. page'[t] = p /\ \A u \in Tabs \ {t} : page'[u] = page[u]
    BY PutTyped
  <1>2. ASSUME NEW u \in Tabs, u # t, Opened(u)' PROVE Sound(page'[u], u \in failed')
    <2>1. page'[u] = page[u] /\ Opened(u)
      BY <1>1, <1>2 DEF Opened
    <2>2. Sound(page[u], u \in failed)
      BY <2>1 DEF RecorderInv
    <2> QED BY <2>1, <2>2 DEF Sound
  <1>3. \A u \in Tabs : Opened(u)' => Sound(page'[u], u \in failed')
    BY <1>1, <1>2
  <1> QED BY <1>3 DEF RecorderInv, Sound, Allowed

\* Every step keeps every page sound.
LEMMA RecorderStep ==
  ASSUME VisitorTyped, RecorderInv, [Next]_vars
  PROVE  RecorderInv'
  <1>0. \A t \in Tabs : Opened(t) => page[t] \in Page /\ Sound(page[t], t \in failed)
    BY DEF VisitorTyped, PagesTyped, Opened, RecorderInv
  <1>1. CASE UNCHANGED page /\ UNCHANGED failed
    BY <1>1 DEF RecorderInv, Opened, Sound, Allowed
  <1>2. Fresh \in Page /\ \A missing : Sound(Fresh, missing)
    BY DEF VisitorTyped, PagesTyped, Fresh, Page, Sound, Allowed
  <1>3. ASSUME NEW t \in Tabs, OpenTab(t) \/ Reload(t) PROVE RecorderInv'
    BY <1>2, <1>3, PutSound DEF OpenTab, Reload
  <1>4. ASSUME NEW t \in Tabs, NEW u \in Tabs, Duplicate(t, u) PROVE RecorderInv'
    BY <1>2, <1>4, PutSound DEF Duplicate
  <1>5. ASSUME NEW t \in Tabs, Choisir(t) PROVE RecorderInv'
    <2> DEFINE p == [page[t] EXCEPT !.granted = ~@, !.effect = TRUE]
    <2>1. page[t] \in Page /\ Sound(page[t], t \in failed)
      BY <1>0, <1>5 DEF Choisir
    <2>2. p \in Page
      BY <2>1 DEF Page
    <2>3. p.effect /\ p.tampon = page[t].tampon /\ p.arreter = page[t].arreter
      BY <2>1 DEF Page
    <2>4. Put(t, p) /\ failed' = failed
      BY <1>5 DEF Choisir
    <2> HIDE DEF p
    <2>5. Sound(p, t \in failed')
      BY <2>1, <2>3 DEF Sound
    <2> QED BY <2>2, <2>4, <2>5, PutSound
  <1>6. ASSUME NEW t \in Tabs, NEW p \in Page, Put(t, Evaluer(p)), failed' = failed, Opened(t),
               p.tampon = page[t].tampon, p.arreter = page[t].arreter
        PROVE  RecorderInv'
    <2>1. p.tampon > 0 => p.arreter
      BY <1>0, <1>6 DEF Sound
    <2>2. Sound(Evaluer(p), t \in failed') /\ Evaluer(p) \in Page
      BY <2>1, EvaluerSound, PagesMove
    <2> QED BY <1>6, <2>2, PutSound
  <1>7. ASSUME NEW t \in Tabs, Naviguer(t) PROVE RecorderInv'
    <2> DEFINE p == [page[t] EXCEPT !.sousAdmin = ~@]
    <2>1. page[t] \in Page /\ Opened(t)
      BY <1>0, <1>7 DEF Naviguer
    <2>2. p \in Page /\ p.tampon = page[t].tampon /\ p.arreter = page[t].arreter
      BY <2>1 DEF Page
    <2>3. Put(t, Evaluer(p)) /\ failed' = failed
      BY <1>7 DEF Naviguer
    <2> HIDE DEF p
    <2> QED BY <1>6, <2>1, <2>2, <2>3
  <1>8. ASSUME NEW t \in Tabs, Effet(t) PROVE RecorderInv'
    <2> DEFINE p == [page[t] EXCEPT !.effect = FALSE]
    <2>1. page[t] \in Page /\ Opened(t)
      BY <1>0, <1>8 DEF Effet
    <2>2. p \in Page /\ p.tampon = page[t].tampon /\ p.arreter = page[t].arreter
      BY <2>1 DEF Page
    <2>3. Put(t, Evaluer(p)) /\ failed' = failed
      BY <1>8 DEF Effet
    <2> HIDE DEF p
    <2> QED BY <1>6, <2>1, <2>2, <2>3
  <1>9. ASSUME NEW t \in Tabs, Demarrer(t) PROVE RecorderInv'
    <2> DEFINE p == [page[t] EXCEPT !.demarrage = FALSE]
               r == [p EXCEPT !.arreter = TRUE, !.segment = Prochain(t), !.seq = 0, !.tampon = 1]
    <2>1. page[t] \in Page /\ Opened(t) /\ Sound(page[t], t \in failed) /\ Prochain(t) \in Nat
      BY <1>0, <1>9 DEF Demarrer, Prochain, VisitorTyped, PagesTyped
    <2>2. /\ p \in Page /\ (Allowed(p) <=> Allowed(page[t]))
          /\ p.tampon = page[t].tampon /\ p.arreter = page[t].arreter /\ p.effect = page[t].effect
      BY <2>1 DEF Page, Allowed
    <2>3. r \in Page /\ (Allowed(r) <=> Allowed(p)) /\ r.arreter
      BY <2>1, <2>2 DEF Page, Allowed
    <2>4. /\ failed' = failed
          /\ \/ Allowed(p) /\ Put(t, Envoyer(r))
             \/ ~Allowed(p) /\ Put(t, p)
      BY <1>9 DEF Demarrer
    <2> HIDE DEF p, r
    <2>5. CASE Allowed(p) /\ Put(t, Envoyer(r))
      <3>1. Sound(r, t \in failed')
        BY <2>3, <2>5 DEF Sound
      <3> QED BY <2>3, <2>4, <2>5, <3>1, EnvoyerSound, PagesMove, PutSound
    <2>6. CASE ~Allowed(p) /\ Put(t, p)
      <3>1. Sound(p, t \in failed')
        BY <2>1, <2>2, <2>6 DEF Sound
      <3> QED BY <2>2, <2>4, <2>6, <3>1, PutSound
    <2> QED BY <2>4, <2>5, <2>6
  <1>10. ASSUME NEW t \in Tabs, DemarrerEchoue(t) PROVE RecorderInv'
    <2> DEFINE p == [page[t] EXCEPT !.demarrage = FALSE]
    <2>1. page[t] \in Page /\ Sound(page[t], t \in failed)
      BY <1>0, <1>10 DEF DemarrerEchoue
    <2>2. /\ p \in Page /\ (Allowed(p) <=> Allowed(page[t]))
          /\ p.tampon = page[t].tampon /\ p.arreter = page[t].arreter /\ p.effect = page[t].effect
      BY <2>1 DEF Page, Allowed
    <2>3. Put(t, p) /\ failed' = failed \union {t}
      BY <1>10 DEF DemarrerEchoue
    <2> HIDE DEF p
    <2>4. Sound(p, t \in failed')
      BY <2>1, <2>2, <2>3 DEF Sound
    <2> QED BY <2>2, <2>3, <2>4, PutSound
  <1>11. ASSUME NEW t \in Tabs, NEW b \in BOOLEAN, Emettre(t, b) PROVE RecorderInv'
    <2> DEFINE p == [page[t] EXCEPT !.tampon = @ + 1]
    <2>1. page[t] \in Page /\ Sound(page[t], t \in failed) /\ page[t].arreter
      BY <1>0, <1>11 DEF Emettre
    <2>2. /\ p \in Page /\ (Allowed(p) <=> Allowed(page[t])) /\ p.arreter
          /\ p.effect = page[t].effect /\ p.demarrage = page[t].demarrage
      BY <2>1 DEF Page, Allowed
    <2>3. (Put(t, Envoyer(p)) \/ Put(t, p)) /\ failed' = failed
      BY <1>11 DEF Emettre
    <2> HIDE DEF p
    <2>4. Sound(p, t \in failed')
      BY <2>1, <2>2, <2>3 DEF Sound
    <2> QED BY <2>2, <2>3, <2>4, EnvoyerSound, PagesMove, PutSound
  <1>12. ASSUME NEW t \in Tabs, Tic(t) PROVE RecorderInv'
    <2>1. page[t] \in Page /\ Sound(page[t], t \in failed)
      BY <1>0, <1>12 DEF Tic
    <2> QED BY <1>12, <2>1, EnvoyerSound, PagesMove, PutSound DEF Tic
  <1>13. ASSUME NEW m \in net, Reponse(m) PROVE RecorderInv'
    <2>1. CASE m.to # None /\ m.st = "4xx"
      <3> DEFINE p == [page[m.to] EXCEPT !.refuse = TRUE]
      <3>1. m.to \in Tabs /\ page[m.to] \in Page
        BY <1>0, <2>1 DEF VisitorTyped, Awaited, ReplayTyped, ReplayTypeOK, Lot
      <3>2. p \in Page /\ p.refuse
        BY <3>1 DEF Page
      <3>3. Put(m.to, Stopper(p, FALSE)) /\ failed' = failed
        BY <1>13, <2>1 DEF Reponse
      <3> HIDE DEF p
      <3>4. \A n : LET q == [p EXCEPT !.arreter = FALSE, !.tampon = 0, !.seq = n]
                   IN  q.tampon = 0 /\ ~q.arreter /\ q.refuse
        BY <3>2 DEF Page
      <3>5. Stopper(p, FALSE) = [p EXCEPT !.arreter = FALSE, !.tampon = 0, !.seq = p.seq]
        BY DEF Stopper
      <3>6. Stopper(p, FALSE).tampon = 0 /\ ~Stopper(p, FALSE).arreter /\ Stopper(p, FALSE).refuse
        BY <3>4, <3>5, Zenon
      <3>7. \A q, missing : q.tampon = 0 /\ ~q.arreter /\ q.refuse => Sound(q, missing)
        BY DEF Sound, Allowed
      <3>8. Sound(Stopper(p, FALSE), m.to \in failed')
        BY <3>6, <3>7, Zenon
      <3>9. Stopper(p, FALSE) \in Page
        BY <3>2, PagesMove
      <3> QED BY <3>1, <3>3, <3>8, <3>9, PutSound
    <2>2. CASE ~(m.to # None /\ m.st = "4xx")
      BY <1>1, <1>13, <2>2 DEF Reponse
    <2> QED BY <2>1, <2>2
  <1>14. (\E m \in net : Perdre(m)) \/ Receiving \/ Counting \/ Incidents \/ UNCHANGED vars
           => UNCHANGED page /\ UNCHANGED failed
    BY DEF Perdre, Receiving, Counting, Incidents, Browser, vars
  <1> QED BY <1>1, <1>3, <1>4, <1>5, <1>7, <1>8, <1>9, <1>10, <1>11, <1>12, <1>13, <1>14
      DEF Next, Visiting, Recording

\* Between two tasks of a page, it records, or keeps what it recorded, only
\* while the visitor accepts it, outside /admin, and not refused by the server; and a
\* page that may record does (session-replay.ts).
THEOREM RecorderFollows == Spec => []RecorderFollowsTheChoice
  <1>1. Init => RecorderInv
    BY DEF Init, RecorderInv, Opened
  <1>2. VisitorTyped /\ RecorderInv /\ [Next]_vars => VisitorTyped' /\ RecorderInv'
    BY TypedStep, RecorderStep
  <1>3. RecorderInv => RecorderFollowsTheChoice
    BY DEF RecorderInv, RecorderFollowsTheChoice, Sound
  <1> QED BY TypedInit, <1>1, <1>2, <1>3, PTL DEF Spec
----------------------------------------------------------------------------
(* Segments. *)

\* Whatever holds what a page recorded: a batch, or a chunk.
Sent == net \union chunks
Key(x) == <<x.v, x.segment, x.seq>>
Same(x, y) == x.v = y.v /\ x.segment = y.segment /\ x.seq = y.seq /\ x.page = y.page

\* A batch that is still to be inserted.
Live(m) == m.st \in {"sent", "sum", "summed", "insert"}

OneTab ==
  \A t, u \in Tabs :
    visit[t] # None /\ visit[t] = visit[u] /\ visit[t] \notin copied => t = u

VisitsBegun == \A t \in Tabs : visit[t] # None => Begun(visit[t])

Origin ==
  \A x \in Sent : x.v \notin copied =>
    x.page[1] \in Tabs /\ visit[x.page[1]] = x.v /\ x.segment <= stored[x.page[1]]

\* The segment b belongs to is of one page, and b has its highest number.
Latest(b) ==
  \A x \in Sent : x.v = b.v /\ x.v \notin copied /\ x.segment = b.segment =>
    x.page = b.page /\ x.seq < b.seq

CurrentSegment ==
  \A t \in Tabs : Opened(t) /\ page[t].arreter =>
    /\ page[t].segment = stored[t]
    /\ \A x \in Sent : x.v = visit[t] /\ x.v \notin copied /\ x.segment = stored[t] =>
         x.page = <<t, loads[t]>> /\ x.seq < page[t].seq

OnePage ==
  \A x, y \in Sent : x.v \notin copied /\ x.v = y.v /\ x.segment = y.segment => x.page = y.page

KeysUnique ==
  \A m, n \in net : m.v \notin copied /\ Live(m) /\ Live(n) /\ Key(m) = Key(n) => m = n

KeysNew ==
  \A m \in net, c \in chunks : m.v \notin copied /\ Live(m) => Key(m) # Key(c)

TabsInv == OneTab /\ VisitsBegun
KeysInv == Origin /\ CurrentSegment /\ OnePage /\ KeysUnique /\ KeysNew

\* The batches of N are, by f, those there were; a chunk was there or was one of them.
Carried(f, N) ==
  /\ \A m \in N : \E y \in net : m = f[y] /\ Same(m, y) /\ (Live(m) => Live(y))
  /\ \A c \in chunks' : c \in chunks \/ \E y \in net : Live(y) /\ Same(c, y) /\ ~Live(f[y])

\* A page that records after the step was already in its segment before.
Keeps(u) ==
  Opened(u)' /\ page'[u].arreter =>
    /\ Opened(u) /\ page[u].arreter /\ visit'[u] = visit[u]
    /\ stored'[u] = stored[u] /\ loads'[u] = loads[u]
    /\ page'[u].segment = page[u].segment /\ page[u].seq <= page'[u].seq

Advances ==
  /\ copied \subseteq copied'
  /\ \A t \in Tabs : visit[t] # None => visit'[t] = visit[t] /\ stored[t] <= stored'[t]

LEMMA SentTyped ==
  ASSUME VisitorTyped
  PROVE  \A x \in Sent : x.v \in Visits /\ x.v # None /\ x.seq \in Nat /\ x.segment \in Nat
  BY VisitorAssumption
  DEF VisitorAssumption, VisitorTyped, ReplayTyped, ReplayTypeOK, Sent, Lot, Chunk

\* Nothing new is sent.
LEMMA CarriedStep ==
  ASSUME VisitorTyped, VisitorTyped', KeysInv, NEW f, Carried(f, net'), Advances,
         \A u \in Tabs : Keeps(u)
  PROVE  KeysInv'
  <1>1. \A x \in Sent' : \E y \in Sent : Same(x, y)
    <2>1. ASSUME NEW x \in net' PROVE \E y \in Sent : Same(x, y)
      BY DEF Carried, Sent
    <2>2. ASSUME NEW x \in chunks, x \in Sent PROVE \E y \in Sent : Same(x, y)
      BY <2>2 DEF Same
    <2>3. ASSUME NEW x \in chunks' PROVE \E y \in Sent : Same(x, y)
      <3>1. x \in chunks \/ \E y \in net : Same(x, y)
        BY DEF Carried
      <3> QED BY <2>2, <3>1 DEF Sent
    <2> QED BY <2>1, <2>3 DEF Sent
  <1>2. \A y \in Sent : y.v # None /\ y.seq \in Nat /\ y.segment \in Nat
    BY SentTyped
  <1>3. \A t \in Tabs : /\ stored[t] \in Nat /\ stored'[t] \in Nat
                        /\ Opened(t) => page[t] \in Page
                        /\ Opened(t)' => page'[t] \in Page
    BY DEF VisitorTyped, PagesTyped, Opened
  <1>4. \A p \in Page : p.seq \in Nat /\ p.segment \in Nat
    BY DEF Page
  <1>5. Origin'
    <2> SUFFICES ASSUME NEW x \in Sent', x.v \notin copied'
                 PROVE  x.page[1] \in Tabs /\ visit'[x.page[1]] = x.v /\ x.segment <= stored'[x.page[1]]
      BY DEF Origin
    <2>1. PICK y \in Sent : Same(x, y)
      BY <1>1
    <2>2. y.v \notin copied /\ y.page[1] \in Tabs /\ visit[y.page[1]] = y.v
          /\ y.segment <= stored[y.page[1]]
      BY <2>1 DEF KeysInv, Origin, Advances, Same
    <2> QED BY <1>2, <1>3, <2>1, <2>2 DEF Advances, Same
  <1>6. CurrentSegment'
    <2> SUFFICES ASSUME NEW t \in Tabs, Opened(t)', page'[t].arreter
                 PROVE  /\ page'[t].segment = stored'[t]
                        /\ \A x \in Sent' :
                             x.v = visit'[t] /\ x.v \notin copied' /\ x.segment = stored'[t] =>
                               x.page = <<t, loads'[t]>> /\ x.seq < page'[t].seq
      BY DEF CurrentSegment
    <2>1. /\ Opened(t) /\ page[t].arreter /\ visit'[t] = visit[t]
          /\ stored'[t] = stored[t] /\ loads'[t] = loads[t]
          /\ page'[t].segment = page[t].segment /\ page[t].seq <= page'[t].seq
      BY DEF Keeps
    <2>2. ASSUME NEW x \in Sent', x.v = visit'[t], x.v \notin copied', x.segment = stored'[t]
          PROVE  x.page = <<t, loads'[t]>> /\ x.seq < page'[t].seq
      <3>1. PICK y \in Sent : Same(x, y)
        BY <1>1
      <3>2. y.page = <<t, loads[t]>> /\ y.seq < page[t].seq
        BY <2>1, <2>2, <3>1 DEF KeysInv, CurrentSegment, Advances, Same
      <3>3. page[t].seq \in Nat /\ page'[t].seq \in Nat /\ y.seq \in Nat
        BY <1>2, <1>3, <1>4, <2>1
      <3> QED BY <2>1, <3>1, <3>2, <3>3 DEF Same
    <2> QED BY <2>1, <2>2 DEF KeysInv, CurrentSegment
  <1>7. OnePage'
    BY <1>1 DEF KeysInv, OnePage, Advances, Same
  <1>8. KeysUnique'
    BY DEF KeysInv, KeysUnique, Carried, Advances, Same, Key
  <1>9. KeysNew'
    <2> SUFFICES ASSUME NEW m \in net', NEW c \in chunks', m.v \notin copied', Live(m), Key(m) = Key(c)
                 PROVE  FALSE
      BY DEF KeysNew
    <2>1. PICK y \in net : m = f[y] /\ Same(m, y) /\ Live(y)
      BY DEF Carried
    <2>2. c \notin chunks
      BY <2>1 DEF KeysInv, KeysNew, Advances, Same, Key
    <2>3. PICK z \in net : Live(z) /\ Same(c, z) /\ ~Live(f[z])
      BY <2>2 DEF Carried
    <2>4. Key(y) = Key(z) /\ y.v \notin copied
      BY <2>1, <2>3 DEF Same, Key, Advances
    <2>5. y = z
      BY <2>1, <2>3, <2>4 DEF KeysInv, KeysUnique
    <2> QED BY <2>1, <2>3, <2>5
  <1> QED BY <1>5, <1>6, <1>7, <1>8, <1>9 DEF KeysInv

\* One batch is new: it is the latest of its segment.
LEMMA SentStep ==
  ASSUME VisitorTyped, VisitorTyped', TabsInv, KeysInv, NEW f, NEW t \in Tabs, NEW b \in net',
         b.v = visit[t], visit[t] # None, b.page = <<t, loads[t]>>, Latest(b),
         b.segment <= stored'[t],
         Carried(f, net' \ {b}), chunks' = chunks, Advances, copied' = copied, visit' = visit,
         \A u \in Tabs \ {t} : Keeps(u),
         Opened(t)' /\ page'[t].arreter =>
           /\ loads'[t] = loads[t] /\ stored'[t] = b.segment
           /\ page'[t].segment = b.segment /\ b.seq < page'[t].seq
  PROVE  KeysInv'
  <1>1. \A x \in Sent' : x = b \/ \E y \in Sent : Same(x, y)
    <2>1. ASSUME NEW x \in net' PROVE x = b \/ \E y \in Sent : Same(x, y)
      BY DEF Carried, Sent
    <2>2. ASSUME NEW x \in chunks, x \in Sent PROVE \E y \in Sent : Same(x, y)
      BY <2>2 DEF Same
    <2> QED BY <2>1, <2>2 DEF Sent
  <1>2. /\ \A y \in Sent : y.v # None /\ y.seq \in Nat /\ y.segment \in Nat
        /\ b.seq \in Nat /\ b.segment \in Nat
    BY SentTyped DEF VisitorTyped, ReplayTyped, ReplayTypeOK, Lot
  <1>3. \A u \in Tabs : /\ stored[u] \in Nat /\ stored'[u] \in Nat
                        /\ Opened(u) => page[u] \in Page
                        /\ Opened(u)' => page'[u] \in Page
    BY DEF VisitorTyped, PagesTyped, Opened
  <1>4. \A p \in Page : p.seq \in Nat /\ p.segment \in Nat
    BY DEF Page
  <1>5. Origin'
    <2> SUFFICES ASSUME NEW x \in Sent', x.v \notin copied'
                 PROVE  x.page[1] \in Tabs /\ visit'[x.page[1]] = x.v /\ x.segment <= stored'[x.page[1]]
      BY DEF Origin
    <2>1. CASE x = b
      BY <2>1
    <2>2. ASSUME NEW y \in Sent, Same(x, y)
          PROVE  x.page[1] \in Tabs /\ visit'[x.page[1]] = x.v /\ x.segment <= stored'[x.page[1]]
      <3>1. y.v \notin copied /\ y.page[1] \in Tabs /\ visit[y.page[1]] = y.v
            /\ y.segment <= stored[y.page[1]]
        BY <2>2 DEF KeysInv, Origin, Same
      <3> QED BY <1>2, <1>3, <2>2, <3>1 DEF Advances, Same
    <2> QED BY <1>1, <2>1, <2>2
  <1>6. CurrentSegment'
    <2> SUFFICES ASSUME NEW u \in Tabs, Opened(u)', page'[u].arreter
                 PROVE  /\ page'[u].segment = stored'[u]
                        /\ \A x \in Sent' :
                             x.v = visit'[u] /\ x.v \notin copied' /\ x.segment = stored'[u] =>
                               x.page = <<u, loads'[u]>> /\ x.seq < page'[u].seq
      BY DEF CurrentSegment
    <2>1. CASE u = t
      <3>1. ASSUME NEW x \in Sent', x.v = visit'[u], x.v \notin copied', x.segment = stored'[u]
            PROVE  x.page = <<u, loads'[u]>> /\ x.seq < page'[u].seq
        <4>1. CASE x = b
          BY <2>1, <4>1
        <4>2. ASSUME NEW y \in Sent, Same(x, y)
              PROVE  x.page = <<u, loads'[u]>> /\ x.seq < page'[u].seq
          <5>1. y.page = b.page /\ y.seq < b.seq
            BY <2>1, <3>1, <4>2 DEF Latest, Same
          <5>2. y.seq \in Nat /\ b.seq \in Nat /\ page'[u].seq \in Nat /\ b.seq < page'[u].seq
            BY <1>2, <1>3, <1>4, <2>1
          <5> QED BY <2>1, <4>2, <5>1, <5>2 DEF Same
        <4> QED BY <1>1, <4>1, <4>2
      <3> QED BY <2>1, <3>1
    <2>2. CASE u # t
      <3>1. /\ Opened(u) /\ page[u].arreter /\ visit'[u] = visit[u]
            /\ stored'[u] = stored[u] /\ loads'[u] = loads[u]
            /\ page'[u].segment = page[u].segment /\ page[u].seq <= page'[u].seq
        BY <2>2 DEF Keeps
      <3>2. ASSUME NEW x \in Sent', x.v = visit'[u], x.v \notin copied', x.segment = stored'[u]
            PROVE  x.page = <<u, loads'[u]>> /\ x.seq < page'[u].seq
        <4>1. x # b
          BY <2>2, <3>2 DEF TabsInv, OneTab
        <4>2. PICK y \in Sent : Same(x, y)
          BY <1>1, <4>1
        <4>3. y.page = <<u, loads[u]>> /\ y.seq < page[u].seq
          BY <3>1, <3>2, <4>2 DEF KeysInv, CurrentSegment, Same
        <4>4. page[u].seq \in Nat /\ page'[u].seq \in Nat /\ y.seq \in Nat
          BY <1>2, <1>3, <1>4, <3>1
        <4> QED BY <3>1, <4>2, <4>3, <4>4 DEF Same
      <3> QED BY <3>1, <3>2 DEF KeysInv, CurrentSegment
    <2> QED BY <2>1, <2>2
  <1>7. OnePage'
    <2> SUFFICES ASSUME NEW x \in Sent', NEW y \in Sent',
                        x.v \notin copied', x.v = y.v, x.segment = y.segment
                 PROVE  x.page = y.page
      BY DEF OnePage
    <2>1. x = b \/ \E z \in Sent : Same(x, z)
      BY <1>1
    <2>2. y = b \/ \E z \in Sent : Same(y, z)
      BY <1>1
    <2> QED BY <2>1, <2>2 DEF Latest, Same, KeysInv, OnePage
  <1>8. \A x \in Sent : Key(x) = Key(b) => x.v \in copied
    BY <1>2 DEF Latest, Key
  <1>9. \A m \in net' \ {b} : \E y \in net : m = f[y] /\ Same(m, y) /\ (Live(m) => Live(y))
    BY DEF Carried
  <1>10. KeysUnique'
    <2> SUFFICES ASSUME NEW m \in net', NEW n \in net', m.v \notin copied, Live(m), Live(n),
                        Key(m) = Key(n)
                 PROVE  m = n
      BY DEF KeysUnique
    <2>1. \A x \in net' \ {b} : Key(x) = Key(b) => x.v \in copied
      BY <1>8, <1>9 DEF Same, Key, Sent
    <2>2. CASE m = b \/ n = b
      BY <2>1, <2>2 DEF Key
    <2>3. CASE m # b /\ n # b
      BY <1>9, <2>3 DEF KeysInv, KeysUnique, Same, Key
    <2> QED BY <2>2, <2>3
  <1>11. KeysNew'
    BY <1>8, <1>9 DEF KeysInv, KeysNew, Same, Key, Sent
  <1> QED BY <1>5, <1>6, <1>7, <1>10, <1>11 DEF KeysInv
\* A page that evaluates records afterwards only if it did, and is as it was.
LEMMA EvaluerKeeps ==
  ASSUME NEW p \in Page, Evaluer(p).arreter
  PROVE  Evaluer(p) = p /\ p.arreter /\ ~Stops(p)
  <1>1. CASE Allowed(p) /\ ~p.arreter /\ ~p.demarrage
    <2>1. Evaluer(p) = [p EXCEPT !.demarrage = TRUE]
      BY <1>1 DEF Evaluer, Stops
    <2>2. [p EXCEPT !.demarrage = TRUE].arreter = p.arreter
      BY DEF Page
    <2> QED BY <1>1, <2>1, <2>2
  <1>2. CASE Stops(p)
    <2>1. \A n : ~[p EXCEPT !.arreter = FALSE, !.tampon = 0, !.seq = n].arreter
      BY DEF Page
    <2>2. \E n : Evaluer(p) = [p EXCEPT !.arreter = FALSE, !.tampon = 0, !.seq = n]
      BY <1>2 DEF Evaluer, Stops, Stopper
    <2> QED BY <2>1, <2>2, Zenon
  <1>3. CASE ~(Allowed(p) /\ ~p.arreter /\ ~p.demarrage) /\ ~Stops(p)
    BY <1>3 DEF Evaluer
  <1> QED BY <1>1, <1>2, <1>3

\* Sending numbers the next batch.
LEMMA EnvoyerNumbers ==
  ASSUME NEW p \in Page
  PROVE  /\ Envoyer(p).arreter = p.arreter /\ Envoyer(p).segment = p.segment
         /\ Envoyer(p).seq = IF Sends(p) THEN p.seq + 1 ELSE p.seq
  <1>1. \A n : LET q == [p EXCEPT !.tampon = 0, !.seq = n]
               IN  q.arreter = p.arreter /\ q.segment = p.segment /\ q.seq = n
    BY DEF Page
  <1>2. CASE Sends(p)
    <2>1. Envoyer(p) = [p EXCEPT !.tampon = 0, !.seq = p.seq + 1]
      BY <1>2 DEF Envoyer
    <2>2. Envoyer(p).arreter = p.arreter /\ Envoyer(p).segment = p.segment /\ Envoyer(p).seq = p.seq + 1
      BY <1>1, <2>1, Zenon
    <2> QED BY <1>2, <2>2
  <1>3. CASE ~Sends(p)
    BY <1>3 DEF Envoyer
  <1> QED BY <1>2, <1>3

\* Nothing is sent; batches and chunks may disappear.
LEMMA NothingSent ==
  ASSUME VisitorTyped, VisitorTyped', KeysInv, net' \subseteq net, chunks' \subseteq chunks,
         Advances, \A u \in Tabs : Keeps(u)
  PROVE  KeysInv'
  <1> DEFINE f == [y \in net |-> y]
  <1>1. Carried(f, net')
    BY DEF Carried, Same
  <1> HIDE DEF f
  <1> QED BY <1>1, CarriedStep

\* The batch of a page, if there is one.
LEMMA BatchOf ==
  ASSUME VisitorTyped, NEW t \in Tabs, Opened(t), NEW p \in Page, NEW b \in Batch(t, p)
  PROVE  /\ Batch(t, p) = {b} /\ Sends(p)
         /\ b.v = visit[t] /\ b.page = <<t, loads[t]>> /\ b.segment = p.segment /\ b.seq = p.seq
         /\ visit[t] # None /\ b.st = "sent" /\ b \in Lot
  <1>1. Sends(p) /\ b = [v |-> visit[t], segment |-> p.segment, seq |-> p.seq, to |-> t, page |-> <<t, loads[t]>>,
                         st |-> "sent", deja |-> 0, added |-> FALSE]
    BY DEF Batch
  <1>2. b \in Lot
    BY BatchTyped
  <1>3. visit[t] # None
    BY DEF VisitorTyped, PagesTyped
  <1> QED BY <1>1, <1>2, <1>3 DEF Batch

\* A page that records has the latest number of its segment.
LEMMA CurrentIsLatest ==
  ASSUME VisitorTyped, KeysInv, NEW t \in Tabs, Opened(t), page[t].arreter, NEW b,
         b.v = visit[t], b.page = <<t, loads[t]>>, b.segment = page[t].segment, b.seq = page[t].seq
  PROVE  Latest(b) /\ b.segment = stored[t]
  BY DEF KeysInv, CurrentSegment, Latest

\* A page in its segment sends, or not.
LEMMA PageKeys ==
  ASSUME VisitorTyped, VisitorTyped', TabsInv, KeysInv, NEW t \in Tabs, Opened(t),
         NEW p \in Page, p.segment = page[t].segment, p.seq = page[t].seq,
         NEW S, S = {} \/ S = Batch(t, p), S # {} => page[t].arreter, net' = net \union S,
         NEW q \in Page, Put(t, q),
         q.arreter =>
           /\ page[t].arreter /\ q.segment = page[t].segment /\ page[t].seq <= q.seq
           /\ S # {} => page[t].seq < q.seq,
         Server, UNCHANGED <<visit, stored, loads, copied>>
  PROVE  KeysInv'
  <1>1. page'[t] = q /\ \A u \in Tabs \ {t} : page'[u] = page[u]
    BY PutTyped
  <1>2. \A u \in Tabs : Opened(u)' <=> Opened(u)
    BY PutTyped
  <1>3. \A u \in Tabs : stored[u] \in Nat /\ (Opened(u) => page[u] \in Page)
    BY DEF VisitorTyped, PagesTyped, Opened
  <1>4. \A r \in Page : r.seq \in Nat /\ r.segment \in Nat
    BY DEF Page
  <1>5. \A u \in Tabs : Keeps(u)
    BY <1>1, <1>2, <1>3, <1>4 DEF Keeps
  <1>6. Advances
    BY <1>3 DEF Advances
  <1>7. CASE S = {}
    BY <1>5, <1>6, <1>7, NothingSent DEF Server
  <1>8. CASE S # {}
    <2>1. PICK b \in Batch(t, p) : TRUE
      BY <1>8
    <2>2. /\ Batch(t, p) = {b} /\ b.v = visit[t] /\ b.page = <<t, loads[t]>>
          /\ b.segment = p.segment /\ b.seq = p.seq /\ visit[t] # None
      BY <2>1, BatchOf
    <2>3. Latest(b) /\ b.segment = stored[t]
      BY <1>8, <2>2, CurrentIsLatest
    <2> DEFINE f == [y \in net |-> y]
    <2>4. net' = net \union {b}
      BY <1>8, <2>2
    <2>5. Carried(f, net' \ {b})
      <3>1. \A m \in net' \ {b} : m \in net /\ m = f[m]
        BY <2>4
      <3> QED BY <3>1 DEF Carried, Same, Server
    <2> HIDE DEF f
    <2>6. Opened(t)' /\ page'[t].arreter =>
            /\ loads'[t] = loads[t] /\ stored'[t] = b.segment
            /\ page'[t].segment = b.segment /\ b.seq < page'[t].seq
      BY <1>1, <1>8, <2>2, <2>3
    <2>7. b.segment <= stored'[t] /\ chunks' = chunks /\ b \in net'
      BY <1>3, <2>3, <2>4 DEF Server
    <2> QED BY <1>5, <1>6, <2>2, <2>3, <2>5, <2>6, <2>7, SentStep
  <1> QED BY <1>7, <1>8

\* A new segment of the tab: no batch of the visit is in it yet.
LEMMA NewSegmentKeys ==
  ASSUME VisitorTyped, VisitorTyped', TabsInv, KeysInv, NEW t \in Tabs, Opened(t),
         NEW p \in Page, Sends(p), p.segment = stored[t] + 1, net' = net \union Batch(t, p),
         NEW q \in Page, Put(t, q), q.segment = p.segment, p.seq < q.seq,
         stored' = [stored EXCEPT ![t] = stored[t] + 1], Server, UNCHANGED <<visit, loads, copied>>
  PROVE  KeysInv'
  <1>1. page'[t] = q /\ \A u \in Tabs \ {t} : page'[u] = page[u]
    BY PutTyped
  <1>2. \A u \in Tabs : Opened(u)' <=> Opened(u)
    BY PutTyped
  <1>3. \A u \in Tabs : stored[u] \in Nat /\ (Opened(u) => page[u] \in Page)
    BY DEF VisitorTyped, PagesTyped, Opened
  <1>4. \A r \in Page : r.seq \in Nat /\ r.segment \in Nat
    BY DEF Page
  <1>5. stored'[t] = stored[t] + 1 /\ \A u \in Tabs \ {t} : stored'[u] = stored[u]
    BY DEF VisitorTyped, PagesTyped
  <1>6. \A u \in Tabs \ {t} : Keeps(u)
    BY <1>1, <1>2, <1>3, <1>4, <1>5 DEF Keeps
  <1>7. Advances
    BY <1>3, <1>5 DEF Advances
  <1>8. PICK b \in Batch(t, p) : TRUE
    BY DEF Batch
  <1>9. /\ Batch(t, p) = {b} /\ b.v = visit[t] /\ b.page = <<t, loads[t]>>
        /\ b.segment = p.segment /\ b.seq = p.seq /\ visit[t] # None
    BY <1>8, BatchOf
  <1>10. Latest(b)
    <2> SUFFICES ASSUME NEW x \in Sent, x.v = b.v, x.v \notin copied, x.segment = b.segment
                 PROVE  FALSE
      BY DEF Latest
    <2>1. x.page[1] \in Tabs /\ visit[x.page[1]] = x.v /\ x.segment <= stored[x.page[1]]
      BY DEF KeysInv, Origin
    <2>2. x.page[1] = t
      BY <1>9, <2>1 DEF TabsInv, OneTab
    <2> QED BY <1>3, <1>9, <2>1, <2>2
  <1> DEFINE f == [y \in net |-> y]
  <1>11. net' = net \union {b}
    BY <1>9
  <1>12. Carried(f, net' \ {b})
    <2>1. \A m \in net' \ {b} : m \in net /\ m = f[m]
      BY <1>11
    <2> QED BY <2>1 DEF Carried, Same, Server
  <1> HIDE DEF f
  <1>13. Opened(t)' /\ page'[t].arreter =>
            /\ loads'[t] = loads[t] /\ stored'[t] = b.segment
            /\ page'[t].segment = b.segment /\ b.seq < page'[t].seq
    BY <1>1, <1>5, <1>9
  <1>14. b.segment <= stored'[t] /\ chunks' = chunks /\ b \in net'
    BY <1>3, <1>5, <1>9, <1>11 DEF Server
  <1> QED BY <1>6, <1>7, <1>9, <1>10, <1>12, <1>13, <1>14, SentStep
\* A page that goes away sends what it kept; nobody waits for its answers.
LEMMA ReloadKeys ==
  ASSUME VisitorTyped, VisitorTyped', RecorderInv, TabsInv, KeysInv, NEW t \in Tabs, Reload(t)
  PROVE  KeysInv'
  <1> DEFINE f == [y \in net |-> IF y.to = t THEN [y EXCEPT !.to = None] ELSE y]
             N == {IF m.to = t THEN [m EXCEPT !.to = None] ELSE m : m \in net}
             L == {[m EXCEPT !.to = None] : m \in Batch(t, page[t])}
  <1>0. /\ Opened(t) /\ Put(t, Fresh) /\ net' = N \union L /\ Server
        /\ UNCHANGED <<visit, stored, copied>> /\ \A u \in Tabs \ {t} : loads'[u] = loads[u]
    BY DEF Reload, VisitorTyped, PagesTyped
  <1>1. page[t] \in Page /\ Fresh \in Page /\ ~Fresh.arreter /\ net \subseteq Lot
    BY <1>0 DEF VisitorTyped, PagesTyped, ReplayTyped, ReplayTypeOK, Opened, Fresh, Page
  <1>2. page'[t] = Fresh /\ \A u \in Tabs \ {t} : page'[u] = page[u]
    BY <1>0, <1>1, PutTyped
  <1>3. \A u \in Tabs : Opened(u)' <=> Opened(u)
    BY <1>0, <1>1, PutTyped
  <1>4. \A u \in Tabs : stored[u] \in Nat /\ (Opened(u) => page[u] \in Page)
    BY DEF VisitorTyped, PagesTyped, Opened
  <1>5. \A r \in Page : r.seq \in Nat
    BY DEF Page
  <1>6. \A u \in Tabs : Keeps(u)
    BY <1>0, <1>1, <1>2, <1>3, <1>4, <1>5 DEF Keeps
  <1>7. Advances
    BY <1>0, <1>4 DEF Advances
  <1>8. \A m \in Lot : LET n == [m EXCEPT !.to = None]
                       IN  Same(n, m) /\ (Live(n) <=> Live(m)) /\ n.v = m.v /\ n.segment = m.segment
                           /\ n.seq = m.seq /\ n.page = m.page
    BY DEF Lot, Same, Live
  <1>9. \A y \in net : f[y] \in N /\ Same(f[y], y) /\ (Live(f[y]) <=> Live(y))
    <2> SUFFICES ASSUME NEW y \in net PROVE f[y] \in N /\ Same(f[y], y) /\ (Live(f[y]) <=> Live(y))
      OBVIOUS
    <2>1. f[y] \in N
      OBVIOUS
    <2>2. CASE y.to = t
      <3>1. f[y] = [y EXCEPT !.to = None]
        BY <2>2
      <3>2. y \in Lot
        BY <1>1
      <3>3. Same([y EXCEPT !.to = None], y) /\ (Live([y EXCEPT !.to = None]) <=> Live(y))
        BY <3>2 DEF Lot, Same, Live
      <3> HIDE DEF f, N
      <3> QED BY <2>1, <3>1, <3>3, Zenon
    <2>3. CASE y.to # t
      BY <2>1, <2>3 DEF Same
    <2> QED BY <2>2, <2>3
  <1>10. \A m \in N : \E y \in net : m = f[y]
    OBVIOUS
  <1>11. Carried(f, N)
    <2> HIDE DEF f, N
    <2> QED BY <1>0, <1>9, <1>10 DEF Carried, Server
  <1>12. CASE L = {}
    <2>1. net' = N
      BY <1>0, <1>12
    <2> HIDE DEF f, N, L
    <2> QED BY <1>6, <1>7, <1>11, <2>1, CarriedStep
  <1>13. CASE L # {}
    <2>1. PICK o \in Batch(t, page[t]) : TRUE
      BY <1>13
    <2>2. /\ Batch(t, page[t]) = {o} /\ Sends(page[t]) /\ o \in Lot
          /\ o.v = visit[t] /\ o.page = <<t, loads[t]>> /\ o.segment = page[t].segment /\ o.seq = page[t].seq
          /\ visit[t] # None
      BY <1>0, <1>1, <2>1, BatchOf
    <2> DEFINE b == [o EXCEPT !.to = None]
    <2>3. L = {b}
      BY <2>2
    <2>4. b.v = o.v /\ b.page = o.page /\ b.segment = o.segment /\ b.seq = o.seq
      BY <1>8, <2>2, Zenon
    <2> HIDE DEF b, f, N, L
    <2>5. page[t].arreter
      BY <1>0, <2>2 DEF RecorderInv, Sound, Sends
    <2>6. Latest(b) /\ b.segment = stored[t]
      BY <1>0, <2>2, <2>4, <2>5, CurrentIsLatest
    <2>7. b \in net' /\ net' \ {b} \subseteq N
      BY <1>0, <2>3
    <2>8. Carried(f, net' \ {b})
      BY <1>11, <2>7 DEF Carried
    <2>9. b.segment <= stored'[t] /\ ~page'[t].arreter /\ chunks' = chunks
      BY <1>0, <1>1, <1>2, <1>4, <2>6 DEF Server
    <2> QED BY <1>0, <1>6, <1>7, <2>2, <2>4, <2>6, <2>7, <2>8, <2>9, SentStep
  <1> QED BY <1>12, <1>13

\* A batch moves on in the reception, and may be inserted.
LEMMA MovedKeys ==
  ASSUME VisitorTyped, VisitorTyped', KeysInv, Browser, NEW m \in net, NEW n, Becomes(m, n),
         Same(n, m), Live(n) => Live(m),
         chunks' = chunks \/ (Live(m) /\ ~Live(n) /\ \E c : Same(c, m) /\ chunks' = chunks \union {c})
  PROVE  KeysInv'
  <1> DEFINE f == [y \in net |-> IF y = m THEN n ELSE y]
  <1>1. f[m] = n /\ \A y \in net \ {m} : f[y] = y
    OBVIOUS
  <1> HIDE DEF f
  <1>2. Carried(f, net')
    <2>1. \A x \in net' : \E y \in net : x = f[y] /\ Same(x, y) /\ (Live(x) => Live(y))
      BY <1>1 DEF Becomes, Same
    <2>2. \A c \in chunks' : c \in chunks \/ \E y \in net : Live(y) /\ Same(c, y) /\ ~Live(f[y])
      BY <1>1
    <2> QED BY <2>1, <2>2 DEF Carried
  <1>3. \A u \in Tabs : stored[u] \in Nat /\ (Opened(u) => page[u] \in Page)
    BY DEF VisitorTyped, PagesTyped, Opened
  <1>4. \A r \in Page : r.seq \in Nat
    BY DEF Page
  <1>5. Advances
    BY <1>3 DEF Advances, Browser
  <1>6. \A u \in Tabs : Keeps(u)
    BY <1>3, <1>4 DEF Keeps, Browser, Opened
  <1> QED BY <1>2, <1>5, <1>6, CarriedStep

LEMMA ReceivingKeys ==
  ASSUME VisitorTyped, VisitorTyped', KeysInv, Browser, NEW m \in net,
         Recevoir(m) \/ Sommer(m) \/ Somme(m) \/ Inserer(m) \/ InsererEchoue(m) \/ Compter(m)
  PROVE  KeysInv'
  <1>0. m \in Lot
    BY DEF VisitorTyped, ReplayTyped, ReplayTypeOK
  <1>1. \A s, d, b : /\ Same([m EXCEPT !.st = s], m) /\ [m EXCEPT !.st = s].st = s
                     /\ Same([m EXCEPT !.st = s, !.deja = d], m) /\ [m EXCEPT !.st = s, !.deja = d].st = s
                     /\ Same([m EXCEPT !.st = s, !.added = b], m) /\ [m EXCEPT !.st = s, !.added = b].st = s
                     /\ Same([[m EXCEPT !.deja = d] EXCEPT !.st = s], m)
                     /\ [[m EXCEPT !.deja = d] EXCEPT !.st = s].st = s
    BY <1>0 DEF Lot, Same
  <1>2. CASE Recevoir(m) \/ Sommer(m) \/ Somme(m)
    <2>1. Live(m) /\ chunks' = chunks
      BY <1>2 DEF Recevoir, Sommer, Somme, Live
    <2>2. \/ \E s : Becomes(m, [m EXCEPT !.st = s])
          \/ \E s, d : Becomes(m, [m EXCEPT !.st = s, !.deja = d])
          \/ \E s, d : Becomes(m, [[m EXCEPT !.deja = d] EXCEPT !.st = s])
      BY <1>2, Zenon DEF Recevoir, Sommer, Somme, Verifier
    <2> QED BY <1>1, <2>1, <2>2, MovedKeys
  <1>3. CASE Inserer(m)
    <2> DEFINE c == [v |-> m.v, segment |-> m.segment, seq |-> m.seq, page |-> m.page, day |-> today]
    <2>1. Same(c, m)
      BY DEF Same
    <2>2. chunks' = chunks \/ chunks' = chunks \union {c}
      BY <1>3 DEF Inserer
    <2> HIDE DEF c
    <2>3. Live(m) /\ \E b : Becomes(m, [m EXCEPT !.st = "count", !.added = b])
      BY <1>3 DEF Inserer, Live
    <2>4. \A b : ~Live([m EXCEPT !.st = "count", !.added = b])
      BY <1>0 DEF Live, Lot
    <2> QED BY <1>1, <2>1, <2>2, <2>3, <2>4, MovedKeys
  <1>4. CASE InsererEchoue(m) \/ Compter(m)
    <2>1. chunks' = chunks /\ Becomes(m, [m EXCEPT !.st = "2xx"])
      BY <1>4 DEF InsererEchoue, Compter
    <2>2. ~Live([m EXCEPT !.st = "2xx"])
      BY <1>0 DEF Live, Lot
    <2> QED BY <1>1, <2>1, <2>2, MovedKeys
  <1> QED BY <1>2, <1>3, <1>4
\* Two tabs are of one visit only when one of them was duplicated.
LEMMA TabsStep ==
  ASSUME VisitorTyped, TabsInv, [Next]_vars
  PROVE  TabsInv'
  <1> USE DEF TabsInv
  <1>1. ASSUME UNCHANGED <<visit, copied, before>> PROVE TabsInv'
    BY <1>1 DEF OneTab, VisitsBegun, Begun
  <1>2. ASSUME NEW t \in Tabs, OpenTab(t) PROVE TabsInv'
    <2>1. PICK v \in Visits : ~Begun(v) /\ visit' = [visit EXCEPT ![t] = v] /\ Begin(v)
      BY <1>2 DEF OpenTab
    <2>2. comptes # None /\ before \in [Visits -> (SUBSET Accounts) \union {None}]
      BY FunnelAssumption DEF FunnelAssumption, VisitorTyped, FunnelTyped, FunnelTypeOK
    <2>3. Begun(v)' /\ \A x : Begun(x) /\ x \in Visits => Begun(x)'
      BY <2>1, <2>2 DEF Begin, Begun
    <2>4. visit'[t] = v /\ \A u \in Tabs \ {t} : visit'[u] = visit[u]
      BY <2>1 DEF VisitorTyped, PagesTyped
    <2>5. \A u \in Tabs : visit[u] # v
      BY <2>1, VisitorAssumption DEF VisitorAssumption, VisitsBegun
    <2>6. OneTab'
      BY <1>2, <2>4, <2>5 DEF OneTab, OpenTab
    <2>7. VisitsBegun'
      BY <2>3, <2>4 DEF VisitsBegun, VisitorTyped, PagesTyped
    <2> QED BY <2>6, <2>7
  <1>3. ASSUME NEW t \in Tabs, NEW u \in Tabs, Duplicate(t, u) PROVE TabsInv'
    <2>1. visit'[u] = visit[t] /\ \A x \in Tabs \ {u} : visit'[x] = visit[x]
      BY <1>3 DEF Duplicate, VisitorTyped, PagesTyped
    <2>2. copied' = copied \union {visit[t]} /\ before' = before
      BY <1>3 DEF Duplicate, Server, funnelVars
    <2>3. OneTab'
      BY <2>1, <2>2 DEF OneTab
    <2>4. VisitsBegun'
      BY <2>1, <2>2 DEF VisitsBegun, Begun
    <2> QED BY <2>3, <2>4
  <1>4. CASE Counting
    BY <1>1, <1>4 DEF Counting, Browser, FunnelNext, Balise, Marquer, AutreAppel, Rattacher, Rest,
                      Ecrire, EcrireEchoue
  <1>5. CASE Receiving \/ Incidents \/ UNCHANGED vars
    BY <1>1, <1>5 DEF Receiving, Incidents, Browser, vars, funnelVars
  <1>6. CASE Recording
    BY <1>1, <1>6 DEF Recording, Effet, Demarrer, DemarrerEchoue, Tic, Emettre, Reponse, Perdre,
                      Server, Browser, funnelVars
  <1>7. ASSUME NEW t \in Tabs, Reload(t) \/ Choisir(t) \/ Naviguer(t) PROVE TabsInv'
    BY <1>1, <1>7 DEF Reload, Choisir, Naviguer, Server, funnelVars
  <1> QED BY <1>2, <1>3, <1>4, <1>5, <1>6, <1>7 DEF Next, Visiting

\* A page stays in its segment, and sends what it has recorded or keeps it.
LEMMA RecordsOn ==
  ASSUME VisitorTyped, VisitorTyped', TabsInv, KeysInv, NEW t \in Tabs, Opened(t),
         NEW p \in Page, p.arreter = page[t].arreter, p.segment = page[t].segment, p.seq = page[t].seq,
         \/ Put(t, p) /\ net' = net
         \/ p.arreter /\ Put(t, Envoyer(p)) /\ net' = net \union Batch(t, p),
         Server, UNCHANGED <<visit, stored, loads, copied>>
  PROVE  KeysInv'
  <1>1. p.seq \in Nat /\ \A u \in Tabs : stored[u] \in Nat /\ (Opened(u) => page[u].seq \in Nat)
    BY DEF VisitorTyped, PagesTyped, Opened, Page
  <1>2. CASE Put(t, p) /\ net' = net
    <2>1. page'[t] = p /\ \A u \in Tabs \ {t} : page'[u] = page[u]
      BY <1>2, PutTyped
    <2>2. \A u \in Tabs : Opened(u)' <=> Opened(u)
      BY <1>2, PutTyped
    <2>3. Advances /\ \A u \in Tabs : Keeps(u)
      BY <1>1, <2>1, <2>2 DEF Advances, Keeps
    <2> QED BY <1>2, <2>3, NothingSent DEF Server
  <1>3. CASE p.arreter /\ Put(t, Envoyer(p)) /\ net' = net \union Batch(t, p)
    <2>1. Envoyer(p) \in Page /\ Envoyer(p).segment = p.segment
          /\ Envoyer(p).seq = (IF Sends(p) THEN p.seq + 1 ELSE p.seq)
      BY PagesMove, EnvoyerNumbers
    <2>2. Batch(t, p) # {} => Sends(p)
      BY DEF Batch
    <2>3. page[t].seq <= Envoyer(p).seq /\ (Batch(t, p) # {} => page[t].seq < Envoyer(p).seq)
      BY <1>1, <2>1, <2>2
    <2> QED BY <1>3, <2>1, <2>3, PageKeys
  <1> QED BY <1>2, <1>3

\* Every step keeps the segments of a visit apart, and its batches in order.
LEMMA KeysStep ==
  ASSUME VisitorTyped, RecorderInv, TabsInv, KeysInv, [Next]_vars
  PROVE  KeysInv'
  <1>0. VisitorTyped'
    BY TypedStep
  <1>1. \A t \in Tabs : /\ stored[t] \in Nat
                        /\ Opened(t) => page[t] \in Page /\ visit[t] # None /\ Sound(page[t], t \in failed)
                        /\ ~Opened(t) => visit[t] = None
    BY DEF VisitorTyped, PagesTyped, Opened, RecorderInv
  <1>2. \A p \in Page : p.seq \in Nat
    BY DEF Page
  <1>3. Fresh \in Page /\ ~Fresh.arreter
    BY DEF VisitorTyped, PagesTyped, Fresh, Page
  <1>4. ASSUME UNCHANGED <<page, visit, stored, loads, copied>>, net' \subseteq net, chunks' \subseteq chunks
        PROVE  KeysInv'
    <2>1. Advances /\ \A u \in Tabs : Keeps(u)
      BY <1>1, <1>2, <1>4 DEF Advances, Keeps, Opened
    <2> QED BY <1>0, <1>4, <2>1, NothingSent
  <1>5. ASSUME NEW t \in Tabs, OpenTab(t) PROVE KeysInv'
    <2>1. /\ Put(t, Fresh) /\ ~Opened(t) /\ net' = net /\ chunks' = chunks /\ stored' = stored /\ copied' = copied
          /\ \A u \in Tabs \ {t} : visit'[u] = visit[u] /\ loads'[u] = loads[u]
      BY <1>5 DEF OpenTab, Opened, replayVars, VisitorTyped, PagesTyped
    <2>2. page'[t] = Fresh /\ \A u \in Tabs \ {t} : page'[u] = page[u]
      BY <1>3, <2>1, PutTyped
    <2>3. \A u \in Tabs : Keeps(u)
      BY <1>1, <1>2, <1>3, <2>1, <2>2 DEF Keeps, Opened
    <2>4. Advances
      BY <1>1, <2>1 DEF Advances
    <2> QED BY <1>0, <2>1, <2>3, <2>4, NothingSent
  <1>6. ASSUME NEW t \in Tabs, NEW u \in Tabs, Duplicate(t, u) PROVE KeysInv'
    <2>1. /\ Put(u, Fresh) /\ ~Opened(u) /\ net' = net /\ chunks' = chunks /\ copied \subseteq copied'
          /\ \A x \in Tabs \ {u} : visit'[x] = visit[x] /\ loads'[x] = loads[x] /\ stored'[x] = stored[x]
      BY <1>6 DEF Duplicate, Opened, Server, VisitorTyped, PagesTyped
    <2>2. page'[u] = Fresh /\ \A x \in Tabs \ {u} : page'[x] = page[x]
      BY <1>3, <2>1, PutTyped
    <2>3. \A x \in Tabs : Keeps(x)
      BY <1>1, <1>2, <1>3, <2>1, <2>2 DEF Keeps, Opened
    <2>4. Advances
      BY <1>1, <2>1 DEF Advances
    <2> QED BY <1>0, <2>1, <2>3, <2>4, NothingSent
  <1>7. ASSUME NEW t \in Tabs, Choisir(t) PROVE KeysInv'
    <2> DEFINE q == [page[t] EXCEPT !.granted = ~@, !.effect = TRUE]
    <2>1. Opened(t) /\ Put(t, q) /\ net' = net /\ Server /\ UNCHANGED <<visit, stored, loads, copied>>
      BY <1>7 DEF Choisir
    <2>2. /\ q \in Page /\ q.arreter = page[t].arreter /\ q.segment = page[t].segment
          /\ q.seq = page[t].seq /\ page[t] \in Page
      BY <1>1, <2>1 DEF Page
    <2> HIDE DEF q
    <2> QED BY <1>0, <2>1, <2>2, RecordsOn
  <1>8. ASSUME NEW t \in Tabs, NEW p \in Page, Opened(t), Put(t, Evaluer(p)), net' = net \union Remainder(t, p),
               p.arreter = page[t].arreter, p.tampon = page[t].tampon, p.segment = page[t].segment,
               p.seq = page[t].seq, Server, UNCHANGED <<visit, stored, loads, copied>>
        PROVE  KeysInv'
    <2> DEFINE S == Remainder(t, p)
    <2>1. S = {} \/ S = Batch(t, p)
      BY DEF Remainder
    <2>2. S # {} => page[t].arreter /\ Stops(p)
      BY <1>1, <1>8 DEF Remainder, Batch, Sends, Sound
    <2>3. Evaluer(p) \in Page
      BY PagesMove
    <2>4. Evaluer(p).arreter =>
            /\ page[t].arreter /\ Evaluer(p).segment = page[t].segment /\ page[t].seq <= Evaluer(p).seq
            /\ S = {}
      BY <1>2, <1>8, <2>2, EvaluerKeeps
    <2> HIDE DEF S
    <2>5. net' = net \union S
      BY <1>8 DEF S
    <2> QED BY <1>0, <1>8, <2>1, <2>2, <2>3, <2>4, <2>5, PageKeys
  <1>9. ASSUME NEW t \in Tabs, Naviguer(t) PROVE KeysInv'
    <2> DEFINE p == [page[t] EXCEPT !.sousAdmin = ~@]
    <2>1. /\ Opened(t) /\ Put(t, Evaluer(p)) /\ net' = net \union Remainder(t, p)
          /\ Server /\ UNCHANGED <<visit, stored, loads, copied>>
      BY <1>9 DEF Naviguer, Leaves
    <2>2. /\ p \in Page /\ p.arreter = page[t].arreter /\ p.tampon = page[t].tampon
          /\ p.segment = page[t].segment /\ p.seq = page[t].seq
      BY <1>1, <2>1 DEF Page
    <2> HIDE DEF p
    <2> QED BY <1>8, <2>1, <2>2
  <1>10. ASSUME NEW t \in Tabs, Effet(t) PROVE KeysInv'
    <2> DEFINE p == [page[t] EXCEPT !.effect = FALSE]
    <2>1. /\ Opened(t) /\ Put(t, Evaluer(p)) /\ net' = net \union Remainder(t, p)
          /\ Server /\ UNCHANGED <<visit, stored, loads, copied>>
      BY <1>10 DEF Effet, Leaves
    <2>2. /\ p \in Page /\ p.arreter = page[t].arreter /\ p.tampon = page[t].tampon
          /\ p.segment = page[t].segment /\ p.seq = page[t].seq
      BY <1>1, <2>1 DEF Page
    <2> HIDE DEF p
    <2> QED BY <1>8, <2>1, <2>2
  <1>11. ASSUME NEW t \in Tabs, NEW b \in BOOLEAN, Emettre(t, b) PROVE KeysInv'
    <2> DEFINE p == [page[t] EXCEPT !.tampon = @ + 1]
    <2>1. /\ Opened(t) /\ page[t].arreter /\ Server /\ UNCHANGED <<visit, stored, loads, copied>>
          /\ (Put(t, p) /\ net' = net) \/ (Put(t, Envoyer(p)) /\ net' = net \union Batch(t, p))
      BY <1>11 DEF Emettre, Leaves
    <2>2. p \in Page /\ p.arreter = page[t].arreter /\ p.segment = page[t].segment /\ p.seq = page[t].seq
      <3>1. page[t] \in Page
        BY <1>1, <2>1
      <3> QED BY <3>1 DEF Page
    <2> HIDE DEF p
    <2> QED BY <1>0, <2>1, <2>2, RecordsOn
  <1>12. ASSUME NEW t \in Tabs, Tic(t) PROVE KeysInv'
    <2>1. /\ Opened(t) /\ Sends(page[t]) /\ Server /\ UNCHANGED <<visit, stored, loads, copied>>
          /\ Put(t, Envoyer(page[t])) /\ net' = net \union Batch(t, page[t])
      BY <1>12 DEF Tic, Leaves
    <2>2. page[t].arreter /\ page[t] \in Page
      BY <1>1, <2>1 DEF Sound, Sends
    <2> QED BY <1>0, <2>1, <2>2, RecordsOn
  <1>13. ASSUME NEW t \in Tabs, DemarrerEchoue(t) PROVE KeysInv'
    <2> DEFINE p == [page[t] EXCEPT !.demarrage = FALSE]
    <2>1. Opened(t) /\ Put(t, p) /\ net' = net /\ Server /\ UNCHANGED <<visit, stored, loads, copied>>
      BY <1>13 DEF DemarrerEchoue
    <2>2. p \in Page /\ p.arreter = page[t].arreter /\ p.segment = page[t].segment /\ p.seq = page[t].seq
      BY <1>1, <2>1 DEF Page
    <2> HIDE DEF p
    <2> QED BY <1>0, <2>1, <2>2, RecordsOn
  <1>14. ASSUME NEW t \in Tabs, Demarrer(t) PROVE KeysInv'
    <2> DEFINE p == [page[t] EXCEPT !.demarrage = FALSE]
               r == [p EXCEPT !.arreter = TRUE, !.segment = Prochain(t), !.seq = 0, !.tampon = 1]
    <2>1. /\ Opened(t) /\ Server /\ UNCHANGED <<visit, loads, copied>>
          /\ \/ /\ Allowed(p) /\ stored' = [stored EXCEPT ![t] = stored[t] + 1]
                /\ Put(t, Envoyer(r)) /\ net' = net \union Batch(t, r)
             \/ Put(t, p) /\ stored' = stored /\ net' = net
      BY <1>14 DEF Demarrer, Leaves, Prochain
    <2>2. p \in Page /\ p.arreter = page[t].arreter /\ p.segment = page[t].segment /\ p.seq = page[t].seq
      BY <1>1, <2>1 DEF Page
    <2>3. Prochain(t) = stored[t] + 1 /\ Prochain(t) \in Nat
      BY <1>1 DEF Prochain
    <2>4. r \in Page /\ r.segment = stored[t] + 1 /\ r.seq = 0 /\ r.tampon = 1 /\ r.refuse = p.refuse
      BY <2>2, <2>3 DEF Page
    <2> HIDE DEF p, r
    <2>5. CASE /\ Allowed(p) /\ stored' = [stored EXCEPT ![t] = stored[t] + 1]
               /\ Put(t, Envoyer(r)) /\ net' = net \union Batch(t, r)
      <3>1. Sends(r)
        BY <2>4, <2>5 DEF Sends, Allowed
      <3>2. Envoyer(r) \in Page /\ Envoyer(r).segment = r.segment /\ r.seq < Envoyer(r).seq
        BY <2>4, <3>1, PagesMove, EnvoyerNumbers
      <3> QED BY <1>0, <2>1, <2>4, <2>5, <3>1, <3>2, NewSegmentKeys
    <2>6. CASE Put(t, p) /\ stored' = stored /\ net' = net
      BY <1>0, <2>1, <2>2, RecordsOn, <2>6
    <2> QED BY <2>1, <2>5, <2>6
  <1>15. ASSUME NEW m \in net, Reponse(m) PROVE KeysInv'
    <2>1. net' \subseteq net /\ Server /\ UNCHANGED <<visit, stored, loads, copied>>
      BY <1>15 DEF Reponse, Received
    <2>2. Advances
      BY <1>1, <2>1 DEF Advances
    <2>3. \A u \in Tabs : Keeps(u)
      <3>1. CASE m.to # None /\ m.st = "4xx"
        <4> DEFINE p == [page[m.to] EXCEPT !.refuse = TRUE]
        <4>1. m.to \in Tabs /\ page[m.to] \in Page
          BY <1>1, <3>1 DEF VisitorTyped, Awaited, ReplayTyped, ReplayTypeOK, Lot
        <4>2. p \in Page
          BY <4>1 DEF Page
        <4>3. Put(m.to, Stopper(p, FALSE))
          BY <1>15, <3>1 DEF Reponse
        <4> HIDE DEF p
        <4>4. \A n : ~[p EXCEPT !.arreter = FALSE, !.tampon = 0, !.seq = n].arreter
          BY <4>2 DEF Page
        <4>5. ~Stopper(p, FALSE).arreter /\ Stopper(p, FALSE) \in Page
          BY <4>2, <4>4, PagesMove DEF Stopper
        <4>6. page'[m.to] = Stopper(p, FALSE) /\ \A u \in Tabs \ {m.to} : page'[u] = page[u]
          BY <4>1, <4>3, <4>5, PutTyped
        <4>7. \A u \in Tabs \ {m.to} : Keeps(u)
          BY <1>1, <1>2, <2>1, <4>6 DEF Keeps, Opened
        <4>8. Keeps(m.to)
          BY <4>5, <4>6 DEF Keeps
        <4> QED BY <4>7, <4>8
      <3>2. CASE ~(m.to # None /\ m.st = "4xx")
        <4>1. page' = page
          BY <1>15, <3>2 DEF Reponse
        <4> QED BY <1>1, <1>2, <2>1, <4>1 DEF Keeps, Opened
      <3> QED BY <3>1, <3>2
    <2> QED BY <1>0, <2>1, <2>2, <2>3, NothingSent DEF Server
  <1>16. ASSUME NEW m \in net, Perdre(m) PROVE KeysInv'
    BY <1>4, <1>16 DEF Perdre, Received, Server, Browser
  <1>17. CASE Receiving
    BY <1>0, <1>17, ReceivingKeys DEF Receiving
  <1>18. CASE Counting \/ UNCHANGED vars
    BY <1>4, <1>18 DEF Counting, Browser, replayVars, vars
  <1>19. CASE Incidents
    <2>1. net' \subseteq net /\ chunks' \subseteq chunks /\ Browser
      BY <1>19 DEF Incidents, Purger, ViderTotaux, Minuit, Redemarrer, Today
    <2> QED BY <1>4, <2>1 DEF Browser
  <1>20. ASSUME NEW t \in Tabs, Reload(t) PROVE KeysInv'
    BY <1>0, <1>20, ReloadKeys
  <1> QED BY <1>5, <1>6, <1>7, <1>9, <1>10, <1>11, <1>12, <1>13, <1>14, <1>15, <1>16, <1>17, <1>18, <1>19, <1>20
      DEF Next, Visiting, Recording

\* A segment of a visit is of one page, and a batch of it that is still to be
\* inserted is not there: nothing a page recorded is dropped as a double
\* (session-replay.ts, prochainSegment, envoyer; replay.service.ts, recevoir).
THEOREM SegmentsArePages == Spec => []SegmentIsOnePage
  <1> DEFINE Inv == VisitorTyped /\ RecorderInv /\ TabsInv /\ KeysInv
  <1>1. Init => Inv
    <2> SUFFICES ASSUME Init PROVE Inv
      OBVIOUS
    <2>1. RecorderInv /\ TabsInv
      BY DEF Init, RecorderInv, Opened, TabsInv, OneTab, VisitsBegun
    <2>2. KeysInv
      BY DEF Init, ReplayInit, KeysInv, Origin, CurrentSegment, OnePage, KeysUnique, KeysNew, Sent, Opened
    <2> QED BY <2>1, <2>2, TypedInit
  <1>2. Inv /\ [Next]_vars => Inv'
    BY TypedStep, RecorderStep, TabsStep, KeysStep
  <1>3. Inv => SegmentIsOnePage
    <2> SUFFICES ASSUME Inv, NEW v \in Visits \ copied, Of(v) # {}
                 PROVE  /\ \A g \in DOMAIN Lire(v) : \A c, d \in Lire(v)[g] : c.page = d.page
                        /\ \A c \in Of(v), m \in net :
                             m.st \in {"sent", "insert"} => <<m.v, m.segment, m.seq>> # <<c.v, c.segment, c.seq>>
      BY DEF SegmentIsOnePage
    <2>1. \A g \in DOMAIN Lire(v) : Lire(v)[g] = {c \in Of(v) : c.segment = g}
      BY DEF Lire
    <2>2. \A g \in DOMAIN Lire(v) : \A c, d \in Lire(v)[g] : c.page = d.page
      BY <2>1 DEF KeysInv, OnePage, Of, Sent
    <2>3. \A c \in Of(v), m \in net :
            m.st \in {"sent", "insert"} => <<m.v, m.segment, m.seq>> # <<c.v, c.segment, c.seq>>
      BY DEF KeysInv, KeysNew, Of, Live, Key
    <2> QED BY <2>2, <2>3
  <1> QED BY <1>1, <1>2, <1>3, PTL DEF Spec
----------------------------------------------------------------------------
(* The journal. *)

\* A row is inserted after its visit began, and is only counted for an account created since; what
\* is still to be written names an account that exists, created after the visit began if it says so.
RowsAreDated ==
  /\ \A v \in Visits : Begun(v) => before[v] \subseteq comptes
  /\ \A v \in Visits : Known(v) =>
       /\ Begun(v) /\ before[v] \subseteq row[v].avant
       /\ row[v].cree => \E a \in comptes : a \notin before[v]
  /\ \A w \in ecritures :
       /\ Begun(w.v)
       /\ w.quoi = "lien" => w.compte \in comptes /\ (w.flag => w.compte \notin before[w.v])

\* The link that was noted is still to be written, was lost, or the row knows whether its account is new.
LinksAreDated ==
  \A v \in Visits : <<v, "lien">> \in ecrites =>
    /\ lien[v] \in comptes
    /\ \/ \E w \in ecritures : w.v = v /\ w.quoi = "lien" /\ w.compte = lien[v]
       \/ <<v, "lien">> \in ratees
       \/ Known(v) /\ (lien[v] \in row[v].avant \/ row[v].cree)

JournalInv == RowsAreDated /\ LinksAreDated /\ NotedIsWritten

\* A statement keeps what other statements wrote, and adds its own.
LEMMA UpdatedKeeps ==
  ASSUME NEW r \in Row, NEW w \in Statement
  PROVE  /\ Updated(r, w).avant = r.avant /\ r.steps \subseteq Updated(r, w).steps
         /\ r.cree => Updated(r, w).cree
         /\ r.compte # None => Updated(r, w).compte # None
         /\ Updated(r, w).cree => r.cree \/ (w.quoi = "lien" /\ w.compte \notin r.avant)
         /\ w.quoi = "lien" => /\ w.compte \in r.avant \/ Updated(r, w).cree
                               /\ w.compte # None => Updated(r, w).compte # None
         /\ w.quoi \in Steps => w.quoi \in Updated(r, w).steps
  <1>1. \A b, c, s : /\ [r EXCEPT !.compte = c, !.cree = b].avant = r.avant
                     /\ [r EXCEPT !.compte = c, !.cree = b].steps = r.steps
                     /\ [r EXCEPT !.compte = c, !.cree = b].compte = c
                     /\ [r EXCEPT !.compte = c, !.cree = b].cree = b
                     /\ [r EXCEPT !.compte = c, !.steps = s].avant = r.avant
                     /\ [r EXCEPT !.compte = c, !.steps = s].steps = s
                     /\ [r EXCEPT !.compte = c, !.steps = s].compte = c
                     /\ [r EXCEPT !.compte = c, !.steps = s].cree = r.cree
    BY DEF Row
  <1>2. r.compte # None => Linked(r, w) # None
    BY DEF Linked
  <1>3. w.compte # None => Linked(r, w) # None
    BY DEF Linked
  <1>4. "lien" \notin Steps /\ "visite" \notin Steps /\ w.quoi \in Quoi
    BY FunnelAssumption DEF FunnelAssumption, Statement
  <1>5. CASE w.quoi = "visite"
    BY <1>4, <1>5 DEF Updated
  <1>6. CASE w.quoi = "lien"
    <2>1. Updated(r, w) = [r EXCEPT !.compte = Linked(r, w), !.cree = (r.cree \/ w.compte \notin r.avant)]
      BY <1>6 DEF Updated
    <2>2. /\ Updated(r, w).avant = r.avant /\ Updated(r, w).steps = r.steps
          /\ Updated(r, w).compte = Linked(r, w)
          /\ Updated(r, w).cree <=> (r.cree \/ w.compte \notin r.avant)
      BY <2>1 DEF Row
    <2> QED BY <1>2, <1>3, <1>4, <1>6, <2>2
  <1>7. CASE w.quoi \in Steps
    <2>1. Updated(r, w) = [r EXCEPT !.compte = Linked(r, w), !.steps = r.steps \union {w.quoi}]
      BY <1>4, <1>7 DEF Updated
    <2>2. /\ Updated(r, w).avant = r.avant /\ Updated(r, w).steps = r.steps \union {w.quoi}
          /\ Updated(r, w).compte = Linked(r, w) /\ Updated(r, w).cree = r.cree
      BY <2>1 DEF Row
    <2> QED BY <1>2, <1>3, <1>4, <1>7, <2>2
  <1> QED BY <1>4, <1>5, <1>6, <1>7 DEF Quoi

\* A call notes a statement of a visit that has begun.
LEMMA NotedJournal ==
  ASSUME FunnelTyped, JournalInv, NEW w \in Statement, Begun(w.v), Noter(w),
         UNCHANGED <<row, before, ratees>>, comptes \subseteq comptes',
         w.quoi = "lien" =>
           /\ w.compte \in comptes' /\ (w.flag => w.compte \notin before[w.v])
           /\ lien' = IF <<w.v, "lien">> \in ecrites THEN lien ELSE [lien EXCEPT ![w.v] = w.compte],
         w.quoi # "lien" => lien' = lien
  PROVE  JournalInv'
  <1>1. /\ ecrites \subseteq ecrites' /\ ecritures \subseteq ecritures' /\ ecritures' \subseteq ecritures \union {w}
        /\ \A p \in ecrites' : p \in ecrites \/ (p = <<w.v, w.quoi>> /\ w \in ecritures' /\ p \notin ecrites)
    BY DEF Noter
  <1>2. RowsAreDated'
    BY <1>1 DEF JournalInv, RowsAreDated, Begun, Known
  <1>3. \A v \in Visits : <<v, "lien">> \in ecrites => lien'[v] = lien[v]
    BY DEF FunnelTyped
  <1>4. <<w.v, "lien">> \notin ecrites /\ w.quoi = "lien" => lien'[w.v] = w.compte
    BY DEF FunnelTyped, Statement
  <1>5. LinksAreDated'
    <2> SUFFICES ASSUME NEW v \in Visits, <<v, "lien">> \in ecrites'
                 PROVE  /\ lien'[v] \in comptes'
                        /\ \/ \E x \in ecritures' : x.v = v /\ x.quoi = "lien" /\ x.compte = lien'[v]
                           \/ <<v, "lien">> \in ratees'
                           \/ Known(v)' /\ (lien'[v] \in row'[v].avant \/ row'[v].cree)
      BY DEF LinksAreDated
    <2>1. CASE <<v, "lien">> \in ecrites
      BY <1>1, <1>3, <2>1 DEF JournalInv, LinksAreDated, Known
    <2>2. CASE <<v, "lien">> \notin ecrites
      <3>1. v = w.v /\ w.quoi = "lien" /\ w \in ecritures'
        BY <1>1, <2>2
      <3> QED BY <1>4, <2>2, <3>1
    <2> QED BY <2>1, <2>2
  <1>6. NotedIsWritten'
    <2> SUFFICES ASSUME NEW p \in ecrites'
                 PROVE  \/ Known(p[1])' /\ (p[2] \in Steps => p[2] \in row'[p[1]].steps)
                                        /\ (p[2] = "lien" => row'[p[1]].compte # None)
                        \/ \E x \in ecritures' : <<x.v, x.quoi>> = p
                        \/ p \in ratees'
      BY DEF NotedIsWritten
    <2>1. CASE p \in ecrites
      BY <1>1, <2>1 DEF JournalInv, NotedIsWritten, Known
    <2>2. CASE p \notin ecrites
      BY <1>1, <2>2
    <2> QED BY <2>1, <2>2
  <1> QED BY <1>2, <1>5, <1>6 DEF JournalInv

\* A statement is written.
LEMMA WrittenJournal ==
  ASSUME FunnelTyped, JournalInv, NEW w \in ecritures, Ecrire(w)
  PROVE  JournalInv'
  <1>1. w \in Statement /\ w.v \in Visits /\ w.quoi \in Quoi /\ Begun(w.v)
    BY DEF FunnelTyped, FunnelTypeOK, Statement, JournalInv, RowsAreDated
  <1>2. \A v \in Visits : row[v] \in Row \union {None}
    BY DEF FunnelTyped, FunnelTypeOK
  <1>3. New(w) \in Row /\ \A r \in Row : Updated(r, w) \in Row
    BY <1>1, RowsTyped DEF FunnelTyped, FunnelTypeOK
  <1>4. /\ UNCHANGED <<comptes, ecrites, lien, before, ratees>> /\ ecritures' = ecritures \ {w}
        /\ row' = [row EXCEPT ![w.v] = IF Known(w.v) THEN Updated(row[w.v], w) ELSE New(w)]
    BY DEF Ecrire, Written
  <1>5. /\ \A v \in Visits \ {w.v} : row'[v] = row[v]
        /\ row'[w.v] = IF Known(w.v) THEN Updated(row[w.v], w) ELSE New(w)
    BY <1>1, <1>4 DEF FunnelTyped, FunnelTypeOK
  <1>6. Known(w.v)' /\ \A v \in Visits : Known(v) => Known(v)'
    BY <1>1, <1>2, <1>3, <1>5, FunnelAssumption DEF FunnelAssumption, Known
  <1>7. w.quoi = "lien" => w.compte \in comptes /\ w.compte # None /\ (w.flag => w.compte \notin before[w.v])
    BY FunnelAssumption DEF FunnelAssumption, JournalInv, RowsAreDated, FunnelTyped, FunnelTypeOK
  <1>8. /\ New(w).avant = comptes /\ New(w).steps = {w.quoi} \intersect Steps /\ New(w).compte = w.compte
        /\ New(w).cree <=> (w.quoi = "lien" /\ w.flag)
    BY DEF New
  \* The row was there, and keeps what it has; or it is new.
  <1>9. \A v \in Visits : Known(v) =>
          /\ row'[v].avant = row[v].avant /\ row[v].steps \subseteq row'[v].steps
          /\ row[v].cree => row'[v].cree
          /\ row[v].compte # None => row'[v].compte # None
          /\ row'[v].cree => row[v].cree \/ (v = w.v /\ w.quoi = "lien" /\ w.compte \notin row[v].avant)
    BY <1>1, <1>2, <1>5, UpdatedKeeps DEF Known
  <1>10. /\ w.quoi = "lien" => (w.compte \in row'[w.v].avant \/ row'[w.v].cree) /\ row'[w.v].compte # None
         /\ w.quoi \in Steps => w.quoi \in row'[w.v].steps
    <2>1. CASE Known(w.v)
      <3>1. row[w.v] \in Row /\ row'[w.v] = Updated(row[w.v], w)
        BY <1>1, <1>2, <1>5, <2>1 DEF Known
      <3>2. row'[w.v].avant = row[w.v].avant
        BY <1>1, <1>9, <2>1
      <3> QED BY <1>1, <1>7, <3>1, <3>2, UpdatedKeeps
    <2>2. CASE ~Known(w.v)
      BY <1>5, <1>7, <1>8, <2>2
    <2> QED BY <2>1, <2>2
  <1>11. RowsAreDated'
    <2>1. ASSUME NEW v \in Visits, Known(v)'
          PROVE  /\ Begun(v)' /\ before'[v] \subseteq row'[v].avant
                 /\ row'[v].cree => \E a \in comptes' : a \notin before'[v]
      <3>1. CASE Known(v)
        <4>1. Begun(v) /\ before[v] \subseteq row[v].avant /\ (row[v].cree => \E a \in comptes : a \notin before[v])
          BY <3>1 DEF JournalInv, RowsAreDated
        <4> QED BY <1>4, <1>7, <1>9, <3>1, <4>1 DEF Begun
      <3>2. CASE ~Known(v)
        <4>1. v = w.v /\ row'[v] = New(w)
          BY <1>5, <2>1, <3>2 DEF Known
        <4>2. before[v] \subseteq comptes
          BY <1>1, <4>1 DEF JournalInv, RowsAreDated
        <4> QED BY <1>1, <1>4, <1>7, <1>8, <4>1, <4>2 DEF Begun
      <3> QED BY <3>1, <3>2
    <2> QED BY <1>4, <2>1 DEF JournalInv, RowsAreDated, Begun
  <1>12. LinksAreDated'
    <2> SUFFICES ASSUME NEW v \in Visits, <<v, "lien">> \in ecrites
                 PROVE  /\ lien[v] \in comptes
                        /\ \/ \E x \in ecritures' : x.v = v /\ x.quoi = "lien" /\ x.compte = lien[v]
                           \/ <<v, "lien">> \in ratees
                           \/ Known(v)' /\ (lien[v] \in row'[v].avant \/ row'[v].cree)
      BY <1>4 DEF LinksAreDated
    <2>1. /\ lien[v] \in comptes
          /\ \/ \E x \in ecritures : x.v = v /\ x.quoi = "lien" /\ x.compte = lien[v]
             \/ <<v, "lien">> \in ratees
             \/ Known(v) /\ (lien[v] \in row[v].avant \/ row[v].cree)
      BY DEF JournalInv, LinksAreDated
    <2>2. CASE Known(v) /\ (lien[v] \in row[v].avant \/ row[v].cree)
      BY <1>6, <1>9, <2>1, <2>2
    <2>3. CASE w.v = v /\ w.quoi = "lien" /\ w.compte = lien[v]
      BY <1>6, <1>10, <2>1, <2>3
    <2> QED BY <1>4, <2>1, <2>2, <2>3
  <1>13. NotedIsWritten'
    <2> SUFFICES ASSUME NEW p \in ecrites
                 PROVE  \/ Known(p[1])' /\ (p[2] \in Steps => p[2] \in row'[p[1]].steps)
                                        /\ (p[2] = "lien" => row'[p[1]].compte # None)
                        \/ \E x \in ecritures' : <<x.v, x.quoi>> = p
                        \/ p \in ratees
      BY <1>4 DEF NotedIsWritten
    <2>0. p[1] \in Visits
      BY DEF FunnelTyped, FunnelTypeOK
    <2>1. \/ Known(p[1]) /\ (p[2] \in Steps => p[2] \in row[p[1]].steps)
                         /\ (p[2] = "lien" => row[p[1]].compte # None)
          \/ \E x \in ecritures : <<x.v, x.quoi>> = p
          \/ p \in ratees
      BY DEF JournalInv, NotedIsWritten
    <2>2. CASE Known(p[1]) /\ (p[2] \in Steps => p[2] \in row[p[1]].steps)
                           /\ (p[2] = "lien" => row[p[1]].compte # None)
      BY <1>6, <1>9, <2>0, <2>2
    <2>3. CASE <<w.v, w.quoi>> = p
      BY <1>6, <1>10, <2>3
    <2> QED BY <1>4, <2>1, <2>2, <2>3
  <1> QED BY <1>11, <1>12, <1>13 DEF JournalInv
\* Every step keeps the journal true.
LEMMA JournalStep ==
  ASSUME VisitorTyped, JournalInv, [Next]_vars
  PROVE  JournalInv'
  <1> USE DEF VisitorTyped
  <1>1. ASSUME NEW v \in Visits, Balise(v) PROVE JournalInv'
    <2> DEFINE w == [v |-> v, quoi |-> "visite", compte |-> None, flag |-> FALSE]
    <2>1. w \in Statement /\ w.v = v /\ w.quoi # "lien"
      BY DEF Statement, Quoi
    <2>2. Noter(w) /\ Begun(v) /\ UNCHANGED <<row, before, ratees>> /\ comptes' = comptes /\ lien' = lien
      BY <1>1 DEF Balise, Call, Rest
    <2> HIDE DEF w
    <2> QED BY <2>1, <2>2, NotedJournal
  <1>2. ASSUME NEW v \in Visits, NEW s \in Steps, NEW a \in Accounts \union {None}, Marquer(v, s, a)
        PROVE  JournalInv'
    <2> DEFINE w == [v |-> v, quoi |-> s, compte |-> a, flag |-> TRUE]
    <2>1. w \in Statement /\ w.v = v /\ w.quoi # "lien"
      BY FunnelAssumption DEF FunnelAssumption, Statement, Quoi
    <2>2. Noter(w) /\ Begun(v) /\ UNCHANGED <<row, before, ratees>> /\ comptes' = comptes /\ lien' = lien
      BY <1>2 DEF Marquer, Call, Rest
    <2> HIDE DEF w
    <2> QED BY <2>1, <2>2, NotedJournal
  <1>3. ASSUME NEW v \in Visits, NEW a \in Accounts, AutreAppel(v, a) PROVE JournalInv'
    <2>1. comptes \subseteq comptes' /\ UNCHANGED <<row, before, ratees, ecrites, ecritures, lien>>
      BY <1>3 DEF AutreAppel, Rest
    <2> QED BY <2>1 DEF JournalInv, RowsAreDated, LinksAreDated, NotedIsWritten, Begun, Known
  <1>4. ASSUME NEW v \in Visits, NEW a \in Accounts, Rattacher(v, a) PROVE JournalInv'
    <2> DEFINE w == [v |-> v, quoi |-> "lien", compte |-> a, flag |-> a \notin comptes]
    <2>1. w \in Statement /\ w.v = v /\ w.quoi = "lien" /\ w.compte = a /\ (w.flag => a \notin comptes)
      BY DEF Statement, Quoi
    <2>2. /\ Noter(w) /\ Begun(v) /\ UNCHANGED <<row, before, ratees>>
          /\ comptes' = comptes \union {a}
          /\ lien' = IF <<v, "lien">> \in ecrites THEN lien ELSE [lien EXCEPT ![v] = a]
      BY <1>4 DEF Rattacher, Call, Rest
    <2>3. before[v] \subseteq comptes
      BY <2>2 DEF JournalInv, RowsAreDated
    <2> HIDE DEF w
    <2> QED BY <2>1, <2>2, <2>3, NotedJournal
  <1>5. ASSUME NEW w \in ecritures, EcrireEchoue(w) PROVE JournalInv'
    <2>1. /\ UNCHANGED <<comptes, row, ecrites, lien, before>> /\ ecritures' = ecritures \ {w}
          /\ ratees' = ratees \union {<<w.v, w.quoi>>}
      BY <1>5 DEF EcrireEchoue
    <2>2. RowsAreDated'
      BY <2>1 DEF JournalInv, RowsAreDated, Begun, Known
    <2>3. LinksAreDated'
      BY <2>1 DEF JournalInv, LinksAreDated, Known
    <2>4. NotedIsWritten'
      BY <2>1 DEF JournalInv, NotedIsWritten, Known
    <2> QED BY <2>2, <2>3, <2>4 DEF JournalInv
  <1>6. CASE Counting
    BY <1>1, <1>2, <1>3, <1>4, <1>5, <1>6, WrittenJournal DEF Counting, FunnelNext
  <1>7. ASSUME UNCHANGED funnelVars PROVE JournalInv'
    BY <1>7 DEF funnelVars, JournalInv, RowsAreDated, LinksAreDated, NotedIsWritten, Begun, Known
  <1>8. ASSUME NEW t \in Tabs, OpenTab(t) PROVE JournalInv'
    <2>1. PICK v \in Visits : ~Begun(v) /\ Begin(v)
      BY <1>8 DEF OpenTab
    <2>2. /\ UNCHANGED <<comptes, row, ecrites, ecritures, lien, ratees>>
          /\ before' = [before EXCEPT ![v] = comptes]
      BY <1>8, <2>1 DEF OpenTab, Begin
    <2>3. comptes # None /\ before \in [Visits -> (SUBSET Accounts) \union {None}]
      BY FunnelAssumption DEF FunnelAssumption, FunnelTyped, FunnelTypeOK
    <2>4. before'[v] = comptes /\ \A x \in Visits \ {v} : before'[x] = before[x]
      BY <2>2, <2>3
    <2>5. ~Known(v) /\ \A w \in ecritures : w.v # v
      BY <2>1 DEF JournalInv, RowsAreDated
    <2>6. \A w \in ecritures : w.v \in Visits
      BY DEF FunnelTyped, FunnelTypeOK, Statement
    <2>7. RowsAreDated'
      BY <2>2, <2>3, <2>4, <2>5, <2>6 DEF JournalInv, RowsAreDated, Begun, Known
    <2> QED BY <2>2, <2>7 DEF JournalInv, LinksAreDated, NotedIsWritten, Known
  <1>9. CASE Redemarrer /\ Forget /\ Lose /\ UNCHANGED <<comptes, row, calls, lien, before>>
    <2>1. ecrites' = {} /\ ecritures' = {} /\ UNCHANGED <<comptes, row, before>>
      BY <1>9 DEF Forget, Lose
    <2> QED BY <2>1 DEF JournalInv, RowsAreDated, LinksAreDated, NotedIsWritten, Begun, Known
  <1>10. CASE Incidents
    BY <1>7, <1>9, <1>10 DEF Incidents
  <1>11. CASE Recording
    BY <1>7, <1>11 DEF Recording, Effet, Demarrer, DemarrerEchoue, Tic, Emettre, Reponse, Perdre, Server
  <1>12. CASE Receiving \/ UNCHANGED vars
    BY <1>7, <1>12 DEF Receiving, vars
  <1>13. ASSUME NEW t \in Tabs, Reload(t) \/ Choisir(t) \/ Naviguer(t) \/ \E u \in Tabs : Duplicate(t, u)
         PROVE  JournalInv'
    BY <1>7, <1>13 DEF Reload, Choisir, Naviguer, Duplicate, Server
  <1> QED BY <1>6, <1>8, <1>10, <1>11, <1>12, <1>13 DEF Next, Visiting

\* A visit is counted as a sign-up when its link is to an account created since its row was inserted, in
\* whatever order its calls are made and written, and only if an account was created since it began; and
\* what the process takes as written is (funnel.service.ts, rattacher, dejaEcrit).
THEOREM JournalStaysTrue == Spec => []JournalIsTrue
  <1>1. Init => JournalInv
    BY DEF Init, FunnelInit, JournalInv, RowsAreDated, LinksAreDated, NotedIsWritten, Begun, Known
  <1>2. VisitorTyped /\ JournalInv /\ [Next]_vars => VisitorTyped' /\ JournalInv'
    BY TypedStep, JournalStep
  <1>3. JournalInv => JournalIsTrue
    <2> SUFFICES ASSUME JournalInv, NEW v \in Visits, Known(v)
                 PROVE  /\ (lien[v] \notin row[v].avant /\ <<v, "lien">> \in ecrites
                            /\ (\A w \in ecritures : <<w.v, w.quoi>> # <<v, "lien">>) /\ <<v, "lien">> \notin ratees)
                             => row[v].cree
                        /\ row[v].cree => \E a \in comptes : a \notin before[v]
      BY DEF JournalIsTrue, SignupIsDated, JournalInv
    <2> QED BY DEF JournalInv, RowsAreDated, LinksAreDated
  <1> QED BY TypedInit, <1>1, <1>2, <1>3, PTL DEF Spec
----------------------------------------------------------------------------
(* The caps. *)

\* Batches whose totals were read and that are not inserted; those the totals do not count yet;
\* those that are about to be inserted; all those under way.
Pre == {"sum", "summed", "insert"}
Inserted(m) == m.st = "count" /\ m.added
Pending == {m \in net : m.st \in Pre}
PendingOf(v) == {m \in net : m.v = v /\ m.st \in Pre}
Uncounted == {m \in net : m.st \in Pre \/ Inserted(m)}
UncountedOf(v) == {m \in net : m.v = v /\ (m.st \in Pre \/ Inserted(m))}
Inserting == {m \in net : m.st = "insert"}
Working == {m \in net : m.st \in Pre \union {"count"}}

\* One batch is never an overlap.
Slack(S) == IF S = {} THEN 0 ELSE 1

OverlapIsCounted == Cardinality(Working) <= 1 + crossed

VisitCounted ==
  \A v \in Visits : totaux[v] # None =>
    Cardinality(Of(v)) + Cardinality(PendingOf(v)) <= totaux[v] + crossed + Slack(UncountedOf(v))

BatchCounted ==
  \A m \in net : m.st \in {"summed", "insert"} \/ Inserted(m) =>
    Cardinality(Of(m.v)) + Cardinality(PendingOf(m.v)) <= m.deja + 1 + crossed

Checked == \A m \in net : m.st = "insert" => m.deja + 1 <= MAX_SESSION /\ 1 <= MAX_DAY

\* The total of the day, and what it is once midnight has passed: nothing of the day is there.
DayCounted ==
  jour = today => Cardinality(Today) + Cardinality(Pending) <= totalDuJour + crossed + Slack(Uncounted)
DayForgotten ==
  jour # today => Cardinality(Today) + Cardinality(Pending) <= crossed + Slack(Pending)
DayChecked == jour = today => Cardinality(Today) + Cardinality(Inserting) <= MAX_DAY + crossed
PastDays == jour <= today /\ \A c \in chunks : c.day <= today

CapsInv ==
  /\ OverlapIsCounted /\ VisitCounted /\ BatchCounted /\ Checked
  /\ DayCounted /\ DayForgotten /\ DayChecked /\ PastDays /\ CapsBoundedByOverlap

\* After a step too, the chunks of a visit and of the day are finitely many.
LEMMA ChunksFiniteAfter ==
  ASSUME ReplayTyped'
  PROVE  /\ \A v : IsFiniteSet(Of(v)') /\ Cardinality(Of(v)') \in Nat
         /\ IsFiniteSet(Today') /\ Cardinality(Today') \in Nat
  <1>1. \A v : Of(v)' \subseteq chunks'
    BY DEF Of
  <1>2. Today' \subseteq chunks'
    BY DEF Today
  <1> QED BY <1>1, <1>2, FS_Subset, FS_CardinalityType DEF ReplayTyped

\* How many there are of each.
LEMMA Counts ==
  ASSUME ReplayTyped
  PROVE  /\ Cardinality(Pending) \in Nat /\ Cardinality(Inserting) \in Nat /\ Cardinality(Working) \in Nat
         /\ Cardinality(Today) \in Nat
         /\ \A v : Cardinality(PendingOf(v)) \in Nat /\ Cardinality(Of(v)) \in Nat
         /\ Cardinality(Inserting) <= Cardinality(Pending) /\ Cardinality(Pending) <= Cardinality(Working)
         /\ \A v : Cardinality(PendingOf(v)) <= Cardinality(Pending)
         /\ \A m \in net :
              /\ m.st \in Pre => 1 <= Cardinality(PendingOf(m.v)) /\ 1 <= Cardinality(Pending)
              /\ m.st = "insert" => 1 <= Cardinality(Inserting)
         /\ Working = {} => /\ Cardinality(Working) = 0 /\ Cardinality(Pending) = 0 /\ Cardinality(Inserting) = 0
                            /\ \A v : Cardinality(PendingOf(v)) = 0 /\ Slack(UncountedOf(v)) = 0
                            /\ Slack(Uncounted) = 0 /\ Slack(Pending) = 0
         /\ \A S : Slack(S) \in {0, 1}
         /\ Pending = {} => Cardinality(Pending) = 0
         /\ Inserting = {} => Cardinality(Inserting) = 0
         /\ Slack(Pending) <= Slack(Uncounted)
  <1>1. IsFiniteSet(net)
    BY DEF ReplayTyped
  <1>2. \A S \in SUBSET net : IsFiniteSet(S) /\ Cardinality(S) \in Nat
    BY <1>1, FS_Subset, FS_CardinalityType
  <1>3. \A S, T \in SUBSET net : S \subseteq T => Cardinality(S) <= Cardinality(T)
    BY <1>2, FS_Subset
  <1>4. \A S \in SUBSET net : (Cardinality(S) = 0 <=> S = {}) /\ \A m \in S : 1 <= Cardinality(S)
    <2>1. \A S \in SUBSET net : Cardinality(S) = 0 <=> S = {}
      BY <1>2, FS_EmptySet
    <2> QED BY <1>2, <2>1
  <1>5. /\ Pending \in SUBSET net /\ Inserting \in SUBSET net /\ Working \in SUBSET net
        /\ Inserting \subseteq Pending /\ Pending \subseteq Working
        /\ \A v : PendingOf(v) \in SUBSET net /\ PendingOf(v) \subseteq Pending
    BY DEF Pending, Inserting, Working, PendingOf, Pre
  <1>6. \A m \in net : /\ m.st \in Pre => m \in PendingOf(m.v) /\ m \in Pending
                       /\ m.st = "insert" => m \in Inserting
    BY DEF PendingOf, Pending, Inserting
  <1>7. /\ Uncounted \subseteq Working /\ Pending \subseteq Uncounted
        /\ \A v : UncountedOf(v) \subseteq Working
    BY DEF Uncounted, UncountedOf, Working, Inserted, Pending
  <1>8. \A S : Slack(S) \in {0, 1} /\ (Slack(S) = 0 <=> S = {})
    BY DEF Slack
  <1>9. \A m \in net : /\ m.st \in Pre => 1 <= Cardinality(PendingOf(m.v)) /\ 1 <= Cardinality(Pending)
                       /\ m.st = "insert" => 1 <= Cardinality(Inserting)
    BY <1>4, <1>5, <1>6
  <1>10. Working = {} => /\ Cardinality(Working) = 0 /\ Cardinality(Pending) = 0 /\ Cardinality(Inserting) = 0
                         /\ \A v : Cardinality(PendingOf(v)) = 0 /\ Slack(UncountedOf(v)) = 0
                         /\ Slack(Uncounted) = 0 /\ Slack(Pending) = 0
    <2> SUFFICES ASSUME Working = {}
                 PROVE  /\ Cardinality(Working) = 0 /\ Cardinality(Pending) = 0 /\ Cardinality(Inserting) = 0
                        /\ \A v : Cardinality(PendingOf(v)) = 0 /\ Slack(UncountedOf(v)) = 0
                        /\ Slack(Uncounted) = 0 /\ Slack(Pending) = 0
      OBVIOUS
    <2>1. /\ Pending = {} /\ Inserting = {} /\ Uncounted = {}
          /\ \A v : PendingOf(v) = {} /\ UncountedOf(v) = {}
      BY <1>5, <1>7
    <2> QED BY <1>4, <1>5, <1>8, <2>1
  <1>11. Slack(Pending) <= Slack(Uncounted)
    <2>1. Uncounted = {} => Pending = {}
      BY <1>7
    <2> QED BY <2>1 DEF Slack
  <1>12. Cardinality(Today) \in Nat /\ \A v : Cardinality(Of(v)) \in Nat
    BY ChunksFinite
  <1> QED BY <1>2, <1>3, <1>4, <1>5, <1>8, <1>9, <1>10, <1>11, <1>12

\* What a batch that moves on changes in them.
LEMMA MoveCounts ==
  ASSUME ReplayTyped, NEW m \in net, NEW n, Becomes(m, n), n.v = m.v
  PROVE  /\ Cardinality(Pending') <= Cardinality(Pending) + 1
         /\ m.st \in Pre \/ n.st \notin Pre => Cardinality(Pending') <= Cardinality(Pending)
         /\ m.st \in Pre /\ n.st \notin Pre => Cardinality(Pending') <= Cardinality(Pending) - 1
         /\ Cardinality(PendingOf(m.v)') <= Cardinality(PendingOf(m.v)) + 1
         /\ m.st \in Pre \/ n.st \notin Pre => Cardinality(PendingOf(m.v)') <= Cardinality(PendingOf(m.v))
         /\ m.st \in Pre /\ n.st \notin Pre => Cardinality(PendingOf(m.v)') <= Cardinality(PendingOf(m.v)) - 1
         /\ Cardinality(Working') <= Cardinality(Working) + 1
         /\ m \in Working \/ n.st \notin Pre \union {"count"} => Cardinality(Working') <= Cardinality(Working)
         /\ n.st # "insert" => Cardinality(Inserting') <= Cardinality(Inserting)
         /\ m.st = "insert" /\ n.st # "insert" => Cardinality(Inserting') <= Cardinality(Inserting) - 1
         /\ \A v : v # m.v => PendingOf(v)' = PendingOf(v) /\ UncountedOf(v)' = UncountedOf(v)
         /\ Cardinality(Pending') \in Nat /\ Cardinality(PendingOf(m.v)') \in Nat
         /\ Cardinality(Working') \in Nat /\ Cardinality(Inserting') \in Nat
         /\ Cardinality(Inserting') <= Cardinality(Pending')
  <1> USE DEF Becomes
  <1>1. \A S \in SUBSET net : IsFiniteSet(S)
    BY FS_Subset DEF ReplayTyped
  <1>2. Pending' \subseteq (Pending \ {m}) \union {n} /\ Pending \in SUBSET net
        /\ (m.st \in Pre => m \in Pending) /\ (n.st \notin Pre => n \notin Pending')
    BY DEF Pending
  <1>3. PendingOf(m.v)' \subseteq (PendingOf(m.v) \ {m}) \union {n} /\ PendingOf(m.v) \in SUBSET net
        /\ (m.st \in Pre => m \in PendingOf(m.v)) /\ (n.st \notin Pre => n \notin PendingOf(m.v)')
    BY DEF PendingOf
  <1>4. Working' \subseteq (Working \ {m}) \union {n} /\ Working \in SUBSET net
        /\ (n.st \notin Pre \union {"count"} => n \notin Working')
    BY DEF Working
  <1>5. Inserting' \subseteq (Inserting \ {m}) \union {n} /\ Inserting \in SUBSET net
        /\ (m.st = "insert" => m \in Inserting) /\ (n.st # "insert" => n \notin Inserting')
    BY DEF Inserting
  <1>6. \A v : v # m.v => PendingOf(v)' = PendingOf(v) /\ UncountedOf(v)' = UncountedOf(v)
    BY DEF PendingOf, UncountedOf, Inserted
  <1>7. /\ Cardinality(Pending') \in Nat /\ Cardinality(Pending') <= Cardinality(Pending) + 1
        /\ m.st \in Pre \/ n.st \notin Pre => Cardinality(Pending') <= Cardinality(Pending)
        /\ m.st \in Pre /\ n.st \notin Pre => Cardinality(Pending') <= Cardinality(Pending) - 1
    BY <1>1, <1>2, Exchanged
  <1>8. /\ Cardinality(PendingOf(m.v)') \in Nat /\ Cardinality(PendingOf(m.v)') <= Cardinality(PendingOf(m.v)) + 1
        /\ m.st \in Pre \/ n.st \notin Pre => Cardinality(PendingOf(m.v)') <= Cardinality(PendingOf(m.v))
        /\ m.st \in Pre /\ n.st \notin Pre => Cardinality(PendingOf(m.v)') <= Cardinality(PendingOf(m.v)) - 1
    BY <1>1, <1>3, Exchanged
  <1>9. /\ Cardinality(Working') \in Nat /\ Cardinality(Working') <= Cardinality(Working) + 1
        /\ m \in Working \/ n.st \notin Pre \union {"count"} => Cardinality(Working') <= Cardinality(Working)
    BY <1>1, <1>4, Exchanged
  <1>10. /\ Cardinality(Inserting') \in Nat
         /\ n.st # "insert" => Cardinality(Inserting') <= Cardinality(Inserting)
         /\ m.st = "insert" /\ n.st # "insert" => Cardinality(Inserting') <= Cardinality(Inserting) - 1
    BY <1>1, <1>5, Exchanged
  <1>11. Cardinality(Inserting') <= Cardinality(Pending')
    <2>1. IsFiniteSet(Pending')
      BY <1>1, <1>2, Exchanged
    <2>2. Inserting' \subseteq Pending'
      BY DEF Inserting, Pending, Pre
    <2> QED BY <2>1, <2>2, FS_Subset
  <1> QED BY <1>6, <1>7, <1>8, <1>9, <1>10, <1>11

\* What is left uncounted when a batch moves on.
LEMMA MoveSlack ==
  ASSUME NEW m \in net, NEW n, Becomes(m, n), n.v = m.v
  PROVE  /\ n.st \in Pre \/ Inserted(n) => Slack(Uncounted') = 1 /\ Slack(UncountedOf(m.v)') = 1
         /\ n.st \in Pre => Slack(Pending') = 1
         /\ ~(m.st \in Pre \/ Inserted(m)) =>
              Slack(Uncounted) <= Slack(Uncounted') /\ Slack(UncountedOf(m.v)) <= Slack(UncountedOf(m.v)')
         /\ m.st \notin Pre => Slack(Pending) <= Slack(Pending')
  <1> USE DEF Becomes
  <1>1. n.st \in Pre \/ Inserted(n) => n \in Uncounted' /\ n \in UncountedOf(m.v)'
    BY DEF Uncounted, UncountedOf, Inserted
  <1>2. n.st \in Pre => n \in Pending'
    BY DEF Pending
  <1>3. ~(m.st \in Pre \/ Inserted(m)) =>
          Uncounted \subseteq Uncounted' /\ UncountedOf(m.v) \subseteq UncountedOf(m.v)'
    BY DEF Uncounted, UncountedOf, Inserted
  <1>4. m.st \notin Pre => Pending \subseteq Pending'
    BY DEF Pending
  <1>5. \A S, T : S \subseteq T => Slack(S) <= Slack(T)
    BY DEF Slack
  <1>6. \A S : \A x \in S : Slack(S) = 1
    BY DEF Slack
  <1> QED BY <1>1, <1>2, <1>3, <1>4, <1>5, <1>6

\* A visit and its batches, when one of them moves on.
LEMMA VisitMoves ==
  ASSUME ReplayTyped, ReplayTyped', CapsInv, NEW m \in net, NEW n \in Lot, n.v = m.v, Becomes(m, n),
         crossed <= crossed',
         \A v \in Visits : v # m.v => Of(v)' = Of(v) /\ totaux'[v] = totaux[v],
         totaux'[m.v] # None =>
           Cardinality(Of(m.v)') + Cardinality(PendingOf(m.v)') <= totaux'[m.v] + crossed' + Slack(UncountedOf(m.v)'),
         n.st \in {"summed", "insert"} \/ Inserted(n) =>
           Cardinality(Of(m.v)') + Cardinality(PendingOf(m.v)') <= n.deja + 1 + crossed',
         \/ ~UnderWay(m)
         \/ Cardinality(Of(m.v)') + Cardinality(PendingOf(m.v)') - crossed'
              <= Cardinality(Of(m.v)) + Cardinality(PendingOf(m.v)) - crossed,
         n.st = "insert" => n.deja + 1 <= MAX_SESSION /\ 1 <= MAX_DAY,
         Cardinality(Of(m.v)') <= MAX_SESSION + crossed'
  PROVE  /\ VisitCounted' /\ BatchCounted' /\ Checked'
         /\ \A v \in Visits : Cardinality(Of(v)') <= MAX_SESSION + crossed'
  <1>1. crossed \in Nat /\ crossed' \in Nat /\ MAX_SESSION \in Nat
        /\ \A v \in Visits : totaux[v] \in Nat \union {None}
    BY ReplayAssumption DEF ReplayAssumption, ReplayTyped, ReplayTypeOK
  <1>2. \A v : /\ Cardinality(Of(v)) \in Nat /\ Cardinality(PendingOf(v)) \in Nat
               /\ Slack(UncountedOf(v)) \in {0, 1}
    BY Counts
  <1>3. \A v : v # m.v => PendingOf(v)' = PendingOf(v) /\ UncountedOf(v)' = UncountedOf(v)
    BY MoveCounts
  <1>4. VisitCounted'
    <2> SUFFICES ASSUME NEW v \in Visits, totaux'[v] # None
                 PROVE  Cardinality(Of(v)') + Cardinality(PendingOf(v)') <= totaux'[v] + crossed' + Slack(UncountedOf(v)')
      BY DEF VisitCounted
    <2>1. CASE v # m.v
      <3>1. Cardinality(Of(v)) + Cardinality(PendingOf(v)) <= totaux[v] + crossed + Slack(UncountedOf(v))
        BY <2>1 DEF CapsInv, VisitCounted
      <3>2. totaux[v] \in Nat /\ totaux'[v] = totaux[v] /\ Of(v)' = Of(v)
            /\ PendingOf(v)' = PendingOf(v) /\ UncountedOf(v)' = UncountedOf(v)
        BY <1>1, <1>3, <2>1
      <3> QED BY <1>1, <1>2, <3>1, <3>2
    <2> QED BY <2>1
  <1>5. BatchCounted'
    <2> SUFFICES ASSUME NEW x \in net', x.st \in {"summed", "insert"} \/ Inserted(x)
                 PROVE  Cardinality(Of(x.v)') + Cardinality(PendingOf(x.v)') <= x.deja + 1 + crossed'
      BY DEF BatchCounted, Inserted
    <2>1. CASE x # n
      <3>1. x \in net \ {m} /\ x.v \in Visits /\ x.deja \in Nat
        BY <2>1 DEF Becomes, ReplayTyped, ReplayTypeOK, Lot
      <3>2. Cardinality(Of(x.v)) + Cardinality(PendingOf(x.v)) <= x.deja + 1 + crossed
        BY <3>1 DEF CapsInv, BatchCounted
      <3>3. CASE x.v # m.v
        <4>1. Of(x.v)' = Of(x.v) /\ PendingOf(x.v)' = PendingOf(x.v)
          BY <1>3, <3>1, <3>3
        <4> QED BY <1>1, <1>2, <3>1, <3>2, <4>1
      <3>4. CASE x.v = m.v
        <4>1. UnderWay(m)
          BY <3>1 DEF UnderWay, Inserted
        <4>2. Cardinality(Of(m.v)') \in Nat /\ Cardinality(PendingOf(m.v)') \in Nat
          BY ChunksFiniteAfter, MoveCounts
        <4> QED BY <1>1, <1>2, <3>1, <3>2, <3>4, <4>1, <4>2
      <3> QED BY <3>3, <3>4
    <2> QED BY <2>1
  <1>6. Checked'
    BY DEF CapsInv, Checked, Becomes
  <1>7. \A v \in Visits : Cardinality(Of(v)') <= MAX_SESSION + crossed'
    <2> SUFFICES ASSUME NEW v \in Visits PROVE Cardinality(Of(v)') <= MAX_SESSION + crossed'
      OBVIOUS
    <2>1. CASE v # m.v
      <3>1. Cardinality(Of(v)) <= MAX_SESSION + crossed /\ Of(v)' = Of(v)
        BY <2>1 DEF CapsInv, CapsBoundedByOverlap
      <3> QED BY <1>1, <1>2, <3>1
    <2> QED BY <2>1
  <1> QED BY <1>4, <1>5, <1>6, <1>7
\* What the total of the day counts, were it read now.
LEMMA DayFacts ==
  ASSUME ReplayTyped, CapsInv
  PROVE  /\ TotalOf(today) \in Nat
         /\ Cardinality(Today) + Cardinality(Pending) <= TotalOf(today) + crossed + Slack(Uncounted)
         /\ Cardinality(Today) + Cardinality(Inserting) <= MAX_DAY + crossed
  <1>1. crossed \in Nat /\ totalDuJour \in Nat /\ MAX_DAY \in Nat
    BY ReplayAssumption DEF ReplayAssumption, ReplayTyped, ReplayTypeOK
  <1>2. /\ Cardinality(Pending) \in Nat /\ Cardinality(Inserting) \in Nat /\ Cardinality(Today) \in Nat
        /\ Cardinality(Inserting) <= Cardinality(Pending)
        /\ Slack(Uncounted) \in {0, 1} /\ Slack(Pending) \in {0, 1} /\ Slack(Pending) <= Slack(Uncounted)
        /\ Inserting = {} => Cardinality(Inserting) = 0
    BY Counts
  <1>3. CASE jour = today
    BY <1>1, <1>2, <1>3 DEF CapsInv, DayCounted, DayChecked, TotalOf
  <1>4. CASE jour # today
    <2>1. Cardinality(Today) + Cardinality(Pending) <= crossed + Slack(Pending) /\ TotalOf(today) = 0
      BY <1>4 DEF CapsInv, DayForgotten, TotalOf
    <2>2. CASE Inserting = {}
      BY <1>1, <1>2, <2>1, <2>2 DEF CapsInv, CapsBoundedByOverlap
    <2>3. CASE Inserting # {}
      <3>1. 1 <= MAX_DAY
        BY <2>3 DEF CapsInv, Checked, Inserting
      <3> QED BY <1>1, <1>2, <2>1, <3>1
    <2> QED BY <2>2, <2>3
  <1> QED BY <1>3, <1>4

\* No batch is counted, inserted or under way that was not.
LEMMA NothingCounted ==
  ASSUME ReplayTyped, ReplayTyped', CapsInv, NEW f,
         \A x \in net' : x.st \in Pre \union {"count"} =>
           \E y \in net : x = f[y] /\ y.v = x.v /\ y.st = x.st /\ y.deja = x.deja /\ y.added = x.added,
         \A y \in net : y.st \in Pre \/ Inserted(y) =>
           \E x \in net' : x.v = y.v /\ x.st = y.st /\ x.added = y.added,
         UNCHANGED <<chunks, totaux, today>>, crossed <= crossed',
         UNCHANGED <<jour, totalDuJour>> \/ (jour' = today /\ totalDuJour' = TotalOf(today))
  PROVE  CapsInv'
  <1>1. /\ crossed \in Nat /\ crossed' \in Nat /\ totalDuJour \in Nat /\ MAX_DAY \in Nat /\ MAX_SESSION \in Nat
        /\ \A v \in Visits : totaux[v] \in Nat \union {None}
        /\ \A m \in net : m.deja \in Nat /\ m.v \in Visits
    BY ReplayAssumption DEF ReplayAssumption, ReplayTyped, ReplayTypeOK, Lot
  <1>2. \A S \in SUBSET net : IsFiniteSet(S) /\ Cardinality(S) \in Nat
    BY FS_Subset, FS_CardinalityType DEF ReplayTyped
  <1>3. Cardinality(Pending') <= Cardinality(Pending) /\ Cardinality(Pending') \in Nat
        /\ Cardinality(Pending) \in Nat
    <2>1. Pending \in SUBSET net /\ \A x \in Pending' : \E y \in Pending : f[y] = x
      BY DEF Pending
    <2> QED BY <1>2, <2>1, Covered
  <1>4. Cardinality(Inserting') <= Cardinality(Inserting) /\ Cardinality(Inserting') \in Nat
        /\ Cardinality(Inserting) \in Nat
    <2>1. Inserting \in SUBSET net /\ \A x \in Inserting' : \E y \in Inserting : f[y] = x
      BY DEF Inserting, Pre
    <2> QED BY <1>2, <2>1, Covered
  <1>5. Cardinality(Working') <= Cardinality(Working) /\ Cardinality(Working') \in Nat
        /\ Cardinality(Working) \in Nat
    <2>1. Working \in SUBSET net /\ \A x \in Working' : \E y \in Working : f[y] = x
      BY DEF Working
    <2> QED BY <1>2, <2>1, Covered
  <1>6. ASSUME NEW v
        PROVE  Cardinality(PendingOf(v)') <= Cardinality(PendingOf(v)) /\ Cardinality(PendingOf(v)') \in Nat
               /\ Cardinality(PendingOf(v)) \in Nat
    <2>1. PendingOf(v) \in SUBSET net /\ \A x \in PendingOf(v)' : \E y \in PendingOf(v) : f[y] = x
      BY DEF PendingOf
    <2> QED BY <1>2, <2>1, Covered
  <1>7. \A S : Slack(S) \in {0, 1}
    BY DEF Slack
  <1>8. /\ Slack(Uncounted) <= Slack(Uncounted') /\ Slack(Pending) <= Slack(Pending')
        /\ \A v : Slack(UncountedOf(v)) <= Slack(UncountedOf(v)')
    <2>1. Uncounted' = {} => Uncounted = {}
      BY DEF Uncounted, Inserted
    <2>2. Pending' = {} => Pending = {}
      BY DEF Pending
    <2>3. \A v : UncountedOf(v)' = {} => UncountedOf(v) = {}
      BY DEF UncountedOf, Inserted
    <2> QED BY <2>1, <2>2, <2>3 DEF Slack
  <1>9. /\ Today' = Today /\ Cardinality(Today) \in Nat
        /\ \A v : Of(v)' = Of(v) /\ Cardinality(Of(v)) \in Nat
    BY ChunksFinite DEF Of, Today
  <1>10. OverlapIsCounted'
    BY <1>1, <1>5 DEF CapsInv, OverlapIsCounted
  <1>11. VisitCounted'
    <2> SUFFICES ASSUME NEW v \in Visits, totaux[v] # None
                 PROVE  Cardinality(Of(v)') + Cardinality(PendingOf(v)') <= totaux[v] + crossed' + Slack(UncountedOf(v)')
      BY DEF VisitCounted
    <2>1. Cardinality(Of(v)) + Cardinality(PendingOf(v)) <= totaux[v] + crossed + Slack(UncountedOf(v))
      BY DEF CapsInv, VisitCounted
    <2> QED BY <1>1, <1>6, <1>7, <1>8, <1>9, <2>1
  <1>12. BatchCounted'
    <2> SUFFICES ASSUME NEW x \in net', x.st \in {"summed", "insert"} \/ Inserted(x)
                 PROVE  Cardinality(Of(x.v)') + Cardinality(PendingOf(x.v)') <= x.deja + 1 + crossed'
      BY DEF BatchCounted, Inserted
    <2>1. PICK y \in net : y.v = x.v /\ y.st = x.st /\ y.deja = x.deja /\ y.added = x.added
      BY DEF Pre, Inserted
    <2>2. Cardinality(Of(y.v)) + Cardinality(PendingOf(y.v)) <= y.deja + 1 + crossed
      BY <2>1 DEF CapsInv, BatchCounted, Inserted
    <2> QED BY <1>1, <1>6, <1>9, <2>1, <2>2
  <1>13. Checked'
    BY DEF CapsInv, Checked, Pre
  <1>14. DayCounted' /\ DayForgotten' /\ DayChecked'
    <2>1. /\ TotalOf(today) \in Nat
          /\ Cardinality(Today) + Cardinality(Pending) <= TotalOf(today) + crossed + Slack(Uncounted)
          /\ Cardinality(Today) + Cardinality(Inserting) <= MAX_DAY + crossed
      BY DayFacts
    <2>2. CASE jour' = today /\ totalDuJour' = TotalOf(today)
      BY <1>1, <1>3, <1>4, <1>7, <1>8, <1>9, <2>1, <2>2 DEF DayCounted, DayForgotten, DayChecked
    <2>3. CASE UNCHANGED <<jour, totalDuJour>>
      BY <1>1, <1>3, <1>4, <1>7, <1>8, <1>9, <2>3 DEF CapsInv, DayCounted, DayForgotten, DayChecked
    <2> QED BY <2>2, <2>3
  <1>15. PastDays' /\ CapsBoundedByOverlap'
    BY <1>1, <1>9 DEF CapsInv, PastDays, CapsBoundedByOverlap, ReplayTyped, ReplayTypeOK
  <1> QED BY <1>10, <1>11, <1>12, <1>13, <1>14, <1>15 DEF CapsInv
\* The checks against what was read: refused, or inserted next, the day being looked at or not.
LEMMA Verdict ==
  ASSUME NEW m \in net, NEW r \in Lot, Verifier(m, r)
  PROVE  \E n \in Lot :
           /\ Becomes(m, n) /\ n.v = r.v /\ n.deja = r.deja /\ n.added = r.added
           /\ \/ n.st = "4xx" /\ UNCHANGED <<jour, totalDuJour>>
              \/ n.st = "4xx" /\ jour' = today /\ totalDuJour' = TotalOf(today)
              \/ /\ n.st = "insert" /\ r.deja + 1 <= MAX_SESSION
                 /\ jour' = today /\ totalDuJour' = TotalOf(today)
                 /\ ~(TotalOf(today) + 1 > MAX_DAY)
  <1>1. \A s \in {"4xx", "insert"} : LET n == [r EXCEPT !.st = s]
                                     IN  n \in Lot /\ n.v = r.v /\ n.deja = r.deja /\ n.added = r.added /\ n.st = s
    BY DEF Lot
  <1>2. r.deja \in Nat /\ MAX_SESSION \in Nat
    BY ReplayAssumption DEF ReplayAssumption, Lot
  <1>3. CASE Becomes(m, [r EXCEPT !.st = "4xx"]) /\ UNCHANGED <<jour, totalDuJour>>
    BY <1>1, <1>3
  <1>4. CASE Becomes(m, [r EXCEPT !.st = "4xx"]) /\ jour' = today /\ totalDuJour' = TotalOf(today)
    BY <1>1, <1>4
  <1>5. CASE /\ Becomes(m, [r EXCEPT !.st = "insert"]) /\ jour' = today /\ totalDuJour' = TotalOf(today)
             /\ ~(TotalOf(today) + 1 > MAX_DAY) /\ ~(r.deja + 1 > MAX_SESSION)
    <2>1. r.deja + 1 <= MAX_SESSION
      BY <1>2, <1>5
    <2> QED BY <1>1, <1>5, <2>1, Zenon
  <1>6. CASE r.deja + 1 > MAX_SESSION
    BY <1>3, <1>6 DEF Verifier
  <1>7. CASE ~(r.deja + 1 > MAX_SESSION) /\ TotalOf(today) + 1 > MAX_DAY
    <2>1. Becomes(m, [r EXCEPT !.st = "4xx"]) /\ jour' = today /\ totalDuJour' = TotalOf(today)
      BY <1>7, Zenon DEF Verifier
    <2> QED BY <1>4, <2>1
  <1>8. CASE ~(r.deja + 1 > MAX_SESSION) /\ ~(TotalOf(today) + 1 > MAX_DAY)
    <2>1. Becomes(m, [r EXCEPT !.st = "insert"]) /\ jour' = today /\ totalDuJour' = TotalOf(today)
      BY <1>8, Zenon DEF Verifier
    <2> QED BY <1>5, <1>8, <2>1
  <1> QED BY <1>6, <1>7, <1>8

\* A batch that is refused before it was under way.
LEMMA RefusedCaps ==
  ASSUME ReplayTyped, ReplayTyped', CapsInv, NEW m \in net, NEW n, Becomes(m, n), n.st \in {"4xx", "2xx"},
         ~(m.st \in Pre \/ Inserted(m)),
         UNCHANGED <<chunks, totaux, today>>, crossed <= crossed',
         UNCHANGED <<jour, totalDuJour>> \/ (jour' = today /\ totalDuJour' = TotalOf(today))
  PROVE  CapsInv'
  <1> DEFINE f == [y \in net |-> y]
  <1>1. \A x \in net' : x.st \in Pre \union {"count"} =>
          \E y \in net : x = f[y] /\ y.v = x.v /\ y.st = x.st /\ y.deja = x.deja /\ y.added = x.added
    BY DEF Becomes, Pre
  <1>2. \A y \in net : y.st \in Pre \/ Inserted(y) =>
          \E x \in net' : x.v = y.v /\ x.st = y.st /\ x.added = y.added
    BY DEF Becomes
  <1> HIDE DEF f
  <1> QED BY <1>1, <1>2, NothingCounted

\* A batch is received.
LEMMA ReceivedCaps ==
  ASSUME ReplayTyped, ReplayTyped', CapsInv, NEW m \in net, Recevoir(m)
  PROVE  CapsInv'
  <1>1. m \in Lot /\ m.st = "sent" /\ m.v \in Visits /\ UNCHANGED <<chunks, totaux, today>>
    BY DEF Recevoir, ReplayTyped, ReplayTypeOK, Lot
  <1>2. /\ crossed \in Nat /\ totalDuJour \in Nat /\ MAX_DAY \in Nat /\ MAX_SESSION \in Nat
        /\ \A v \in Visits : totaux[v] \in Nat \union {None}
    BY ReplayAssumption DEF ReplayAssumption, ReplayTyped, ReplayTypeOK
  <1>3. m.st \notin Pre \union {"count"} /\ ~Inserted(m) /\ m \notin Working
    BY <1>1 DEF Pre, Inserted, Working
  <1>4. UnderWay(m) <=> Working # {}
    BY <1>1 DEF UnderWay, Working, Pre
  <1>5. CASE /\ Becomes(m, [m EXCEPT !.st = "4xx"]) /\ UNCHANGED <<jour, totalDuJour, crossed>>
    <2> DEFINE n == [m EXCEPT !.st = "4xx"]
    <2>1. n.st = "4xx" /\ Becomes(m, n) /\ crossed <= crossed' /\ UNCHANGED <<jour, totalDuJour>>
      BY <1>1, <1>2, <1>5 DEF Lot
    <2> HIDE DEF n
    <2> QED BY <1>1, <1>3, <2>1, RefusedCaps
  <1>6. crossed' \in Nat /\ crossed <= crossed'
    BY <1>2 DEF Recevoir, Reads
  \* It is under way from now on.
  <1>7. ASSUME NEW n \in Lot, Becomes(m, n), n.v = m.v, n.st \in {"sum", "insert"}, Reads(m),
               \/ n.st = "sum" /\ UNCHANGED <<jour, totalDuJour>>
               \/ /\ n.st = "insert" /\ n.deja + 1 <= MAX_SESSION /\ totaux[m.v] = n.deja
                  /\ jour' = today /\ totalDuJour' = TotalOf(today) /\ TotalOf(today) + 1 <= MAX_DAY
        PROVE  CapsInv'
    <2>1. crossed' = IF Working = {} THEN crossed ELSE crossed + 1
      BY <1>4, <1>7 DEF Reads
    <2>2. n.st \in Pre /\ n.deja \in Nat
      BY <1>7 DEF Pre, Lot
    <2>3. /\ Slack(Uncounted') = 1 /\ Slack(UncountedOf(m.v)') = 1 /\ Slack(Pending') = 1
      BY <1>7, <2>2, MoveSlack
    <2>4. /\ Cardinality(Pending') <= Cardinality(Pending) + 1
          /\ Cardinality(PendingOf(m.v)') <= Cardinality(PendingOf(m.v)) + 1
          /\ Cardinality(Working') <= Cardinality(Working) + 1
          /\ n.st # "insert" => Cardinality(Inserting') <= Cardinality(Inserting)
          /\ Cardinality(Pending') \in Nat /\ Cardinality(PendingOf(m.v)') \in Nat
          /\ Cardinality(Working') \in Nat /\ Cardinality(Inserting') \in Nat
          /\ Cardinality(Inserting') <= Cardinality(Pending')
      BY <1>7, MoveCounts
    <2>5. /\ Cardinality(Pending) \in Nat /\ Cardinality(Inserting) \in Nat /\ Cardinality(Working) \in Nat
          /\ Cardinality(Today) \in Nat /\ Cardinality(PendingOf(m.v)) \in Nat
          /\ Slack(Uncounted) \in {0, 1} /\ Slack(UncountedOf(m.v)) \in {0, 1} /\ Slack(Pending) \in {0, 1}
          /\ Working = {} => /\ Cardinality(Working) = 0 /\ Cardinality(Pending) = 0
                             /\ Cardinality(PendingOf(m.v)) = 0 /\ Slack(UncountedOf(m.v)) = 0
                             /\ Slack(Uncounted) = 0 /\ Slack(Pending) = 0
      BY Counts
    <2>6. /\ Today' = Today
          /\ \A v \in Visits : Of(v)' = Of(v) /\ totaux'[v] = totaux[v] /\ Cardinality(Of(v)) \in Nat
      BY <1>1, ChunksFinite DEF Of, Today
    <2>7. /\ TotalOf(today) \in Nat
          /\ Cardinality(Today) + Cardinality(Pending) <= TotalOf(today) + crossed + Slack(Uncounted)
      BY DayFacts
    <2>8. OverlapIsCounted'
      BY <1>2, <2>1, <2>4, <2>5 DEF CapsInv, OverlapIsCounted
    <2>9. totaux'[m.v] # None =>
            Cardinality(Of(m.v)') + Cardinality(PendingOf(m.v)') <= totaux'[m.v] + crossed' + Slack(UncountedOf(m.v)')
      <3>1. totaux[m.v] # None =>
              Cardinality(Of(m.v)) + Cardinality(PendingOf(m.v)) <= totaux[m.v] + crossed + Slack(UncountedOf(m.v))
        BY <1>1 DEF CapsInv, VisitCounted
      <3> QED BY <1>1, <1>2, <2>1, <2>3, <2>4, <2>5, <2>6, <3>1
    <2>10. n.st \in {"summed", "insert"} \/ Inserted(n) =>
             Cardinality(Of(m.v)') + Cardinality(PendingOf(m.v)') <= n.deja + 1 + crossed'
      <3>1. None \notin Nat
        BY ReplayAssumption DEF ReplayAssumption
      <3> QED BY <1>1, <1>2, <1>6, <1>7, <2>2, <2>3, <2>6, <2>9, <3>1 DEF Inserted
    <2>11. \/ ~UnderWay(m)
           \/ Cardinality(Of(m.v)') + Cardinality(PendingOf(m.v)') - crossed'
                <= Cardinality(Of(m.v)) + Cardinality(PendingOf(m.v)) - crossed
      BY <1>1, <1>2, <1>4, <2>1, <2>4, <2>5, <2>6
    <2>12. Cardinality(Of(m.v)') <= MAX_SESSION + crossed'
      <3>1. Cardinality(Of(m.v)) <= MAX_SESSION + crossed
        BY <1>1 DEF CapsInv, CapsBoundedByOverlap
      <3> QED BY <1>1, <1>2, <1>6, <2>6, <3>1
    <2>13. n.st = "insert" => n.deja + 1 <= MAX_SESSION /\ 1 <= MAX_DAY
      BY <1>2, <1>7, <2>7
    <2>14. /\ VisitCounted' /\ BatchCounted' /\ Checked'
           /\ \A v \in Visits : Cardinality(Of(v)') <= MAX_SESSION + crossed'
      BY <1>6, <1>7, <2>6, <2>9, <2>10, <2>11, <2>12, <2>13, VisitMoves
    <2>15. today' = today
      BY <1>1
    <2>16. DayCounted' /\ DayForgotten' /\ DayChecked'
      <3>1. CASE n.st = "sum" /\ UNCHANGED <<jour, totalDuJour>>
        BY <1>2, <2>1, <2>3, <2>4, <2>5, <2>6, <2>15, <3>1
        DEF CapsInv, DayCounted, DayForgotten, DayChecked
      <3>2. CASE jour' = today /\ totalDuJour' = TotalOf(today) /\ TotalOf(today) + 1 <= MAX_DAY
        BY <1>2, <2>1, <2>3, <2>4, <2>5, <2>6, <2>7, <2>15, <3>2 DEF DayCounted, DayForgotten, DayChecked
      <3> QED BY <1>7, <3>1, <3>2
    <2>17. PastDays'
      BY <1>1, <1>7 DEF CapsInv, PastDays, ReplayTyped, ReplayTypeOK
    <2>18. Cardinality(Today') <= MAX_DAY + crossed'
      <3>1. Cardinality(Today) <= MAX_DAY + crossed
        BY DEF CapsInv, CapsBoundedByOverlap
      <3> QED BY <1>2, <1>6, <2>5, <2>6, <3>1
    <2> QED BY <2>8, <2>14, <2>16, <2>17, <2>18 DEF CapsInv, CapsBoundedByOverlap
  <1>8. CASE totaux[m.v] # None /\ Verifier(m, [m EXCEPT !.deja = totaux[m.v]]) /\ Reads(m)
    <2> DEFINE r == [m EXCEPT !.deja = totaux[m.v]]
    <2>1. totaux[m.v] \in Nat
      BY <1>1, <1>2, <1>8
    <2>2. r \in Lot /\ r.v = m.v /\ r.deja = totaux[m.v]
      BY <1>1, <2>1 DEF Lot
    <2>3. Verifier(m, r)
      BY <1>8
    <2> HIDE DEF r
    <2>4. PICK n \in Lot :
            /\ Becomes(m, n) /\ n.v = r.v /\ n.deja = r.deja
            /\ \/ n.st = "4xx" /\ UNCHANGED <<jour, totalDuJour>>
               \/ n.st = "4xx" /\ jour' = today /\ totalDuJour' = TotalOf(today)
               \/ /\ n.st = "insert" /\ r.deja + 1 <= MAX_SESSION
                  /\ jour' = today /\ totalDuJour' = TotalOf(today)
                  /\ ~(TotalOf(today) + 1 > MAX_DAY)
      BY <2>2, <2>3, Verdict
    <2>5. CASE n.st = "4xx"
      BY <1>1, <1>3, <1>6, <2>4, <2>5, RefusedCaps
    <2>6. CASE n.st = "insert"
      <3>1. TotalOf(today) \in Nat
        BY DayFacts
      <3>2. TotalOf(today) + 1 <= MAX_DAY
        BY <1>2, <2>4, <2>6, <3>1
      <3> QED BY <1>7, <1>8, <2>2, <2>4, <2>6, <3>2
    <2> QED BY <2>4, <2>5, <2>6
  <1>9. CASE Becomes(m, [m EXCEPT !.st = "sum"]) /\ Reads(m) /\ UNCHANGED <<jour, totalDuJour>>
    <2> DEFINE n == [m EXCEPT !.st = "sum"]
    <2>1. n \in Lot /\ n.v = m.v /\ n.st = "sum"
      BY <1>1 DEF Lot
    <2>2. Becomes(m, n)
      BY <1>9
    <2> HIDE DEF n
    <2> QED BY <1>7, <1>9, <2>1, <2>2
  <1> QED BY <1>5, <1>8, <1>9 DEF Recevoir
\* A batch whose totals were read moves on: what it needs of its visit and of the day.
LEMMA MovesOn ==
  ASSUME ReplayTyped, ReplayTyped', CapsInv, NEW m \in net, m.st \in Pre \union {"count"},
         NEW n \in Lot, n.v = m.v, Becomes(m, n), crossed <= crossed', today' = today,
         \A v \in Visits : v # m.v => Of(v)' = Of(v) /\ totaux'[v] = totaux[v],
         Cardinality(Of(m.v)') + Cardinality(PendingOf(m.v)') <= Cardinality(Of(m.v)) + Cardinality(PendingOf(m.v)),
         totaux'[m.v] # None =>
           Cardinality(Of(m.v)') + Cardinality(PendingOf(m.v)') <= totaux'[m.v] + crossed' + Slack(UncountedOf(m.v)'),
         n.st \in {"summed", "insert"} \/ Inserted(n) =>
           Cardinality(Of(m.v)') + Cardinality(PendingOf(m.v)') <= n.deja + 1 + crossed',
         n.st = "insert" => n.deja + 1 <= MAX_SESSION /\ 1 <= MAX_DAY,
         Cardinality(Of(m.v)') <= MAX_SESSION + crossed', Cardinality(Today') <= MAX_DAY + crossed',
         DayCounted', DayForgotten', DayChecked', PastDays'
  PROVE  CapsInv'
  <1>1. crossed \in Nat /\ crossed' \in Nat
    BY DEF ReplayTyped, ReplayTypeOK
  <1>2. /\ Cardinality(Of(m.v)) \in Nat /\ Cardinality(PendingOf(m.v)) \in Nat
        /\ Cardinality(Of(m.v)') \in Nat /\ Cardinality(PendingOf(m.v)') \in Nat
    BY Counts, ChunksFiniteAfter, MoveCounts
  <1>3. Cardinality(Of(m.v)') + Cardinality(PendingOf(m.v)') - crossed'
          <= Cardinality(Of(m.v)) + Cardinality(PendingOf(m.v)) - crossed
    BY <1>1, <1>2
  <1>4. /\ VisitCounted' /\ BatchCounted' /\ Checked'
        /\ \A v \in Visits : Cardinality(Of(v)') <= MAX_SESSION + crossed'
    BY <1>3, VisitMoves
  <1>5. OverlapIsCounted'
    <2>1. m \in Working
      BY DEF Working
    <2>2. Cardinality(Working') <= Cardinality(Working) /\ Cardinality(Working') \in Nat
          /\ Cardinality(Working) \in Nat
      BY <2>1, Counts, MoveCounts
    <2> QED BY <1>1, <2>2 DEF CapsInv, OverlapIsCounted
  <1> QED BY <1>4, <1>5 DEF CapsInv, CapsBoundedByOverlap

\* The sum of a visit is read.
LEMMA SummedCaps ==
  ASSUME ReplayTyped, ReplayTyped', CapsInv, NEW m \in net, Sommer(m)
  PROVE  CapsInv'
  <1> DEFINE n == [m EXCEPT !.st = "summed", !.deja = Cardinality(Of(m.v))]
  <1>1. /\ m \in Lot /\ m.st = "sum" /\ m.v \in Visits
        /\ UNCHANGED <<chunks, totaux, today, jour, totalDuJour, crossed>> /\ Becomes(m, n)
    BY DEF Sommer, ReplayTyped, ReplayTypeOK, Lot
  <1>2. n \in Lot /\ n.v = m.v /\ n.st = "summed" /\ n.deja = Cardinality(Of(m.v))
    BY <1>1, ChunksFinite DEF Lot
  <1> HIDE DEF n
  <1>3. m.st \in Pre /\ n.st \in Pre /\ n.st # "insert"
    BY <1>1, <1>2 DEF Pre
  <1>4. /\ crossed \in Nat /\ totalDuJour \in Nat /\ MAX_DAY \in Nat /\ MAX_SESSION \in Nat
        /\ \A v \in Visits : totaux[v] \in Nat \union {None}
    BY ReplayAssumption DEF ReplayAssumption, ReplayTyped, ReplayTypeOK
  <1>5. /\ Cardinality(Pending') <= Cardinality(Pending)
        /\ Cardinality(PendingOf(m.v)') <= Cardinality(PendingOf(m.v))
        /\ Cardinality(Inserting') <= Cardinality(Inserting)
        /\ Cardinality(Pending') \in Nat /\ Cardinality(PendingOf(m.v)') \in Nat /\ Cardinality(Inserting') \in Nat
    BY <1>1, <1>2, <1>3, MoveCounts
  <1>6. Slack(Uncounted') = 1 /\ Slack(UncountedOf(m.v)') = 1 /\ Slack(Pending') = 1
    BY <1>1, <1>2, <1>3, MoveSlack
  <1>7. /\ Cardinality(Pending) \in Nat /\ Cardinality(Inserting) \in Nat /\ Cardinality(Working) \in Nat
        /\ Cardinality(Today) \in Nat /\ Cardinality(PendingOf(m.v)) \in Nat
        /\ Slack(Uncounted) \in {0, 1} /\ Slack(UncountedOf(m.v)) \in {0, 1} /\ Slack(Pending) \in {0, 1}
        /\ Cardinality(PendingOf(m.v)) <= Cardinality(Pending) /\ Cardinality(Pending) <= Cardinality(Working)
    BY Counts
  <1>8. /\ Today' = Today
        /\ \A v \in Visits : Of(v)' = Of(v) /\ totaux'[v] = totaux[v] /\ Cardinality(Of(v)) \in Nat
    BY <1>1, ChunksFinite DEF Of, Today
  <1>9. totaux'[m.v] # None =>
          Cardinality(Of(m.v)') + Cardinality(PendingOf(m.v)') <= totaux'[m.v] + crossed' + Slack(UncountedOf(m.v)')
    <2>1. totaux[m.v] # None =>
            Cardinality(Of(m.v)) + Cardinality(PendingOf(m.v)) <= totaux[m.v] + crossed + Slack(UncountedOf(m.v))
      BY <1>1 DEF CapsInv, VisitCounted
    <2> QED BY <1>1, <1>4, <1>5, <1>6, <1>7, <1>8, <2>1
  <1>10. Cardinality(Of(m.v)') + Cardinality(PendingOf(m.v)') <= n.deja + 1 + crossed'
    <2>1. Cardinality(Working) <= 1 + crossed
      BY DEF CapsInv, OverlapIsCounted
    <2> QED BY <1>1, <1>2, <1>4, <1>5, <1>7, <1>8, <2>1
  <1>11. DayCounted' /\ DayForgotten' /\ DayChecked'
    BY <1>1, <1>4, <1>5, <1>6, <1>7, <1>8 DEF CapsInv, DayCounted, DayForgotten, DayChecked
  <1>12. PastDays'
    BY <1>1 DEF CapsInv, PastDays
  <1>13. Cardinality(Of(m.v)') <= MAX_SESSION + crossed' /\ Cardinality(Today') <= MAX_DAY + crossed'
    BY <1>1, <1>8 DEF CapsInv, CapsBoundedByOverlap
  <1>14. Cardinality(Of(m.v)') + Cardinality(PendingOf(m.v)') <= Cardinality(Of(m.v)) + Cardinality(PendingOf(m.v))
    BY <1>1, <1>5, <1>7, <1>8
  <1>15. crossed <= crossed'
    BY <1>1, <1>4
  <1> QED BY <1>1, <1>2, <1>3, <1>8, <1>9, <1>10, <1>11, <1>12, <1>13, <1>14, <1>15, MovesOn

\* The sum of a visit goes into the cache, and the batch is checked against it.
LEMMA CachedCaps ==
  ASSUME ReplayTyped, ReplayTyped', CapsInv, NEW m \in net, Somme(m)
  PROVE  CapsInv'
  <1>1. /\ m \in Lot /\ m.st = "summed" /\ m.v \in Visits /\ m.deja \in Nat
        /\ UNCHANGED <<chunks, today, crossed>>
        /\ totaux' = [totaux EXCEPT ![m.v] = m.deja] /\ Verifier(m, m)
    BY DEF Somme, ReplayTyped, ReplayTypeOK, Lot
  <1>2. PICK n \in Lot :
          /\ Becomes(m, n) /\ n.v = m.v /\ n.deja = m.deja
          /\ \/ n.st = "4xx" /\ UNCHANGED <<jour, totalDuJour>>
             \/ n.st = "4xx" /\ jour' = today /\ totalDuJour' = TotalOf(today)
             \/ /\ n.st = "insert" /\ m.deja + 1 <= MAX_SESSION
                /\ jour' = today /\ totalDuJour' = TotalOf(today)
                /\ ~(TotalOf(today) + 1 > MAX_DAY)
    BY <1>1, Verdict
  <1>3. m.st \in Pre /\ (n.st \in Pre <=> n.st = "insert") /\ ~Inserted(n) /\ n.st # "summed"
    BY <1>1, <1>2 DEF Pre, Inserted
  <1>4. /\ crossed \in Nat /\ totalDuJour \in Nat /\ MAX_DAY \in Nat /\ MAX_SESSION \in Nat
    BY ReplayAssumption DEF ReplayAssumption, ReplayTyped, ReplayTypeOK
  <1>5. /\ Cardinality(Pending') <= Cardinality(Pending)
        /\ n.st = "4xx" => Cardinality(Pending') <= Cardinality(Pending) - 1
        /\ Cardinality(PendingOf(m.v)') <= Cardinality(PendingOf(m.v))
        /\ n.st = "4xx" => Cardinality(PendingOf(m.v)') <= Cardinality(PendingOf(m.v)) - 1
        /\ n.st = "4xx" => Cardinality(Inserting') <= Cardinality(Inserting)
        /\ Cardinality(Pending') \in Nat /\ Cardinality(PendingOf(m.v)') \in Nat /\ Cardinality(Inserting') \in Nat
        /\ Cardinality(Inserting') <= Cardinality(Pending')
    BY <1>2, <1>3, MoveCounts
  <1>6. n.st = "insert" => Slack(Uncounted') = 1 /\ Slack(UncountedOf(m.v)') = 1 /\ Slack(Pending') = 1
    BY <1>2, <1>3, MoveSlack
  <1>7. /\ Cardinality(Pending) \in Nat /\ Cardinality(Inserting) \in Nat
        /\ Cardinality(Today) \in Nat /\ Cardinality(PendingOf(m.v)) \in Nat
        /\ Slack(Uncounted) \in {0, 1} /\ Slack(Pending) \in {0, 1}
        /\ Slack(Uncounted') \in {0, 1} /\ Slack(Pending') \in {0, 1} /\ Slack(UncountedOf(m.v)') \in {0, 1}
    BY Counts
  <1>8. /\ Today' = Today
        /\ \A v \in Visits : Of(v)' = Of(v) /\ Cardinality(Of(v)) \in Nat
        /\ totaux'[m.v] = m.deja /\ \A v \in Visits : v # m.v => totaux'[v] = totaux[v]
    <2>1. Today' = Today /\ \A v \in Visits : Of(v)' = Of(v) /\ Cardinality(Of(v)) \in Nat
      BY <1>1, ChunksFinite DEF Of, Today
    <2>2. totaux'[m.v] = m.deja /\ \A v \in Visits : v # m.v => totaux'[v] = totaux[v]
      BY <1>1 DEF ReplayTyped, ReplayTypeOK
    <2> QED BY <2>1, <2>2
  <1>9. Cardinality(Of(m.v)) + Cardinality(PendingOf(m.v)) <= m.deja + 1 + crossed
    BY <1>1 DEF CapsInv, BatchCounted
  <1>10. Cardinality(Of(m.v)') + Cardinality(PendingOf(m.v)') <= totaux'[m.v] + crossed' + Slack(UncountedOf(m.v)')
    BY <1>1, <1>2, <1>4, <1>5, <1>6, <1>7, <1>8, <1>9
  <1>11. Cardinality(Of(m.v)') + Cardinality(PendingOf(m.v)') <= n.deja + 1 + crossed'
    BY <1>1, <1>2, <1>4, <1>5, <1>7, <1>8, <1>9
  <1>12. /\ TotalOf(today) \in Nat
         /\ Cardinality(Today) + Cardinality(Pending) <= TotalOf(today) + crossed + Slack(Uncounted)
         /\ Cardinality(Today) + Cardinality(Inserting) <= MAX_DAY + crossed
    BY DayFacts
  <1>13. today' = today /\ crossed' = crossed
    BY <1>1
  <1>14. DayCounted' /\ DayForgotten' /\ DayChecked'
    <2>1. CASE n.st = "4xx" /\ UNCHANGED <<jour, totalDuJour>>
      BY <1>4, <1>5, <1>7, <1>8, <1>13, <2>1 DEF CapsInv, DayCounted, DayForgotten, DayChecked
    <2>2. CASE n.st = "4xx" /\ jour' = today /\ totalDuJour' = TotalOf(today)
      BY <1>4, <1>5, <1>7, <1>8, <1>12, <1>13, <2>2 DEF DayCounted, DayForgotten, DayChecked
    <2>3. CASE n.st = "insert" /\ jour' = today /\ totalDuJour' = TotalOf(today) /\ ~(TotalOf(today) + 1 > MAX_DAY)
      <3>1. TotalOf(today) + 1 <= MAX_DAY
        BY <1>4, <1>12, <2>3
      <3> QED BY <1>4, <1>5, <1>6, <1>7, <1>8, <1>12, <1>13, <2>3, <3>1
          DEF DayCounted, DayForgotten, DayChecked
    <2> QED BY <1>2, <2>1, <2>2, <2>3
  <1>15. PastDays'
    BY <1>1, <1>2 DEF CapsInv, PastDays, ReplayTyped, ReplayTypeOK
  <1>16. Cardinality(Of(m.v)') <= MAX_SESSION + crossed' /\ Cardinality(Today') <= MAX_DAY + crossed'
    BY <1>1, <1>8, <1>13 DEF CapsInv, CapsBoundedByOverlap
  <1>17. Cardinality(Of(m.v)') + Cardinality(PendingOf(m.v)') <= Cardinality(Of(m.v)) + Cardinality(PendingOf(m.v))
    BY <1>1, <1>5, <1>7, <1>8
  <1>18. n.st = "insert" => n.deja + 1 <= MAX_SESSION /\ 1 <= MAX_DAY
    BY <1>2, <1>4, <1>12
  <1>19. crossed <= crossed'
    BY <1>4, <1>13
  <1> QED BY <1>1, <1>2, <1>3, <1>8, <1>10, <1>11, <1>14, <1>15, <1>16, <1>17, <1>18, <1>19, MovesOn
\* A batch that is not inserted, because it is there or because the statement failed.
LEMMA NotInsertedCaps ==
  ASSUME ReplayTyped, ReplayTyped', CapsInv, NEW m \in net, m.st = "insert", NEW n \in Lot, n.v = m.v,
         n.st \in {"count", "2xx"}, ~Inserted(n), Becomes(m, n), crossed <= crossed',
         UNCHANGED <<chunks, totaux, today, jour, totalDuJour>>
  PROVE  CapsInv'
  <1>1. m \in Lot /\ m.v \in Visits
    BY DEF ReplayTyped, ReplayTypeOK, Lot
  <1>2. m.st \in Pre /\ n.st \notin Pre /\ n.st # "insert"
    BY DEF Pre
  <1>3. /\ crossed \in Nat /\ crossed' \in Nat /\ totalDuJour \in Nat /\ MAX_DAY \in Nat /\ MAX_SESSION \in Nat
        /\ \A v \in Visits : totaux[v] \in Nat \union {None}
    BY ReplayAssumption DEF ReplayAssumption, ReplayTyped, ReplayTypeOK
  <1>4. /\ Cardinality(Pending') <= Cardinality(Pending) - 1
        /\ Cardinality(PendingOf(m.v)') <= Cardinality(PendingOf(m.v)) - 1
        /\ Cardinality(Inserting') <= Cardinality(Inserting) - 1
        /\ Cardinality(Pending') \in Nat /\ Cardinality(PendingOf(m.v)') \in Nat /\ Cardinality(Inserting') \in Nat
    BY <1>2, MoveCounts
  <1>5. /\ Cardinality(Pending) \in Nat /\ Cardinality(Inserting) \in Nat
        /\ Cardinality(Today) \in Nat /\ Cardinality(PendingOf(m.v)) \in Nat
        /\ Slack(Uncounted) \in {0, 1} /\ Slack(Pending) \in {0, 1} /\ Slack(UncountedOf(m.v)) \in {0, 1}
        /\ Slack(Uncounted') \in {0, 1} /\ Slack(Pending') \in {0, 1} /\ Slack(UncountedOf(m.v)') \in {0, 1}
    BY Counts
  <1>6. /\ Today' = Today
        /\ \A v \in Visits : Of(v)' = Of(v) /\ totaux'[v] = totaux[v] /\ Cardinality(Of(v)) \in Nat
    BY ChunksFinite DEF Of, Today
  <1>7. totaux'[m.v] # None =>
          Cardinality(Of(m.v)') + Cardinality(PendingOf(m.v)') <= totaux'[m.v] + crossed' + Slack(UncountedOf(m.v)')
    <2>1. totaux[m.v] # None =>
            Cardinality(Of(m.v)) + Cardinality(PendingOf(m.v)) <= totaux[m.v] + crossed + Slack(UncountedOf(m.v))
      BY <1>1 DEF CapsInv, VisitCounted
    <2> QED BY <1>1, <1>3, <1>4, <1>5, <1>6, <2>1
  <1>8. today' = today /\ jour' = jour /\ totalDuJour' = totalDuJour
    OBVIOUS
  <1>9. DayCounted' /\ DayForgotten' /\ DayChecked'
    BY <1>3, <1>4, <1>5, <1>6, <1>8 DEF CapsInv, DayCounted, DayForgotten, DayChecked
  <1>10. PastDays'
    BY DEF CapsInv, PastDays
  <1>11. Cardinality(Of(m.v)') <= MAX_SESSION + crossed' /\ Cardinality(Today') <= MAX_DAY + crossed'
    <2>1. Cardinality(Of(m.v)) <= MAX_SESSION + crossed /\ Cardinality(Today) <= MAX_DAY + crossed
      BY <1>1 DEF CapsInv, CapsBoundedByOverlap
    <2> QED BY <1>1, <1>3, <1>5, <1>6, <2>1
  <1>12. Cardinality(Of(m.v)') + Cardinality(PendingOf(m.v)') <= Cardinality(Of(m.v)) + Cardinality(PendingOf(m.v))
    BY <1>1, <1>4, <1>5, <1>6
  <1>13. n.st \notin {"summed", "insert"}
    OBVIOUS
  <1> QED BY <1>2, <1>6, <1>7, <1>8, <1>9, <1>10, <1>11, <1>12, <1>13, MovesOn

\* A set of chunks that gains one.
LEMMA OneMore ==
  ASSUME NEW S, IsFiniteSet(S), NEW c, NEW T, T \subseteq S \union {c}
  PROVE  Cardinality(T) <= Cardinality(S) + 1 /\ Cardinality(T) \in Nat /\ Cardinality(S) \in Nat
  <1>1. T \subseteq (S \ {c}) \union {c}
    OBVIOUS
  <1> QED BY <1>1, Exchanged

\* A batch is inserted.
LEMMA InsertedCaps ==
  ASSUME ReplayTyped, ReplayTyped', CapsInv, NEW m \in net, Inserer(m)
  PROVE  CapsInv'
  <1> DEFINE n == [m EXCEPT !.st = "count", !.added = ~Stored(m)]
             c == [v |-> m.v, segment |-> m.segment, seq |-> m.seq, page |-> m.page, day |-> today]
  <1>1. /\ m \in Lot /\ m.st = "insert" /\ m.v \in Visits /\ m.deja \in Nat
        /\ UNCHANGED <<totaux, jour, totalDuJour, today>> /\ Becomes(m, n)
        /\ crossed' = (IF jour = today THEN crossed ELSE crossed + 1)
        /\ chunks' = IF Stored(m) THEN chunks ELSE chunks \union {c}
    BY DEF Inserer, ReplayTyped, ReplayTypeOK, Lot
  <1>2. n \in Lot /\ n.v = m.v /\ n.st = "count" /\ (n.added <=> ~Stored(m)) /\ n.deja = m.deja
    BY <1>1 DEF Lot, Stored
  <1>3. c.v = m.v /\ c.day = today
    OBVIOUS
  <1> HIDE DEF n, c
  <1>4. /\ crossed \in Nat /\ crossed' \in Nat /\ crossed <= crossed' /\ totalDuJour \in Nat /\ MAX_DAY \in Nat
        /\ MAX_SESSION \in Nat /\ \A v \in Visits : totaux[v] \in Nat \union {None}
    BY <1>1, ReplayAssumption DEF ReplayAssumption, ReplayTyped, ReplayTypeOK
  <1>5. CASE Stored(m)
    <2>1. ~Inserted(n)
      BY <1>2, <1>5 DEF Inserted
    <2> QED BY <1>1, <1>2, <1>4, <1>5, <2>1, NotInsertedCaps
  <1>6. CASE ~Stored(m)
    <2>1. m.st \in Pre /\ n.st \notin Pre /\ n.st # "insert" /\ Inserted(n) /\ m.st = "insert"
      BY <1>1, <1>2, <1>6 DEF Pre, Inserted
    <2>2. /\ Cardinality(Pending') <= Cardinality(Pending) - 1
          /\ Cardinality(PendingOf(m.v)') <= Cardinality(PendingOf(m.v)) - 1
          /\ Cardinality(Inserting') <= Cardinality(Inserting) - 1
          /\ Cardinality(Pending') \in Nat /\ Cardinality(PendingOf(m.v)') \in Nat /\ Cardinality(Inserting') \in Nat
      BY <1>1, <1>2, <2>1, MoveCounts
    <2>3. Slack(Uncounted') = 1 /\ Slack(UncountedOf(m.v)') = 1
      BY <1>1, <1>2, <2>1, MoveSlack
    <2>4. /\ Cardinality(Pending) \in Nat /\ Cardinality(Inserting) \in Nat
          /\ Cardinality(Today) \in Nat /\ Cardinality(PendingOf(m.v)) \in Nat
          /\ Slack(Uncounted) \in {0, 1} /\ Slack(Pending) \in {0, 1} /\ Slack(UncountedOf(m.v)) \in {0, 1}
          /\ Slack(Pending') \in {0, 1}
          /\ 1 <= Cardinality(PendingOf(m.v)) /\ 1 <= Cardinality(Inserting)
      <3>1. /\ 1 <= Cardinality(PendingOf(m.v)) /\ 1 <= Cardinality(Inserting)
        BY <1>1, <2>1, Counts
      <3> QED BY <3>1, Counts
    <2>5. IsFiniteSet(Of(m.v)) /\ IsFiniteSet(Today)
      BY ChunksFinite
    <2>6. Of(m.v)' \subseteq Of(m.v) \union {c} /\ Today' \subseteq Today \union {c}
      BY <1>1, <1>6 DEF Of, Today
    <2>7. /\ Cardinality(Of(m.v)') <= Cardinality(Of(m.v)) + 1 /\ Cardinality(Today') <= Cardinality(Today) + 1
          /\ Cardinality(Of(m.v)') \in Nat /\ Cardinality(Of(m.v)) \in Nat
          /\ Cardinality(Today') \in Nat /\ Cardinality(Today) \in Nat
      BY <2>5, <2>6, OneMore
    <2>8. \A v \in Visits : v # m.v => Of(v)' = Of(v) /\ totaux'[v] = totaux[v]
      BY <1>1, <1>3, <1>6 DEF Of
    <2>9. Cardinality(Of(m.v)) + Cardinality(PendingOf(m.v)) <= m.deja + 1 + crossed
          /\ m.deja + 1 <= MAX_SESSION
      BY <1>1 DEF CapsInv, BatchCounted, Checked
    <2>10. Cardinality(Of(m.v)') + Cardinality(PendingOf(m.v)') <= Cardinality(Of(m.v)) + Cardinality(PendingOf(m.v))
      BY <2>2, <2>4, <2>7
    <2>11. totaux'[m.v] # None =>
             Cardinality(Of(m.v)') + Cardinality(PendingOf(m.v)') <= totaux'[m.v] + crossed' + Slack(UncountedOf(m.v)')
      <3>1. totaux[m.v] # None =>
              Cardinality(Of(m.v)) + Cardinality(PendingOf(m.v)) <= totaux[m.v] + crossed + Slack(UncountedOf(m.v))
        BY <1>1 DEF CapsInv, VisitCounted
      <3> QED BY <1>1, <1>4, <2>2, <2>3, <2>4, <2>7, <2>10, <3>1
    <2>12. Cardinality(Of(m.v)') + Cardinality(PendingOf(m.v)') <= n.deja + 1 + crossed'
      BY <1>1, <1>2, <1>4, <2>2, <2>4, <2>7, <2>9, <2>10
    <2>13. Cardinality(Of(m.v)') <= MAX_SESSION + crossed'
      BY <1>1, <1>4, <2>4, <2>7, <2>9
    <2>14. Cardinality(Today') <= MAX_DAY + crossed'
      <3>1. CASE jour = today
        <4>1. Cardinality(Today) + Cardinality(Inserting) <= MAX_DAY + crossed
          BY DayFacts
        <4> QED BY <1>1, <1>4, <2>4, <2>7, <3>1, <4>1
      <3>2. CASE jour # today
        <4>1. Cardinality(Today) <= MAX_DAY + crossed
          BY DEF CapsInv, CapsBoundedByOverlap
        <4> QED BY <1>1, <1>4, <2>7, <3>2, <4>1
      <3> QED BY <3>1, <3>2
    <2>15. today' = today /\ jour' = jour /\ totalDuJour' = totalDuJour
      BY <1>1
    <2>16. DayCounted' /\ DayForgotten' /\ DayChecked'
      <3>1. CASE jour = today
        BY <1>1, <1>4, <2>2, <2>3, <2>4, <2>7, <2>15, <3>1 DEF CapsInv, DayCounted, DayForgotten, DayChecked
      <3>2. CASE jour # today
        BY <1>1, <1>4, <2>2, <2>3, <2>4, <2>7, <2>15, <3>2 DEF CapsInv, DayCounted, DayForgotten, DayChecked
      <3> QED BY <3>1, <3>2
    <2>17. PastDays'
      BY <1>1, <1>3, <1>6 DEF CapsInv, PastDays, ReplayTyped, ReplayTypeOK
    <2>18. n.st \notin {"summed", "insert"} /\ m.st \in Pre \union {"count"}
      BY <1>2, <2>1
    <2> QED BY <1>1, <1>2, <1>4, <2>8, <2>10, <2>11, <2>12, <2>13, <2>14, <2>15, <2>16, <2>17, <2>18, MovesOn
  <1> QED BY <1>5, <1>6
\* A batch is counted.
LEMMA CountedCaps ==
  ASSUME ReplayTyped, ReplayTyped', CapsInv, NEW m \in net, Compter(m)
  PROVE  CapsInv'
  <1> DEFINE n == [m EXCEPT !.st = "2xx"]
  <1>1. /\ m \in Lot /\ m.st = "count" /\ m.v \in Visits /\ m.deja \in Nat
        /\ UNCHANGED <<chunks, jour, today, crossed>> /\ Becomes(m, n)
        /\ totaux' = (IF m.added THEN [totaux EXCEPT ![m.v] = m.deja + 1] ELSE totaux)
        /\ totalDuJour' = IF m.added THEN totalDuJour + 1 ELSE totalDuJour
    BY DEF Compter, ReplayTyped, ReplayTypeOK, Lot
  <1>2. n \in Lot /\ n.v = m.v /\ n.st = "2xx"
    BY <1>1 DEF Lot
  <1> HIDE DEF n
  <1>3. /\ crossed \in Nat /\ totalDuJour \in Nat /\ MAX_DAY \in Nat /\ MAX_SESSION \in Nat
    BY ReplayAssumption DEF ReplayAssumption, ReplayTyped, ReplayTypeOK
  <1>4. CASE ~m.added
    <2>1. ~(m.st \in Pre \/ Inserted(m)) /\ UNCHANGED <<chunks, totaux, today, jour, totalDuJour>> /\ crossed <= crossed'
      BY <1>1, <1>3, <1>4 DEF Pre, Inserted
    <2> QED BY <1>1, <1>2, <2>1, RefusedCaps
  <1>5. CASE m.added
    <2>1. m.st \notin Pre /\ n.st \notin Pre /\ ~Inserted(n) /\ Inserted(m) /\ n.st # "insert"
      BY <1>1, <1>2, <1>5 DEF Pre, Inserted
    <2>2. /\ Cardinality(Pending') <= Cardinality(Pending)
          /\ Cardinality(PendingOf(m.v)') <= Cardinality(PendingOf(m.v))
          /\ Cardinality(Inserting') <= Cardinality(Inserting)
          /\ Cardinality(Pending') \in Nat /\ Cardinality(PendingOf(m.v)') \in Nat /\ Cardinality(Inserting') \in Nat
      BY <1>1, <1>2, <2>1, MoveCounts
    <2>3. Slack(Pending) <= Slack(Pending')
      BY <1>1, <1>2, <2>1, MoveSlack
    <2>4. /\ Cardinality(Pending) \in Nat /\ Cardinality(Inserting) \in Nat
          /\ Cardinality(Today) \in Nat /\ Cardinality(PendingOf(m.v)) \in Nat
          /\ Slack(Uncounted) \in {0, 1} /\ Slack(Pending) \in {0, 1}
          /\ Slack(Uncounted') \in {0, 1} /\ Slack(Pending') \in {0, 1} /\ Slack(UncountedOf(m.v)') \in {0, 1}
      BY Counts
    <2>5. Today' = Today /\ \A v \in Visits : Of(v)' = Of(v) /\ Cardinality(Of(v)) \in Nat
      BY <1>1, ChunksFinite DEF Of, Today
    <2>6. totaux'[m.v] = m.deja + 1 /\ \A v \in Visits : v # m.v => totaux'[v] = totaux[v]
      BY <1>1, <1>5 DEF ReplayTyped, ReplayTypeOK
    <2>7. Cardinality(Of(m.v)) + Cardinality(PendingOf(m.v)) <= m.deja + 1 + crossed
      BY <1>1, <2>1 DEF CapsInv, BatchCounted
    <2>8. Cardinality(Of(m.v)') + Cardinality(PendingOf(m.v)') <= Cardinality(Of(m.v)) + Cardinality(PendingOf(m.v))
      BY <1>1, <2>2, <2>4, <2>5
    <2>9. Cardinality(Of(m.v)') + Cardinality(PendingOf(m.v)') <= totaux'[m.v] + crossed' + Slack(UncountedOf(m.v)')
      BY <1>1, <1>3, <2>2, <2>4, <2>5, <2>6, <2>7
    <2>10. today' = today /\ jour' = jour /\ totalDuJour' = totalDuJour + 1 /\ crossed' = crossed
      BY <1>1, <1>5
    <2>11. DayCounted' /\ DayForgotten' /\ DayChecked'
      BY <1>3, <2>2, <2>3, <2>4, <2>5, <2>10 DEF CapsInv, DayCounted, DayForgotten, DayChecked
    <2>12. PastDays'
      BY <1>1 DEF CapsInv, PastDays
    <2>13. Cardinality(Of(m.v)') <= MAX_SESSION + crossed' /\ Cardinality(Today') <= MAX_DAY + crossed'
      BY <1>1, <2>5, <2>10 DEF CapsInv, CapsBoundedByOverlap
    <2>14. n.st \notin {"summed", "insert"} /\ m.st \in Pre \union {"count"} /\ crossed <= crossed'
      BY <1>1, <1>2, <1>3, <2>10
    <2> QED BY <1>1, <1>2, <2>1, <2>5, <2>6, <2>8, <2>9, <2>10, <2>11, <2>12, <2>13, <2>14, MovesOn
  <1> QED BY <1>4, <1>5

\* The reception keeps to the caps.
LEMMA ReceivingCaps ==
  ASSUME ReplayTyped, ReplayTyped', CapsInv, NEW m \in net,
         Recevoir(m) \/ Sommer(m) \/ Somme(m) \/ Inserer(m) \/ InsererEchoue(m) \/ Compter(m)
  PROVE  CapsInv'
  <1>1. CASE InsererEchoue(m)
    <2> DEFINE n == [m EXCEPT !.st = "2xx"]
    <2>1. /\ m \in Lot /\ m.st = "insert" /\ Becomes(m, n) /\ crossed' = crossed /\ crossed \in Nat
          /\ UNCHANGED <<chunks, totaux, today, jour, totalDuJour>>
      BY <1>1 DEF InsererEchoue, ReplayTyped, ReplayTypeOK
    <2>2. n \in Lot /\ n.v = m.v /\ n.st = "2xx" /\ crossed <= crossed'
      BY <2>1 DEF Lot
    <2> HIDE DEF n
    <2>3. ~Inserted(n)
      BY <2>2 DEF Inserted
    <2> QED BY <2>1, <2>2, <2>3, NotInsertedCaps
  <1> QED BY <1>1, ReceivedCaps, SummedCaps, CachedCaps, InsertedCaps, CountedCaps

\* Only batches that leave a page are new, and those that are under way stay.
Spares ==
  /\ \A x \in net' : x \in net \/ x.st = "sent"
  /\ \A y \in net \ net' : ~(y.st \in Pre \/ Inserted(y))

\* Pages send batches and hear of their answers; the network loses some.
LEMMA QuietCaps ==
  ASSUME ReplayTyped, ReplayTyped', CapsInv, Spares,
         UNCHANGED <<chunks, totaux, jour, totalDuJour, today, crossed>>
  PROVE  CapsInv'
  <1> DEFINE f == [y \in net |-> y]
  <1>1. \A x \in net' : x.st \in Pre \union {"count"} =>
          \E y \in net : x = f[y] /\ y.v = x.v /\ y.st = x.st /\ y.deja = x.deja /\ y.added = x.added
    BY DEF Spares, Pre
  <1>2. \A y \in net : y.st \in Pre \/ Inserted(y) =>
          \E x \in net' : x.v = y.v /\ x.st = y.st /\ x.added = y.added
    BY DEF Spares
  <1>3. crossed <= crossed'
    BY DEF ReplayTyped, ReplayTypeOK
  <1> HIDE DEF f
  <1> QED BY <1>1, <1>2, <1>3, NothingCounted

\* A page goes away: its batches run on.
LEMMA ReloadCaps ==
  ASSUME VisitorTyped, ReplayTyped', CapsInv, NEW t \in Tabs, Reload(t)
  PROVE  CapsInv'
  <1> USE DEF VisitorTyped
  <1> DEFINE f == [y \in net |-> IF y.to = t THEN [y EXCEPT !.to = None] ELSE y]
             N == {IF m.to = t THEN [m EXCEPT !.to = None] ELSE m : m \in net}
             L == {[m EXCEPT !.to = None] : m \in Batch(t, page[t])}
  <1>1. Opened(t) /\ net' = N \union L /\ UNCHANGED <<chunks, totaux, jour, totalDuJour, today, crossed>>
    BY DEF Reload, Server
  <1>2. page[t] \in Page /\ net \subseteq Lot
    BY <1>1 DEF PagesTyped, ReplayTyped, ReplayTypeOK, Opened
  <1>3. \A y \in net : /\ f[y] \in N /\ f[y].v = y.v /\ f[y].st = y.st /\ f[y].deja = y.deja
                       /\ f[y].added = y.added
    BY <1>2 DEF Lot
  <1>4. \A x \in N : \E y \in net : x = f[y]
    OBVIOUS
  <1>5. \A x \in L : x.st = "sent"
    <2>1. \A m \in Batch(t, page[t]) : m.st = "sent" /\ m \in Lot
      BY <1>1, <1>2, BatchOf
    <2> QED BY <2>1 DEF Lot
  <1> HIDE DEF f, N, L
  <1>6. \A x \in net' : x.st \in Pre \union {"count"} =>
          \E y \in net : x = f[y] /\ y.v = x.v /\ y.st = x.st /\ y.deja = x.deja /\ y.added = x.added
    <2> SUFFICES ASSUME NEW x \in net', x.st \in Pre \union {"count"}
                 PROVE  \E y \in net : x = f[y] /\ y.v = x.v /\ y.st = x.st /\ y.deja = x.deja /\ y.added = x.added
      OBVIOUS
    <2>1. x \in N
      BY <1>1, <1>5 DEF Pre
    <2> QED BY <1>3, <1>4, <2>1
  <1>7. \A y \in net : y.st \in Pre \/ Inserted(y) =>
          \E x \in net' : x.v = y.v /\ x.st = y.st /\ x.added = y.added
    BY <1>1, <1>3
  <1>8. crossed <= crossed'
    BY <1>1 DEF ReplayTyped, ReplayTypeOK
  <1> QED BY <1>1, <1>6, <1>7, <1>8, NothingCounted
\* A purge, a cache that is cleared, midnight, a new process.
LEMMA IncidentCaps ==
  ASSUME ReplayTyped, ReplayTyped', CapsInv, Purger \/ ViderTotaux \/ Minuit \/ Redemarrer
  PROVE  CapsInv'
  <1>1. /\ crossed \in Nat /\ totalDuJour \in Nat /\ MAX_DAY \in Nat /\ MAX_SESSION \in Nat
        /\ jour \in Nat /\ today \in Nat /\ chunks \subseteq Chunk
    BY ReplayAssumption DEF ReplayAssumption, ReplayTyped, ReplayTypeOK
  <1>2. /\ Cardinality(Pending) \in Nat /\ Cardinality(Inserting) \in Nat /\ Cardinality(Working) \in Nat
        /\ Cardinality(Today) \in Nat /\ Cardinality(Pending) <= Cardinality(Working)
        /\ \A v : Cardinality(PendingOf(v)) \in Nat /\ Cardinality(Of(v)) \in Nat
        /\ \A S : Slack(S) \in {0, 1}
        /\ Pending = {} => Cardinality(Pending) = 0
    BY Counts
  <1>3. \A v \in Visits : Cardinality(Of(v)) <= MAX_SESSION + crossed
    BY DEF CapsInv, CapsBoundedByOverlap
  \* The batches are what they were, and no chunk is new.
  <1>4. ASSUME net' = net, chunks' \subseteq chunks, UNCHANGED <<jour, totalDuJour, crossed>>,
               \A v \in Visits : totaux'[v] = None \/ (totaux'[v] = totaux[v] /\ chunks' = chunks)
        PROVE  OverlapIsCounted' /\ VisitCounted' /\ BatchCounted' /\ Checked'
               /\ \A v \in Visits : Cardinality(Of(v)') <= MAX_SESSION + crossed'
    <2>1. \A v : Of(v)' \subseteq Of(v)
      BY <1>4 DEF Of
    <2>2. \A v : Cardinality(Of(v)') <= Cardinality(Of(v)) /\ Cardinality(Of(v)') \in Nat
      <3>1. \A v : IsFiniteSet(Of(v))
        BY ChunksFinite
      <3> QED BY <2>1, <3>1, FS_Subset, FS_CardinalityType
    <2>3. \A v : PendingOf(v)' = PendingOf(v) /\ UncountedOf(v)' = UncountedOf(v)
      BY <1>4 DEF PendingOf, UncountedOf, Inserted
    <2>4. OverlapIsCounted'
      BY <1>4 DEF CapsInv, OverlapIsCounted, Working
    <2>5. VisitCounted'
      BY <1>4, <2>3 DEF CapsInv, VisitCounted, Of
    <2>6. BatchCounted'
      <3> SUFFICES ASSUME NEW x \in net, x.st \in {"summed", "insert"} \/ Inserted(x)
                   PROVE  Cardinality(Of(x.v)') + Cardinality(PendingOf(x.v)') <= x.deja + 1 + crossed
        BY <1>4 DEF BatchCounted, Inserted
      <3>1. Cardinality(Of(x.v)) + Cardinality(PendingOf(x.v)) <= x.deja + 1 + crossed
        BY DEF CapsInv, BatchCounted
      <3>2. x.deja \in Nat
        BY DEF ReplayTyped, ReplayTypeOK, Lot
      <3> QED BY <1>1, <1>2, <2>2, <2>3, <3>1, <3>2
    <2>7. Checked'
      BY <1>4 DEF CapsInv, Checked
    <2>8. \A v \in Visits : Cardinality(Of(v)') <= MAX_SESSION + crossed'
      BY <1>1, <1>2, <1>3, <1>4, <2>2
    <2> QED BY <2>4, <2>5, <2>6, <2>7, <2>8
  <1>5. ASSUME net' = net, Today' = Today, UNCHANGED <<jour, totalDuJour, today, crossed>>, chunks' \subseteq chunks
        PROVE  DayCounted' /\ DayForgotten' /\ DayChecked' /\ PastDays' /\ Cardinality(Today') <= MAX_DAY + crossed'
    <2>1. Pending' = Pending /\ Uncounted' = Uncounted /\ Inserting' = Inserting
      BY <1>5 DEF Pending, Uncounted, Inserting, Inserted
    <2> QED BY <1>5, <2>1 DEF CapsInv, DayCounted, DayForgotten, DayChecked, PastDays, CapsBoundedByOverlap
  <1>6. CASE Purger \/ ViderTotaux
    <2>1. /\ net' = net /\ UNCHANGED <<jour, totalDuJour, today, crossed>>
          /\ \A v \in Visits : totaux'[v] = None
          /\ chunks' = chunks \/ chunks' = Today
      BY <1>6 DEF Purger, ViderTotaux
    <2>2. chunks' \subseteq chunks /\ Today' = Today
      BY <2>1 DEF Today
    <2> QED BY <1>4, <1>5, <2>1, <2>2 DEF CapsInv, CapsBoundedByOverlap
  <1>7. CASE Minuit
    <2>1. /\ net' = net /\ chunks' = chunks /\ UNCHANGED <<jour, totalDuJour, crossed, totaux>>
          /\ today' = today + 1
      BY <1>7 DEF Minuit
    <2>2. OverlapIsCounted' /\ VisitCounted' /\ BatchCounted' /\ Checked'
          /\ \A v \in Visits : Cardinality(Of(v)') <= MAX_SESSION + crossed'
      BY <1>4, <2>1
    <2>3. jour <= today /\ \A c \in chunks : c.day <= today /\ c.day \in Nat
      BY <1>1 DEF CapsInv, PastDays, Chunk
    <2>4. PastDays' /\ jour' # today' /\ jour' \in Nat /\ today' \in Nat
      BY <1>1, <2>1, <2>3 DEF PastDays
    <2>5. Today' = {}
      BY <1>1, <2>1, <2>3 DEF Today
    <2>6. Cardinality(Today') = 0
      BY <2>5, FS_EmptySet
    <2>7. Pending' = Pending /\ crossed' = crossed
      BY <2>1 DEF Pending
    <2>8. Pending # {} => Slack(Pending) = 1
      BY DEF Slack
    <2>9. Cardinality(Working) <= 1 + crossed
      BY DEF CapsInv, OverlapIsCounted
    <2>10. Cardinality(Today') + Cardinality(Pending') <= crossed' + Slack(Pending')
      BY <1>1, <1>2, <2>6, <2>7, <2>8, <2>9
    <2>11. DayCounted' /\ DayForgotten' /\ DayChecked'
      BY <2>4, <2>10 DEF DayCounted, DayForgotten, DayChecked
    <2>12. Cardinality(Today') <= MAX_DAY + crossed'
      BY <1>1, <2>6, <2>7
    <2> QED BY <2>2, <2>4, <2>11, <2>12 DEF CapsInv, CapsBoundedByOverlap
  <1>8. CASE Redemarrer
    <2>1. /\ net' = {m \in net : m.st \in {"sent", "2xx", "4xx"}} /\ chunks' = chunks
          /\ \A v \in Visits : totaux'[v] = None
          /\ jour' = today /\ totalDuJour' = Cardinality(Today) /\ UNCHANGED <<today, crossed>>
      BY <1>8 DEF Redemarrer
    <2>2. Pending' = {} /\ Inserting' = {} /\ Working' = {} /\ Uncounted' = {}
      BY <2>1 DEF Pending, Inserting, Working, Uncounted, Inserted, Pre
    <2>3. Cardinality(Pending') = 0 /\ Cardinality(Inserting') = 0 /\ Cardinality(Working') = 0
      BY <2>2, FS_EmptySet
    <2>4. Today' = Today /\ \A v : Of(v)' = Of(v)
      BY <2>1 DEF Today, Of
    <2>5. OverlapIsCounted'
      BY <1>1, <2>1, <2>3 DEF OverlapIsCounted
    <2>6. VisitCounted'
      BY <2>1 DEF VisitCounted
    <2>7. BatchCounted' /\ Checked'
      BY <2>1 DEF BatchCounted, Checked, Inserted
    <2>8. Slack(Uncounted') = 0
      BY <2>2 DEF Slack
    <2>9. DayCounted' /\ DayForgotten' /\ DayChecked'
      <3>1. Cardinality(Today) <= MAX_DAY + crossed
        BY DEF CapsInv, CapsBoundedByOverlap
      <3> QED BY <1>1, <1>2, <2>1, <2>3, <2>4, <2>8, <3>1 DEF DayCounted, DayForgotten, DayChecked
    <2>10. PastDays' /\ CapsBoundedByOverlap'
      BY <1>1, <2>1, <2>4 DEF CapsInv, PastDays, CapsBoundedByOverlap
    <2> QED BY <2>5, <2>6, <2>7, <2>9, <2>10 DEF CapsInv
  <1> QED BY <1>6, <1>7, <1>8

\* Every step keeps to the caps.
LEMMA CapsStep ==
  ASSUME VisitorTyped, CapsInv, [Next]_vars
  PROVE  CapsInv'
  <1>0. ReplayTyped /\ ReplayTyped'
    BY TypedStep DEF VisitorTyped
  <1>1. ASSUME Spares, UNCHANGED <<chunks, totaux, jour, totalDuJour, today, crossed>> PROVE CapsInv'
    BY <1>0, <1>1, QuietCaps
  <1>2. CASE Receiving
    BY <1>0, <1>2, ReceivingCaps DEF Receiving
  <1>3. CASE Incidents
    BY <1>0, <1>3, IncidentCaps DEF Incidents
  <1>4. ASSUME NEW t \in Tabs, Reload(t) PROVE CapsInv'
    BY <1>0, <1>4, ReloadCaps
  <1>5. ASSUME net' = net, UNCHANGED <<chunks, totaux, jour, totalDuJour, today, crossed>> PROVE CapsInv'
    BY <1>1, <1>5 DEF Spares
  <1>6. CASE Counting \/ UNCHANGED vars
    BY <1>5, <1>6 DEF Counting, replayVars, vars
  <1>7. ASSUME NEW t \in Tabs, OpenTab(t) \/ Choisir(t) \/ DemarrerEchoue(t) \/ \E u \in Tabs : Duplicate(t, u)
        PROVE  CapsInv'
    BY <1>5, <1>7 DEF OpenTab, Choisir, DemarrerEchoue, Duplicate, Server, replayVars
  <1>8. ASSUME NEW m \in net, Reponse(m) \/ Perdre(m) PROVE CapsInv'
    <2>1. net' = net \ {m} /\ m.st \in {"2xx", "4xx", "sent"} /\ Server
      BY <1>8 DEF Reponse, Perdre, Received
    <2>2. Spares
      BY <2>1 DEF Spares, Pre, Inserted
    <2> QED BY <1>1, <2>1, <2>2 DEF Server
  <1>9. ASSUME NEW S, \A b \in S : b.st = "sent", net' = net \union S, Server PROVE CapsInv'
    <2>1. Spares
      BY <1>9 DEF Spares
    <2> QED BY <1>1, <1>9, <2>1 DEF Server
  <1>10. \A t, p : \A b \in Batch(t, p) \union Remainder(t, p) : b.st = "sent"
    BY DEF Batch, Remainder
  <1>11. ASSUME NEW t \in Tabs, Naviguer(t) \/ Effet(t) PROVE CapsInv'
    <2>1. Server /\ \E p : net' = net \union Remainder(t, p)
      BY <1>11 DEF Naviguer, Effet, Leaves
    <2> QED BY <1>9, <1>10, <2>1
  <1>12. ASSUME NEW t \in Tabs, Demarrer(t) \/ Tic(t) \/ \E b \in BOOLEAN : Emettre(t, b) PROVE CapsInv'
    <2>1. Server /\ (net' = net \/ \E p : net' = net \union Batch(t, p))
      BY <1>12 DEF Demarrer, Tic, Emettre, Leaves
    <2>2. CASE net' = net
      BY <1>5, <2>1, <2>2 DEF Server
    <2> QED BY <1>9, <1>10, <2>1, <2>2
  <1> QED BY <1>2, <1>3, <1>4, <1>6, <1>7, <1>8, <1>11, <1>12 DEF Next, Visiting, Recording

\* A visit and a day hold no more than their cap, but for the batches whose totals were read while another
\* was under way and those inserted after the midnight that followed their check, whatever is purged,
\* forgotten, written twice, not written or restarted (replay.service.ts, recevoir).
THEOREM CapsHold == Spec => []CapsBoundedByOverlap
  <1>1. Init => CapsInv
    <2> SUFFICES ASSUME Init PROVE CapsInv
      OBVIOUS
    <2>1. /\ net = {} /\ chunks = {} /\ crossed = 0 /\ jour = 1 /\ today = 1 /\ totalDuJour = 0
          /\ totaux = [v \in Visits |-> None] /\ MAX_DAY \in Nat /\ MAX_SESSION \in Nat
      BY ReplayAssumption DEF ReplayAssumption, Init, ReplayInit
    <2>2. /\ Pending = {} /\ Inserting = {} /\ Working = {} /\ Uncounted = {} /\ Today = {}
          /\ \A v : Of(v) = {}
      BY <2>1 DEF Pending, Inserting, Working, Uncounted, Today, Of
    <2>3. Cardinality({}) = 0 /\ Slack({}) = 0
      BY FS_EmptySet DEF Slack
    <2>4. OverlapIsCounted /\ DayCounted /\ DayForgotten /\ DayChecked /\ CapsBoundedByOverlap
      BY <2>1, <2>2, <2>3 DEF OverlapIsCounted, DayCounted, DayForgotten, DayChecked, CapsBoundedByOverlap
    <2>5. VisitCounted /\ BatchCounted /\ Checked /\ PastDays
      BY <2>1 DEF VisitCounted, BatchCounted, Checked, PastDays
    <2> QED BY <2>4, <2>5 DEF CapsInv
  <1>2. VisitorTyped /\ CapsInv /\ [Next]_vars => VisitorTyped' /\ CapsInv'
    BY TypedStep, CapsStep
  <1>3. CapsInv => CapsBoundedByOverlap
    BY DEF CapsInv
  <1> QED BY TypedInit, <1>1, <1>2, <1>3, PTL DEF Spec
=============================================================================
