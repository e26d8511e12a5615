---------------------------- MODULE WizardProofs ----------------------------
(***************************************************************************)
(* The results screen of the wizard, for any names, projects, number of    *)
(* gestures and size of a lot: an analysis is asked for once; the list and *)
(* the chips are those of the project displayed; what a card shows is what *)
(* the server holds.                                                       *)
(*                                                                         *)
(* Four invariants, each resting on those before it: the types (TypeInv),  *)
(* the analyses (AnalysesInv), the screen (ScreenInv) and the ratings      *)
(* (RatingsInv).  The last two hold until a search or a load is left       *)
(* behind (strayed), which stays true from then on.                        *)
(***************************************************************************)
EXTENDS Wizard, FiniteSetTheorems, TLAPS

\* A name typed in has the project it is saved under once it was found available.
ManualsPlaced == \A m \in manuals : m.step # "check" => m.project # None

TypeInv == TypeOK /\ ManualsPlaced

\* The fields of the records, and what their updates are.
LEMMA CardFields ==
  ASSUME NEW c \in Card
  PROVE  /\ c.id \in Projects \union {None} /\ c.manual \in BOOLEAN /\ c.rating \in Ratings
         /\ c.pending \in Ratings \union {None} /\ c.analysis \in {"none", "pending", "done"}
         /\ c.stray \in BOOLEAN
         /\ \A r \in Ratings : [c EXCEPT !.rating = r] \in Card
         /\ \A r \in Ratings : [c EXCEPT !.rating = r, !.pending = r] \in Card
         /\ [c EXCEPT !.pending = None] \in Card
         /\ \A a \in {"none", "pending", "done"} : [c EXCEPT !.analysis = a] \in Card
         /\ \A p \in Projects : [c EXCEPT !.id = p] \in Card
  BY DEF Card

LEMMA VoteFields ==
  ASSUME NEW v \in Vote
  PROVE  /\ v.sugg \in Suggestions /\ v.value \in Ratings /\ v.previous \in Ratings \union {None}
         /\ v.stale \in BOOLEAN /\ v.reply \in {"awaited", "ok", "ko"}
         /\ v.sugg[1] \in Names /\ v.sugg[2] \in Projects
         /\ \A b \in BOOLEAN : [v EXCEPT !.stale = b] \in Vote
         /\ \A r \in {"awaited", "ok", "ko"} : [v EXCEPT !.reply = r] \in Vote
  BY DEF Vote, Suggestions

LEMMA ManualFields ==
  ASSUME NEW m \in Manual
  PROVE  /\ m.name \in Names /\ m.project \in Projects \union {None} /\ m.step \in {"check", "save", "like"}
         /\ \A p \in Projects : [m EXCEPT !.step = "save", !.project = p] \in Manual
         /\ [m EXCEPT !.step = "like"] \in Manual
         /\ [m EXCEPT !.step = "like"].project = m.project
         /\ [m EXCEPT !.step = "like"].name = m.name
         /\ [m EXCEPT !.step = "like"].step = "like"
  BY DEF Manual

\* Suggestions and votes are well-formed.
LEMMA SuggTyped ==
  ASSUME CardsTypeOK, NEW n, Saved(n)
  PROVE  n \in Names /\ n \in DOMAIN rows /\ rows[n] \in Card /\ rows[n].id \in Projects /\ Sugg(n) \in Suggestions
         /\ Sugg(n)[1] = n /\ Sugg(n)[2] = rows[n].id
  BY DEF CardsTypeOK, Saved, Card, Sugg, Suggestions

LEMMA StaleTyped ==
  ASSUME CardsTypeOK, NEW S
  PROVE  Stale(S) \subseteq Vote
  <1> SUFFICES ASSUME NEW v \in votes PROVE [v EXCEPT !.stale = @ \/ v.sugg[1] \in S] \in Vote
    BY DEF Stale
  <1>1. v \in Vote
    BY DEF CardsTypeOK
  <1> QED BY <1>1 DEF Vote

LEMMA SendBatchTyped ==
  ASSUME CardsTypeOK, NEW S, \A n \in S : Saved(n), NEW k \in 0..MaxGestures, SendBatch(S, k)
  PROVE  /\ launched' \subseteq Suggestions /\ batches' \subseteq Batch /\ votes' \subseteq Vote
         /\ DOMAIN rows' = DOMAIN rows /\ rows' \in [DOMAIN rows -> Card]
         /\ S \subseteq DOMAIN rows
         /\ \A n \in DOMAIN rows :
              rows'[n] = IF n \in S THEN [rows[n] EXCEPT !.analysis = "pending"] ELSE rows[n]
  <1>1. {Sugg(n) : n \in S} \subseteq Suggestions
    BY SuggTyped
  <1>2. launched' \subseteq Suggestions /\ batches' \subseteq Batch
    BY <1>1 DEF SendBatch, Batch, CardsTypeOK
  <1>3. votes' \subseteq Vote
    BY StaleTyped DEF SendBatch
  <1>4. /\ rows' = [n \in DOMAIN rows |-> IF n \in S THEN [rows[n] EXCEPT !.analysis = "pending"] ELSE rows[n]]
        /\ rows \in [DOMAIN rows -> Card]
    BY DEF SendBatch, CardsTypeOK
  <1>5. \A n \in DOMAIN rows : rows[n] \in Card /\ [rows[n] EXCEPT !.analysis = "pending"] \in Card
    BY <1>4, CardFields
  <1>6. S \subseteq DOMAIN rows
    BY DEF Saved
  <1> QED BY <1>2, <1>3, <1>4, <1>5, <1>6

----------------------------------------------------------------------------
(* Every step keeps the types. *)

\* Ratings.
LEMMA SetRatingTypes ==
  ASSUME TypeInv, NEW n \in Names, NEW r \in Ratings, SetRating(n, r), UNCHANGED searchVars
  PROVE  TypeInv'
  <1> USE DEF TypeInv, TypeOK, CardsTypeOK
  <1>1. n \in DOMAIN rows /\ rows[n] \in Card
    BY DEF SetRating
  <1>2. rows' \in [DOMAIN rows -> Card] /\ DOMAIN rows' = DOMAIN rows
    BY <1>1, CardFields DEF SetRating
  <1>3. votes' \subseteq Vote
    <2>1. CASE Saved(n)
      <3>1. rows[n].rating \in Ratings /\ Sugg(n) \in Suggestions
        BY <1>1, <2>1, CardFields, SuggTyped
      <3> DEFINE v == [sugg |-> Sugg(n), value |-> r, previous |-> rows[n].rating, stale |-> FALSE,
                       reply |-> "awaited"]
      <3>2. v \in Vote
        BY <3>1 DEF Vote
      <3>3. votes' = votes \union {v}
        BY <2>1 DEF SetRating
      <3> HIDE DEF v
      <3> QED BY <3>2, <3>3
    <2>2. CASE ~Saved(n)
      BY <2>2 DEF SetRating
    <2> QED BY <2>1, <2>2
  <1>4. gestures' \in 0..MaxGestures /\ doubtful' \subseteq Names
    BY CardsAssumption DEF SetRating, Gesture
  <1> QED BY <1>2, <1>3, <1>4 DEF SetRating, searchVars, ManualsPlaced, Live

LEMMA VoteReachesTypes ==
  ASSUME TypeInv, NEW v \in votes, VoteReaches(v), UNCHANGED searchVars
  PROVE  TypeInv'
  <1> USE DEF TypeInv, TypeOK, CardsTypeOK
  <1>1. v \in Vote
    OBVIOUS
  <1>2. votes' \subseteq Vote
    <2>1. PICK reply \in {"ok", "ko"} : votes' = (votes \ {v}) \union {[v EXCEPT !.reply = reply]}
      BY DEF VoteReaches
    <2>2. [v EXCEPT !.reply = reply] \in Vote
      BY <1>1, VoteFields
    <2> QED BY <2>1, <2>2
  <1>3. doubtful' \subseteq Names
    BY <1>1, VoteFields DEF VoteReaches
  <1>4. srv' \in [Suggestions -> Ratings \union {None}]
    BY <1>1, VoteFields DEF VoteReaches
  <1> QED BY <1>2, <1>3, <1>4 DEF VoteReaches, searchVars, ManualsPlaced

LEMMA VoteAnsweredTypes ==
  ASSUME TypeInv, NEW v \in votes, VoteAnswered(v), UNCHANGED searchVars
  PROVE  TypeInv'
  <1> USE DEF TypeInv, TypeOK, CardsTypeOK
  <1>1. v \in Vote
    OBVIOUS
  <1>2. v.sugg[1] \in Names /\ v.value \in Ratings /\ RollBack(v) \in Ratings
    BY <1>1, VoteFields DEF RollBack
  <1>3. rows' \in [DOMAIN rows -> Card] /\ DOMAIN rows' = DOMAIN rows
    <2> DEFINE n == v.sugg[1]
               x == IF v.reply = "ok" THEN v.value ELSE RollBack(v)
    <2>1. rows' = rows \/ (n \in DOMAIN rows /\ rows' = [rows EXCEPT ![n].rating = x])
      BY DEF VoteAnswered
    <2>2. x \in Ratings
      BY <1>2
    <2> HIDE DEF n, x
    <2>3. ASSUME n \in DOMAIN rows PROVE [rows[n] EXCEPT !.rating = x] \in Card
      BY <2>2, <2>3, CardFields
    <2> QED BY <2>1, <2>3
  <1>4. seen' \subseteq Names /\ doubtful' \subseteq Names /\ timer' \in BOOLEAN /\ votes' \subseteq votes
    BY <1>2 DEF VoteAnswered, Collect
  <1> QED BY <1>3, <1>4 DEF VoteAnswered, searchVars, ManualsPlaced

\* Analyses.
LEMMA CarteVueTypes ==
  ASSUME TypeInv, NEW n \in Names, CarteVue(n), UNCHANGED searchVars
  PROVE  TypeInv'
  BY DEF TypeInv, TypeOK, CardsTypeOK, CarteVue, Collect, searchVars, ManualsPlaced

LEMMA EnvoyerUnLotTypes ==
  ASSUME TypeInv, EnvoyerUnLot, UNCHANGED searchVars
  PROVE  TypeInv'
  <1> USE DEF TypeInv, TypeOK, CardsTypeOK
  <1>1. CASE UNCHANGED <<launched, rows, votes, batches, busy>>
    BY <1>1 DEF EnvoyerUnLot, searchVars, ManualsPlaced
  <1>2. CASE busy' = TRUE /\ \E lot \in SUBSET {n \in Names : Due(n)} : SendBatch(lot, 0)
    <2>1. PICK lot \in SUBSET {n \in Names : Due(n)} : SendBatch(lot, 0)
      BY <1>2
    <2>2. \A n \in lot : Saved(n)
      BY DEF Due
    <2>3. 0 \in 0..MaxGestures
      BY CardsAssumption
    <2>4. /\ launched' \subseteq Suggestions /\ batches' \subseteq Batch /\ votes' \subseteq Vote
          /\ DOMAIN rows' = DOMAIN rows /\ rows' \in [DOMAIN rows -> Card]
      BY <2>1, <2>2, <2>3, SendBatchTyped
    <2> QED BY <1>2, <2>4 DEF EnvoyerUnLot, searchVars, ManualsPlaced
  <1> QED BY <1>1, <1>2 DEF EnvoyerUnLot

LEMMA AnalyseOneTypes ==
  ASSUME TypeInv, NEW n \in Names, AnalyseOne(n), UNCHANGED searchVars
  PROVE  TypeInv'
  <1> USE DEF TypeInv, TypeOK, CardsTypeOK
  <1>1. gestures' \in 0..MaxGestures /\ gestures + 1 \in 0..MaxGestures
    BY CardsAssumption DEF AnalyseOne, Gesture
  <1>2. /\ launched' \subseteq Suggestions /\ batches' \subseteq Batch /\ votes' \subseteq Vote
        /\ DOMAIN rows' = DOMAIN rows /\ rows' \in [DOMAIN rows -> Card]
    <2>1. SendBatch({n}, gestures + 1) /\ \A m \in {n} : Saved(m)
      BY DEF AnalyseOne
    <2> QED BY <2>1, <1>1, SendBatchTyped
  <1> QED BY <1>1, <1>2 DEF AnalyseOne, searchVars, ManualsPlaced

LEMMA BatchAnsweredTypes ==
  ASSUME TypeInv, NEW b \in batches, NEW done \in SUBSET b.ids, BatchAnswered(b, done),
         UNCHANGED searchVars
  PROVE  TypeInv'
  <1> USE DEF TypeInv, TypeOK, CardsTypeOK
  <1>1. b.ids \subseteq Suggestions
    BY DEF Batch
  <1>2. votes' \subseteq Vote
    BY StaleTyped DEF BatchAnswered
  <1>3. rows' \in [DOMAIN rows -> Card] /\ DOMAIN rows' = DOMAIN rows
    <2> DEFINE x(n) == IF Sugg(n) \in done THEN "done"
                       ELSE IF rows[n].analysis = "pending" THEN "none" ELSE rows[n].analysis
               touched == {n \in DOMAIN rows : Saved(n) /\ Sugg(n) \in b.ids}
    <2>1. rows' = [n \in DOMAIN rows |-> IF n \in touched THEN [rows[n] EXCEPT !.analysis = x(n)] ELSE rows[n]]
      BY DEF BatchAnswered
    <2>2. \A n \in DOMAIN rows : rows[n] \in Card /\ x(n) \in {"none", "pending", "done"}
      BY CardFields
    <2> HIDE DEF x, touched
    <2>3. \A n \in DOMAIN rows : [rows[n] EXCEPT !.analysis = x(n)] \in Card
      BY <2>2, CardFields
    <2> QED BY <2>1, <2>2, <2>3
  <1>4. busy' \in BOOLEAN /\ timer' \in BOOLEAN
    BY DEF BatchAnswered, NextBatch, Collect
  <1> QED BY <1>1, <1>2, <1>3, <1>4 DEF BatchAnswered, searchVars, ManualsPlaced

\* Names typed in.
LEMMA AddManualTypes ==
  ASSUME TypeInv, NEW n \in Names, AddManual(n), UNCHANGED searchVars
  PROVE  TypeInv'
  <1> USE DEF TypeInv, TypeOK, CardsTypeOK
  <1> DEFINE c == [id |-> None, manual |-> TRUE, rating |-> "liked", pending |-> None,
                   analysis |-> "none", stray |-> FALSE]
             m == [name |-> n, project |-> None, step |-> "check"]
  <1>1. c \in Card /\ m \in Manual
    BY DEF Card, Manual, Ratings
  <1>2. /\ rows' = Put(rows, n, c) /\ manuals' = manuals \union {m} /\ gestures' \in 0..MaxGestures
        /\ doubtful' \subseteq Names /\ unannounced' \subseteq Names
    BY CardsAssumption DEF AddManual, Gesture
  <1>3. m.step = "check"
    OBVIOUS
  <1> HIDE DEF c, m
  <1>4. DOMAIN rows' = DOMAIN rows \union {n} /\ rows' \in [DOMAIN rows \union {n} -> Card]
    BY <1>1, <1>2 DEF Put
  <1>5. manuals' \subseteq Manual /\ ManualsPlaced'
    BY <1>1, <1>2, <1>3 DEF ManualsPlaced
  <1> QED BY <1>1, <1>2, <1>4, <1>5 DEF AddManual, searchVars

LEMMA ManualCheckedTypes ==
  ASSUME TypeInv, NEW m \in manuals, ManualChecked(m), UNCHANGED searchVars
  PROVE  TypeInv'
  <1> USE DEF TypeInv, TypeOK, CardsTypeOK
  <1>1. manuals' \subseteq Manual /\ ManualsPlaced'
    <2>1. CASE shown = None
      BY <2>1 DEF ManualChecked, ManualsPlaced
    <2>2. CASE shown # None
      <3> DEFINE k == [m EXCEPT !.step = "save", !.project = shown]
      <3>0. m \in Manual /\ shown \in Projects
        BY <2>2
      <3>a. k \in Manual
        BY <3>0, ManualFields
      <3>b. k.project = shown
        BY <3>0 DEF Manual
      <3>2. manuals' = (manuals \ {m}) \union {k}
        BY <2>2 DEF ManualChecked
      <3> HIDE DEF k
      <3>1. k \in Manual /\ k.project # None
        BY <3>a, <3>b, <2>2
      <3> QED BY <3>1, <3>2 DEF ManualsPlaced
    <2> QED BY <2>1, <2>2
  <1>2. votes' \subseteq Vote
    BY StaleTyped DEF ManualChecked
  <1>3. timer' \in BOOLEAN
    BY DEF ManualChecked, Collect
  <1> QED BY <1>1, <1>2, <1>3 DEF ManualChecked, searchVars

LEMMA ManualFailedTypes ==
  ASSUME TypeInv, NEW m \in manuals, ManualFailed(m), UNCHANGED searchVars
  PROVE  TypeInv'
  BY DEF TypeInv, TypeOK, CardsTypeOK, ManualFailed, searchVars, ManualsPlaced

LEMMA ManualSavedTypes ==
  ASSUME TypeInv, NEW m \in manuals, ManualSaved(m), UNCHANGED searchVars
  PROVE  TypeInv'
  <1> USE DEF TypeInv, TypeOK, CardsTypeOK
  <1>1. m \in Manual /\ m.project \in Projects /\ m.name \in Names /\ <<m.name, m.project>> \in Suggestions
    BY ManualFields DEF ManualSaved, ManualsPlaced, Suggestions
  <1>2. manuals' \subseteq Manual /\ ManualsPlaced'
    <2> DEFINE k == [m EXCEPT !.step = "like"]
    <2>1. k \in Manual /\ k.project # None
      BY <1>1, ManualFields, CardsAssumption
    <2>2. manuals' = (manuals \ {m}) \union {k} \/ manuals' = manuals \ {m}
      BY DEF ManualSaved
    <2> HIDE DEF k
    <2> QED BY <2>1, <2>2 DEF ManualsPlaced
  <1>3. votes' \subseteq Vote
    BY StaleTyped DEF ManualSaved
  <1>4. rows' \in [DOMAIN rows -> Card] /\ DOMAIN rows' = DOMAIN rows
    <2>1. ASSUME m.name \in DOMAIN rows PROVE [rows[m.name] EXCEPT !.id = m.project] \in Card
      BY <1>1, <2>1, CardFields
    <2>2. rows' = rows \/ (m.name \in DOMAIN rows /\ rows' = [rows EXCEPT ![m.name].id = m.project])
      BY DEF ManualSaved
    <2> QED BY <2>1, <2>2
  <1>5. srv' \in [Suggestions -> Ratings \union {None}] /\ doubtful' \subseteq Names /\ unannounced' \subseteq Names
    BY <1>1 DEF ManualSaved, Ratings
  <1>6. relisted' \subseteq Suggestions
    BY <1>1 DEF ManualSaved
  <1> QED BY <1>2, <1>3, <1>4, <1>5, <1>6 DEF ManualSaved, searchVars

LEMMA ManualLikedTypes ==
  ASSUME TypeInv, NEW m \in manuals, ManualLiked(m), UNCHANGED searchVars
  PROVE  TypeInv'
  <1> USE DEF TypeInv, TypeOK, CardsTypeOK
  <1>1. m.name \in Names
    BY ManualFields
  <1>2. /\ srv' \in [Suggestions -> Ratings \union {None}] /\ timer' \in BOOLEAN
        /\ doubtful' \subseteq Names /\ unannounced' \subseteq Names
    BY <1>1 DEF ManualLiked, Ratings, Collect
  <1> QED BY <1>2 DEF ManualLiked, searchVars, ManualsPlaced

\* Searches and loads.
LEMMA StreamFields ==
  ASSUME NEW x \in Stream
  PROVE  /\ x.st \in {"token", "open", "done", "failing", "ended"} /\ x.old \in BOOLEAN
         /\ x.project \in Projects \union {None} /\ x.wish \in Wish \union {0}
         /\ x.sent \in SUBSET Wish /\ x.found \in SUBSET Names
         /\ \A t \in {"done", "failing"} :
              [x EXCEPT !.st = t] \in Stream /\ [x EXCEPT !.st = t].st = t
         /\ \A t \in BOOLEAN : [x EXCEPT !.old = t] \in Stream
         /\ \A n \in Names : [x EXCEPT !.found = @ \union {n}] \in Stream
  BY DEF Stream

LEMMA OverTyped == Over \in Stream
  BY DEF Over, Stream, Wish

LEMMA StreamsTyped ==
  ASSUME TypeOK, NEW i \in DOMAIN streams
  PROVE  streams[i] \in Stream /\ i \in Nat \ {0} /\ i \in 1..Len(streams)
  BY DEF TypeOK

\* A list of streams that keeps its length keeps searchSub in its range.
LEMMA Streams ==
  ASSUME TypeOK, NEW t, t = [i \in DOMAIN streams |-> t[i]], \A i \in DOMAIN streams : t[i] \in Stream
  PROVE  /\ t \in Seq(Stream) /\ Len(t) = Len(streams) /\ DOMAIN t = DOMAIN streams
  <1>1. streams \in Seq(Stream) /\ DOMAIN streams = 1..Len(streams) /\ Len(streams) \in Nat
    BY DEF TypeOK
  <1> QED BY <1>1

LEMMA EndTyped ==
  ASSUME TypeOK, NEW i, End(i)
  PROVE  streams' \in Seq(Stream) /\ Len(streams') = Len(streams) /\ DOMAIN streams' = DOMAIN streams
  <1>1. streams' = [j \in DOMAIN streams |-> streams'[j]]
    BY DEF End
  <1>2. \A j \in DOMAIN streams : streams'[j] \in Stream
    BY StreamsTyped, OverTyped DEF End
  <1> QED BY <1>1, <1>2, Streams

LEMMA AllOldTyped ==
  ASSUME TypeOK
  PROVE  AllOld \in Seq(Stream) /\ Len(AllOld) = Len(streams) /\ DOMAIN AllOld = DOMAIN streams
  <1>1. AllOld = [j \in DOMAIN streams |-> AllOld[j]]
    BY DEF AllOld
  <1>2. \A j \in DOMAIN streams : AllOld[j] \in Stream
    BY StreamsTyped, StreamFields DEF AllOld
  <1> HIDE DEF AllOld
  <1> QED BY <1>1, <1>2, Streams

LEMMA EndSubTyped ==
  ASSUME TypeOK, EndSub
  PROVE  /\ streams' \in Seq(Stream) /\ Len(streams') = Len(streams) /\ DOMAIN streams' = DOMAIN streams
         /\ searchSub' \in 0..Len(streams)
  <1>1. streams' = [j \in DOMAIN streams |-> streams'[j]]
    BY DEF EndSub
  <1>2. \A j \in DOMAIN streams : streams'[j] \in Stream
    BY StreamsTyped, OverTyped DEF EndSub
  <1>3. Len(streams) \in Nat
    BY DEF TypeOK
  <1> QED BY <1>1, <1>2, <1>3, Streams DEF EndSub

\* A list without a card.
LEMMA EmptyRows ==
  ASSUME NEW r, r = <<>>
  PROVE  DOMAIN r = {} /\ r \in [DOMAIN r -> Card]
  <1>1. r \in [{} -> Card]
    BY SMT
  <1> QED BY <1>1

LEMMA FindDomainsTypes ==
  ASSUME TypeInv, NEW append \in BOOLEAN, NEW wish \in BOOLEAN, FindDomains(append, wish)
  PROVE  TypeInv'
  <1> USE DEF TypeInv
  <1> DEFINE w == IF wish THEN gestures + 1 ELSE 0
             x == [st |-> "token", old |-> FALSE, project |-> None, wish |-> w,
                   sent |-> IF wish THEN retours \union {gestures + 1} ELSE {}, found |-> {}]
  <1>1. gestures' \in 0..MaxGestures /\ gestures + 1 \in Wish /\ w \in Wish \union {0}
    BY CardsAssumption DEF FindDomains, Gesture, TypeOK, CardsTypeOK, Wish
  <1>2. x \in Stream
    BY <1>1 DEF Stream, TypeOK
  <1>3. streams' = Append(streams, x) /\ enAttente' \in Wish \union {0} /\ loading' \in BOOLEAN /\ strayed' \in BOOLEAN
    BY <1>1 DEF FindDomains, TypeOK
  <1> HIDE DEF x
  <1>4. streams' \in Seq(Stream) /\ searchSub \in 0..Len(streams')
    BY <1>2, <1>3 DEF TypeOK
  <1>5. /\ DOMAIN rows' \subseteq Names /\ rows' \in [DOMAIN rows' -> Card] /\ seen' \subseteq Names
        /\ launched' \subseteq Suggestions /\ timer' \in BOOLEAN /\ votes' \subseteq Vote
    <2>1. CASE append
      BY <2>1 DEF FindDomains, TypeOK, CardsTypeOK
    <2>2. CASE ~append
      <3>1. votes' \subseteq Vote
        BY <2>2, StaleTyped DEF FindDomains, TypeOK
      <3>2. rows' = <<>> /\ seen' = {} /\ launched' = {} /\ timer' = FALSE
        BY <2>2 DEF FindDomains
      <3>3. DOMAIN rows' = {} /\ rows' \in [DOMAIN rows' -> Card]
        BY <3>2, EmptyRows
      <3> QED BY <3>1, <3>2, <3>3
    <2> QED BY <2>1, <2>2
  <1> QED BY <1>1, <1>3, <1>4, <1>5 DEF FindDomains, TypeOK, CardsTypeOK, ManualsPlaced

LEMMA OpenedTypes ==
  ASSUME TypeInv, NEW i \in DOMAIN streams, Opened(i)
  PROVE  TypeInv'
  <1> USE DEF TypeInv
  <1> DEFINE x == [streams[i] EXCEPT !.st = "open", !.project = shown,
                   !.sent = IF streams[i].wish = 0 THEN retours ELSE @]
  <1>1. x \in Stream
    <2>1. streams[i] \in Stream /\ shown \in Projects \union {None} /\ retours \in SUBSET Wish
      BY StreamsTyped DEF TypeOK, CardsTypeOK
    <2> QED BY <2>1 DEF Stream
  <1>2. streams' = [streams EXCEPT ![i] = x]
    BY DEF Opened
  <1> HIDE DEF x
  <1>3. streams' \in Seq(Stream) /\ searchSub' \in 0..Len(streams')
    <2>1. streams' = [j \in DOMAIN streams |-> streams'[j]]
      BY <1>2
    <2>2. \A j \in DOMAIN streams : streams'[j] \in Stream
      BY <1>1, <1>2, StreamsTyped
    <2>3. streams' \in Seq(Stream) /\ Len(streams') = Len(streams)
      BY <2>1, <2>2, Streams
    <2> QED BY <2>3, StreamsTyped DEF Opened, TypeOK
  <1> QED BY <1>3 DEF Opened, TypeOK, CardsTypeOK, ManualsPlaced, cardVars

LEMMA SetTyped ==
  ASSUME TypeOK, NEW i \in DOMAIN streams, NEW t \in {"done", "failing"}, Set(i, t)
  PROVE  streams' \in Seq(Stream) /\ Len(streams') = Len(streams) /\ DOMAIN streams' = DOMAIN streams
  <1>1. streams' = [streams EXCEPT ![i] = [streams[i] EXCEPT !.st = t]]
    BY DEF Set
  <1>2. [streams[i] EXCEPT !.st = t] \in Stream
    BY StreamsTyped, StreamFields
  <1>3. streams' = [j \in DOMAIN streams |-> streams'[j]]
    BY <1>1
  <1>4. \A j \in DOMAIN streams : streams'[j] \in Stream
    BY <1>1, <1>2, StreamsTyped
  <1> QED BY <1>3, <1>4, Streams

LEMMA StreamStepTypes ==
  ASSUME TypeInv, NEW i \in DOMAIN streams,
         TokenFails(i) \/ ErrorEvent(i) \/ Complete(i) \/ StreamError(i)
  PROVE  TypeInv'
  <1> USE DEF TypeInv
  <1>1. streams' \in Seq(Stream) /\ Len(streams') = Len(streams)
    BY EndTyped, SetTyped DEF TokenFails, ErrorEvent, Complete, StreamError, Ended
  <1>2. /\ UNCHANGED <<cardVars, projects, drawn, wishes, searchSub, loads, retours, strayed>>
        /\ alive' \in BOOLEAN /\ loading' \in BOOLEAN /\ enAttente' \in Wish \union {0}
    BY DEF TokenFails, ErrorEvent, Complete, StreamError, Ended, TypeOK
  <1> QED BY <1>1, <1>2 DEF TypeOK, CardsTypeOK, ManualsPlaced, cardVars

LEMMA ResultTypes ==
  ASSUME TypeInv, NEW i \in DOMAIN streams, NEW n \in Names, Result(i, n)
  PROVE  TypeInv'
  <1> USE DEF TypeInv
  <1> DEFINE c == [id |-> None, manual |-> FALSE, rating |-> "neutral", pending |-> None,
                   analysis |-> "none", stray |-> streams[i].old]
             x == [streams[i] EXCEPT !.found = @ \union {n}]
  <1>1. c \in Card /\ x \in Stream
    <2>1. streams[i] \in Stream
      BY StreamsTyped
    <2> QED BY <2>1, StreamFields DEF Card, Ratings
  <1>2. rows' = Put(rows, n, c) /\ streams' = [streams EXCEPT ![i] = x]
    BY DEF Result
  <1> HIDE DEF c, x
  <1>3. DOMAIN rows' \subseteq Names /\ rows' \in [DOMAIN rows' -> Card]
    BY <1>1, <1>2 DEF Put, TypeOK, CardsTypeOK
  <1>4. streams' \in Seq(Stream) /\ Len(streams') = Len(streams)
    <2>1. streams' = [j \in DOMAIN streams |-> streams'[j]]
      BY <1>2
    <2>2. \A j \in DOMAIN streams : streams'[j] \in Stream
      BY <1>1, <1>2, StreamsTyped
    <2> QED BY <2>1, <2>2, Streams
  <1> QED BY <1>3, <1>4 DEF Result, TypeOK, CardsTypeOK, ManualsPlaced

LEMMA FlushTyped ==
  ASSUME NEW cards, DOMAIN cards \subseteq Names, \A n \in DOMAIN cards : cards[n] \in Card
  PROVE  Flush(cards) \subseteq Vote
  <1> SUFFICES ASSUME NEW n \in DOMAIN cards, cards[n].id # None, cards[n].pending # None
               PROVE [sugg |-> <<n, cards[n].id>>, value |-> cards[n].pending, previous |-> None,
                      stale |-> FALSE, reply |-> "awaited"] \in Vote
    BY DEF Flush
  <1>1. n \in Names /\ cards[n].id \in Projects /\ cards[n].pending \in Ratings
    BY CardFields
  <1> QED BY <1>1 DEF Vote, Suggestions

LEMMA DoneTypes ==
  ASSUME TypeInv, NEW i \in DOMAIN streams, NEW p \in Projects, Done(i, p)
  PROVE  TypeInv'
  <1> USE DEF TypeInv
  <1> DEFINE saved == {n \in streams[i].found : srv[n, p] = None}
             held == saved \cap DOMAIN rows
             cards == [n \in DOMAIN rows |-> IF n \in held THEN [rows[n] EXCEPT !.id = p] ELSE rows[n]]
  <1>1. \A n \in DOMAIN rows : rows[n] \in Card
    BY DEF TypeOK, CardsTypeOK
  <1>2. DOMAIN cards = DOMAIN rows /\ \A n \in DOMAIN cards : cards[n] \in Card
    BY <1>1, CardFields
  <1>3. /\ rows' = [n \in DOMAIN rows |-> IF cards[n].id = None THEN cards[n] ELSE [cards[n] EXCEPT !.pending = None]]
        /\ votes' = Stale(held) \union Flush(cards)
        /\ srv' = [s \in Suggestions |-> IF s[1] \in saved /\ s[2] = p THEN "neutral" ELSE srv[s]]
    BY DEF Done
  <1> HIDE DEF saved, held, cards
  <1>4. DOMAIN rows' \subseteq Names /\ rows' \in [DOMAIN rows' -> Card]
    <2>1. \A n \in DOMAIN rows : [cards[n] EXCEPT !.pending = None] \in Card
      BY <1>2, CardFields
    <2> QED BY <2>1, <1>2, <1>3 DEF TypeOK, CardsTypeOK
  <1>5. votes' \subseteq Vote
    <2>1. DOMAIN cards \subseteq Names
      BY <1>2 DEF TypeOK, CardsTypeOK
    <2>2. Flush(cards) \subseteq Vote
      BY <2>1, <1>2, FlushTyped
    <2> QED BY <2>2, <1>3, StaleTyped DEF TypeOK
  <1>6. srv' \in [Suggestions -> Ratings \union {None}]
    BY <1>3 DEF TypeOK, CardsTypeOK, Ratings
  <1>7. streams' \in Seq(Stream) /\ Len(streams') = Len(streams)
    BY SetTyped DEF Done
  <1>8. wishes' \in [Projects -> SUBSET Wish] /\ retours' \subseteq Wish /\ enAttente' = 0
    <2>1. streams[i].sent \in SUBSET Wish
      BY StreamsTyped, StreamFields
    <2> QED BY <2>1 DEF Done, TypeOK
  <1>9. timer' \in BOOLEAN
    BY DEF Done, Collect, TypeOK, CardsTypeOK
  <1>10. /\ projects' \subseteq drawn' /\ drawn' \subseteq Projects /\ projects' \subseteq Projects
         /\ shown' \in Projects
    BY DEF Done, TypeOK
  <1>11. UNCHANGED <<seen, launched, busy, batches, manuals, analysed, gestures,
                 relisted, doubtful, unannounced, alive, loading, searchSub, loads, strayed>>
    BY DEF Done
  <1>12. CardsTypeOK'
    BY <1>4, <1>5, <1>6, <1>9, <1>10, <1>11 DEF TypeOK, CardsTypeOK
  <1>13. ManualsPlaced'
    BY <1>11 DEF ManualsPlaced
  <1> QED BY <1>7, <1>8, <1>10, <1>11, <1>12, <1>13 DEF TypeOK

LEMMA EndSubTypes ==
  ASSUME TypeInv, CancelSearch \/ Leave
  PROVE  TypeInv'
  <1> USE DEF TypeInv
  <1>1. streams' \in Seq(Stream) /\ Len(streams') = Len(streams) /\ searchSub' \in 0..Len(streams)
    BY EndSubTyped DEF CancelSearch, Leave
  <1>2. gestures' \in 0..MaxGestures
    BY CardsAssumption DEF CancelSearch, Leave, Gesture, TypeOK, CardsTypeOK
  <1> QED BY <1>1, <1>2 DEF CancelSearch, Leave, TypeOK, CardsTypeOK, ManualsPlaced

LEMMA PlainTypes ==
  ASSUME TypeInv,
         \/ GiveUpWaiting
         \/ \E p \in Projects : LoadProject(p)
         \/ \E p \in loads : LoadFails(p)
         \/ \E w \in retours : RetirerRetour(w)
  PROVE  TypeInv'
  <1> USE DEF TypeInv
  <1>1. gestures' \in 0..MaxGestures
    BY CardsAssumption DEF GiveUpWaiting, LoadProject, LoadFails, RetirerRetour, Gesture, TypeOK, CardsTypeOK, cardVars
  <1>2. /\ loads' \subseteq Projects /\ loading' \in BOOLEAN /\ strayed' \in BOOLEAN /\ retours' \subseteq Wish
        /\ wishes' \in [Projects -> SUBSET Wish]
    BY CardsAssumption DEF GiveUpWaiting, LoadProject, LoadFails, RetirerRetour, TypeOK, CardsTypeOK
  <1>3. UNCHANGED <<shown, rows, seen, launched, busy, timer, batches, votes, manuals, projects, srv, analysed,
                    relisted, doubtful, unannounced, drawn, alive, streams, searchSub, enAttente>>
    BY DEF GiveUpWaiting, LoadProject, LoadFails, RetirerRetour, cardVars
  <1> QED BY <1>1, <1>2, <1>3 DEF TypeOK, CardsTypeOK, ManualsPlaced

LEMMA LoadedTypes ==
  ASSUME TypeInv, NEW p \in loads, Loaded(p)
  PROVE  TypeInv'
  <1> USE DEF TypeInv
  <1>0. p \in Projects
    BY DEF TypeOK
  <1>1. /\ UNCHANGED <<seen, launched, busy, batches, manuals, srv, analysed, gestures,
                 projects, drawn, wishes, alive, searchSub, enAttente, strayed>>
        /\ loads' \subseteq loads /\ loading' = FALSE
    BY DEF Loaded
  <1>2. CASE p \notin projects
    BY <1>1, <1>2 DEF Loaded, TypeOK, CardsTypeOK, ManualsPlaced
  <1>3. CASE p \in projects
    <2> DEFINE card(n) == [id |-> p, manual |-> FALSE, rating |-> srv[n, p], pending |-> None,
                           analysis |-> IF <<n, p>> \in analysed THEN "done" ELSE "none",
                           stray |-> FALSE]
    <2>1. \A n \in Names : srv[n, p] # None => card(n) \in Card
      BY <1>0 DEF TypeOK, CardsTypeOK, Suggestions, Card
    <2>2. /\ rows' = [n \in {m \in Names : srv[m, p] # None} |-> card(n)]
          /\ streams' = AllOld /\ votes' = Stale(Names)
      BY <1>3 DEF Loaded
    <2>3. /\ shown' = p /\ retours' = wishes[p] /\ doubtful' \subseteq Names
          /\ unannounced' = {} /\ relisted' = InFlight /\ timer' \in BOOLEAN
      BY <1>3 DEF Loaded, Collect, TypeOK, CardsTypeOK
    <2> HIDE DEF card
    <2>4. DOMAIN rows' \subseteq Names /\ rows' \in [DOMAIN rows' -> Card]
      BY <2>1, <2>2
    <2>5. streams' \in Seq(Stream) /\ Len(streams') = Len(streams) /\ votes' \subseteq Vote
      BY <2>2, AllOldTyped, StaleTyped DEF TypeOK
    <2>6. relisted' \subseteq Suggestions /\ retours' \subseteq Wish
      BY <2>3, <1>0 DEF InFlight, Batch, TypeOK, CardsTypeOK
    <2> QED BY <1>0, <1>1, <2>3, <2>4, <2>5, <2>6 DEF TypeOK, CardsTypeOK, ManualsPlaced
  <1> QED BY <1>2, <1>3

LEMMA ResetTyped ==
  ASSUME TypeOK, Reset
  PROVE  /\ shown' = None /\ streams' \in Seq(Stream) /\ Len(streams') = Len(streams)
         /\ DOMAIN rows' = {} /\ rows' \in [DOMAIN rows' -> Card] /\ seen' = {} /\ launched' = {} /\ timer' = FALSE
         /\ votes' \subseteq Vote /\ retours' = {} /\ strayed' \in BOOLEAN
  <1>1. votes' \subseteq Vote
    BY StaleTyped DEF Reset, TypeOK
  <1>2. streams' \in Seq(Stream) /\ Len(streams') = Len(streams)
    BY AllOldTyped DEF Reset
  <1>3. DOMAIN rows' = {} /\ rows' \in [DOMAIN rows' -> Card]
    BY EmptyRows DEF Reset
  <1> QED BY <1>1, <1>2, <1>3 DEF Reset, TypeOK

LEMMA LeavingProjectTypes ==
  ASSUME TypeInv, ResetProject \/ \E p \in Projects : DeleteProject(p)
  PROVE  TypeInv'
  <1> USE DEF TypeInv
  <1>1. gestures' \in 0..MaxGestures
    BY CardsAssumption DEF ResetProject, DeleteProject, Gesture, TypeOK, CardsTypeOK
  <1>2. /\ UNCHANGED <<busy, batches, manuals, relisted, doubtful, unannounced, drawn, alive, loading, searchSub,
                       loads, enAttente>>
        /\ projects' \subseteq projects /\ wishes' \in [Projects -> SUBSET Wish]
        /\ srv' \in [Suggestions -> Ratings \union {None}] /\ analysed' \subseteq analysed
    BY DEF ResetProject, DeleteProject, TypeOK, CardsTypeOK
  <1>3. CASE Reset
    BY <1>1, <1>2, <1>3, ResetTyped DEF TypeOK, CardsTypeOK, ManualsPlaced
  <1>4. CASE UNCHANGED <<shown, rows, seen, launched, timer, votes, streams, retours, strayed>>
    BY <1>1, <1>2, <1>4 DEF TypeOK, CardsTypeOK, ManualsPlaced
  <1> QED BY <1>3, <1>4 DEF ResetProject, DeleteProject

LEMMA InitTypes == Init => TypeInv
  <1> SUFFICES ASSUME Init PROVE TypeInv
    OBVIOUS
  <1>1. DOMAIN rows = {} /\ rows \in [DOMAIN rows -> Card]
    BY EmptyRows DEF Init
  <1>2. srv \in [Suggestions -> Ratings \union {None}]
    BY DEF Init, Ratings
  <1>3. streams \in Seq(Stream) /\ Len(streams) = 0
    BY DEF Init
  <1>4. gestures \in 0..MaxGestures /\ projects \subseteq Projects /\ drawn \subseteq Projects
    BY WizardAssumption, CardsAssumption DEF Init
  <1>5. CardsTypeOK
    BY <1>1, <1>2, <1>4 DEF Init, CardsTypeOK
  <1>6. wishes \in [Projects -> SUBSET Wish] /\ searchSub \in 0..Len(streams)
    BY <1>3 DEF Init
  <1> QED BY <1>3, <1>4, <1>5, <1>6 DEF Init, TypeInv, TypeOK, ManualsPlaced

\* Every step of the screen, of its cards and of the server keeps the types.
LEMMA StepTypes == TypeInv /\ [Next]_vars => TypeInv'
  <1> SUFFICES ASSUME TypeInv, [Next]_vars PROVE TypeInv'
    OBVIOUS
  <1>1. CASE User
    <2>1. ASSUME NEW append \in BOOLEAN, NEW wish \in BOOLEAN, FindDomains(append, wish) PROVE TypeInv'
      BY <2>1, FindDomainsTypes
    <2>2. ASSUME UserOnCards, UNCHANGED searchVars PROVE TypeInv'
      BY <2>2, SetRatingTypes, AnalyseOneTypes, AddManualTypes DEF UserOnCards
    <2> QED BY <1>1, <2>1, <2>2, EndSubTypes, PlainTypes, LeavingProjectTypes DEF User
  <1>2. CASE SearchGoesOn
    BY <1>2, OpenedTypes, StreamStepTypes, DoneTypes, LoadedTypes, PlainTypes DEF SearchGoesOn
  <1>3. CASE \E i \in DOMAIN streams, n \in Names : Result(i, n)
    BY <1>3, ResultTypes
  <1>4. CASE CardsGoOn
    <2>1. UNCHANGED searchVars
      BY <1>4 DEF CardsGoOn
    <2>2. CASE ServerOnCards
      BY <2>1, <2>2, VoteReachesTypes, VoteAnsweredTypes, BatchAnsweredTypes, ManualCheckedTypes,
         ManualFailedTypes, ManualSavedTypes, ManualLikedTypes DEF ServerOnCards
    <2>3. CASE EnvoyerUnLot
      BY <2>1, <2>3, EnvoyerUnLotTypes
    <2> QED BY <1>4, <2>2, <2>3 DEF CardsGoOn
  <1>5. CASE alive /\ (\E n \in Names : CarteVue(n)) /\ UNCHANGED searchVars
    BY <1>5, CarteVueTypes
  <1>6. CASE UNCHANGED vars
    BY <1>6 DEF vars, cardVars, searchVars, TypeInv, TypeOK, CardsTypeOK, ManualsPlaced
  <1> QED BY <1>1, <1>2, <1>3, <1>4, <1>5, <1>6 DEF Next

\* The state of the screen is well-formed: the cards, the requests in flight, the streams
\* and what the server stores (wizard.ts, the signals and fields of the component).
THEOREM WizardTypes == Spec => []TypeOK
  <1>1. TypeInv => TypeOK
    BY DEF TypeInv
  <1> QED BY <1>1, InitTypes, StepTypes, PTL DEF Spec

----------------------------------------------------------------------------
(* Analyses. *)

\* A suggestion of a project that is still there is in it.
Stored(s) == s[2] \in drawn /\ (s[2] \in projects => srv[s] # None)

\* A card with an id is a suggestion the server holds, unless its project was deleted.
CardsAreStored == \A n \in DOMAIN rows : Saved(n) => Stored(Sugg(n))

\* So is what is being analysed.
AnalysedAreStored == \A s \in InFlight : Stored(s)

\* A card whose analysis is in flight does not offer another one.
AskedAreShown ==
  \A n \in DOMAIN rows : Saved(n) /\ Sugg(n) \in InFlight \ relisted => rows[n].analysis # "none"

\* analyseEnCours tells whether the automatic lot is in flight; there is one at most.
OneLot == (\A b, c \in Lots : b = c) /\ (busy <=> Lots # {})

\* What makes "an analysis is asked for once" inductive: a suggestion that is being analysed is
\* not offered again, and a card whose analysis is in flight cannot be given to another name.
AnalysesInv ==
  CardsAreStored /\ AnalysedAreStored /\ AskedAreShown /\ OneLot /\ NeverAnalysedTwiceAtOnce

LEMMA InitAnalyses == Init => AnalysesInv
  BY DEF Init, AnalysesInv, CardsAreStored, AnalysedAreStored, AskedAreShown, OneLot,
     NeverAnalysedTwiceAtOnce, InFlight, Lots

\* What a step leaves of the server: a suggestion stored stays stored, while its project is there.
LEMMA StoredStays ==
  ASSUME TypeInv, [Next]_vars, NEW s \in Suggestions, Stored(s)
  PROVE  Stored(s)'
  <1> USE DEF Stored
  <1> HIDE DEF Suggestions
  <1>0. s[2] \in Projects /\ srv \in [Suggestions -> Ratings \union {None}] /\ projects \subseteq drawn
    BY DEF TypeInv, TypeOK, CardsTypeOK, Suggestions
  <1>1. CASE UNCHANGED <<projects, drawn, srv>>
    BY <1>1
  <1>2. CASE UNCHANGED searchVars /\ \E v \in votes : VoteReaches(v)
    <2>1. PICK v \in votes : VoteReaches(v)
      BY <1>2
    <2>2. v.value # None
      BY CardsAssumption, VoteFields DEF TypeInv, TypeOK, CardsTypeOK, Ratings
    <2> QED BY <1>0, <1>2, <2>1, <2>2 DEF VoteReaches, searchVars
  <1>3. CASE UNCHANGED searchVars /\ \E m \in manuals : ManualSaved(m) \/ ManualLiked(m)
    BY <1>0, <1>3, CardsAssumption DEF ManualSaved, ManualLiked, searchVars
  <1>4. ASSUME NEW i \in DOMAIN streams, NEW p \in Projects, Done(i, p) PROVE Stored(s)'
    <2>1. projects' = projects \union {p} /\ drawn' = drawn \union {p} /\ (p \in drawn => p \in projects)
      BY <1>4, <1>0 DEF Done
    <2>2. srv'[s] = srv[s] \/ srv'[s] = "neutral"
      BY <1>4 DEF Done
    <2> QED BY <1>0, <2>1, <2>2, CardsAssumption
  <1>5. ASSUME NEW p \in Projects, DeleteProject(p) PROVE Stored(s)'
    BY <1>5 DEF DeleteProject
  <1>6. \/ UNCHANGED <<projects, drawn, srv>>
        \/ UNCHANGED searchVars /\ \E v \in votes : VoteReaches(v)
        \/ UNCHANGED searchVars /\ \E m \in manuals : ManualSaved(m) \/ ManualLiked(m)
        \/ \E i \in DOMAIN streams, p \in Projects : Done(i, p)
        \/ \E p \in Projects : DeleteProject(p)
    <2>1. CASE User
      BY <2>1 DEF User, UserOnCards, FindDomains, CancelSearch, GiveUpWaiting, ResetProject, Leave,
         LoadProject, RetirerRetour, SetRating, AnalyseOne, AddManual, searchVars
    <2>2. CASE SearchGoesOn
      BY <2>2 DEF SearchGoesOn, Opened, TokenFails, ErrorEvent, Complete, StreamError, Loaded, LoadFails, cardVars
    <2>3. CASE \E i \in DOMAIN streams, n \in Names : Result(i, n)
      BY <2>3 DEF Result
    <2>4. CASE CardsGoOn
      BY <2>4 DEF CardsGoOn, ServerOnCards, EnvoyerUnLot, VoteAnswered, BatchAnswered, ManualChecked,
         ManualFailed, searchVars
    <2>5. CASE alive /\ (\E n \in Names : CarteVue(n)) /\ UNCHANGED searchVars
      BY <2>5 DEF CarteVue, searchVars
    <2> QED BY <2>1, <2>2, <2>3, <2>4, <2>5 DEF Next, vars, cardVars, searchVars
  <1> QED BY <1>1, <1>2, <1>3, <1>4, <1>5, <1>6

\* The cards with an id after a step had it, and the state of their analysis, before.
KeepsCards ==
  \A n \in DOMAIN rows' :
    rows'[n].id # None =>
      n \in DOMAIN rows /\ rows'[n].id = rows[n].id /\ rows'[n].analysis = rows[n].analysis

LEMMA InFlightTyped == TypeInv => InFlight \subseteq Suggestions
  BY DEF TypeInv, TypeOK, CardsTypeOK, InFlight, Batch

\* A step that neither sends nor answers a lot.
LEMMA KeptAnalyses ==
  ASSUME TypeInv, [Next]_vars, AnalysesInv, KeepsCards, UNCHANGED <<batches, busy, relisted>>
  PROVE  AnalysesInv'
  <1>1. InFlight' = InFlight /\ Lots' = Lots
    BY DEF InFlight, Lots
  <1>2. OneLot' /\ NeverAnalysedTwiceAtOnce'
    BY <1>1 DEF AnalysesInv, OneLot, NeverAnalysedTwiceAtOnce
  <1>3. AnalysedAreStored'
    BY <1>1, StoredStays, InFlightTyped DEF AnalysesInv, AnalysedAreStored
  <1>4. CardsAreStored' /\ AskedAreShown'
    <2> SUFFICES ASSUME NEW n \in DOMAIN rows', Saved(n)'
                 PROVE  Stored(Sugg(n))' /\ (Sugg(n)' \in InFlight \ relisted => rows'[n].analysis # "none")
      BY <1>1 DEF CardsAreStored, AskedAreShown
    <2>1. Saved(n) /\ Sugg(n)' = Sugg(n) /\ rows'[n].analysis = rows[n].analysis /\ n \in DOMAIN rows
      BY DEF Saved, KeepsCards, Sugg
    <2>2. PICK s : s = Sugg(n)
      OBVIOUS
    <2>3. s \in Suggestions /\ Stored(s)
      BY <2>1, <2>2, SuggTyped DEF AnalysesInv, CardsAreStored, TypeInv, TypeOK
    <2>4. Stored(s)'
      BY <2>3, StoredStays
    <2> QED BY <2>1, <2>2, <2>4 DEF Stored, AnalysesInv, AskedAreShown
  <1> QED BY <1>2, <1>3, <1>4 DEF AnalysesInv

\* A batch leaves: of cards that offer an analysis, alone if it is an automatic one.
\* A lot is sent: none of its cards was being analysed.
LEMMA SentAnalyses ==
  ASSUME TypeInv, AnalysesInv, NEW S, \A n \in S : Saved(n) /\ rows[n].analysis = "none",
         NEW k \in 0..MaxGestures, SendBatch(S, k), UNCHANGED <<relisted, projects, drawn, srv>>,
         IF k = 0 THEN ~busy /\ busy' = TRUE ELSE busy' = busy
  PROVE  AnalysesInv'
  <1> DEFINE ids == {Sugg(n) : n \in S}
             b == [ids |-> ids, asked |-> k]
  <1>1. /\ DOMAIN rows' = DOMAIN rows /\ S \subseteq DOMAIN rows
        /\ \A n \in DOMAIN rows :
              rows'[n] = IF n \in S THEN [rows[n] EXCEPT !.analysis = "pending"] ELSE rows[n]
    <2>1. CardsTypeOK /\ \A n \in S : Saved(n)
      BY DEF TypeInv, TypeOK
    <2> HIDE DEF ids, b
    <2> QED BY <2>1, SendBatchTyped
  <1>2. batches' = batches \union {b} /\ b.ids = ids /\ b.asked = k
    BY DEF SendBatch
  <1>3. \A n \in DOMAIN rows : Saved(n) => /\ Sugg(n) \in Suggestions
                                           /\ (Sugg(n) \in ids => n \in S)
    <2> SUFFICES ASSUME NEW n \in DOMAIN rows, Saved(n)
                 PROVE  Sugg(n) \in Suggestions /\ (Sugg(n) \in ids => n \in S)
      OBVIOUS
    <2>1. CardsTypeOK
      BY DEF TypeInv, TypeOK
    <2> QED BY <2>1, SuggTyped DEF Sugg
  <1> HIDE DEF ids, b
  <1>4. InFlight' = InFlight \union ids
    BY <1>2 DEF InFlight
  <1>5. \A s \in ids : \E n \in S : s = Sugg(n)
    BY DEF ids
  <1>6. ids \intersect InFlight \subseteq relisted
    BY <1>1, <1>5 DEF AnalysesInv, AskedAreShown
  <1>7. \A n \in DOMAIN rows :
          /\ rows'[n].id = rows[n].id
          /\ rows'[n].analysis = IF n \in S THEN "pending" ELSE rows[n].analysis
    <2>1. \A n \in DOMAIN rows : rows[n] \in Card
      BY DEF TypeInv, TypeOK, CardsTypeOK
    <2> QED BY <2>1, <1>1 DEF Card
  <1>8. \A n \in DOMAIN rows : Saved(n)' = Saved(n) /\ (Saved(n) => Sugg(n)' = Sugg(n))
    BY <1>1, <1>7 DEF Saved, Sugg
  <1>9. CardsAreStored'
    <2> SUFFICES ASSUME NEW n \in DOMAIN rows, Saved(n)' PROVE Stored(Sugg(n))'
      BY <1>1 DEF CardsAreStored
    <2>1. Stored(Sugg(n)) /\ Sugg(n)' = Sugg(n)
      BY <1>8 DEF AnalysesInv, CardsAreStored
    <2> QED BY <2>1 DEF Stored
  <1>10. AnalysedAreStored'
    <2> SUFFICES ASSUME NEW s \in InFlight \union ids PROVE Stored(s)'
      BY <1>4 DEF AnalysedAreStored
    <2>1. Stored(s)
      BY <1>5, <1>1 DEF AnalysesInv, AnalysedAreStored, CardsAreStored
    <2> QED BY <2>1 DEF Stored
  <1>11. AskedAreShown'
    <2> SUFFICES ASSUME NEW n \in DOMAIN rows, Saved(n)', Sugg(n)' \in (InFlight \union ids) \ relisted
                 PROVE  rows'[n].analysis # "none"
      BY <1>1, <1>4 DEF AskedAreShown
    <2>1. Saved(n) /\ Sugg(n) \in (InFlight \union ids) \ relisted
      BY <1>8
    <2> QED BY <2>1, <1>3, <1>7 DEF AnalysesInv, AskedAreShown
  <1>12. NeverAnalysedTwiceAtOnce'
    <2> SUFFICES ASSUME NEW c \in batches \union {b}, NEW d \in batches \union {b}, c # d
                 PROVE  c.ids \intersect d.ids \subseteq relisted
      BY <1>2 DEF NeverAnalysedTwiceAtOnce
    <2>1. CASE c \in batches /\ d \in batches
      BY <2>1 DEF AnalysesInv, NeverAnalysedTwiceAtOnce
    <2>2. \A e \in batches : e.ids \subseteq InFlight
      BY DEF InFlight
    <2>3. CASE c = b \/ d = b
      BY <2>2, <2>3, <1>2, <1>6
    <2> QED BY <2>1, <2>3
  <1>13. OneLot'
    <2>1. CASE k = 0
      <3>1. Lots = {}
        BY <2>1 DEF AnalysesInv, OneLot
      <3>2. Lots' = {b}
        BY <3>1, <2>1, <1>2 DEF Lots
      <3> QED BY <3>2, <2>1 DEF OneLot
    <2>2. CASE k # 0
      <3>1. Lots' = Lots
        BY <1>2, <2>2 DEF Lots
      <3> QED BY <3>1, <2>2 DEF AnalysesInv, OneLot
    <2> QED BY <2>1, <2>2
  <1> QED BY <1>9, <1>10, <1>11, <1>12, <1>13 DEF AnalysesInv

\* A lot is answered, in part or not at all.
LEMMA AnsweredAnalyses ==
  ASSUME TypeInv, AnalysesInv, NEW b \in batches, NEW done \in SUBSET b.ids, BatchAnswered(b, done),
         UNCHANGED searchVars
  PROVE  AnalysesInv'
  <1> DEFINE x(n) == IF Sugg(n) \in done THEN "done"
                     ELSE IF rows[n].analysis = "pending" THEN "none" ELSE rows[n].analysis
             touched == {n \in DOMAIN rows : Saved(n) /\ Sugg(n) \in b.ids}
  <1>1. rows' = [n \in DOMAIN rows |-> IF n \in touched THEN [rows[n] EXCEPT !.analysis = x(n)] ELSE rows[n]]
    BY DEF BatchAnswered
  <1>2. \A n \in DOMAIN rows : Saved(n) /\ Sugg(n) \in b.ids <=> n \in touched
    OBVIOUS
  <1> HIDE DEF x, touched
  <1>3. /\ DOMAIN rows' = DOMAIN rows
        /\ \A n \in DOMAIN rows : /\ rows'[n].id = rows[n].id
                                  /\ n \notin touched => rows'[n].analysis = rows[n].analysis
    <2>1. \A n \in DOMAIN rows : rows[n] \in Card
      BY DEF TypeInv, TypeOK, CardsTypeOK
    <2> QED BY <1>1, <2>1 DEF Card
  <1>4. \A n \in DOMAIN rows : Saved(n)' = Saved(n) /\ (Saved(n) => Sugg(n)' = Sugg(n))
    BY <1>3 DEF Saved, Sugg
  <1>5. /\ batches' = batches \ {b} /\ relisted' = relisted \intersect InFlight'
        /\ UNCHANGED <<projects, drawn, srv>>
    BY DEF BatchAnswered, searchVars
  <1>6. InFlight' \subseteq InFlight
    BY <1>5 DEF InFlight
  <1>7. CardsAreStored'
    <2> SUFFICES ASSUME NEW n \in DOMAIN rows, Saved(n)' PROVE Stored(Sugg(n))'
      BY <1>3 DEF CardsAreStored
    <2>1. Stored(Sugg(n)) /\ Sugg(n)' = Sugg(n)
      BY <1>4 DEF AnalysesInv, CardsAreStored
    <2> QED BY <2>1, <1>5 DEF Stored
  <1>8. AnalysedAreStored'
    BY <1>5, <1>6 DEF AnalysesInv, AnalysedAreStored, Stored
  <1>9. NeverAnalysedTwiceAtOnce'
    <2> SUFFICES ASSUME NEW c \in batches', NEW d \in batches', c # d
                 PROVE  c.ids \intersect d.ids \subseteq relisted'
      BY DEF NeverAnalysedTwiceAtOnce
    <2>1. c.ids \intersect d.ids \subseteq relisted
      BY <1>5 DEF AnalysesInv, NeverAnalysedTwiceAtOnce
    <2>2. c.ids \subseteq InFlight'
      BY DEF InFlight
    <2> QED BY <2>1, <2>2, <1>5
  <1>10. AskedAreShown'
    <2> SUFFICES ASSUME NEW n \in DOMAIN rows, Saved(n)', Sugg(n)' \in InFlight' \ relisted'
                 PROVE  rows'[n].analysis # "none"
      BY <1>3 DEF AskedAreShown
    <2>1. Saved(n) /\ Sugg(n) \in InFlight' \ relisted
      BY <1>4, <1>5
    <2>2. PICK c \in batches \ {b} : Sugg(n) \in c.ids
      BY <2>1, <1>5 DEF InFlight
    <2>3. Sugg(n) \notin b.ids
      BY <2>1, <2>2 DEF AnalysesInv, NeverAnalysedTwiceAtOnce
    <2>4. n \notin touched
      BY <2>3, <1>2
    <2> QED BY <2>1, <2>4, <1>3, <1>6 DEF AnalysesInv, AskedAreShown
  <1>11. OneLot'
    <2>1. Lots' = Lots \ {b} /\ busy' = (busy /\ b.asked # 0) /\ (b.asked = 0 <=> b \in Lots)
      BY <1>5 DEF Lots, BatchAnswered, NextBatch
    <2> QED BY <2>1 DEF AnalysesInv, OneLot
  <1> QED BY <1>7, <1>8, <1>9, <1>10, <1>11 DEF AnalysesInv

\* Cards that get an id get that of a suggestion the server holds, which nothing analyses
\* unless it is known to have come back to the list.
LEMMA IdsGiven ==
  ASSUME TypeInv, [Next]_vars, AnalysesInv, UNCHANGED <<batches, busy>>, relisted \subseteq relisted',
         \A n \in DOMAIN rows' : rows'[n].id # None =>
           \/ n \in DOMAIN rows /\ rows'[n].id = rows[n].id /\ rows'[n].analysis = rows[n].analysis
           \/ \E q \in Projects : rows'[n].id = q /\ <<n, q>> \in Suggestions \ (InFlight \ relisted') /\ Stored(<<n, q>>)'
  PROVE  AnalysesInv'
  <1>1. InFlight' = InFlight /\ Lots' = Lots
    BY DEF InFlight, Lots
  <1>2. OneLot' /\ NeverAnalysedTwiceAtOnce'
    BY <1>1 DEF AnalysesInv, OneLot, NeverAnalysedTwiceAtOnce
  <1>3. AnalysedAreStored'
    BY <1>1, StoredStays, InFlightTyped DEF AnalysesInv, AnalysedAreStored
  <1>4. CardsAreStored' /\ AskedAreShown'
    <2> SUFFICES ASSUME NEW n \in DOMAIN rows', Saved(n)'
                 PROVE  Stored(Sugg(n))' /\ (Sugg(n)' \in InFlight \ relisted' => rows'[n].analysis # "none")
      BY <1>1 DEF CardsAreStored, AskedAreShown
    <2>1. CASE n \in DOMAIN rows /\ rows'[n].id = rows[n].id /\ rows'[n].analysis = rows[n].analysis
      <3>1. Saved(n) /\ Sugg(n)' = Sugg(n)
        BY <2>1 DEF Saved, Sugg
      <3>2. PICK s : s = Sugg(n)
        OBVIOUS
      <3>3. s \in Suggestions /\ Stored(s)
        BY <2>1, <3>1, <3>2, SuggTyped DEF AnalysesInv, CardsAreStored, TypeInv, TypeOK
      <3>4. Stored(s)'
        BY <3>3, StoredStays
      <3> QED BY <2>1, <3>1, <3>2, <3>4 DEF Stored, AnalysesInv, AskedAreShown
    <2>2. CASE \E q \in Projects : rows'[n].id = q /\ <<n, q>> \in Suggestions \ (InFlight \ relisted') /\ Stored(<<n, q>>)'
      <3>1. PICK q \in Projects : rows'[n].id = q /\ <<n, q>> \in Suggestions \ (InFlight \ relisted') /\ Stored(<<n, q>>)'
        BY <2>2
      <3>2. Sugg(n)' = <<n, q>>
        BY <3>1 DEF Sugg
      <3> QED BY <3>1, <3>2 DEF Stored
    <2> QED BY <2>1, <2>2 DEF Saved
  <1> QED BY <1>2, <1>3, <1>4 DEF AnalysesInv

LEMMA ManualSavedAnalyses ==
  ASSUME TypeInv, [Next]_vars, AnalysesInv, NEW m \in manuals, ManualSaved(m), UNCHANGED searchVars
  PROVE  AnalysesInv'
  <1>1. UNCHANGED <<batches, busy>> /\ relisted \subseteq relisted'
    BY DEF ManualSaved
  <1>2. CASE rows' = rows
    BY <1>1, <1>2, IdsGiven
  <1>3. CASE rows' # rows
    <2>1. /\ m.project \in projects
          /\ srv' = [srv EXCEPT ![<<m.name, m.project>>] = IF @ = None THEN "neutral" ELSE @]
          /\ m.name \in DOMAIN rows /\ rows' = [rows EXCEPT ![m.name].id = m.project]
          /\ relisted' = relisted \union ({<<m.name, m.project>>} \intersect InFlight)
      BY <1>3 DEF ManualSaved
    <2>2. m.project \in drawn /\ <<m.name, m.project>> \in Suggestions
      BY <2>1 DEF TypeInv, TypeOK, CardsTypeOK, Suggestions
    <2>3. <<m.name, m.project>> \notin InFlight \ relisted'
      BY <2>1
    <2>4. srv'[<<m.name, m.project>>] # None /\ UNCHANGED <<projects, drawn>>
      BY <2>1, <2>2, CardsAssumption DEF TypeInv, TypeOK, CardsTypeOK, searchVars
    <2>5. Stored(<<m.name, m.project>>)'
      BY <2>2, <2>4 DEF Stored
    <2>6. \A n \in DOMAIN rows' :
            IF n = m.name THEN rows'[n].id = m.project ELSE n \in DOMAIN rows /\ rows'[n] = rows[n]
      <3>1. rows[m.name] \in Card
        BY <2>1 DEF TypeInv, TypeOK, CardsTypeOK
      <3> QED BY <3>1, <2>1 DEF Card
    <2>7. \A n \in DOMAIN rows' : rows'[n].id # None =>
           \/ n \in DOMAIN rows /\ rows'[n].id = rows[n].id /\ rows'[n].analysis = rows[n].analysis
           \/ \E q \in Projects : rows'[n].id = q /\ <<n, q>> \in Suggestions \ (InFlight \ relisted') /\ Stored(<<n, q>>)'
      <3> SUFFICES ASSUME NEW n \in DOMAIN rows'
                   PROVE \/ n \in DOMAIN rows /\ rows'[n].id = rows[n].id /\ rows'[n].analysis = rows[n].analysis
                         \/ \E q \in Projects : rows'[n].id = q /\ <<n, q>> \in Suggestions \ (InFlight \ relisted') /\ Stored(<<n, q>>)'
        OBVIOUS
      <3>1. CASE n = m.name
        <4>1. m.project \in Projects /\ rows'[n].id = m.project
          BY <2>1, <2>6, <3>1 DEF TypeInv, TypeOK, CardsTypeOK
        <4>2. <<n, m.project>> \in Suggestions \ (InFlight \ relisted') /\ Stored(<<n, m.project>>)'
          BY <2>2, <2>3, <2>5, <3>1
        <4> QED BY <4>1, <4>2
      <3>2. CASE n # m.name
        BY <2>6, <3>2
      <3> QED BY <3>1, <3>2
    <2> QED BY <1>1, <2>7, IdsGiven
  <1> QED BY <1>2, <1>3

LEMMA DoneAnalyses ==
  ASSUME TypeInv, [Next]_vars, AnalysesInv, NEW i \in DOMAIN streams, NEW p \in Projects, Done(i, p)
  PROVE  AnalysesInv'
  <1> DEFINE saved == {n \in streams[i].found : srv[n, p] = None}
             held == saved \cap DOMAIN rows
             cards == [n \in DOMAIN rows |-> IF n \in held THEN [rows[n] EXCEPT !.id = p] ELSE rows[n]]
  <1>1. UNCHANGED <<batches, busy, relisted>>
    BY DEF Done
  <1>2. /\ rows' = [n \in DOMAIN rows |-> IF cards[n].id = None THEN cards[n] ELSE [cards[n] EXCEPT !.pending = None]]
        /\ srv' = [s \in Suggestions |-> IF s[1] \in saved /\ s[2] = p THEN "neutral" ELSE srv[s]]
        /\ p \in drawn'
    BY DEF Done
  <1>3. \A n \in held : <<n, p>> \in Suggestions \ InFlight /\ srv[<<n, p>>] = None
    <2>1. streams[i].found \subseteq Names
      BY StreamsTyped, StreamFields DEF TypeInv
    <2>2. p \in drawn => p \in projects
      BY DEF Done, TypeInv, TypeOK
    <2>3. \A n \in held : <<n, p>> \in Suggestions /\ srv[<<n, p>>] = None
      BY <2>1 DEF Suggestions
    <2> QED BY <2>2, <2>3 DEF AnalysesInv, AnalysedAreStored, Stored
  <1>4. \A n \in held : srv'[<<n, p>>] = "neutral"
    BY <1>2, <1>3
  <1>5. \A n \in DOMAIN rows : rows[n] \in Card
    BY DEF TypeInv, TypeOK, CardsTypeOK
  <1>6. \A n \in DOMAIN rows : IF n \in held THEN cards[n].id = p ELSE cards[n] = rows[n]
    BY <1>5 DEF Card
  <1>7. \A n \in DOMAIN rows : cards[n] \in Card
    BY <1>5, CardFields
  <1> HIDE DEF held, cards, saved
  <1>8. \A n \in DOMAIN rows : rows'[n].id = cards[n].id /\ rows'[n].analysis = cards[n].analysis
    BY <1>2, <1>7 DEF Card
  <1>9. \A n \in DOMAIN rows' : rows'[n].id # None =>
           \/ n \in DOMAIN rows /\ rows'[n].id = rows[n].id /\ rows'[n].analysis = rows[n].analysis
           \/ \E q \in Projects : rows'[n].id = q /\ <<n, q>> \in Suggestions \ (InFlight \ relisted') /\ Stored(<<n, q>>)'
    <2> SUFFICES ASSUME NEW n \in DOMAIN rows
                 PROVE  \/ rows'[n].id = rows[n].id /\ rows'[n].analysis = rows[n].analysis
                        \/ \E q \in Projects : rows'[n].id = q /\ <<n, q>> \in Suggestions \ (InFlight \ relisted') /\ Stored(<<n, q>>)'
      BY <1>2
    <2>1. CASE n \in held
      <3>1. rows'[n].id = p
        BY <2>1, <1>6, <1>8
      <3>2. srv'[<<n, p>>] # None
        BY <2>1, <1>4, CardsAssumption
      <3>3. <<n, p>> \in Suggestions \ (InFlight \ relisted')
        BY <2>1, <1>3
      <3>4. Stored(<<n, p>>)'
        BY <3>2, <1>2 DEF Stored
      <3> QED BY <3>1, <3>3, <3>4
    <2>2. CASE n \notin held
      BY <2>2, <1>6, <1>8
    <2> QED BY <2>1, <2>2
  <1> QED BY <1>1, <1>9, IdsGiven

LEMMA LoadedAnalyses ==
  ASSUME TypeInv, [Next]_vars, AnalysesInv, NEW p \in loads, Loaded(p)
  PROVE  AnalysesInv'
  <1>1. UNCHANGED <<busy, batches, projects, drawn, srv>>
    BY DEF Loaded
  <1>2. CASE p \notin projects
    BY <1>1, <1>2, KeptAnalyses DEF Loaded, KeepsCards
  <1>3. CASE p \in projects
    <2>1. /\ DOMAIN rows' = {n \in Names : srv[<<n, p>>] # None} /\ relisted' = InFlight
          /\ \A n \in DOMAIN rows' : rows'[n].id = p
      <3> DEFINE card(n) == [id |-> p, manual |-> FALSE, rating |-> srv[n, p], pending |-> None,
                             analysis |-> IF <<n, p>> \in analysed THEN "done" ELSE "none",
                             stray |-> FALSE]
      <3>1. rows' = [n \in {m \in Names : srv[m, p] # None} |-> card(n)] /\ relisted' = InFlight
        BY <1>3 DEF Loaded
      <3>2. \A n : card(n).id = p
        OBVIOUS
      <3> HIDE DEF card
      <3> QED BY <3>1, <3>2
    <2>2. InFlight' = InFlight /\ Lots' = Lots
      BY <1>1 DEF InFlight, Lots
    <2>3. CardsAreStored'
      <3>1. p \in drawn
        BY <1>3 DEF TypeInv, TypeOK
      <3> QED BY <3>1, <1>1, <2>1 DEF CardsAreStored, Sugg, Stored
    <2>4. AnalysedAreStored'
      BY <1>1, <2>2 DEF AnalysesInv, AnalysedAreStored, Stored
    <2>5. AskedAreShown'
      BY <2>1, <2>2 DEF AskedAreShown
    <2>6. OneLot'
      BY <1>1, <2>2 DEF AnalysesInv, OneLot
    <2>7. NeverAnalysedTwiceAtOnce'
      <3>1. \A b \in batches : b.ids \subseteq InFlight
        BY DEF InFlight
      <3> QED BY <3>1, <1>1, <2>1 DEF NeverAnalysedTwiceAtOnce
    <2> QED BY <2>3, <2>4, <2>5, <2>6, <2>7 DEF AnalysesInv
  <1> QED BY <1>2, <1>3

LEMMA EnvoyerUnLotAnalyses ==
  ASSUME TypeInv, [Next]_vars, AnalysesInv, EnvoyerUnLot, UNCHANGED searchVars
  PROVE  AnalysesInv'
  <1>1. UNCHANGED <<relisted, projects, drawn, srv>>
    BY DEF EnvoyerUnLot, searchVars
  <1>2. CASE UNCHANGED <<launched, rows, votes, batches, busy>>
    BY <1>1, <1>2, KeptAnalyses DEF KeepsCards
  <1>3. CASE ~busy /\ busy' = TRUE /\ \E lot \in SUBSET {n \in Names : Due(n)} : SendBatch(lot, 0)
    <2>1. PICK lot \in SUBSET {n \in Names : Due(n)} : SendBatch(lot, 0)
      BY <1>3
    <2>2. \A n \in lot : Saved(n) /\ rows[n].analysis = "none"
      BY DEF Due
    <2>3. 0 \in 0..MaxGestures
      BY CardsAssumption
    <2> QED BY <1>1, <1>3, <2>1, <2>2, <2>3, SentAnalyses
  <1> QED BY <1>2, <1>3 DEF EnvoyerUnLot

LEMMA AnalyseOneAnalyses ==
  ASSUME TypeInv, AnalysesInv, NEW n \in Names, AnalyseOne(n), UNCHANGED searchVars
  PROVE  AnalysesInv'
  <1>1. UNCHANGED <<relisted, projects, drawn, srv, busy>>
    BY DEF AnalyseOne, searchVars
  <1>2. gestures + 1 \in 0..MaxGestures /\ gestures + 1 # 0
    BY CardsAssumption DEF AnalyseOne, Gesture, TypeInv, TypeOK, CardsTypeOK
  <1>3. SendBatch({n}, gestures + 1) /\ \A m \in {n} : Saved(m) /\ rows[m].analysis = "none"
    BY DEF AnalyseOne
  <1> QED BY <1>1, <1>2, <1>3, SentAnalyses

LEMMA CardSteps ==
  ASSUME TypeInv
  PROVE  /\ \A n \in Names, r \in Ratings : SetRating(n, r) => KeepsCards
         /\ \A v \in votes : VoteAnswered(v) => KeepsCards
         /\ \A n \in Names : AddManual(n) => KeepsCards
         /\ \A m \in manuals : ManualFailed(m) => KeepsCards
         /\ \A i \in DOMAIN streams, n \in Names : Result(i, n) => KeepsCards
  <1> USE DEF KeepsCards
  <1>0. \A n \in DOMAIN rows : rows[n] \in Card
    BY DEF TypeInv, TypeOK, CardsTypeOK
  <1>1. ASSUME NEW n \in Names, NEW r \in Ratings, SetRating(n, r) PROVE KeepsCards
    <2>1. rows' = [rows EXCEPT ![n].rating = r] \/ rows' = [rows EXCEPT ![n].rating = r, ![n].pending = r]
      BY <1>1 DEF SetRating
    <2>2. n \in DOMAIN rows
      BY <1>1 DEF SetRating
    <2> QED BY <1>0, <2>1, <2>2 DEF Card
  <1>2. ASSUME NEW v \in votes, VoteAnswered(v) PROVE KeepsCards
    <2>1. PICK n, x : rows' = rows \/ (n \in DOMAIN rows /\ rows' = [rows EXCEPT ![n].rating = x])
      BY <1>2 DEF VoteAnswered
    <2> QED BY <1>0, <2>1 DEF Card
  <1>3. ASSUME NEW n \in Names, AddManual(n) PROVE KeepsCards
    BY <1>3 DEF AddManual, Put
  <1>4. ASSUME NEW m \in manuals, ManualFailed(m) PROVE KeepsCards
    BY <1>4 DEF ManualFailed
  <1>5. ASSUME NEW i \in DOMAIN streams, NEW n \in Names, Result(i, n) PROVE KeepsCards
    BY <1>5 DEF Result, Put
  <1> QED BY <1>1, <1>2, <1>3, <1>4, <1>5

\* Every step.
LEMMA StepAnalyses == TypeInv /\ AnalysesInv /\ [Next]_vars => AnalysesInv'
  <1> SUFFICES ASSUME TypeInv, AnalysesInv, [Next]_vars PROVE AnalysesInv'
    OBVIOUS
  <1>a. ASSUME KeepsCards, UNCHANGED <<batches, busy, relisted>> PROVE AnalysesInv'
    BY <1>a, KeptAnalyses
  <1>b. ASSUME UNCHANGED <<rows, batches, busy, relisted>> PROVE AnalysesInv'
    BY <1>a, <1>b DEF KeepsCards
  <1>c. ASSUME rows' = <<>>, UNCHANGED <<batches, busy, relisted>> PROVE AnalysesInv'
    BY <1>a, <1>c, EmptyRows DEF KeepsCards
  <1>1. CASE User
    <2>1. ASSUME NEW append \in BOOLEAN, NEW wish \in BOOLEAN, FindDomains(append, wish) PROVE AnalysesInv'
      BY <2>1, <1>b, <1>c DEF FindDomains
    <2>2. CASE ResetProject \/ \E p \in Projects : DeleteProject(p)
      BY <2>2, <1>b, <1>c DEF ResetProject, DeleteProject, Reset
    <2>3. CASE CancelSearch \/ GiveUpWaiting \/ Leave \/ (\E p \in Projects : LoadProject(p))
               \/ \E w \in retours : RetirerRetour(w)
      BY <2>3, <1>b DEF CancelSearch, GiveUpWaiting, Leave, LoadProject, RetirerRetour
    <2>4. ASSUME UserOnCards, UNCHANGED searchVars PROVE AnalysesInv'
      <3>1. ASSUME NEW n \in Names, NEW r \in Ratings, SetRating(n, r) PROVE AnalysesInv'
        BY <3>1, <1>a, CardSteps DEF SetRating
      <3>2. ASSUME NEW n \in Names, AddManual(n) PROVE AnalysesInv'
        BY <3>2, <1>a, CardSteps DEF AddManual
      <3> QED BY <2>4, <3>1, <3>2, AnalyseOneAnalyses DEF UserOnCards
    <2> QED BY <1>1, <2>1, <2>2, <2>3, <2>4 DEF User
  <1>2. CASE SearchGoesOn
    <2>1. ASSUME NEW i \in DOMAIN streams, Opened(i) \/ TokenFails(i) \/ ErrorEvent(i) \/ Complete(i) \/ StreamError(i)
          PROVE  AnalysesInv'
      BY <2>1, <1>b DEF Opened, TokenFails, ErrorEvent, Complete, StreamError, cardVars
    <2>2. ASSUME NEW p \in loads, LoadFails(p) PROVE AnalysesInv'
      BY <2>2, <1>b DEF LoadFails, cardVars
    <2> QED BY <1>2, <2>1, <2>2, DoneAnalyses, LoadedAnalyses DEF SearchGoesOn
  <1>3. CASE \E i \in DOMAIN streams, n \in Names : Result(i, n)
    <2>1. PICK i \in DOMAIN streams, n \in Names : Result(i, n)
      BY <1>3
    <2> QED BY <2>1, <1>a, CardSteps DEF Result
  <1>4. CASE CardsGoOn
    <2>1. UNCHANGED searchVars
      BY <1>4 DEF CardsGoOn
    <2>2. ASSUME NEW v \in votes, VoteReaches(v) \/ VoteAnswered(v) PROVE AnalysesInv'
      BY <2>2, <1>a, <1>b, CardSteps DEF VoteReaches, VoteAnswered
    <2>3. ASSUME NEW b \in batches, NEW done \in SUBSET b.ids, BatchAnswered(b, done) PROVE AnalysesInv'
      BY <2>1, <2>3, AnsweredAnalyses
    <2>4. ASSUME NEW m \in manuals, ManualChecked(m) \/ ManualFailed(m) \/ ManualLiked(m) PROVE AnalysesInv'
      BY <2>4, <1>a, <1>b, CardSteps DEF ManualChecked, ManualFailed, ManualLiked
    <2>5. ASSUME NEW m \in manuals, ManualSaved(m) PROVE AnalysesInv'
      BY <2>1, <2>5, ManualSavedAnalyses
    <2> QED BY <1>4, <2>1, <2>2, <2>3, <2>4, <2>5, EnvoyerUnLotAnalyses DEF CardsGoOn, ServerOnCards
  <1>5. CASE alive /\ (\E n \in Names : CarteVue(n)) /\ UNCHANGED searchVars
    BY <1>5, <1>b DEF CarteVue
  <1>6. CASE UNCHANGED vars
    BY <1>6, <1>b DEF vars, cardVars
  <1> QED BY <1>1, <1>2, <1>3, <1>4, <1>5, <1>6 DEF Next

\* One lot of analyses at a time, and no name sent twice to the model at once, unless its list
\* was loaded anew while it was analysed (wizard.ts, envoyerUnLot and analyseOne).
THEOREM AnalysesSpared == Spec => []AnalysesAreSpared
  <1>1. AnalysesInv => AnalysesAreSpared
    <2> SUFFICES ASSUME AnalysesInv PROVE Cardinality(Lots) <= 1 /\ (busy <=> Lots # {})
      BY DEF AnalysesInv, AnalysesAreSpared, OneBatchAtATime
    <2>1. CASE Lots = {}
      BY <2>1, FS_EmptySet DEF AnalysesInv, OneLot
    <2>2. CASE Lots # {}
      <3>1. PICK b : Lots = {b}
        BY <2>2 DEF AnalysesInv, OneLot
      <3> QED BY <3>1, <2>2, FS_Singleton DEF AnalysesInv, OneLot
    <2> QED BY <2>1, <2>2
  <1> QED BY <1>1, InitTypes, StepTypes, InitAnalyses, StepAnalyses, PTL DEF Spec

----------------------------------------------------------------------------
(* The screen. *)

\* A search that can still bring something.
Unfinished(i) == streams[i].st # "ended"

\* One request at a time keeps the screen: a search or a load, and the spinner shows it.
OneAtWork ==
  /\ \A i, j \in DOMAIN streams : Unfinished(i) /\ Unfinished(j) => i = j
  /\ loads # {} => loading /\ \A i \in DOMAIN streams : ~Unfinished(i)
  /\ \A p, q \in loads : p = q
  /\ \A i \in DOMAIN streams : Live(i) => loading
  /\ \A i \in DOMAIN streams : streams[i].st = "open" => searchSub = i

\* A search under way is of the project displayed, and its names are on the screen.
SearchIsOfTheScreen ==
  \A i \in DOMAIN streams :
    /\ Unfinished(i) => ~streams[i].old
    /\ streams[i].st = "open" =>
         /\ streams[i].project = shown
         /\ \A n \in streams[i].found : n \in DOMAIN rows /\ ~rows[n].manual
    /\ streams[i].st = "token" => streams[i].found = {}

\* The wish that waits for a confirmation is that of the search under way, which sends it.
WishesAreSent ==
  /\ \A i \in DOMAIN streams : Live(i) =>
       /\ enAttente = streams[i].wish
       /\ streams[i].st = "open" \/ enAttente # 0 =>
            streams[i].sent = retours \union ({enAttente} \ {0})
  /\ alive /\ (\A i \in DOMAIN streams : ~Unfinished(i)) => enAttente = 0

\* A name typed in that is in the list is saved under the project displayed.
ManualsAreOfTheScreen ==
  \A m \in manuals :
    m.step # "check" /\ m.name \in DOMAIN rows /\ rows[m.name].manual => m.project = shown

\* The cards are of the list displayed, and of its project once they have an id.
RowsAreOfTheScreen ==
  \A n \in DOMAIN rows : ~rows[n].stray /\ (rows[n].id # None => rows[n].id = shown)

\* The chips are wishes stored for the project displayed, which exists.
ChipsAreOfTheScreen == retours \subseteq IF shown = None THEN {} ELSE wishes[shown]

ShownExists == shown \in projects \union {None}

\* Nothing was left behind: one request at a time keeps the screen, and it is of the project
\* displayed.  Each part alone is not inductive: the chips depend on the wish in waiting, which
\* depends on the search under way, which depends on there being no other.
Calm ==
  /\ OneAtWork /\ SearchIsOfTheScreen /\ WishesAreSent /\ ManualsAreOfTheScreen
  /\ RowsAreOfTheScreen /\ ChipsAreOfTheScreen /\ ShownExists

ScreenInv == strayed \/ Calm

LEMMA InitScreen == Init => ScreenInv
  <1> SUFFICES ASSUME Init PROVE Calm
    BY DEF ScreenInv
  <1>1. /\ DOMAIN rows = {} /\ DOMAIN streams = {} /\ loads = {} /\ enAttente = 0
        /\ manuals = {} /\ shown = None /\ retours = {}
    BY DEF Init
  <1> QED BY <1>1 DEF Calm, OneAtWork, SearchIsOfTheScreen, WishesAreSent, ManualsAreOfTheScreen,
             RowsAreOfTheScreen, ChipsAreOfTheScreen, ShownExists

\* What was left behind stays so.
LEMMA StraysStay ==
  ASSUME TypeInv, [Next]_vars, strayed
  PROVE  strayed'
  <1>1. CASE User
    BY <1>1 DEF User, FindDomains, CancelSearch, GiveUpWaiting, ResetProject, DeleteProject, Reset, LoadProject,
       RetirerRetour, Leave, searchVars
  <1>2. CASE SearchGoesOn
    BY <1>2 DEF SearchGoesOn, Opened, TokenFails, ErrorEvent, Complete, StreamError, Loaded, LoadFails, Done
  <1>3. CASE \E i \in DOMAIN streams, n \in Names : Result(i, n)
    BY <1>3 DEF Result
  <1>4. CASE UNCHANGED searchVars
    BY <1>4 DEF searchVars
  <1> QED BY <1>1, <1>2, <1>3, <1>4 DEF Next, CardsGoOn, vars

\* What ends a stream, or moves it on, leaves the others.
LEMMA EndFacts ==
  ASSUME TypeInv, NEW i \in DOMAIN streams, End(i)
  PROVE  /\ DOMAIN streams' = DOMAIN streams /\ streams'[i].st = "ended"
         /\ \A j \in DOMAIN streams : j # i => streams'[j] = streams[j]
  BY DEF End, Over

LEMMA SetFacts ==
  ASSUME TypeInv, NEW i \in DOMAIN streams, NEW t, Set(i, t)
  PROVE  /\ DOMAIN streams' = DOMAIN streams
         /\ streams'[i].st = t /\ streams'[i].old = streams[i].old
         /\ \A j \in DOMAIN streams : j # i => streams'[j] = streams[j]
  <1>1. streams[i] \in Stream
    BY StreamsTyped DEF TypeInv
  <1> QED BY <1>1 DEF Set, Stream

\* The steps of a search and of a load.
LEMMA OpenedScreen ==
  ASSUME TypeInv, Calm, NEW i \in DOMAIN streams, Opened(i)
  PROVE  Calm'
  <1>1. /\ DOMAIN streams' = DOMAIN streams /\ \A j \in DOMAIN streams : j # i => streams'[j] = streams[j]
        /\ streams'[i].st = "open" /\ streams'[i].project = shown /\ streams'[i].old = streams[i].old
        /\ streams'[i].wish = streams[i].wish /\ streams'[i].found = streams[i].found
        /\ streams'[i].sent = IF streams[i].wish = 0 THEN retours ELSE streams[i].sent
    <2>1. streams[i] \in Stream
      BY StreamsTyped DEF TypeInv
    <2> QED BY <2>1 DEF Opened, Stream
  <1>2. streams[i].st = "token" /\ searchSub' = i
    BY DEF Opened, At
  <1>3. UNCHANGED <<shown, rows, manuals, projects, wishes, alive, loading, loads, retours, enAttente>>
    BY DEF Opened, cardVars
  <1>4. \A j \in DOMAIN streams : j # i => ~Unfinished(j)
    BY <1>2 DEF Calm, OneAtWork, Unfinished
  <1>5. OneAtWork'
    BY <1>1, <1>2, <1>3, <1>4 DEF Calm, OneAtWork, Unfinished, Live
  <1>6. SearchIsOfTheScreen'
    BY <1>1, <1>2, <1>3, <1>4 DEF Calm, SearchIsOfTheScreen, Unfinished
  <1>7. WishesAreSent'
    BY <1>1, <1>2, <1>3, <1>4 DEF Calm, WishesAreSent, Unfinished, Live
  <1>8. ManualsAreOfTheScreen' /\ RowsAreOfTheScreen' /\ ChipsAreOfTheScreen' /\ ShownExists'
    BY <1>3 DEF Calm, ManualsAreOfTheScreen, RowsAreOfTheScreen, ChipsAreOfTheScreen, ShownExists
  <1> QED BY <1>5, <1>6, <1>7, <1>8 DEF Calm

\* The last stream under way ends.
LEMMA EndedScreen ==
  ASSUME TypeInv, Calm, NEW i \in DOMAIN streams, Unfinished(i), End(i),
         UNCHANGED <<shown, rows, manuals, projects, wishes, loads, retours, searchSub>>,
         ~alive' \/ enAttente' = 0
  PROVE  Calm'
  <1>1. /\ DOMAIN streams' = DOMAIN streams /\ streams'[i].st = "ended"
        /\ \A j \in DOMAIN streams : j # i => streams'[j] = streams[j]
    BY EndFacts
  <1>2. \A j \in DOMAIN streams : j # i => streams[j].st = "ended"
    BY DEF Calm, OneAtWork, Unfinished
  <1>3. \A j \in DOMAIN streams : streams'[j].st = "ended"
    BY <1>1, <1>2
  <1>4. loads = {}
    BY DEF Calm, OneAtWork
  <1>5. OneAtWork' /\ SearchIsOfTheScreen' /\ WishesAreSent'
    BY <1>1, <1>3, <1>4 DEF OneAtWork, SearchIsOfTheScreen, WishesAreSent, Unfinished, Live
  <1>6. ManualsAreOfTheScreen' /\ RowsAreOfTheScreen' /\ ChipsAreOfTheScreen' /\ ShownExists'
    BY DEF Calm, ManualsAreOfTheScreen, RowsAreOfTheScreen, ChipsAreOfTheScreen, ShownExists
  <1> QED BY <1>5, <1>6 DEF Calm

LEMMA StreamEndsScreen ==
  ASSUME TypeInv, Calm, NEW i \in DOMAIN streams, TokenFails(i) \/ Complete(i) \/ StreamError(i)
  PROVE  Calm'
  <1>1. Unfinished(i) /\ End(i)
    BY DEF TokenFails, Complete, StreamError, Ended, At, Unfinished
  <1>2. UNCHANGED <<shown, rows, manuals, projects, wishes, loads, retours, searchSub>>
    BY DEF TokenFails, Complete, StreamError, Ended, cardVars
  <1>3. ~alive' \/ enAttente' = 0
    BY DEF TokenFails, Complete, StreamError, Ended
  <1> QED BY <1>1, <1>2, <1>3, EndedScreen

LEMMA ErrorEventScreen ==
  ASSUME TypeInv, Calm, NEW i \in DOMAIN streams, ErrorEvent(i)
  PROVE  Calm'
  <1>1. /\ DOMAIN streams' = DOMAIN streams
        /\ streams'[i].st = "failing" /\ streams'[i].old = streams[i].old
        /\ \A j \in DOMAIN streams : j # i => streams'[j] = streams[j]
    BY SetFacts DEF ErrorEvent
  <1>2. UNCHANGED <<shown, rows, manuals, projects, wishes, alive, loads, retours, searchSub, enAttente>>
    BY DEF ErrorEvent, cardVars
  <1>3. streams[i].st = "open"
    BY DEF ErrorEvent, At
  <1>4. \A j \in DOMAIN streams : j # i => streams[j].st = "ended"
    BY <1>3 DEF Calm, OneAtWork, Unfinished
  <1>5. loads = {}
    BY <1>3 DEF Calm, OneAtWork, Unfinished
  <1>6. OneAtWork' /\ WishesAreSent'
    BY <1>1, <1>2, <1>3, <1>4, <1>5 DEF OneAtWork, WishesAreSent, Unfinished, Live
  <1>7. SearchIsOfTheScreen'
    BY <1>1, <1>2, <1>3, <1>4 DEF Calm, SearchIsOfTheScreen, Unfinished
  <1>8. ManualsAreOfTheScreen' /\ RowsAreOfTheScreen' /\ ChipsAreOfTheScreen' /\ ShownExists'
    BY <1>2 DEF Calm, ManualsAreOfTheScreen, RowsAreOfTheScreen, ChipsAreOfTheScreen, ShownExists
  <1> QED BY <1>6, <1>7, <1>8 DEF Calm

LEMMA ResultScreen ==
  ASSUME TypeInv, Calm, NEW i \in DOMAIN streams, NEW n \in Names, Result(i, n)
  PROVE  Calm'
  <1>1. /\ DOMAIN streams' = DOMAIN streams /\ \A j \in DOMAIN streams : j # i => streams'[j] = streams[j]
        /\ streams'[i].st = "open" /\ streams'[i].project = streams[i].project
        /\ streams'[i].old = streams[i].old /\ streams'[i].wish = streams[i].wish
        /\ streams'[i].sent = streams[i].sent /\ streams'[i].found = streams[i].found \union {n}
    <2>1. streams[i] \in Stream /\ streams[i].st = "open"
      BY StreamsTyped DEF TypeInv, Result, At
    <2>2. streams' = [streams EXCEPT ![i].found = @ \union {n}]
      BY DEF Result
    <2> QED BY <2>1, <2>2 DEF Stream
  <1>2. /\ DOMAIN rows' = DOMAIN rows \union {n} /\ n \notin DOMAIN rows
        /\ \A m \in DOMAIN rows : rows'[m] = rows[m]
        /\ rows'[n].id = None /\ ~rows'[n].manual /\ rows'[n].stray = streams[i].old
    BY DEF Result, Put
  <1>3. UNCHANGED <<shown, manuals, projects, wishes, alive, loading, loads, retours, searchSub, enAttente>>
    BY DEF Result
  <1>4. streams[i].st = "open" /\ ~streams[i].old
    BY DEF Result, At, Calm, SearchIsOfTheScreen, Unfinished
  <1>5. \A j \in DOMAIN streams : streams'[j].st = streams[j].st
    BY <1>1, <1>4
  <1>6. OneAtWork'
    BY <1>1, <1>3, <1>5 DEF Calm, OneAtWork, Unfinished, Live
  <1>7. SearchIsOfTheScreen'
    <2> SUFFICES ASSUME NEW j \in DOMAIN streams
                 PROVE /\ streams[j].st # "ended" => ~streams'[j].old
                       /\ streams[j].st = "open" =>
                            /\ streams'[j].project = shown
                            /\ \A m \in streams'[j].found : m \in DOMAIN rows' /\ ~rows'[m].manual
                       /\ streams[j].st = "token" => streams'[j].found = {}
      BY <1>1, <1>3, <1>5 DEF SearchIsOfTheScreen, Unfinished
    <2>1. CASE j = i
      BY <2>1, <1>1, <1>2, <1>4 DEF Calm, SearchIsOfTheScreen
    <2>2. CASE j # i
      BY <2>2, <1>1, <1>2 DEF Calm, SearchIsOfTheScreen, Unfinished
    <2> QED BY <2>1, <2>2
  <1>8. WishesAreSent'
    BY <1>1, <1>3, <1>5 DEF Calm, WishesAreSent, Unfinished, Live
  <1>9. ManualsAreOfTheScreen' /\ RowsAreOfTheScreen'
    BY <1>2, <1>3, <1>4 DEF Calm, ManualsAreOfTheScreen, RowsAreOfTheScreen
  <1>10. ChipsAreOfTheScreen' /\ ShownExists'
    BY <1>3 DEF Calm, ChipsAreOfTheScreen, ShownExists
  <1> QED BY <1>6, <1>7, <1>8, <1>9, <1>10 DEF Calm

\* The ids that come with the end of a search.
\* The ids the server gives land on the names the stream brought.
LEMMA DoneRows ==
  ASSUME TypeInv, NEW i \in DOMAIN streams, NEW p \in Projects, Done(i, p)
  PROVE  /\ DOMAIN rows' = DOMAIN rows
         /\ \A n \in DOMAIN rows : /\ rows'[n].manual = rows[n].manual /\ rows'[n].stray = rows[n].stray
                                   /\ rows'[n].rating = rows[n].rating
                                   /\ rows'[n].id = IF n \in streams[i].found /\ srv[<<n, p>>] = None
                                                    THEN p ELSE rows[n].id
                                   /\ rows'[n].pending = IF rows'[n].id = None THEN rows[n].pending ELSE None
  <1> DEFINE saved == {n \in streams[i].found : srv[n, p] = None}
             held == saved \cap DOMAIN rows
             cards == [n \in DOMAIN rows |-> IF n \in held THEN [rows[n] EXCEPT !.id = p] ELSE rows[n]]
  <1>1. rows' = [n \in DOMAIN rows |-> IF cards[n].id = None THEN cards[n] ELSE [cards[n] EXCEPT !.pending = None]]
    BY DEF Done
  <1>2. \A n \in DOMAIN rows : rows[n] \in Card
    BY DEF TypeInv, TypeOK, CardsTypeOK
  <1>3. \A n \in DOMAIN rows : n \in held <=> n \in streams[i].found /\ srv[<<n, p>>] = None
    OBVIOUS
  <1>4. \A n \in DOMAIN rows :
          /\ cards[n] \in Card /\ cards[n].manual = rows[n].manual /\ cards[n].stray = rows[n].stray
          /\ cards[n].rating = rows[n].rating /\ cards[n].pending = rows[n].pending
          /\ cards[n].id = IF n \in held THEN p ELSE rows[n].id
    BY <1>2 DEF Card
  <1> HIDE DEF cards, held
  <1>5. \A n \in DOMAIN rows :
          /\ rows'[n].id = cards[n].id /\ rows'[n].manual = cards[n].manual /\ rows'[n].stray = cards[n].stray
          /\ rows'[n].rating = cards[n].rating
          /\ rows'[n].pending = IF cards[n].id = None THEN cards[n].pending ELSE None
    BY <1>1, <1>4 DEF Card
  <1> QED BY <1>1, <1>3, <1>4, <1>5

LEMMA DoneScreen ==
  ASSUME TypeInv, Calm, NEW i \in DOMAIN streams, NEW p \in Projects, Done(i, p)
  PROVE  Calm'
  <1>1. /\ DOMAIN streams' = DOMAIN streams
        /\ streams'[i].st = "done" /\ streams'[i].old = streams[i].old
        /\ \A j \in DOMAIN streams : j # i => streams'[j] = streams[j]
    BY SetFacts DEF Done
  <1>2. /\ UNCHANGED <<manuals, alive, loading, searchSub, loads>>
        /\ shown' = p /\ projects' = projects \union {p} /\ enAttente' = 0
        /\ retours' = retours \union ({enAttente} \ {0})
        /\ wishes' = [wishes EXCEPT ![p] = IF streams[i].sent = {} THEN @ ELSE streams[i].sent]
    BY DEF Done
  <1>3. streams[i].st = "open" /\ streams[i].project = shown
    BY DEF Done, At, Calm, SearchIsOfTheScreen
  <1>4. \A j \in DOMAIN streams : j # i => streams[j].st = "ended"
    BY <1>3 DEF Calm, OneAtWork, Unfinished
  <1>5. loads = {}
    BY <1>3 DEF Calm, OneAtWork, Unfinished
  <1>6. OneAtWork' /\ WishesAreSent'
    BY <1>1, <1>2, <1>3, <1>4, <1>5 DEF OneAtWork, WishesAreSent, Unfinished, Live
  <1>7. SearchIsOfTheScreen'
    BY <1>1, <1>3, <1>4 DEF Calm, SearchIsOfTheScreen, Unfinished
  <1>8. shown = None \/ shown = p
    BY <1>3 DEF Done
  <1>9. RowsAreOfTheScreen'
    BY <1>2, <1>8, DoneRows DEF Calm, RowsAreOfTheScreen
  <1>10. ManualsAreOfTheScreen'
    BY <1>2, <1>8, DoneRows DEF Calm, ManualsAreOfTheScreen, TypeInv, ManualsPlaced
  <1>11. ChipsAreOfTheScreen'
    <2>1. streams[i].sent = retours' /\ wishes'[p] = IF streams[i].sent = {} THEN wishes[p] ELSE streams[i].sent
      BY <1>2, <1>3 DEF Calm, WishesAreSent, Live, TypeInv, TypeOK
    <2>2. p # None
      BY CardsAssumption
    <2> QED BY <2>1, <2>2, <1>2 DEF ChipsAreOfTheScreen
  <1>12. ShownExists'
    BY <1>2 DEF ShownExists
  <1> QED BY <1>6, <1>7, <1>9, <1>10, <1>11, <1>12 DEF Calm

LEMMA FindDomainsScreen ==
  ASSUME TypeInv, Calm, NEW append \in BOOLEAN, NEW wish \in BOOLEAN, FindDomains(append, wish), ~strayed'
  PROVE  Calm'
  <1> DEFINE w == IF wish THEN gestures + 1 ELSE 0
             x == [st |-> "token", old |-> FALSE, project |-> None, wish |-> w,
                   sent |-> IF wish THEN retours \union {gestures + 1} ELSE {}, found |-> {}]
             k == Len(streams) + 1
  <1>1. streams' = Append(streams, x)
    BY DEF FindDomains
  <1>2. /\ x.st = "token" /\ ~x.old /\ x.wish = w /\ x.found = {}
        /\ x.sent = IF wish THEN retours \union {gestures + 1} ELSE {}
    OBVIOUS
  <1> HIDE DEF x
  <1>3. /\ DOMAIN streams' = DOMAIN streams \union {k} /\ streams'[k] = x
        /\ \A j \in DOMAIN streams : streams'[j] = streams[j] /\ j # k
    BY <1>1 DEF TypeInv, TypeOK
  <1> HIDE DEF k
  <1>4. \A j \in DOMAIN streams : streams[j].st = "ended"
    BY DEF FindDomains, Unended, At
  <1>5. loads = {} /\ enAttente = 0 /\ alive
    BY <1>4 DEF FindDomains, Calm, OneAtWork, WishesAreSent, Unfinished
  <1>6. /\ UNCHANGED <<shown, manuals, projects, wishes, alive, searchSub, loads, retours>>
        /\ loading' = TRUE /\ enAttente' = w
    BY <1>5 DEF FindDomains
  <1>7. w = IF wish THEN gestures + 1 ELSE 0
    OBVIOUS
  <1>8. gestures + 1 # 0
    BY DEF TypeInv, TypeOK, CardsTypeOK
  <1> HIDE DEF w
  <1>9. OneAtWork' /\ SearchIsOfTheScreen'
    BY <1>2, <1>3, <1>4, <1>5, <1>6 DEF OneAtWork, SearchIsOfTheScreen, Unfinished, Live
  <1>10. WishesAreSent'
    BY <1>2, <1>3, <1>4, <1>5, <1>6, <1>7, <1>8 DEF WishesAreSent, Unfinished, Live
  <1>11. rows' = rows \/ DOMAIN rows' = {}
    BY EmptyRows DEF FindDomains
  <1>12. ManualsAreOfTheScreen' /\ RowsAreOfTheScreen' /\ ChipsAreOfTheScreen' /\ ShownExists'
    BY <1>6, <1>11 DEF Calm, ManualsAreOfTheScreen, RowsAreOfTheScreen, ChipsAreOfTheScreen, ShownExists
  <1> QED BY <1>9, <1>10, <1>12 DEF Calm

LEMMA EndSubFacts ==
  ASSUME EndSub
  PROVE  /\ searchSub' = 0 /\ DOMAIN streams' = DOMAIN streams
         /\ \A j \in DOMAIN streams : IF j = searchSub THEN streams'[j].st = "ended" ELSE streams'[j] = streams[j]
  BY DEF EndSub, Over

LEMMA CancelSearchScreen ==
  ASSUME TypeInv, Calm, CancelSearch, ~strayed'
  PROVE  Calm'
  <1>1. PICK i \in DOMAIN streams : streams[i].st = "open"
    BY DEF CancelSearch, Searching, Live, At
  <1>2. searchSub = i /\ loads = {} /\ \A j \in DOMAIN streams : j # i => streams[j].st = "ended"
    BY <1>1 DEF Calm, OneAtWork, Unfinished
  <1>3. DOMAIN streams' = DOMAIN streams /\ \A j \in DOMAIN streams : streams'[j].st = "ended"
    BY <1>2, EndSubFacts DEF CancelSearch
  <1>4. UNCHANGED <<shown, rows, manuals, projects, wishes, loads, retours>> /\ enAttente' = 0
    BY DEF CancelSearch
  <1>5. OneAtWork' /\ SearchIsOfTheScreen' /\ WishesAreSent'
    BY <1>2, <1>3, <1>4 DEF OneAtWork, SearchIsOfTheScreen, WishesAreSent, Unfinished, Live
  <1>6. ManualsAreOfTheScreen' /\ RowsAreOfTheScreen' /\ ChipsAreOfTheScreen' /\ ShownExists'
    BY <1>4 DEF Calm, ManualsAreOfTheScreen, RowsAreOfTheScreen, ChipsAreOfTheScreen, ShownExists
  <1> QED BY <1>5, <1>6 DEF Calm

LEMMA LeaveScreen ==
  ASSUME TypeInv, Calm, Leave
  PROVE  Calm'
  <1>1. /\ UNCHANGED <<shown, rows, manuals, projects, wishes, loading, loads, retours, enAttente>>
        /\ searchSub' = 0 /\ ~alive'
    BY DEF Leave, EndSub
  <1>2. /\ DOMAIN streams' = DOMAIN streams
        /\ \A j \in DOMAIN streams : IF j = searchSub THEN streams'[j].st = "ended" ELSE streams'[j] = streams[j]
    BY EndSubFacts DEF Leave
  <1>3. \A j \in DOMAIN streams : streams'[j].st # "open"
    BY <1>2 DEF Calm, OneAtWork
  <1>4. OneAtWork'
    BY <1>1, <1>2, <1>3 DEF Calm, OneAtWork, Unfinished, Live
  <1>5. SearchIsOfTheScreen' /\ WishesAreSent'
    BY <1>1, <1>2, <1>3 DEF Calm, SearchIsOfTheScreen, WishesAreSent, Unfinished, Live
  <1>6. ManualsAreOfTheScreen' /\ RowsAreOfTheScreen' /\ ChipsAreOfTheScreen' /\ ShownExists'
    BY <1>1 DEF Calm, ManualsAreOfTheScreen, RowsAreOfTheScreen, ChipsAreOfTheScreen, ShownExists
  <1> QED BY <1>4, <1>5, <1>6 DEF Calm

LEMMA LoadProjectScreen ==
  ASSUME TypeInv, Calm, NEW p \in Projects, LoadProject(p), ~strayed'
  PROVE  Calm'
  <1>1. /\ UNCHANGED <<shown, rows, manuals, projects, wishes, alive, streams, searchSub, retours, enAttente>>
        /\ loads' = {p} /\ loading' = TRUE /\ \A j \in DOMAIN streams : streams[j].st = "ended"
    BY DEF LoadProject, Unended, At
  <1>2. OneAtWork'
    BY <1>1 DEF OneAtWork, Unfinished, Live
  <1>3. SearchIsOfTheScreen' /\ WishesAreSent'
    BY <1>1 DEF Calm, SearchIsOfTheScreen, WishesAreSent, Unfinished, Live
  <1>4. ManualsAreOfTheScreen' /\ RowsAreOfTheScreen' /\ ChipsAreOfTheScreen' /\ ShownExists'
    BY <1>1 DEF Calm, ManualsAreOfTheScreen, RowsAreOfTheScreen, ChipsAreOfTheScreen, ShownExists
  <1> QED BY <1>2, <1>3, <1>4 DEF Calm

LEMMA LoadFailsScreen ==
  ASSUME TypeInv, Calm, NEW p \in loads, LoadFails(p)
  PROVE  Calm'
  <1>1. /\ UNCHANGED <<shown, rows, manuals, projects, wishes, alive, streams, searchSub, retours, enAttente>>
        /\ loads' = loads \ {p} /\ \A j \in DOMAIN streams : streams[j].st = "ended"
    BY DEF LoadFails, cardVars, Calm, OneAtWork, Unfinished
  <1>2. OneAtWork'
    BY <1>1 DEF Calm, OneAtWork, Unfinished, Live
  <1>3. SearchIsOfTheScreen' /\ WishesAreSent'
    BY <1>1 DEF Calm, SearchIsOfTheScreen, WishesAreSent, Unfinished, Live
  <1>4. ManualsAreOfTheScreen' /\ RowsAreOfTheScreen' /\ ChipsAreOfTheScreen' /\ ShownExists'
    BY <1>1 DEF Calm, ManualsAreOfTheScreen, RowsAreOfTheScreen, ChipsAreOfTheScreen, ShownExists
  <1> QED BY <1>2, <1>3, <1>4 DEF Calm

LEMMA AllOldFacts ==
  ASSUME TypeInv
  PROVE  DOMAIN AllOld = DOMAIN streams /\ \A j \in DOMAIN streams : AllOld[j].st = streams[j].st
  <1>1. \A j \in DOMAIN streams : streams[j] \in Stream
    BY StreamsTyped DEF TypeInv
  <1> QED BY <1>1 DEF AllOld, Stream

LEMMA LoadedScreen ==
  ASSUME TypeInv, Calm, NEW p \in loads, Loaded(p)
  PROVE  Calm'
  <1>1. /\ UNCHANGED <<manuals, projects, wishes, alive, searchSub, enAttente>>
        /\ loads' = loads \ {p}
    BY DEF Loaded
  <1>2. loads' = {} /\ \A j \in DOMAIN streams : streams[j].st = "ended"
    BY <1>1 DEF Calm, OneAtWork, Unfinished
  <1>3. DOMAIN streams' = DOMAIN streams /\ \A j \in DOMAIN streams : streams'[j].st = "ended"
    BY <1>2, AllOldFacts DEF Loaded
  <1>4. OneAtWork' /\ SearchIsOfTheScreen'
    BY <1>2, <1>3 DEF OneAtWork, SearchIsOfTheScreen, Unfinished, Live
  <1>5. WishesAreSent'
    BY <1>1, <1>2, <1>3 DEF Calm, WishesAreSent, Unfinished, Live
  <1>6. ManualsAreOfTheScreen' /\ RowsAreOfTheScreen' /\ ChipsAreOfTheScreen' /\ ShownExists'
    <2>1. CASE p \notin projects
      BY <1>1, <2>1 DEF Loaded, Calm, ManualsAreOfTheScreen, RowsAreOfTheScreen, ChipsAreOfTheScreen, ShownExists
    <2>2. CASE p \in projects
      <3> DEFINE card(n) == [id |-> p, manual |-> FALSE, rating |-> srv[n, p], pending |-> None,
                             analysis |-> IF <<n, p>> \in analysed THEN "done" ELSE "none",
                             stray |-> FALSE]
      <3>1. /\ rows' = [n \in {m \in Names : srv[m, p] # None} |-> card(n)]
            /\ shown' = p /\ retours' = wishes[p]
        BY <2>2 DEF Loaded
      <3>2. \A n : card(n).id = p /\ ~card(n).manual /\ ~card(n).stray
        OBVIOUS
      <3> HIDE DEF card
      <3>3. \A n \in DOMAIN rows' : rows'[n].id = p /\ ~rows'[n].manual /\ ~rows'[n].stray
        BY <3>1, <3>2
      <3>4. p # None
        BY CardsAssumption DEF TypeInv, TypeOK
      <3> QED BY <1>1, <2>2, <3>1, <3>3, <3>4
          DEF ManualsAreOfTheScreen, RowsAreOfTheScreen, ChipsAreOfTheScreen, ShownExists
    <2> QED BY <2>1, <2>2
  <1> QED BY <1>4, <1>5, <1>6 DEF Calm

LEMMA LeavingProjectScreen ==
  ASSUME TypeInv, Calm, ResetProject \/ \E p \in Projects : DeleteProject(p), ~strayed'
  PROVE  Calm'
  <1>1. UNCHANGED <<manuals, alive, loading, searchSub, loads, enAttente>>
    BY DEF ResetProject, DeleteProject
  <1>2. CASE Reset
    <2>1. loads = {} /\ \A j \in DOMAIN streams : streams[j].st = "ended"
      BY <1>2 DEF Reset, Unended, At
    <2>2. DOMAIN streams' = DOMAIN streams /\ \A j \in DOMAIN streams : streams'[j].st = "ended"
      BY <1>2, <2>1, AllOldFacts DEF Reset
    <2>3. DOMAIN rows' = {} /\ retours' = {} /\ shown' = None
      BY <1>2, EmptyRows DEF Reset
    <2>4. OneAtWork' /\ SearchIsOfTheScreen'
      BY <1>1, <2>1, <2>2 DEF OneAtWork, SearchIsOfTheScreen, Unfinished, Live
    <2>5. WishesAreSent'
      BY <1>1, <2>1, <2>2 DEF Calm, WishesAreSent, Unfinished, Live
    <2>6. ManualsAreOfTheScreen' /\ RowsAreOfTheScreen' /\ ChipsAreOfTheScreen' /\ ShownExists'
      BY <2>3 DEF ManualsAreOfTheScreen, RowsAreOfTheScreen, ChipsAreOfTheScreen, ShownExists
    <2> QED BY <2>4, <2>5, <2>6 DEF Calm
  <1>3. CASE UNCHANGED <<shown, rows, streams, retours>> /\ \E p \in Projects : DeleteProject(p) /\ shown # p
    <2>1. PICK p \in Projects : DeleteProject(p) /\ shown # p
      BY <1>3
    <2>2. projects' = projects \ {p} /\ wishes' = [wishes EXCEPT ![p] = {}]
      BY <2>1 DEF DeleteProject
    <2>3. OneAtWork' /\ SearchIsOfTheScreen' /\ WishesAreSent'
      BY <1>1, <1>3 DEF Calm, OneAtWork, SearchIsOfTheScreen, WishesAreSent, Unfinished, Live
    <2>4. ManualsAreOfTheScreen' /\ RowsAreOfTheScreen' /\ ShownExists'
      BY <1>1, <1>3, <2>1, <2>2 DEF Calm, ManualsAreOfTheScreen, RowsAreOfTheScreen, ShownExists
    <2>5. ChipsAreOfTheScreen'
      BY <1>3, <2>1, <2>2 DEF Calm, ChipsAreOfTheScreen, TypeInv, TypeOK, CardsTypeOK
    <2> QED BY <2>3, <2>4, <2>5 DEF Calm
  <1> QED BY <1>2, <1>3 DEF ResetProject, DeleteProject

LEMMA RetirerRetourScreen ==
  ASSUME TypeInv, Calm, NEW w \in retours, RetirerRetour(w)
  PROVE  Calm'
  <1>1. /\ UNCHANGED <<shown, rows, manuals, projects, alive, loading, streams, searchSub, loads, enAttente>>
        /\ ~loading /\ retours' \subseteq retours
        /\ wishes' = wishes \/ (shown # None /\ wishes' = [wishes EXCEPT ![shown] = retours'])
    BY DEF RetirerRetour
  <1>2. \A j \in DOMAIN streams : ~Live(j)
    BY <1>1 DEF Calm, OneAtWork
  <1>3. OneAtWork' /\ SearchIsOfTheScreen' /\ WishesAreSent'
    BY <1>1, <1>2 DEF Calm, OneAtWork, SearchIsOfTheScreen, WishesAreSent, Unfinished, Live
  <1>4. ManualsAreOfTheScreen' /\ RowsAreOfTheScreen' /\ ShownExists'
    BY <1>1 DEF Calm, ManualsAreOfTheScreen, RowsAreOfTheScreen, ShownExists
  <1>5. ChipsAreOfTheScreen'
    BY <1>1 DEF Calm, ChipsAreOfTheScreen, TypeInv, TypeOK, CardsTypeOK
  <1> QED BY <1>3, <1>4, <1>5 DEF Calm

\* The cards after a step were there, of the same project and typed in or not as before;
\* only names typed in may go.
\* A step on the cards: each stays in its list, and takes no other id than that of its project.
KeepsPlaces ==
  /\ \A n \in DOMAIN rows' :
       /\ n \in DOMAIN rows /\ rows'[n].stray = rows[n].stray /\ rows'[n].manual = rows[n].manual
       /\ rows'[n].id = rows[n].id \/ rows'[n].id = shown
  /\ \A n \in DOMAIN rows : rows[n].manual \/ n \in DOMAIN rows'

LEMMA CardsScreen ==
  ASSUME TypeInv, Calm, UNCHANGED searchVars, UNCHANGED shown, KeepsPlaces,
         \A m \in manuals' : \/ m \in manuals \/ m.project = shown
                             \/ m.name \in DOMAIN rows => ~rows[m.name].manual
  PROVE  Calm'
  <1>1. OneAtWork' /\ WishesAreSent' /\ ChipsAreOfTheScreen' /\ ShownExists'
    BY DEF Calm, OneAtWork, WishesAreSent, ChipsAreOfTheScreen, ShownExists, searchVars, Unfinished, Live
  <1>2. SearchIsOfTheScreen'
    BY DEF Calm, SearchIsOfTheScreen, searchVars, Unfinished, KeepsPlaces
  <1>3. RowsAreOfTheScreen'
    BY DEF Calm, RowsAreOfTheScreen, KeepsPlaces
  <1>4. ManualsAreOfTheScreen'
    BY DEF Calm, ManualsAreOfTheScreen, KeepsPlaces
  <1> QED BY <1>1, <1>2, <1>3, <1>4 DEF Calm

LEMMA SendBatchPlaces ==
  ASSUME TypeInv, NEW S, \A n \in S : Saved(n), NEW k \in 0..MaxGestures, SendBatch(S, k)
  PROVE  KeepsPlaces
  <1>1. \A n \in DOMAIN rows : rows[n] \in Card
    BY DEF TypeInv, TypeOK, CardsTypeOK
  <1>2. DOMAIN rows' = DOMAIN rows /\ \A n \in DOMAIN rows :
          rows'[n] = IF n \in S THEN [rows[n] EXCEPT !.analysis = "pending"] ELSE rows[n]
    BY SendBatchTyped DEF TypeInv, TypeOK
  <1> QED BY <1>1, <1>2 DEF Card, KeepsPlaces

LEMMA CardPlaces ==
  ASSUME TypeInv
  PROVE  /\ \A n \in Names, r \in Ratings : SetRating(n, r) => KeepsPlaces
         /\ \A v \in votes : VoteAnswered(v) => KeepsPlaces
         /\ \A m \in manuals : ManualFailed(m) => KeepsPlaces
         /\ \A n \in Names : AnalyseOne(n) => KeepsPlaces
         /\ EnvoyerUnLot => KeepsPlaces
         /\ \A b \in batches : \A done \in SUBSET b.ids : BatchAnswered(b, done) => KeepsPlaces
         /\ UNCHANGED rows => KeepsPlaces
  <1>0. \A n \in DOMAIN rows : rows[n] \in Card
    BY DEF TypeInv, TypeOK, CardsTypeOK
  <1>1. ASSUME NEW n \in Names, NEW r \in Ratings, SetRating(n, r) PROVE KeepsPlaces
    <2>1. rows' = [rows EXCEPT ![n].rating = r] \/ rows' = [rows EXCEPT ![n].rating = r, ![n].pending = r]
      BY <1>1 DEF SetRating
    <2>2. n \in DOMAIN rows
      BY <1>1 DEF SetRating
    <2> QED BY <1>0, <2>1, <2>2 DEF Card, KeepsPlaces
  <1>2. ASSUME NEW v \in votes, VoteAnswered(v) PROVE KeepsPlaces
    <2>1. PICK n, x : rows' = rows \/ (n \in DOMAIN rows /\ rows' = [rows EXCEPT ![n].rating = x])
      BY <1>2 DEF VoteAnswered
    <2> QED BY <1>0, <2>1 DEF Card, KeepsPlaces
  <1>3. ASSUME NEW m \in manuals, ManualFailed(m) PROVE KeepsPlaces
    BY <1>3 DEF ManualFailed, KeepsPlaces
  <1>4. ASSUME NEW n \in Names, AnalyseOne(n) PROVE KeepsPlaces
    <2>1. SendBatch({n}, gestures + 1) /\ \A m \in {n} : Saved(m)
      BY <1>4 DEF AnalyseOne
    <2>2. gestures + 1 \in 0..MaxGestures
      BY <1>4, CardsAssumption DEF AnalyseOne, Gesture, TypeInv, TypeOK, CardsTypeOK
    <2> QED BY <2>1, <2>2, SendBatchPlaces
  <1>5. ASSUME UNCHANGED rows PROVE KeepsPlaces
    BY <1>5 DEF KeepsPlaces
  <1>6. ASSUME EnvoyerUnLot PROVE KeepsPlaces
    <2>1. CASE \E lot \in SUBSET {n \in Names : Due(n)} : SendBatch(lot, 0)
      <3>1. PICK lot \in SUBSET {n \in Names : Due(n)} : SendBatch(lot, 0)
        BY <2>1
      <3>2. (\A n \in lot : Saved(n)) /\ 0 \in 0..MaxGestures
        BY CardsAssumption DEF Due
      <3> QED BY <3>1, <3>2, SendBatchPlaces
    <2> QED BY <1>5, <1>6, <2>1 DEF EnvoyerUnLot
  <1>7. ASSUME NEW b \in batches, NEW done \in SUBSET b.ids, BatchAnswered(b, done) PROVE KeepsPlaces
    <2> DEFINE x(n) == IF Sugg(n) \in done THEN "done"
                       ELSE IF rows[n].analysis = "pending" THEN "none" ELSE rows[n].analysis
               touched == {n \in DOMAIN rows : Saved(n) /\ Sugg(n) \in b.ids}
    <2>1. rows' = [n \in DOMAIN rows |-> IF n \in touched THEN [rows[n] EXCEPT !.analysis = x(n)] ELSE rows[n]]
      BY <1>7 DEF BatchAnswered
    <2> HIDE DEF x, touched
    <2> QED BY <2>1, <1>0 DEF Card, KeepsPlaces
  <1> QED BY <1>1, <1>2, <1>3, <1>4, <1>5, <1>6, <1>7

LEMMA AddManualScreen ==
  ASSUME TypeInv, Calm, NEW n \in Names, AddManual(n), UNCHANGED searchVars
  PROVE  Calm'
  <1>1. /\ DOMAIN rows' = DOMAIN rows \union {n} /\ n \notin DOMAIN rows
        /\ \A k \in DOMAIN rows : rows'[k] = rows[k]
        /\ rows'[n].id = None /\ ~rows'[n].stray
    BY DEF AddManual, Put
  <1>2. PICK new : manuals' = manuals \union {new} /\ new.step = "check"
    <2> DEFINE m == [name |-> n, project |-> None, step |-> "check"]
    <2>1. manuals' = manuals \union {m} /\ m.step = "check"
      BY DEF AddManual
    <2> HIDE DEF m
    <2> QED BY <2>1
  <1>3. shown' = shown /\ \A m \in manuals : m.name # n
    BY DEF AddManual, Voting
  <1>4. OneAtWork' /\ WishesAreSent' /\ ChipsAreOfTheScreen' /\ ShownExists'
    BY <1>3 DEF Calm, OneAtWork, WishesAreSent, ChipsAreOfTheScreen, ShownExists, searchVars, Unfinished, Live
  <1>5. SearchIsOfTheScreen'
    BY <1>1, <1>3 DEF Calm, SearchIsOfTheScreen, searchVars, Unfinished
  <1>6. RowsAreOfTheScreen'
    BY <1>1, <1>3 DEF Calm, RowsAreOfTheScreen
  <1>7. ManualsAreOfTheScreen'
    BY <1>1, <1>2, <1>3 DEF Calm, ManualsAreOfTheScreen
  <1> QED BY <1>4, <1>5, <1>6, <1>7 DEF Calm

LEMMA ManualCheckedScreen ==
  ASSUME TypeInv, Calm, NEW m \in manuals, ManualChecked(m), UNCHANGED searchVars
  PROVE  Calm'
  <1>1. UNCHANGED <<rows, shown>>
    BY DEF ManualChecked
  <1>2. \A k \in manuals' : k \in manuals \/ k.project = shown
    <2>1. [m EXCEPT !.step = "save", !.project = shown].project = shown
      BY DEF TypeInv, TypeOK, CardsTypeOK, Manual
    <2> QED BY <2>1 DEF ManualChecked
  <1>3. KeepsPlaces
    BY <1>1, CardPlaces
  <1> QED BY <1>1, <1>2, <1>3, CardsScreen

LEMMA ManualSavedScreen ==
  ASSUME TypeInv, Calm, NEW m \in manuals, ManualSaved(m), UNCHANGED searchVars
  PROVE  Calm'
  <1>1. shown' = shown /\ m.step = "save" /\ m \in Manual
    BY DEF ManualSaved, TypeInv, TypeOK, CardsTypeOK
  <1>2. KeepsPlaces
    <2>1. CASE rows' = rows
      BY <2>1, CardPlaces
    <2>2. CASE rows' # rows
      <3>1. m.name \in DOMAIN rows /\ rows[m.name].manual /\ rows' = [rows EXCEPT ![m.name].id = m.project]
        BY <2>2 DEF ManualSaved
      <3>2. m.project = shown
        BY <1>1, <3>1 DEF Calm, ManualsAreOfTheScreen
      <3>3. \A n \in DOMAIN rows : rows[n] \in Card
        BY DEF TypeInv, TypeOK, CardsTypeOK
      <3> QED BY <3>1, <3>2, <3>3 DEF Card, KeepsPlaces
    <2> QED BY <2>1, <2>2
  <1>3. \A k \in manuals' : k \in manuals \/ (k.project = m.project /\ k.name = m.name)
    <2>1. manuals' = (manuals \ {m}) \union {[m EXCEPT !.step = "like"]} \/ manuals' = manuals \ {m}
      BY DEF ManualSaved
    <2> QED BY <1>1, <2>1, ManualFields
  <1>4. m.project = shown \/ (m.name \in DOMAIN rows => ~rows[m.name].manual)
    BY <1>1 DEF Calm, ManualsAreOfTheScreen
  <1> QED BY <1>1, <1>2, <1>3, <1>4, CardsScreen

\* Every step.
LEMMA StepScreen == TypeInv /\ ScreenInv /\ [Next]_vars => ScreenInv'
  <1> SUFFICES ASSUME TypeInv, Calm, [Next]_vars, ~strayed' PROVE Calm'
    BY StraysStay DEF ScreenInv
  <1>a. ASSUME KeepsPlaces, UNCHANGED searchVars, UNCHANGED shown, manuals' \subseteq manuals PROVE Calm'
    BY <1>a, CardsScreen
  <1>1. CASE User
    <2>1. ASSUME NEW append \in BOOLEAN, NEW wish \in BOOLEAN, FindDomains(append, wish) PROVE Calm'
      BY <2>1, FindDomainsScreen
    <2>2. ASSUME UserOnCards, UNCHANGED searchVars PROVE Calm'
      <3>1. ASSUME NEW n \in Names, NEW r \in Ratings, SetRating(n, r) PROVE Calm'
        BY <2>2, <3>1, <1>a, CardPlaces DEF SetRating
      <3>2. ASSUME NEW n \in Names, AnalyseOne(n) PROVE Calm'
        BY <2>2, <3>2, <1>a, CardPlaces DEF AnalyseOne
      <3> QED BY <2>2, <3>1, <3>2, AddManualScreen DEF UserOnCards
    <2>3. ~GiveUpWaiting
      BY DEF GiveUpWaiting
    <2> QED BY <1>1, <2>1, <2>2, <2>3, CancelSearchScreen, LeavingProjectScreen, LeaveScreen, LoadProjectScreen,
               RetirerRetourScreen DEF User
  <1>2. CASE SearchGoesOn
    BY <1>2, OpenedScreen, StreamEndsScreen, ErrorEventScreen, DoneScreen, LoadedScreen, LoadFailsScreen
       DEF SearchGoesOn
  <1>3. CASE \E i \in DOMAIN streams, n \in Names : Result(i, n)
    BY <1>3, ResultScreen
  <1>4. CASE CardsGoOn
    <2>1. UNCHANGED searchVars
      BY <1>4 DEF CardsGoOn
    <2>2. ASSUME NEW v \in votes, VoteReaches(v) \/ VoteAnswered(v) PROVE Calm'
      BY <2>1, <2>2, <1>a, CardPlaces DEF VoteReaches, VoteAnswered
    <2>3. ASSUME NEW b \in batches, NEW done \in SUBSET b.ids, BatchAnswered(b, done) PROVE Calm'
      BY <2>1, <2>3, <1>a, CardPlaces DEF BatchAnswered
    <2>4. ASSUME NEW m \in manuals, ManualFailed(m) \/ ManualLiked(m) PROVE Calm'
      BY <2>1, <2>4, <1>a, CardPlaces DEF ManualFailed, ManualLiked
    <2>5. ASSUME EnvoyerUnLot PROVE Calm'
      BY <2>1, <2>5, <1>a, CardPlaces DEF EnvoyerUnLot
    <2> QED BY <1>4, <2>1, <2>2, <2>3, <2>4, <2>5, ManualCheckedScreen, ManualSavedScreen
            DEF CardsGoOn, ServerOnCards
  <1>5. CASE alive /\ (\E n \in Names : CarteVue(n)) /\ UNCHANGED searchVars
    BY <1>5, <1>a, CardPlaces DEF CarteVue
  <1>6. CASE UNCHANGED vars
    BY <1>6, <1>a, CardPlaces DEF vars, cardVars
  <1> QED BY <1>1, <1>2, <1>3, <1>4, <1>5, <1>6 DEF Next

\* The list never mixes the names of two projects and the chips are wishes of the project
\* displayed, unless a search or a load was left behind (wizard.ts, loadProject, resetProject
\* and findDomains).
THEOREM ScreenOfOneProject == Spec => []ScreenIsOneProject
  <1>1. ScreenInv => ScreenIsOneProject
    BY DEF ScreenInv, Calm, RowsAreOfTheScreen, ChipsAreOfTheScreen, ScreenIsOneProject, OnlyKnownStraysMix,
       ChipsAreStored, Saved
  <1> QED BY <1>1, InitTypes, StepTypes, InitScreen, StepScreen, PTL DEF Spec

----------------------------------------------------------------------------
(* Ratings. *)

\* The votes about a name, and the requests of a name typed in.
About(n) == {v \in votes : v.sugg[1] = n}

Typed(n) == {m \in manuals : m.name = n}

\* A card without an id: its rating waits on it, or it was typed in and is liked.
Unsent(n) ==
  /\ About(n) = {}
  /\ IF rows[n].manual
     THEN rows[n].rating = "liked" /\ rows[n].pending = None /\ \A m \in Typed(n) : m.step # "like"
     ELSE Typed(n) = {} /\ rows[n].rating = IF rows[n].pending = None THEN "neutral" ELSE rows[n].pending

\* A card with its id: it shows what the server holds, or what it is being sent.
Recorded(n) ==
  /\ rows[n].pending = None
  /\ \A v \in About(n) :
       /\ v.sugg = <<n, rows[n].id>> /\ rows[n].rating = v.value
       /\ IF v.reply = "ok" THEN srv[<<n, rows[n].id>>] = v.value
                            ELSE v.previous \in {None, srv[<<n, rows[n].id>>]}
  /\ \A m \in Typed(n) : m.step = "like" /\ m.project = rows[n].id /\ rows[n].rating = "liked"
  /\ About(n) = {} /\ Typed(n) = {} => rows[n].rating = srv[<<n, rows[n].id>>]

\* One request at a time is about a name, aside from the doubtful ones.
OneRequest(n) ==
  /\ \A v, w \in About(n) : v = w
  /\ \A m, k \in Typed(n) : m = k
  /\ About(n) = {} \/ Typed(n) = {}

RatedRight(n) == OneRequest(n) /\ IF rows[n].id # None THEN Recorded(n) ELSE Unsent(n)

\* Ratings, the doubtful aside: what is inductive is not the property but what it becomes while
\* a vote, or the like of a name typed in, is on its way and once it was answered.
AllRatedRight == \A n \in DOMAIN rows \ doubtful : RatedRight(n)

RatingsInv == strayed \/ AllRatedRight

LEMMA InitRatings == Init => RatingsInv
  BY EmptyRows DEF Init, RatingsInv, AllRatedRight

\* The votes on a name after a step are those before it, stale or not.
VotesKept(n) ==
  /\ \A v, w \in About(n)' : v = w
  /\ \A v \in About(n)' : \E u \in About(n) :
       v.sugg = u.sugg /\ v.value = u.value /\ v.previous = u.previous /\ v.reply = u.reply
  /\ About(n) # {} => About(n)' # {}

LEMMA StaleVotes ==
  ASSUME TypeInv, NEW S, NEW n, OneRequest(n), About(n)' = {v \in Stale(S) : v.sugg[1] = n}
  PROVE  VotesKept(n)
  <1> DEFINE f(v) == [v EXCEPT !.stale = @ \/ v.sugg[1] \in S]
  <1>1. Stale(S) = {f(v) : v \in votes}
    BY DEF Stale
  <1>2. \A v \in votes : /\ f(v).sugg = v.sugg /\ f(v).value = v.value /\ f(v).previous = v.previous
                         /\ f(v).reply = v.reply
    BY DEF TypeInv, TypeOK, CardsTypeOK, Vote
  <1> HIDE DEF f
  <1>3. \A w \in About(n)' : \E v \in About(n) : w = f(v)
    BY <1>1, <1>2 DEF About
  <1>4. \A v, w \in About(n)' : v = w
    BY <1>3 DEF OneRequest
  <1>5. About(n) # {} => About(n)' # {}
    <2> SUFFICES ASSUME NEW v \in About(n) PROVE f(v) \in About(n)'
      OBVIOUS
    <2> QED BY <1>1, <1>2 DEF About
  <1> QED BY <1>2, <1>3, <1>4, <1>5 DEF VotesKept, About

LEMMA SameVotes ==
  ASSUME NEW n, OneRequest(n), About(n)' = About(n)
  PROVE  VotesKept(n)
  BY DEF OneRequest, VotesKept

\* What does not touch a name leaves its rating right.
LEMMA KeptRating ==
  ASSUME NEW n \in DOMAIN rows, RatedRight(n), VotesKept(n), Typed(n)' = Typed(n),
         rows'[n].id = rows[n].id, rows'[n].manual = rows[n].manual,
         rows'[n].rating = rows[n].rating, rows'[n].pending = rows[n].pending,
         rows[n].id # None => srv'[<<n, rows[n].id>>] = srv[<<n, rows[n].id>>]
  PROVE  RatedRight(n)'
  <1>1. OneRequest(n)'
    BY DEF OneRequest, RatedRight, VotesKept
  <1>2. About(n)' = {} <=> About(n) = {}
    BY DEF VotesKept
  <1>3. CASE rows[n].id # None
    <2>1. Recorded(n) /\ srv'[<<n, rows'[n].id>>] = srv[<<n, rows[n].id>>]
      BY <1>3 DEF RatedRight
    <2>2. ASSUME NEW v \in About(n)'
          PROVE  /\ v.sugg = <<n, rows'[n].id>> /\ rows'[n].rating = v.value
                 /\ IF v.reply = "ok" THEN srv'[<<n, rows'[n].id>>] = v.value
                                      ELSE v.previous \in {None, srv'[<<n, rows'[n].id>>]}
      <3>1. PICK u \in About(n) :
              v.sugg = u.sugg /\ v.value = u.value /\ v.previous = u.previous /\ v.reply = u.reply
        BY DEF VotesKept
      <3> QED BY <2>1, <3>1 DEF Recorded
    <2>3. Recorded(n)'
      BY <1>2, <2>1, <2>2 DEF Recorded
    <2> QED BY <1>1, <1>3, <2>3 DEF RatedRight
  <1>4. CASE rows[n].id = None
    BY <1>1, <1>2, <1>4 DEF RatedRight, Unsent
  <1> QED BY <1>3, <1>4

\* What a step that has nothing to do with ratings leaves.
KeepsRatings ==
  /\ UNCHANGED <<doubtful, manuals, srv>>
  /\ votes' = votes \/ \E S : votes' = Stale(S)
  /\ \A n \in DOMAIN rows' :
       /\ n \in DOMAIN rows
       /\ rows'[n].id = rows[n].id /\ rows'[n].manual = rows[n].manual
       /\ rows'[n].rating = rows[n].rating /\ rows'[n].pending = rows[n].pending

LEMMA UnchangedRatings ==
  ASSUME TypeInv, AllRatedRight, KeepsRatings
  PROVE  AllRatedRight'
  <1> USE DEF KeepsRatings
  <1> SUFFICES ASSUME NEW n \in DOMAIN rows' \ doubtful' PROVE RatedRight(n)'
    BY DEF AllRatedRight
  <1>1. n \in DOMAIN rows /\ RatedRight(n) /\ OneRequest(n)
    BY DEF AllRatedRight, RatedRight
  <1>2. VotesKept(n)
    <2>1. CASE votes' = votes
      BY <1>1, <2>1, SameVotes DEF About
    <2>2. CASE \E S : votes' = Stale(S)
      <3>1. PICK S : votes' = Stale(S)
        BY <2>2
      <3>2. About(n)' = {v \in Stale(S) : v.sugg[1] = n}
        BY <3>1 DEF About
      <3> QED BY <1>1, <3>2, StaleVotes
    <2> QED BY <2>1, <2>2
  <1>3. Typed(n)' = Typed(n)
    BY DEF Typed
  <1> QED BY <1>1, <1>2, <1>3, KeptRating

\* A step about one name leaves the others.
LEMMA OtherRating ==
  ASSUME TypeInv, AllRatedRight, NEW k \in DOMAIN rows \ doubtful,
         rows'[k] = rows[k], Typed(k)' = Typed(k),
         About(k)' = About(k) \/ (\E S : About(k)' = {v \in Stale(S) : v.sugg[1] = k}),
         rows[k].id # None => srv'[<<k, rows[k].id>>] = srv[<<k, rows[k].id>>]
  PROVE  RatedRight(k)'
  <1>1. RatedRight(k) /\ OneRequest(k)
    BY DEF AllRatedRight, RatedRight
  <1>2. VotesKept(k)
    BY <1>1, SameVotes, StaleVotes
  <1> QED BY <1>1, <1>2, KeptRating

LEMMA RowTyped ==
  ASSUME TypeInv, NEW k \in DOMAIN rows
  PROVE  rows[k] \in Card /\ k \in Names /\ (rows[k].id # None => <<k, rows[k].id>> \in Suggestions)
  BY DEF TypeInv, TypeOK, CardsTypeOK, Card, Suggestions

\* The user rates, the vote reaches the server, its answer comes back.
LEMMA SetRatingRatings ==
  ASSUME TypeInv, AllRatedRight, NEW n \in Names, NEW r \in Ratings, SetRating(n, r)
  PROVE  AllRatedRight'
  <1>1. /\ n \in DOMAIN rows /\ UNCHANGED <<manuals, srv>> /\ doubtful \subseteq doubtful'
        /\ n \notin doubtful' => ~Voting(n) /\ (rows[n].id = None => ~rows[n].manual)
    BY DEF SetRating, Saved
  <1>2. rows[n] \in Card
    BY <1>1, RowTyped
  <1>3. CASE rows[n].id # None
    <2> DEFINE v == [sugg |-> <<n, rows[n].id>>, value |-> r, previous |-> rows[n].rating, stale |-> FALSE,
                     reply |-> "awaited"]
    <2>1. rows' = [rows EXCEPT ![n].rating = r] /\ votes' = votes \union {v}
      BY <1>1, <1>3 DEF SetRating, Saved, Sugg
    <2>2. /\ v.sugg = <<n, rows[n].id>> /\ v.sugg[1] = n /\ v.value = r /\ v.previous = rows[n].rating
          /\ v.reply = "awaited"
      OBVIOUS
    <2> HIDE DEF v
    <2>3. /\ DOMAIN rows' = DOMAIN rows /\ \A k \in DOMAIN rows : k # n => rows'[k] = rows[k]
          /\ rows'[n].id = rows[n].id /\ rows'[n].pending = rows[n].pending /\ rows'[n].rating = r
      BY <1>1, <1>2, <2>1 DEF Card
    <2>4. ASSUME NEW k \in DOMAIN rows' \ doubtful', k # n PROVE RatedRight(k)'
      <3>1. About(k)' = About(k) /\ Typed(k)' = Typed(k) /\ k \in DOMAIN rows \ doubtful
        BY <1>1, <2>1, <2>2, <2>3, <2>4 DEF About, Typed
      <3> QED BY <1>1, <2>3, <2>4, <3>1, OtherRating
    <2>5. ASSUME n \notin doubtful' PROVE RatedRight(n)'
      <3>1. About(n) = {} /\ Typed(n) = {}
        BY <1>1, <2>5 DEF Voting, About, Typed
      <3>2. About(n)' = {v} /\ Typed(n)' = {}
        BY <1>1, <2>1, <2>2, <3>1 DEF About, Typed
      <3>3. Recorded(n)
        BY <1>1, <1>3, <2>5 DEF AllRatedRight, RatedRight
      <3>4. Recorded(n)'
        BY <1>1, <2>2, <2>3, <3>1, <3>2, <3>3 DEF Recorded
      <3> QED BY <1>3, <2>3, <3>2, <3>4 DEF RatedRight, OneRequest
    <2> QED BY <2>3, <2>4, <2>5 DEF AllRatedRight
  <1>4. CASE rows[n].id = None
    <2>1. rows' = [rows EXCEPT ![n].rating = r, ![n].pending = r] /\ votes' = votes
      BY <1>1, <1>4 DEF SetRating, Saved
    <2>2. /\ DOMAIN rows' = DOMAIN rows /\ \A k \in DOMAIN rows : k # n => rows'[k] = rows[k]
          /\ rows'[n].id = None /\ rows'[n].pending = r /\ rows'[n].rating = r /\ rows'[n].manual = rows[n].manual
      BY <1>1, <1>2, <1>4, <2>1 DEF Card
    <2>3. ASSUME NEW k \in DOMAIN rows' \ doubtful', k # n PROVE RatedRight(k)'
      <3>1. About(k)' = About(k) /\ Typed(k)' = Typed(k) /\ k \in DOMAIN rows \ doubtful
        BY <1>1, <2>1, <2>2, <2>3 DEF About, Typed
      <3> QED BY <1>1, <2>2, <2>3, <3>1, OtherRating
    <2>4. ASSUME n \notin doubtful' PROVE RatedRight(n)'
      <3>1. About(n) = {} /\ Typed(n) = {} /\ ~rows[n].manual
        BY <1>1, <1>4, <2>4 DEF Voting, About, Typed
      <3>2. About(n)' = {} /\ Typed(n)' = {}
        BY <1>1, <2>1, <3>1 DEF About, Typed
      <3>3. r # None
        BY CardsAssumption DEF Ratings
      <3> QED BY <2>2, <3>1, <3>2, <3>3 DEF RatedRight, OneRequest, Unsent
    <2> QED BY <2>2, <2>3, <2>4 DEF AllRatedRight
  <1> QED BY <1>3, <1>4

LEMMA VoteReachesRatings ==
  ASSUME TypeInv, AllRatedRight, NEW v \in votes, VoteReaches(v)
  PROVE  AllRatedRight'
  <1> DEFINE n == v.sugg[1]
  <1>1. v \in Vote /\ v.sugg \in Suggestions
    BY VoteFields DEF TypeInv, TypeOK, CardsTypeOK
  <1>2. v.reply = "awaited" /\ UNCHANGED <<rows, manuals>> /\ doubtful \subseteq doubtful'
    BY DEF VoteReaches
  <1>3. PICK reply \in {"ok", "ko"} :
          /\ votes' = (votes \ {v}) \union {[v EXCEPT !.reply = reply]}
          /\ \/ srv' = [srv EXCEPT ![v.sugg] = v.value] /\ (reply = "ko" => n \in doubtful')
             \/ reply = "ko" /\ srv' = srv
    BY DEF VoteReaches
  <1>4. PICK w : w = [v EXCEPT !.reply = reply]
    OBVIOUS
  <1>5. w.sugg = v.sugg /\ w.value = v.value /\ w.previous = v.previous /\ w.reply = reply
    BY <1>1, <1>4 DEF Vote
  <1>6. votes' = (votes \ {v}) \union {w}
    BY <1>3, <1>4
  <1>7. ASSUME NEW k \in DOMAIN rows' \ doubtful', k # n PROVE RatedRight(k)'
    <2>1. About(k)' = About(k) /\ Typed(k)' = Typed(k) /\ k \in DOMAIN rows \ doubtful /\ rows'[k] = rows[k]
      BY <1>2, <1>5, <1>6, <1>7 DEF About, Typed
    <2>2. rows[k].id # None => srv'[<<k, rows[k].id>>] = srv[<<k, rows[k].id>>]
      <3> SUFFICES ASSUME rows[k].id # None PROVE srv'[<<k, rows[k].id>>] = srv[<<k, rows[k].id>>]
        OBVIOUS
      <3>1. <<k, rows[k].id>> \in Suggestions /\ <<k, rows[k].id>> # v.sugg
        BY <1>2, <1>7, RowTyped
      <3> QED BY <1>3, <3>1 DEF TypeInv, TypeOK, CardsTypeOK
    <2> QED BY <2>1, <2>2, OtherRating
  <1>8. ASSUME n \in DOMAIN rows' \ doubtful' PROVE RatedRight(n)'
    <2>1. RatedRight(n) /\ v \in About(n)
      BY <1>2, <1>8 DEF AllRatedRight, About
    <2>2. About(n) = {v} /\ Typed(n) = {} /\ Recorded(n) /\ rows[n].id # None
      BY <2>1 DEF RatedRight, OneRequest, Unsent
    <2>3. /\ v.sugg = <<n, rows[n].id>> /\ rows[n].rating = v.value /\ rows[n].pending = None
          /\ v.previous \in {None, srv[<<n, rows[n].id>>]}
      BY <2>2, <1>2 DEF Recorded
    <2>4. About(n)' = {w} /\ Typed(n)' = {}
      <3>1. \A u \in votes : u.sugg[1] = n => u = v
        BY <2>2 DEF About
      <3> QED BY <1>2, <1>5, <1>6, <2>2, <3>1 DEF About, Typed
    <2>5. IF reply = "ok" THEN srv'[<<n, rows[n].id>>] = v.value ELSE v.previous \in {None, srv'[<<n, rows[n].id>>]}
      BY <1>1, <1>3, <1>8, <2>3 DEF TypeInv, TypeOK, CardsTypeOK
    <2> HIDE DEF n
    <2>6. Recorded(n)'
      BY <1>2, <1>5, <2>3, <2>4, <2>5 DEF Recorded
    <2> QED BY <1>2, <2>2, <2>4, <2>6 DEF RatedRight, OneRequest
  <1> QED BY <1>7, <1>8 DEF AllRatedRight

LEMMA VoteAnsweredRatings ==
  ASSUME TypeInv, AllRatedRight, NEW v \in votes, VoteAnswered(v)
  PROVE  AllRatedRight'
  <1> DEFINE n == v.sugg[1]
             held == n \in DOMAIN rows /\ ~v.stale
             x == IF v.reply = "ok" THEN v.value ELSE RollBack(v)
  <1>1. /\ v.reply # "awaited" /\ votes' = votes \ {v} /\ UNCHANGED <<manuals, srv>>
        /\ rows' = (IF held THEN [rows EXCEPT ![n].rating = x] ELSE rows)
        /\ doubtful' = IF v.reply = "ko" /\ (~held \/ v.previous = None) THEN doubtful \union {n} ELSE doubtful
    BY DEF VoteAnswered
  <1>2. v \in Vote
    BY DEF TypeInv, TypeOK, CardsTypeOK
  <1>3. held => n \in DOMAIN rows
    OBVIOUS
  <1>4. x = IF v.reply = "ok" THEN v.value ELSE IF v.previous = None THEN v.value ELSE v.previous
    BY DEF RollBack
  <1> HIDE DEF n, held, x
  <1>5. /\ DOMAIN rows' = DOMAIN rows /\ \A k \in DOMAIN rows : k # n => rows'[k] = rows[k]
        /\ n \in DOMAIN rows => /\ rows'[n].id = rows[n].id /\ rows'[n].pending = rows[n].pending
                                /\ rows'[n].rating = IF held THEN x ELSE rows[n].rating
    <2>1. n \in DOMAIN rows => rows[n] \in Card
      BY RowTyped
    <2> QED BY <1>1, <1>3, <2>1 DEF Card
  <1>6. ASSUME NEW k \in DOMAIN rows' \ doubtful', k # n PROVE RatedRight(k)'
    <2>1. About(k)' = About(k) /\ Typed(k)' = Typed(k) /\ k \in DOMAIN rows \ doubtful
      BY <1>1, <1>5, <1>6 DEF About, Typed, n
    <2> QED BY <1>1, <1>5, <1>6, <2>1, OtherRating
  <1>7. ASSUME n \in DOMAIN rows' \ doubtful' PROVE RatedRight(n)'
    <2>1. RatedRight(n) /\ v \in About(n) /\ n \in DOMAIN rows
      BY <1>1, <1>5, <1>7 DEF AllRatedRight, About, n
    <2>2. About(n) = {v} /\ Typed(n) = {} /\ Recorded(n) /\ rows[n].id # None
      BY <2>1 DEF RatedRight, OneRequest, Unsent
    <2>3. /\ rows[n].rating = v.value /\ rows[n].pending = None
          /\ IF v.reply = "ok" THEN srv[<<n, rows[n].id>>] = v.value
             ELSE v.previous \in {None, srv[<<n, rows[n].id>>]}
      BY <2>2 DEF Recorded
    <2>4. About(n)' = {} /\ Typed(n)' = {}
      BY <1>1, <2>2 DEF About, Typed
    <2>5. rows'[n].rating = srv[<<n, rows[n].id>>]
      <3>1. CASE v.reply = "ok"
        BY <3>1, <1>4, <1>5, <2>1, <2>3
      <3>2. CASE v.reply # "ok"
        <4>1. v.reply = "ko"
          BY <1>1, <1>2, <3>2 DEF Vote
        <4>2. held /\ v.previous # None
          BY <4>1, <1>1, <1>7
        <4> QED BY <4>2, <3>2, <1>4, <1>5, <2>1, <2>3
      <3> QED BY <3>1, <3>2
    <2>6. Recorded(n)'
      BY <1>1, <1>5, <2>1, <2>3, <2>4, <2>5 DEF Recorded
    <2> QED BY <1>5, <2>1, <2>2, <2>4, <2>6 DEF RatedRight, OneRequest
  <1> QED BY <1>6, <1>7 DEF AllRatedRight

\* A card that appears, that nothing is asked about.
\* A name that was not in the list.
LEMMA NewCardRatings ==
  ASSUME TypeInv, AllRatedRight, NEW n \in Names, NEW c \in Card, n \notin DOMAIN rows, rows' = Put(rows, n, c),
         ~Voting(n), doubtful' = doubtful \ {n}, UNCHANGED <<votes, srv>>,
         c.id = None, c.pending = None,
         IF c.manual THEN \E m : manuals' = manuals \union {m} /\ m.name = n /\ m.step = "check" /\ c.rating = "liked"
         ELSE manuals' = manuals /\ c.rating = "neutral"
  PROVE  AllRatedRight'
  <1>1. DOMAIN rows' = DOMAIN rows \union {n} /\ rows'[n] = c /\ \A k \in DOMAIN rows : rows'[k] = rows[k]
    BY DEF Put
  <1>2. About(n) = {} /\ Typed(n) = {}
    BY DEF Voting, About, Typed
  <1>3. ASSUME NEW k \in DOMAIN rows' \ doubtful', k # n PROVE RatedRight(k)'
    <2>1. About(k)' = About(k) /\ Typed(k)' = Typed(k) /\ k \in DOMAIN rows \ doubtful
      BY <1>1, <1>3 DEF About, Typed
    <2> QED BY <1>1, <1>3, <2>1, OtherRating
  <1>4. RatedRight(n)'
    <2>1. About(n)' = {}
      BY <1>2 DEF About
    <2>2. CASE c.manual
      <3>1. PICK m : manuals' = manuals \union {m} /\ m.name = n /\ m.step = "check" /\ c.rating = "liked"
        BY <2>2
      <3>2. Typed(n)' = {m}
        BY <1>2, <3>1 DEF Typed
      <3> QED BY <1>1, <2>1, <2>2, <3>1, <3>2 DEF RatedRight, OneRequest, Unsent
    <2>3. CASE ~c.manual
      <3>1. Typed(n)' = {} /\ c.rating = "neutral"
        BY <1>2, <2>3 DEF Typed
      <3> QED BY <1>1, <2>1, <2>3, <3>1 DEF RatedRight, OneRequest, Unsent
    <2> QED BY <2>2, <2>3
  <1> QED BY <1>3, <1>4 DEF AllRatedRight

LEMMA AddManualRatings ==
  ASSUME TypeInv, AllRatedRight, NEW n \in Names, AddManual(n)
  PROVE  AllRatedRight'
  <1> DEFINE c == [id |-> None, manual |-> TRUE, rating |-> "liked", pending |-> None,
                   analysis |-> "none", stray |-> FALSE]
             m == [name |-> n, project |-> None, step |-> "check"]
  <1>1. /\ c \in Card /\ c.id = None /\ c.pending = None /\ c.manual /\ c.rating = "liked"
        /\ m.name = n /\ m.step = "check"
    BY DEF Card, Ratings
  <1>2. /\ rows' = Put(rows, n, c) /\ n \notin DOMAIN rows /\ ~Voting(n) /\ doubtful' = doubtful \ {n}
        /\ manuals' = manuals \union {m} /\ UNCHANGED <<votes, srv>>
    BY DEF AddManual
  <1> HIDE DEF c, m
  <1> QED BY <1>1, <1>2, NewCardRatings

LEMMA ResultRatings ==
  ASSUME TypeInv, AllRatedRight, NEW i \in DOMAIN streams, NEW n \in Names, Result(i, n)
  PROVE  AllRatedRight'
  <1> DEFINE c == [id |-> None, manual |-> FALSE, rating |-> "neutral", pending |-> None,
                   analysis |-> "none", stray |-> streams[i].old]
  <1>1. c \in Card /\ c.id = None /\ c.pending = None /\ ~c.manual /\ c.rating = "neutral"
    <2>1. streams[i].old \in BOOLEAN
      BY StreamsTyped, StreamFields DEF TypeInv
    <2> QED BY <2>1 DEF Card, Ratings
  <1>2. /\ rows' = Put(rows, n, c) /\ n \notin DOMAIN rows /\ ~Voting(n) /\ doubtful' = doubtful \ {n}
        /\ UNCHANGED <<votes, srv, manuals>>
    BY DEF Result
  <1> HIDE DEF c
  <1> QED BY <1>1, <1>2, NewCardRatings

\* A name typed in, until it is added to the project.
\* A name typed in: checked, saved, liked.
LEMMA ManualCheckedRatings ==
  ASSUME TypeInv, AllRatedRight, NEW m \in manuals, ManualChecked(m)
  PROVE  AllRatedRight'
  <1> DEFINE n == m.name
  <1>1. m \in Manual /\ m.step = "check" /\ UNCHANGED <<rows, srv, doubtful>> /\ votes' = Stale({n})
    BY DEF ManualChecked, TypeInv, TypeOK, CardsTypeOK
  <1>2. \E N :
          /\ manuals' = (manuals \ {m}) \union N
          /\ \A k \in N : k.name = n /\ k.step = "save" /\ \A j \in N : j = k
    <2> DEFINE w == [m EXCEPT !.step = "save", !.project = shown]
    <2>1. w.name = n /\ w.step = "save"
      BY <1>1 DEF Manual
    <2> DEFINE N == IF shown = None THEN {} ELSE {w}
    <2>2. manuals' = (manuals \ {m}) \union N
      BY DEF ManualChecked
    <2> HIDE DEF w
    <2>3. \A k \in N : k.name = n /\ k.step = "save" /\ \A j \in N : j = k
      BY <2>1
    <2> HIDE DEF N
    <2> QED BY <2>2, <2>3
  <1>3. PICK N :
          /\ manuals' = (manuals \ {m}) \union N
          /\ \A k \in N : k.name = n /\ k.step = "save" /\ \A j \in N : j = k
    BY <1>2
  <1> HIDE DEF n
  <1>4. \A k : About(k)' = {v \in Stale({n}) : v.sugg[1] = k}
    BY <1>1 DEF About
  <1>5. ASSUME NEW k \in DOMAIN rows' \ doubtful', k # n PROVE RatedRight(k)'
    <2>1. Typed(k)' = Typed(k) /\ k \in DOMAIN rows \ doubtful /\ rows'[k] = rows[k]
      BY <1>1, <1>3, <1>5 DEF Typed, n
    <2>2. \E S : About(k)' = {v \in Stale(S) : v.sugg[1] = k}
      BY <1>4
    <2> QED BY <1>1, <2>1, <2>2, OtherRating
  <1>6. ASSUME n \in DOMAIN rows' \ doubtful' PROVE RatedRight(n)'
    <2>1. RatedRight(n) /\ m \in Typed(n)
      BY <1>1, <1>6 DEF AllRatedRight, Typed, n
    <2>2. Typed(n) = {m} /\ About(n) = {} /\ rows[n].id = None /\ Unsent(n)
      BY <1>1, <2>1 DEF RatedRight, OneRequest, Recorded
    <2>3. Typed(n)' = N
      BY <1>3, <2>2 DEF Typed
    <2>4. VotesKept(n) /\ OneRequest(n)
      BY <2>1, <1>4, StaleVotes DEF RatedRight
    <2>5. About(n)' = {}
      BY <2>2, <2>4 DEF VotesKept
    <2> QED BY <1>1, <1>3, <2>1, <2>2, <2>3, <2>5 DEF RatedRight, OneRequest, Unsent
  <1> QED BY <1>5, <1>6 DEF AllRatedRight

LEMMA ManualFailedRatings ==
  ASSUME TypeInv, AllRatedRight, NEW m \in manuals, ManualFailed(m)
  PROVE  AllRatedRight'
  <1> DEFINE n == m.name
  <1>1. m.step = "check" /\ manuals' = manuals \ {m} /\ UNCHANGED <<votes, srv, doubtful>>
    BY DEF ManualFailed
  <1>2. \A k \in DOMAIN rows' : k \in DOMAIN rows /\ rows'[k] = rows[k] /\ (k = n => ~rows[k].manual)
    BY DEF ManualFailed
  <1> HIDE DEF n
  <1>3. ASSUME NEW k \in DOMAIN rows' \ doubtful' PROVE RatedRight(k)'
    <2>1. RatedRight(k) /\ k \in DOMAIN rows \ doubtful
      BY <1>1, <1>2, <1>3 DEF AllRatedRight
    <2>2. k # n
      <3> SUFFICES ASSUME k = n PROVE FALSE
        OBVIOUS
      <3>1. m \in Typed(k) /\ ~rows[k].manual
        BY <1>2 DEF Typed, n
      <3> QED BY <1>1, <2>1, <3>1 DEF RatedRight, Recorded, Unsent
    <2>3. Typed(k)' = Typed(k) /\ About(k)' = About(k)
      BY <1>1, <2>2 DEF Typed, About, n
    <2> QED BY <1>1, <1>2, <2>1, <2>3, OtherRating
  <1> QED BY <1>3 DEF AllRatedRight

LEMMA ManualSavedRatings ==
  ASSUME TypeInv, AllRatedRight, NEW m \in manuals, ManualSaved(m)
  PROVE  AllRatedRight'
  <1> DEFINE n == m.name
             s == <<m.name, m.project>>
             holds == n \in DOMAIN rows /\ rows[n].manual
             w == [m EXCEPT !.step = "like"]
  <1>1. m \in Manual /\ m.step = "save" /\ m.project \in Projects /\ n \in Names /\ s \in Suggestions
    BY ManualFields DEF ManualSaved, TypeInv, TypeOK, CardsTypeOK, ManualsPlaced, Suggestions
  <1>2. w.name = n /\ w.project = m.project /\ w.step = "like"
    BY <1>1, ManualFields
  <1>3. \/ /\ srv' = [srv EXCEPT ![s] = IF @ = None THEN "neutral" ELSE @]
           /\ manuals' = (manuals \ {m}) \union {w}
           /\ rows' = IF holds THEN [rows EXCEPT ![n].id = m.project] ELSE rows
           /\ votes' = Stale({n})
           /\ doubtful' = IF holds /\ rows[n].rating # "liked" THEN doubtful \union {n} ELSE doubtful
        \/ manuals' = manuals \ {m} /\ UNCHANGED <<srv, rows, votes, doubtful>>
    BY DEF ManualSaved
  <1>4. ASSUME n \in DOMAIN rows \ doubtful
        PROVE  /\ rows[n].id = None /\ rows[n].manual /\ Typed(n) = {m} /\ About(n) = {}
               /\ rows[n].rating = "liked" /\ rows[n].pending = None /\ OneRequest(n) /\ Unsent(n)
    <2>1. RatedRight(n) /\ m \in Typed(n)
      BY <1>4 DEF AllRatedRight, Typed
    <2>2. Typed(n) = {m} /\ About(n) = {} /\ rows[n].id = None /\ OneRequest(n) /\ Unsent(n)
      BY <1>1, <2>1 DEF RatedRight, OneRequest, Recorded
    <2> QED BY <2>2 DEF Unsent
  <1>5. n \in DOMAIN rows => rows[n] \in Card
    BY RowTyped
  <1>6. n = m.name /\ s = <<n, m.project>> /\ (holds <=> n \in DOMAIN rows /\ rows[n].manual)
    OBVIOUS
  <1> HIDE DEF n, s, w, holds
  <1>7. CASE /\ srv' = [srv EXCEPT ![s] = IF @ = None THEN "neutral" ELSE @]
             /\ manuals' = (manuals \ {m}) \union {w}
             /\ rows' = IF holds THEN [rows EXCEPT ![n].id = m.project] ELSE rows
             /\ votes' = Stale({n})
             /\ doubtful' = IF holds /\ rows[n].rating # "liked" THEN doubtful \union {n} ELSE doubtful
    <2>1. DOMAIN rows' = DOMAIN rows /\ \A k \in DOMAIN rows : k # n => rows'[k] = rows[k]
      BY <1>6, <1>7
    <2>2. \A k : About(k)' = {v \in Stale({n}) : v.sugg[1] = k}
      BY <1>7 DEF About
    <2>3. ASSUME NEW k \in DOMAIN rows' \ doubtful', k # n PROVE RatedRight(k)'
      <3>1. Typed(k)' = Typed(k) /\ k \in DOMAIN rows \ doubtful /\ rows'[k] = rows[k]
        BY <1>2, <1>6, <1>7, <2>1, <2>3 DEF Typed
      <3>2. \E S : About(k)' = {v \in Stale(S) : v.sugg[1] = k}
        BY <2>2
      <3>3. rows[k].id # None => srv'[<<k, rows[k].id>>] = srv[<<k, rows[k].id>>]
        <4>1. <<k, rows[k].id>> # s
          BY <1>6, <2>3
        <4>2. rows[k].id # None => <<k, rows[k].id>> \in Suggestions
          BY <3>1, RowTyped
        <4> QED BY <1>7, <4>1, <4>2 DEF TypeInv, TypeOK, CardsTypeOK
      <3> QED BY <3>1, <3>2, <3>3, OtherRating
    <2>4. ASSUME n \in DOMAIN rows' \ doubtful' PROVE RatedRight(n)'
      <3>1. n \in DOMAIN rows \ doubtful
        BY <1>7, <2>1, <2>4
      <3>2. holds /\ rows' = [rows EXCEPT ![n].id = m.project]
        BY <1>4, <1>6, <1>7, <3>1
      <3>3. rows'[n].id = m.project /\ rows'[n].rating = "liked" /\ rows'[n].pending = None
        BY <1>4, <1>5, <3>1, <3>2 DEF Card
      <3>4. Typed(n)' = {w}
        <4>1. \A k \in manuals : k.name = n => k = m
          BY <1>4, <3>1 DEF Typed
        <4> QED BY <1>2, <1>7, <4>1 DEF Typed
      <3>5. About(n)' = {}
        <4>1. VotesKept(n)
          BY <1>4, <2>2, <3>1, StaleVotes
        <4> QED BY <4>1, <1>4, <3>1 DEF VotesKept
      <3>6. Recorded(n)'
        BY <1>2, <3>3, <3>4, <3>5 DEF Recorded
      <3>7. m.project # None
        BY <1>1, CardsAssumption
      <3> QED BY <3>3, <3>4, <3>5, <3>6, <3>7 DEF RatedRight, OneRequest
    <2> QED BY <2>3, <2>4 DEF AllRatedRight
  <1>8. CASE manuals' = manuals \ {m} /\ UNCHANGED <<srv, rows, votes, doubtful>>
    <2>1. ASSUME NEW k \in DOMAIN rows \ doubtful, k # n PROVE RatedRight(k)'
      <3>1. Typed(k)' = Typed(k) /\ About(k)' = About(k)
        BY <1>6, <1>8, <2>1 DEF Typed, About
      <3> QED BY <1>8, <3>1, OtherRating
    <2>2. ASSUME n \in DOMAIN rows \ doubtful PROVE RatedRight(n)'
      <3>1. Typed(n)' = {} /\ About(n)' = {}
        BY <1>4, <1>8, <2>2 DEF Typed, About
      <3> QED BY <1>4, <1>8, <2>2, <3>1 DEF RatedRight, OneRequest, Unsent
    <2> QED BY <1>8, <2>1, <2>2 DEF AllRatedRight
  <1> QED BY <1>3, <1>7, <1>8

LEMMA ManualLikedRatings ==
  ASSUME TypeInv, AllRatedRight, NEW m \in manuals, ManualLiked(m)
  PROVE  AllRatedRight'
  <1> DEFINE n == m.name
             s == <<m.name, m.project>>
  <1>1. m \in Manual /\ m.step = "like" /\ manuals' = manuals \ {m} /\ UNCHANGED <<rows, votes>>
    BY DEF ManualLiked, TypeInv, TypeOK, CardsTypeOK
  <1>2. \/ srv' = [srv EXCEPT ![s] = "liked"] /\ doubtful' = doubtful
        \/ doubtful' = doubtful \union {n} /\ srv' = srv
    BY DEF ManualLiked
  <1>3. n = m.name /\ s = <<n, m.project>>
    OBVIOUS
  <1> HIDE DEF n, s
  <1>4. \A k \in DOMAIN rows : k # n /\ rows[k].id # None => srv'[<<k, rows[k].id>>] = srv[<<k, rows[k].id>>]
    <2> SUFFICES ASSUME NEW k \in DOMAIN rows, k # n, rows[k].id # None
                 PROVE  srv'[<<k, rows[k].id>>] = srv[<<k, rows[k].id>>]
      OBVIOUS
    <2>1. <<k, rows[k].id>> \in Suggestions /\ <<k, rows[k].id>> # s
      BY <1>3, RowTyped
    <2> QED BY <1>2, <2>1 DEF TypeInv, TypeOK, CardsTypeOK
  <1>5. ASSUME NEW k \in DOMAIN rows' \ doubtful', k # n PROVE RatedRight(k)'
    <2>1. Typed(k)' = Typed(k) /\ About(k)' = About(k) /\ k \in DOMAIN rows \ doubtful /\ rows'[k] = rows[k]
      BY <1>1, <1>2, <1>3, <1>5 DEF Typed, About
    <2> QED BY <1>4, <1>5, <2>1, OtherRating
  <1>6. ASSUME n \in DOMAIN rows' \ doubtful' PROVE RatedRight(n)'
    <2>1. n \in DOMAIN rows /\ RatedRight(n) /\ m \in Typed(n) /\ srv' = [srv EXCEPT ![s] = "liked"]
      BY <1>1, <1>2, <1>3, <1>6 DEF AllRatedRight, Typed
    <2>2. Typed(n) = {m} /\ About(n) = {} /\ rows[n].id # None /\ Recorded(n)
      BY <1>1, <2>1 DEF RatedRight, OneRequest, Unsent
    <2>3. m.project = rows[n].id /\ rows[n].rating = "liked" /\ rows[n].pending = None
      BY <2>1, <2>2 DEF Recorded
    <2>4. Typed(n)' = {} /\ About(n)' = {}
      BY <1>1, <2>2 DEF Typed, About
    <2>5. srv'[<<n, rows[n].id>>] = "liked"
      BY <1>3, <2>1, <2>2, <2>3, RowTyped DEF TypeInv, TypeOK, CardsTypeOK
    <2>6. Recorded(n)'
      BY <1>1, <2>3, <2>4, <2>5 DEF Recorded
    <2> QED BY <1>1, <2>2, <2>4, <2>6 DEF RatedRight, OneRequest
  <1> QED BY <1>5, <1>6 DEF AllRatedRight

\* The ratings that waited for an id leave with it.
\* A search ends: the ratings given before the ids are sent with them.
LEMMA DoneRatings ==
  ASSUME TypeInv, Calm, CardsAreStored, AllRatedRight, NEW i \in DOMAIN streams, NEW p \in Projects, Done(i, p)
  PROVE  AllRatedRight'
  <1> DEFINE saved == {n \in streams[i].found : srv[n, p] = None}
             held == saved \cap DOMAIN rows
             cards == [n \in DOMAIN rows |-> IF n \in held THEN [rows[n] EXCEPT !.id = p] ELSE rows[n]]
  <1>1. /\ UNCHANGED <<manuals, doubtful>> /\ votes' = Stale(held) \union Flush(cards)
        /\ srv' = [s \in Suggestions |-> IF s[1] \in saved /\ s[2] = p THEN "neutral" ELSE srv[s]]
        /\ streams[i].st = "open"
    BY DEF Done, At
  <1>2. \A n \in DOMAIN rows : n \in held <=> n \in streams[i].found /\ srv[<<n, p>>] = None
    OBVIOUS
  <1>3. \A n \in DOMAIN rows : n \in saved <=> n \in held
    OBVIOUS
  <1>4. DOMAIN cards = DOMAIN rows /\ \A n \in DOMAIN rows :
          /\ cards[n].pending = rows[n].pending
          /\ cards[n].id = IF n \in held THEN p ELSE rows[n].id
    <2>1. \A n \in DOMAIN rows : rows[n] \in Card
      BY RowTyped
    <2> QED BY <2>1 DEF Card
  <1> HIDE DEF saved, held, cards
  <1>5. p # None
    BY CardsAssumption
  <1>6. DOMAIN rows' = DOMAIN rows
    BY DoneRows
  <1>7. \A v \in Flush(cards) : \E n \in DOMAIN rows :
          /\ cards[n].id # None /\ cards[n].pending # None
          /\ v = [sugg |-> <<n, cards[n].id>>, value |-> cards[n].pending, previous |-> None, stale |-> FALSE,
                  reply |-> "awaited"]
    BY <1>4 DEF Flush
  <1>8. ASSUME NEW n \in DOMAIN rows \ doubtful, n \notin held PROVE RatedRight(n)'
    <2>1. RatedRight(n)
      BY <1>8 DEF AllRatedRight
    <2>2. rows'[n].id = rows[n].id /\ rows'[n].manual = rows[n].manual /\ rows'[n].rating = rows[n].rating
      BY <1>2, <1>8, DoneRows
    <2>3. rows[n].id # None => rows[n].pending = None
      BY <2>1 DEF RatedRight, Recorded
    <2>4. rows'[n].pending = rows[n].pending
      BY <2>2, <2>3, DoneRows
    <2>5. \A v \in Flush(cards) : v.sugg[1] # n
      BY <1>4, <1>7, <1>8, <2>3
    <2>6. About(n)' = {v \in Stale(held) : v.sugg[1] = n}
      BY <1>1, <2>5 DEF About
    <2>7. VotesKept(n)
      BY <2>1, <2>6, StaleVotes DEF RatedRight
    <2>8. Typed(n)' = Typed(n)
      BY <1>1 DEF Typed
    <2>9. rows[n].id # None => srv'[<<n, rows[n].id>>] = srv[<<n, rows[n].id>>]
      BY <1>1, <1>3, <1>8, RowTyped
    <2> QED BY <2>1, <2>2, <2>4, <2>7, <2>8, <2>9, KeptRating
  <1>9. ASSUME NEW n \in DOMAIN rows \ doubtful, n \in held PROVE RatedRight(n)'
    <2>1. RatedRight(n) /\ n \in streams[i].found /\ srv[<<n, p>>] = None
      BY <1>2, <1>9 DEF AllRatedRight
    <2>2. ~rows[n].manual /\ streams[i].project = shown
      BY <1>1, <2>1 DEF Calm, SearchIsOfTheScreen
    <2>3. rows[n].id = None
      <3> SUFFICES ASSUME rows[n].id # None PROVE FALSE
        OBVIOUS
      <3>1. rows[n].id = shown /\ shown # None
        BY DEF Calm, RowsAreOfTheScreen
      <3>2. p = shown /\ p \in projects
        BY <2>2, <3>1 DEF Done
      <3>3. srv[<<n, p>>] # None
        BY <3>1, <3>2 DEF CardsAreStored, Saved, Sugg, Stored
      <3> QED BY <2>1, <3>3
    <2>4. /\ About(n) = {} /\ Typed(n) = {} /\ OneRequest(n)
          /\ rows[n].rating = IF rows[n].pending = None THEN "neutral" ELSE rows[n].pending
      BY <2>1, <2>2, <2>3 DEF RatedRight, Unsent
    <2>5. rows'[n].id = p /\ rows'[n].pending = None /\ rows'[n].rating = rows[n].rating
      BY <2>1, <1>5, DoneRows
    <2>6. srv'[<<n, p>>] = "neutral"
      <3>1. <<n, p>> \in Suggestions
        BY RowTyped DEF Suggestions
      <3> QED BY <3>1, <1>1, <1>3, <1>9
    <2>7. Typed(n)' = {}
      BY <1>1, <2>4 DEF Typed
    <2>8. {v \in Stale(held) : v.sugg[1] = n} = {}
      <3> SUFFICES ASSUME NEW v \in votes, [v EXCEPT !.stale = @ \/ v.sugg[1] \in held].sugg[1] = n PROVE FALSE
        BY DEF Stale
      <3>1. v.sugg[1] = n
        BY DEF TypeInv, TypeOK, CardsTypeOK, Vote
      <3> QED BY <3>1, <2>4 DEF About
    <2>9. About(n)' = {v \in Flush(cards) : v.sugg[1] = n}
      BY <1>1, <2>8 DEF About
    <2>10. \A v \in About(n)' : /\ v.sugg = <<n, p>> /\ v.value = rows[n].pending /\ rows[n].pending # None
                                /\ v.previous = None /\ v.reply = "awaited"
      BY <1>4, <1>7, <1>9, <2>9
    <2>11. \A v, w \in About(n)' : v = w
      <3> SUFFICES ASSUME NEW v \in About(n)', NEW w \in About(n)' PROVE v = w
        OBVIOUS
      <3>1. v \in Flush(cards) /\ v.sugg[1] = n /\ w \in Flush(cards) /\ w.sugg[1] = n
        BY <2>9
      <3>2. v = [sugg |-> <<n, cards[n].id>>, value |-> cards[n].pending, previous |-> None, stale |-> FALSE,
                 reply |-> "awaited"]
        BY <1>7, <3>1
      <3>3. w = [sugg |-> <<n, cards[n].id>>, value |-> cards[n].pending, previous |-> None, stale |-> FALSE,
                 reply |-> "awaited"]
        BY <1>7, <3>1
      <3> QED BY <3>2, <3>3
    <2>12. ASSUME About(n)' = {} PROVE rows[n].pending = None
      <3> SUFFICES ASSUME rows[n].pending # None PROVE About(n)' # {}
        BY <2>12
      <3> DEFINE v == [sugg |-> <<n, cards[n].id>>, value |-> cards[n].pending, previous |-> None, stale |-> FALSE,
                       reply |-> "awaited"]
      <3>1. v \in Flush(cards) /\ v.sugg[1] = n
        BY <1>4, <1>5, <1>9 DEF Flush
      <3> HIDE DEF v
      <3> QED BY <2>9, <3>1
    <2>13. Recorded(n)'
      BY <2>4, <2>5, <2>6, <2>7, <2>10, <2>12 DEF Recorded
    <2> QED BY <1>5, <2>5, <2>7, <2>11, <2>13 DEF RatedRight, OneRequest
  <1> QED BY <1>1, <1>6, <1>8, <1>9 DEF AllRatedRight

\* The list of a project is loaded, or the project deleted.
LEMMA LoadedRatings ==
  ASSUME TypeInv, AllRatedRight, NEW p \in loads, Loaded(p)
  PROVE  AllRatedRight'
  <1>1. UNCHANGED <<manuals, srv>> /\ p \in Projects
    BY DEF Loaded, TypeInv, TypeOK
  <1>2. CASE p \notin projects
    BY <1>1, <1>2, UnchangedRatings DEF Loaded, KeepsRatings
  <1>3. CASE p \in projects
    <2> DEFINE card(n) == [id |-> p, manual |-> FALSE, rating |-> srv[n, p], pending |-> None,
                           analysis |-> IF <<n, p>> \in analysed THEN "done" ELSE "none",
                           stray |-> FALSE]
    <2>1. /\ rows' = [n \in {m \in Names : srv[m, p] # None} |-> card(n)]
          /\ votes' = Stale(Names) /\ doubtful' = {n \in Names : Voting(n)}
      BY <1>3 DEF Loaded
    <2>2. \A n : card(n).id = p /\ card(n).pending = None /\ card(n).rating = srv[<<n, p>>]
      OBVIOUS
    <2> HIDE DEF card
    <2>3. \A n \in DOMAIN rows' : /\ n \in Names /\ rows'[n].id = p /\ rows'[n].pending = None
                                  /\ rows'[n].rating = srv[<<n, p>>]
      BY <2>1, <2>2
    <2> SUFFICES ASSUME NEW n \in DOMAIN rows', n \notin doubtful' PROVE RatedRight(n)'
      BY DEF AllRatedRight
    <2>4. About(n) = {} /\ Typed(n) = {}
      BY <2>1, <2>3 DEF Voting, About, Typed
    <2>5. Typed(n)' = {}
      BY <1>1, <2>4 DEF Typed
    <2>6. About(n)' = {}
      <3>1. \A w \in Stale(Names) : \E v \in votes : w.sugg = v.sugg
        <4> SUFFICES ASSUME NEW v \in votes PROVE [v EXCEPT !.stale = @ \/ v.sugg[1] \in Names].sugg = v.sugg
          BY DEF Stale
        <4> QED BY DEF TypeInv, TypeOK, CardsTypeOK, Vote
      <3> QED BY <2>1, <2>4, <3>1 DEF About
    <2>7. Recorded(n)'
      BY <1>1, <2>3, <2>5, <2>6 DEF Recorded
    <2>8. p # None
      BY <1>1, CardsAssumption
    <2> QED BY <2>3, <2>5, <2>6, <2>7, <2>8 DEF RatedRight, OneRequest
  <1> QED BY <1>2, <1>3

LEMMA DeleteProjectRatings ==
  ASSUME TypeInv, Calm, AllRatedRight, NEW p \in Projects, DeleteProject(p)
  PROVE  AllRatedRight'
  <1>1. CASE shown = p
    <2>1. DOMAIN rows' = {}
      BY <1>1, EmptyRows DEF DeleteProject, Reset
    <2> QED BY <2>1 DEF AllRatedRight
  <1>2. CASE shown # p
    <2>1. /\ UNCHANGED <<rows, votes, manuals, doubtful>>
          /\ srv' = [s \in Suggestions |-> IF s[2] = p THEN None ELSE srv[s]]
      BY <1>2 DEF DeleteProject
    <2> SUFFICES ASSUME NEW k \in DOMAIN rows, k \notin doubtful PROVE RatedRight(k)'
      BY <2>1 DEF AllRatedRight
    <2>2. Typed(k)' = Typed(k) /\ About(k)' = About(k) /\ rows'[k] = rows[k]
      BY <2>1 DEF Typed, About
    <2>3. rows[k].id # None => rows[k].id # p
      BY <1>2 DEF Calm, RowsAreOfTheScreen
    <2>4. rows[k].id # None => srv'[<<k, rows[k].id>>] = srv[<<k, rows[k].id>>]
      BY <2>1, <2>3, RowTyped
    <2> QED BY <2>2, <2>4, OtherRating
  <1> QED BY <1>1, <1>2

\* Analyses leave the ratings alone.
LEMMA SendBatchRatings ==
  ASSUME TypeInv, NEW S, \A n \in S : Saved(n), NEW k \in 0..MaxGestures, SendBatch(S, k),
         UNCHANGED <<manuals, srv, doubtful>>
  PROVE  KeepsRatings
  <1>1. \A n \in DOMAIN rows : rows[n] \in Card
    BY RowTyped
  <1>2. DOMAIN rows' = DOMAIN rows /\ \A n \in DOMAIN rows :
          rows'[n] = IF n \in S THEN [rows[n] EXCEPT !.analysis = "pending"] ELSE rows[n]
    BY SendBatchTyped DEF TypeInv, TypeOK
  <1>3. votes' = Stale(S)
    BY DEF SendBatch
  <1> QED BY <1>1, <1>2, <1>3 DEF Card, KeepsRatings

LEMMA AnalysesKeepRatings ==
  ASSUME TypeInv,
         \/ EnvoyerUnLot
         \/ \E n \in Names : AnalyseOne(n)
         \/ \E b \in batches : \E done \in SUBSET b.ids : BatchAnswered(b, done)
  PROVE  KeepsRatings
  <1>1. CASE EnvoyerUnLot
    <2>1. UNCHANGED <<manuals, srv, doubtful>>
      BY <1>1 DEF EnvoyerUnLot
    <2>2. CASE \E lot \in SUBSET {n \in Names : Due(n)} : SendBatch(lot, 0)
      <3>1. PICK lot \in SUBSET {n \in Names : Due(n)} : SendBatch(lot, 0)
        BY <2>2
      <3>2. (\A n \in lot : Saved(n)) /\ 0 \in 0..MaxGestures
        BY CardsAssumption DEF Due
      <3> QED BY <2>1, <3>1, <3>2, SendBatchRatings
    <2>3. CASE UNCHANGED <<rows, votes>>
      BY <2>1, <2>3 DEF KeepsRatings
    <2> QED BY <1>1, <2>2, <2>3 DEF EnvoyerUnLot
  <1>2. ASSUME NEW n \in Names, AnalyseOne(n) PROVE KeepsRatings
    <2>1. SendBatch({n}, gestures + 1) /\ (\A m \in {n} : Saved(m)) /\ UNCHANGED <<manuals, srv, doubtful>>
      BY <1>2 DEF AnalyseOne
    <2>2. gestures + 1 \in 0..MaxGestures
      BY <1>2, CardsAssumption DEF AnalyseOne, Gesture, TypeInv, TypeOK, CardsTypeOK
    <2> QED BY <2>1, <2>2, SendBatchRatings
  <1>3. ASSUME NEW b \in batches, NEW done \in SUBSET b.ids, BatchAnswered(b, done) PROVE KeepsRatings
    <2> DEFINE x(n) == IF Sugg(n) \in done THEN "done"
                       ELSE IF rows[n].analysis = "pending" THEN "none" ELSE rows[n].analysis
               touched == {n \in DOMAIN rows : Saved(n) /\ Sugg(n) \in b.ids}
    <2>1. /\ rows' = [n \in DOMAIN rows |-> IF n \in touched THEN [rows[n] EXCEPT !.analysis = x(n)] ELSE rows[n]]
          /\ votes' = Stale(touched) /\ UNCHANGED <<manuals, srv, doubtful>>
      BY <1>3 DEF BatchAnswered
    <2>2. \A n \in DOMAIN rows : rows[n] \in Card
      BY RowTyped
    <2> HIDE DEF x, touched
    <2> QED BY <2>1, <2>2 DEF Card, KeepsRatings
  <1> QED BY <1>1, <1>2, <1>3

\* Every step.
LEMMA StepRatings == TypeInv /\ ScreenInv /\ AnalysesInv /\ RatingsInv /\ [Next]_vars => RatingsInv'
  <1> SUFFICES ASSUME TypeInv, Calm, CardsAreStored, AllRatedRight, [Next]_vars PROVE AllRatedRight'
    BY StraysStay DEF ScreenInv, AnalysesInv, RatingsInv
  <1>a. ASSUME KeepsRatings PROVE AllRatedRight'
    BY <1>a, UnchangedRatings
  <1>b. ASSUME UNCHANGED <<rows, votes, manuals, srv, doubtful>> PROVE AllRatedRight'
    BY <1>a, <1>b DEF KeepsRatings
  <1>c. ASSUME rows' = <<>> PROVE AllRatedRight'
    BY <1>c, EmptyRows DEF AllRatedRight
  <1>1. CASE User
    <2>1. ASSUME NEW append \in BOOLEAN, NEW wish \in BOOLEAN, FindDomains(append, wish) PROVE AllRatedRight'
      BY <2>1, <1>b, <1>c DEF FindDomains
    <2>2. CASE ResetProject
      BY <2>2, <1>c DEF ResetProject, Reset
    <2>3. CASE CancelSearch \/ GiveUpWaiting \/ Leave \/ (\E p \in Projects : LoadProject(p))
               \/ \E w \in retours : RetirerRetour(w)
      BY <2>3, <1>b DEF CancelSearch, GiveUpWaiting, Leave, LoadProject, RetirerRetour
    <2>4. CASE UserOnCards
      BY <2>4, <1>a, SetRatingRatings, AddManualRatings, AnalysesKeepRatings DEF UserOnCards
    <2> QED BY <1>1, <2>1, <2>2, <2>3, <2>4, DeleteProjectRatings DEF User
  <1>2. CASE SearchGoesOn
    <2>1. ASSUME NEW i \in DOMAIN streams, Opened(i) \/ TokenFails(i) \/ ErrorEvent(i) \/ Complete(i) \/ StreamError(i)
          PROVE  AllRatedRight'
      BY <2>1, <1>b DEF Opened, TokenFails, ErrorEvent, Complete, StreamError, cardVars
    <2>2. ASSUME NEW p \in loads, LoadFails(p) PROVE AllRatedRight'
      BY <2>2, <1>b DEF LoadFails, cardVars
    <2> QED BY <1>2, <2>1, <2>2, DoneRatings, LoadedRatings DEF SearchGoesOn
  <1>3. CASE \E i \in DOMAIN streams, n \in Names : Result(i, n)
    BY <1>3, ResultRatings
  <1>4. CASE CardsGoOn
    <2>1. CASE EnvoyerUnLot \/ \E b \in batches : \E done \in SUBSET b.ids : BatchAnswered(b, done)
      BY <2>1, <1>a, AnalysesKeepRatings
    <2> QED BY <1>4, <2>1, VoteReachesRatings, VoteAnsweredRatings, ManualCheckedRatings, ManualFailedRatings,
               ManualSavedRatings, ManualLikedRatings DEF CardsGoOn, ServerOnCards
  <1>5. CASE alive /\ (\E n \in Names : CarteVue(n)) /\ UNCHANGED searchVars
    BY <1>5, <1>b DEF CarteVue
  <1>6. CASE UNCHANGED vars
    BY <1>6, <1>b DEF vars, cardVars
  <1> QED BY <1>1, <1>2, <1>3, <1>4, <1>5, <1>6 DEF Next

\* What a card shows is what the server holds once no request about it is in flight, strays and
\* the known exceptions (doubtful) aside (wizard.ts, setRating and what sends it).
THEOREM ShownIsRecorded == Spec => []DisplayedIsRecorded
  <1>1. RatingsInv => DisplayedIsRecorded
    <2> SUFFICES ASSUME AllRatedRight, NEW n \in DOMAIN rows, Saved(n), ~Voting(n), n \notin doubtful
                 PROVE  rows[n].rating = srv[Sugg(n)]
      BY DEF RatingsInv, DisplayedIsRecorded
    <2>1. About(n) = {} /\ Typed(n) = {}
      BY DEF Voting, About, Typed
    <2> QED BY <2>1 DEF AllRatedRight, RatedRight, Recorded, Saved, Sugg
  <1> QED BY <1>1, InitTypes, StepTypes, InitScreen, StepScreen, InitAnalyses, StepAnalyses,
             InitRatings, StepRatings, PTL DEF Spec
=============================================================================
