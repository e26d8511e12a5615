------------------------------- MODULE Cards -------------------------------
(***************************************************************************)
(* The cards of the results screen (wizard.ts): one per name, displayed    *)
(* before the server has given it an id, rated at once and recorded later, *)
(* analysed once it has been seen and has its id.                          *)
(*                                                                         *)
(* A card is replaced by a copy whenever a batch of analyses touches it,   *)
(* so the answer to a rating may hold a card that is no longer displayed:  *)
(* such a vote is "stale".                                                 *)
(***************************************************************************)
EXTENDS Integers, FiniteSets

CONSTANTS
  Names,
  Projects,
  None,              \* null
  ANALYSES_PAR_LOT,
  MaxGestures        \* bound on what the user does

ASSUME CardsAssumption ==
  /\ None \notin Projects /\ None \notin {"liked", "neutral", "disliked"}
  /\ ANALYSES_PAR_LOT \in Nat \ {0} /\ MaxGestures \in Nat

VARIABLES
  shown,      \* projectId
  rows,       \* domains: the cards displayed, by name
  seen,       \* nomsVus
  launched,   \* analysesLancees
  busy,       \* analyseEnVol
  timer,      \* regroupement
  batches,    \* requests for analyses in flight
  votes,      \* requests for a rating in flight
  manuals,    \* names typed in by the user, on their way to the project
  projects,   \* at the server
  srv,        \* the rating the server holds of each suggestion, None: no such suggestion
  analysed,   \* suggestions whose analysis is stored
  gestures,
  relisted,   \* history: suggestions that came back to the list while they were analysed
  doubtful,   \* history: names whose ratings crossed, see DisplayedIsRecorded
  unannounced \* history: names saved without a call to analyserCeQuiEstVu

cardVars == <<shown, rows, seen, launched, busy, timer, batches, votes, manuals,
              srv, analysed, gestures, relisted, doubtful, unannounced>>

Ratings == {"liked", "neutral", "disliked"}
Suggestions == Names \X Projects

Card == [id : Projects \union {None}, manual : BOOLEAN, rating : Ratings,
         pending : Ratings \union {None}, analysis : {"none", "pending", "done"}, stray : BOOLEAN]

\* A request for analyses: by the gesture that asked for it, or 0 for a batch of cards seen.
Batch == [ids : SUBSET Suggestions, asked : 0..MaxGestures]
Vote == [sugg : Suggestions, value : Ratings, previous : Ratings \union {None},
         stale : BOOLEAN, reply : {"awaited", "ok", "ko"}]
Manual == [name : Names, project : Projects \union {None}, step : {"check", "save", "like"}]

CardsTypeOK ==
  /\ shown \in Projects \union {None}
  /\ DOMAIN rows \subseteq Names /\ rows \in [DOMAIN rows -> Card]
  /\ seen \subseteq Names /\ launched \subseteq Suggestions /\ analysed \subseteq Suggestions
  /\ busy \in BOOLEAN /\ timer \in BOOLEAN
  /\ batches \subseteq Batch /\ votes \subseteq Vote /\ manuals \subseteq Manual
  /\ projects \subseteq Projects /\ srv \in [Suggestions -> Ratings \union {None}]
  /\ gestures \in 0..MaxGestures /\ relisted \subseteq Suggestions
  /\ doubtful \subseteq Names /\ unannounced \subseteq Names

Gesture == gestures < MaxGestures /\ gestures' = gestures + 1

Put(f, n, c) == [m \in DOMAIN f \union {n} |-> IF m = n THEN c ELSE f[m]]

\* The suggestion behind a card that has its id.
Sugg(n) == <<n, rows[n].id>>

Saved(n) == n \in DOMAIN rows /\ rows[n].id # None

\* analysesDues: saved, seen, not analysed, never sent.
Due(n) ==
  /\ Saved(n)
  /\ rows[n].analysis = "none"
  /\ Sugg(n) \notin launched
  /\ n \in seen

\* analyserCeQuiEstVu, at the end of a step.
Collect == timer' = (timer \/ (~busy' /\ \E n \in Names : Due(n)'))

Lots == {b \in batches : b.asked = 0}
InFlight == UNION {b.ids : b \in batches}

\* The votes on names whose cards were replaced.
Stale(names) == {[v EXCEPT !.stale = @ \/ v.sugg[1] \in names] : v \in votes}

Voting(n) == (\E v \in votes : v.sugg[1] = n) \/ (\E m \in manuals : m.name = n)

----------------------------------------------------------------------------
(* Ratings. *)

\* Mutant: a rating given before the id is known is only displayed.
SetRatingForgets(n, r) ==
  /\ Gesture
  /\ n \in DOMAIN rows /\ rows[n].rating # r
  /\ rows' = [rows EXCEPT ![n].rating = r]
  /\ votes' = IF Saved(n)
              THEN votes \union {[sugg |-> Sugg(n), value |-> r, previous |-> rows[n].rating,
                                  stale |-> FALSE, reply |-> "awaited"]}
              ELSE votes
  /\ doubtful' = IF Voting(n) THEN doubtful \union {n} ELSE doubtful
  /\ UNCHANGED <<shown, seen, launched, busy, timer, batches, manuals, srv, analysed,
                 relisted, unannounced>>

\* setRating: displayed at once; sent if the card has its id, kept on the card
\* (pendingRating) if not.
SetRating(n, r) ==
  /\ Gesture
  /\ n \in DOMAIN rows /\ rows[n].rating # r
  /\ IF Saved(n)
     THEN /\ rows' = [rows EXCEPT ![n].rating = r]
          /\ votes' = votes \union {[sugg |-> Sugg(n), value |-> r, previous |-> rows[n].rating,
                                     stale |-> FALSE, reply |-> "awaited"]}
     ELSE /\ rows' = [rows EXCEPT ![n].rating = r, ![n].pending = r]
          /\ UNCHANGED votes
  /\ doubtful' = IF Voting(n) \/ (rows[n].manual /\ ~Saved(n)) THEN doubtful \union {n} ELSE doubtful
  /\ UNCHANGED <<shown, seen, launched, busy, timer, batches, manuals, srv, analysed,
                 relisted, unannounced>>

\* The server records a rating or refuses it; a recorded one may lose its answer.
VoteReaches(v) ==
  /\ v \in votes /\ v.reply = "awaited"
  /\ \/ /\ srv[v.sugg] # None
        /\ srv' = [srv EXCEPT ![v.sugg] = v.value]
        /\ \E reply \in {"ok", "ko"} :
             /\ votes' = (votes \ {v}) \union {[v EXCEPT !.reply = reply]}
             /\ doubtful' = IF reply = "ko" THEN doubtful \union {v.sugg[1]} ELSE doubtful
     \/ /\ votes' = (votes \ {v}) \union {[v EXCEPT !.reply = "ko"]}
        /\ UNCHANGED <<srv, doubtful>>
  /\ UNCHANGED <<shown, rows, seen, launched, busy, timer, batches, manuals, analysed,
                 gestures, relisted, unannounced>>

\* What the card shows again when its rating was refused (previousRating; none
\* is given for a rating that waited for the id).
RollBack(v) == IF v.previous = None THEN v.value ELSE v.previous

\* persistRating's callbacks. They write on the card they hold; a card liked
\* counts as seen.
VoteAnswered(v) ==
  /\ v \in votes /\ v.reply # "awaited"
  /\ votes' = votes \ {v}
  /\ UNCHANGED <<shown, launched, busy, batches, manuals, srv, analysed, gestures,
                 relisted, unannounced>>
  /\ LET n == v.sugg[1]
         held == n \in DOMAIN rows /\ ~v.stale
     IN  /\ rows' = IF held
                    THEN [rows EXCEPT ![n].rating = IF v.reply = "ok" THEN v.value ELSE RollBack(v)]
                    ELSE rows
         /\ IF v.reply = "ok" /\ v.value = "liked" /\ n \notin seen
            THEN seen' = seen \union {n} /\ Collect
            ELSE UNCHANGED <<seen, timer>>
         /\ doubtful' = IF v.reply = "ko" /\ (~held \/ v.previous = None)
                        THEN doubtful \union {n} ELSE doubtful

----------------------------------------------------------------------------
(* Analyses. *)

\* carteVue: the card enters the screen.
CarteVue(n) ==
  /\ n \in DOMAIN rows \ seen
  /\ seen' = seen \union {n}
  /\ UNCHANGED <<shown, rows, launched, busy, batches, votes, manuals, srv, analysed,
                 gestures, relisted, doubtful, unannounced>>
  /\ Collect

\* Mutant: the cards do not show that they are being analysed.
SendBatchSilently(names, asked) ==
  LET ids == {Sugg(n) : n \in names} IN
  /\ launched' = launched \union ids
  /\ batches' = batches \union {[ids |-> ids, asked |-> asked]}
  /\ UNCHANGED <<rows, votes>>

\* analyserLesIds: marked before the call, displayed as pending.
SendBatch(names, asked) ==
  LET ids == {Sugg(n) : n \in names} IN
  /\ launched' = launched \union ids
  /\ rows' = [n \in DOMAIN rows |-> IF n \in names THEN [rows[n] EXCEPT !.analysis = "pending"] ELSE rows[n]]
  /\ votes' = Stale(names)
  /\ batches' = batches \union {[ids |-> ids, asked |-> asked]}

\* Mutant: a second batch does not wait for the first.
EnvoyerToujours ==
  /\ timer /\ timer' = FALSE
  /\ LET due == {n \in Names : Due(n)} IN
     IF due = {} THEN UNCHANGED <<launched, rows, votes, batches>>
     ELSE \E lot \in SUBSET due : lot # {} /\ Cardinality(lot) <= ANALYSES_PAR_LOT /\ SendBatch(lot, 0)
  /\ busy' = FALSE
  /\ UNCHANGED <<shown, seen, manuals, srv, analysed, gestures, relisted, doubtful, unannounced>>

\* envoyerUnLot, when the delay of regrouping is over.
EnvoyerUnLot ==
  /\ timer /\ timer' = FALSE
  /\ LET due == {n \in Names : Due(n)} IN
     IF busy \/ due = {}
     THEN UNCHANGED <<launched, rows, votes, batches, busy>>
     ELSE /\ \E lot \in SUBSET due :
               /\ Cardinality(lot) = IF Cardinality(due) < ANALYSES_PAR_LOT
                                     THEN Cardinality(due) ELSE ANALYSES_PAR_LOT
               /\ SendBatch(lot, 0)
          /\ busy' = TRUE
  /\ UNCHANGED <<shown, seen, manuals, srv, analysed, gestures, relisted, doubtful, unannounced>>

\* analyseOne: the button of the card. It does not wait for the batches.
AnalyseOne(n) ==
  /\ Gesture
  /\ Saved(n) /\ rows[n].analysis = "none"
  /\ SendBatch({n}, gestures + 1)
  /\ UNCHANGED <<shown, seen, busy, timer, manuals, srv, analysed, relisted, doubtful, unannounced>>

\* Mutant: after an error no further batch is looked for.
NextBatchUnlessError(b, done) ==
  /\ busy' = (busy /\ b.asked # 0)
  /\ IF b.asked = 0 /\ done # {} THEN Collect ELSE UNCHANGED timer

\* The end of a batch lets the next one leave.
NextBatch(b, done) ==
  /\ busy' = (busy /\ b.asked # 0)
  /\ IF b.asked = 0 THEN Collect ELSE UNCHANGED timer

\* The answer: some of the names were analysed (none, if it failed).
BatchAnswered(b, done) ==
  /\ b \in batches /\ done \subseteq b.ids
  /\ batches' = batches \ {b}
  /\ relisted' = relisted \intersect InFlight'
  /\ analysed' = analysed \union done
  /\ LET touched == {n \in DOMAIN rows : Saved(n) /\ Sugg(n) \in b.ids} IN
     /\ rows' = [n \in DOMAIN rows |->
                   IF n \in touched
                   THEN [rows[n] EXCEPT !.analysis = IF Sugg(n) \in done THEN "done"
                                                     ELSE IF @ = "pending" THEN "none" ELSE @]
                   ELSE rows[n]]
     /\ votes' = Stale(touched)
  /\ UNCHANGED <<shown, seen, launched, manuals, srv, gestures, doubtful, unannounced>>
  /\ NextBatch(b, done)

----------------------------------------------------------------------------
(* Names typed in: checked, then added to the project, then liked. *)

\* addManualDomain: the card is displayed, liked, at once.
AddManual(n) ==
  /\ Gesture
  /\ n \notin DOMAIN rows
  /\ ~Voting(n)   \* bound: a name is not typed again while requests about it are in flight
  /\ rows' = Put(rows, n, [id |-> None, manual |-> TRUE, rating |-> "liked", pending |-> None,
                           analysis |-> "none", stray |-> FALSE])
  /\ manuals' = manuals \union {[name |-> n, project |-> None, step |-> "check"]}
  /\ doubtful' = doubtful \ {n} /\ unannounced' = unannounced \ {n}
  /\ UNCHANGED <<shown, seen, launched, busy, timer, batches, votes, srv, analysed, relisted>>

\* Its domains are checked: it is added to the project displayed now, if there is one.
ManualChecked(m) ==
  /\ m \in manuals /\ m.step = "check"
  /\ manuals' = (manuals \ {m}) \union
                (IF shown = None THEN {} ELSE {[m EXCEPT !.step = "save", !.project = shown]})
  /\ votes' = Stale({m.name})
  /\ UNCHANGED <<shown, rows, seen, launched, busy, batches, srv, analysed, gestures,
                 relisted, doubtful, unannounced>>
  /\ Collect

\* The check failed: the card goes.
ManualFailed(m) ==
  /\ m \in manuals /\ m.step = "check"
  /\ manuals' = manuals \ {m}
  /\ rows' = [n \in {x \in DOMAIN rows : x # m.name \/ ~rows[x].manual} |-> rows[n]]
  /\ UNCHANGED <<shown, seen, launched, busy, timer, batches, votes, srv, analysed,
                 gestures, relisted, doubtful, unannounced>>

\* addSuggestion's answer: the card gets the id of the suggestion, added now or
\* already in the project, and the like is sent; or the addition failed and the
\* card stays without an id.
ManualSaved(m) ==
  /\ m \in manuals /\ m.step = "save"
  /\ LET s == <<m.name, m.project>>
         holds == m.name \in DOMAIN rows /\ rows[m.name].manual
     IN \/ /\ m.project \in projects
           /\ srv' = [srv EXCEPT ![s] = IF @ = None THEN "neutral" ELSE @]
           /\ manuals' = (manuals \ {m}) \union {[m EXCEPT !.step = "like"]}
           /\ rows' = IF holds THEN [rows EXCEPT ![m.name].id = m.project] ELSE rows
           /\ votes' = Stale({m.name})
           /\ unannounced' = unannounced \union {m.name}
           /\ doubtful' = IF holds /\ rows[m.name].rating # "liked" THEN doubtful \union {m.name} ELSE doubtful
           /\ relisted' = relisted \union ({s} \intersect InFlight)
        \/ manuals' = manuals \ {m} /\ UNCHANGED <<srv, rows, votes, unannounced, doubtful, relisted>>
  /\ UNCHANGED <<shown, seen, launched, busy, timer, batches, analysed, gestures>>

\* The like is recorded, and the cards due for analysis are looked for; or it failed.
ManualLiked(m) ==
  /\ m \in manuals /\ m.step = "like"
  /\ manuals' = manuals \ {m}
  /\ UNCHANGED <<shown, rows, seen, launched, busy, batches, votes, analysed, gestures, relisted>>
  /\ LET s == <<m.name, m.project>> IN
     \/ /\ srv[s] # None
        /\ srv' = [srv EXCEPT ![s] = "liked"]
        /\ Collect
        /\ unannounced' = unannounced \ {m.name}
        /\ UNCHANGED doubtful
     \/ doubtful' = doubtful \union {m.name} /\ UNCHANGED <<srv, timer, unannounced>>

----------------------------------------------------------------------------
UserOnCards ==
  \E n \in Names :
    \/ \E r \in Ratings : SetRating(n, r)
    \/ AnalyseOne(n)
    \/ AddManual(n)

ServerOnCards ==
  \/ \E v \in votes : VoteReaches(v) \/ VoteAnswered(v)
  \/ \E b \in batches : \E done \in SUBSET b.ids : BatchAnswered(b, done)
  \/ \E m \in manuals : ManualChecked(m) \/ ManualFailed(m) \/ ManualSaved(m) \/ ManualLiked(m)
=============================================================================
