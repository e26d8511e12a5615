------------------------------- MODULE Wizard ------------------------------
(***************************************************************************)
(* The results screen of the wizard (wizard.ts): the project displayed,    *)
(* the streamed searches, the wishes for the next names ("retours"), and   *)
(* the cards of module Cards.                                              *)
(*                                                                         *)
(* A search awaits a token before it opens its stream, and searchSub only  *)
(* exists from then on.  Loading another project, resetting the wizard or  *)
(* giving up in the dialog of the timeout does not end a stream.  What a   *)
(* stream still brings lands on the list displayed then.                   *)
(***************************************************************************)
EXTENDS Cards, Sequences

CONSTANTS
  Existing,     \* the projects there are at first
  RETOURS_MAX

VARIABLES
  drawn,      \* the projects there were so far: an id (a UUID) is never drawn again
  wishes,     \* at the server: retours of each project
  alive,      \* the component has not been destroyed
  loading,
  streams,    \* the searches so far
  searchSub,  \* the stream the stop button ends, 0: null
  loads,      \* requests for a project in flight
  retours,    \* the wishes displayed as chips, by number
  enAttente,  \* retourEnAttente, 0: null
  strayed     \* history: a search or a load was left behind, see OnlyKnownStraysMix

searchVars == <<projects, drawn, wishes, alive, loading, streams, searchSub, loads, retours, enAttente,
                strayed>>
vars == <<cardVars, searchVars>>

ASSUME WizardAssumption == Existing \subseteq Projects

Wish == 1..MaxGestures
Stream == [st : {"token", "open", "done", "failing", "ended"}, old : BOOLEAN,
           project : Projects \union {None}, wish : Wish \union {0},
           sent : SUBSET Wish, found : SUBSET Names]

Live(i) == streams[i].st \in {"token", "open"}

TypeOK ==
  /\ CardsTypeOK
  /\ drawn \subseteq Projects /\ projects \subseteq drawn /\ wishes \in [Projects -> SUBSET Wish]
  /\ alive \in BOOLEAN /\ loading \in BOOLEAN /\ strayed \in BOOLEAN
  /\ streams \in Seq(Stream)
  /\ searchSub \in 0..Len(streams)
  /\ loads \subseteq Projects
  /\ retours \subseteq Wish /\ enAttente \in Wish \union {0}

Init ==
  /\ shown = None /\ rows = <<>> /\ seen = {} /\ launched = {}
  /\ busy = FALSE /\ timer = FALSE /\ batches = {} /\ votes = {} /\ manuals = {}
  /\ LET n == CHOOSE n \in Names : TRUE
     IN  srv = [s \in Suggestions |-> IF s[1] = n /\ s[2] \in Existing THEN "neutral" ELSE None]
  /\ analysed = {} /\ gestures = 0 /\ relisted = {} /\ doubtful = {} /\ unannounced = {}
  /\ projects = Existing /\ drawn = Existing /\ wishes = [p \in Projects |-> {}]
  /\ alive = TRUE /\ loading = FALSE /\ streams = <<>> /\ searchSub = 0 /\ loads = {}
  /\ retours = {} /\ enAttente = 0 /\ strayed = FALSE

At(i, st) == i \in DOMAIN streams /\ streams[i].st = st
Over == [st |-> "ended", old |-> FALSE, project |-> None, wish |-> 0, sent |-> {}, found |-> {}]
AllOld == [i \in DOMAIN streams |-> [streams[i] EXCEPT !.old = streams[i] # Over]]
End(i) == streams' = [streams EXCEPT ![i] = Over]
Set(i, st) == streams' = [streams EXCEPT ![i].st = st]
Unended == \E i \in DOMAIN streams : ~At(i, "ended")
Searching == loading /\ \E i \in DOMAIN streams : Live(i)

----------------------------------------------------------------------------
(* Searches. *)

\* findDomains up to its first await.  "append" keeps the list; a wish may go
\* with the search (envoyerRetour).
FindDomains(append, wish) ==
  /\ Gesture /\ alive /\ ~loading
  /\ wish => append /\ DOMAIN rows # {} /\ Cardinality(retours) < RETOURS_MAX
  /\ loading' = TRUE
  /\ enAttente' = IF wish THEN gestures + 1 ELSE enAttente
  /\ streams' = Append(streams, [st |-> "token", old |-> FALSE, project |-> None,
                                 wish |-> IF wish THEN gestures + 1 ELSE 0,
                                 sent |-> IF wish THEN retours \union {gestures + 1} ELSE {},
                                 found |-> {}])
  /\ strayed' = (strayed \/ Unended)
  /\ IF append THEN UNCHANGED <<rows, seen, launched, timer, votes>>
     ELSE rows' = <<>> /\ seen' = {} /\ launched' = {} /\ timer' = FALSE /\ votes' = Stale(Names)
  /\ UNCHANGED <<shown, busy, batches, manuals, srv, analysed, relisted, doubtful, unannounced,
                 projects, drawn, wishes, alive, searchSub, loads, retours>>

\* The stream opens, for the project and the wishes displayed now, even if the user pressed
\* stop or left the screen in between.
Opened(i) ==
  /\ At(i, "token")
  /\ streams' = [streams EXCEPT ![i].st = "open", ![i].project = shown,
                                 ![i].sent = IF streams[i].wish = 0 THEN retours ELSE @]
  /\ searchSub' = i
  /\ UNCHANGED <<cardVars, projects, drawn, wishes, alive, loading, loads, retours, enAttente, strayed>>

\* The token cannot be renewed: the browser leaves for the login page.
TokenFails(i) ==
  /\ At(i, "token")
  /\ End(i)
  /\ alive' = FALSE
  /\ UNCHANGED <<cardVars, projects, drawn, wishes, loading, searchSub, loads, retours, enAttente, strayed>>

\* A name comes in, displayed at once.
Result(i, n) ==
  /\ At(i, "open")
  /\ n \notin DOMAIN rows /\ ~Voting(n)   \* bound: it is new on the screen
  /\ streams[i].project # None => srv[n, streams[i].project] = None   \* and in its project
  /\ rows' = Put(rows, n, [id |-> None, manual |-> FALSE, rating |-> "neutral", pending |-> None,
                           analysis |-> "none", stray |-> streams[i].old])
  /\ streams' = [streams EXCEPT ![i].found = @ \union {n}]
  /\ doubtful' = doubtful \ {n} /\ unannounced' = unannounced \ {n}
  /\ UNCHANGED <<shown, seen, launched, busy, timer, batches, votes, manuals, srv, analysed, gestures, relisted,
                 projects, drawn, wishes, alive, loading, searchSub, loads, retours, enAttente, strayed>>

\* Mutant: ratings given during the search are not sent when the ids arrive.
FlushNothing(cards) == {}

\* The ratings that waited for an id are sent.
Flush(cards) ==
  {[sugg |-> <<n, cards[n].id>>, value |-> cards[n].pending, previous |-> None, stale |-> FALSE,
    reply |-> "awaited"] :
      n \in {m \in DOMAIN cards : cards[m].id # None /\ cards[m].pending # None}}

\* The last event of a search that went through: the server stored the names in
\* project p, with the wishes sent (none are sent when there are none, and the
\* project keeps its own); the cards get their ids.
Done(i, p) ==
  /\ At(i, "open")
  /\ IF streams[i].project = None THEN p \in Projects \ drawn
     ELSE p = streams[i].project /\ p \in projects
  /\ projects' = projects \union {p} /\ drawn' = drawn \union {p}
  /\ wishes' = [wishes EXCEPT ![p] = IF streams[i].sent = {} THEN @ ELSE streams[i].sent]
  /\ retours' = retours \union ({enAttente} \ {0})
  /\ enAttente' = 0
  /\ LET saved == {n \in streams[i].found : srv[n, p] = None}
         held == saved \cap DOMAIN rows
         cards == [n \in DOMAIN rows |-> IF n \in held THEN [rows[n] EXCEPT !.id = p] ELSE rows[n]]
     IN  /\ srv' = [s \in Suggestions |-> IF s[1] \in saved /\ s[2] = p THEN "neutral" ELSE srv[s]]
         /\ rows' = [n \in DOMAIN rows |->
                       IF cards[n].id = None THEN cards[n] ELSE [cards[n] EXCEPT !.pending = None]]
         /\ votes' = Stale(held) \union Flush(cards)
  /\ shown' = p
  /\ Set(i, "done")
  /\ UNCHANGED <<seen, launched, busy, batches, manuals, analysed, gestures,
                 relisted, doubtful, unannounced, alive, loading, searchSub, loads, strayed>>
  /\ Collect

\* The server reports an error in the stream: the spinner stops.
ErrorEvent(i) ==
  /\ At(i, "open")
  /\ Set(i, "failing") /\ loading' = FALSE
  /\ UNCHANGED <<cardVars, projects, drawn, wishes, alive, searchSub, loads, retours, enAttente, strayed>>

\* Mutant: the end of a stream leaves the spinner.
EndedSilently(i) == End(i) /\ enAttente' = 0 /\ loading' = loading

\* Mutant: the wish of a search that failed still waits for a confirmation.
EndedWishful(i) == End(i) /\ loading' = FALSE /\ UNCHANGED enAttente

Ended(i) == End(i) /\ enAttente' = 0 /\ loading' = FALSE

\* complete
Complete(i) ==
  /\ At(i, "done") \/ At(i, "failing")
  /\ Ended(i)
  /\ UNCHANGED <<cardVars, projects, drawn, wishes, alive, searchSub, loads, retours, strayed>>

\* error: the search is refused (credits, invalid request) or the connection fails.
StreamError(i) ==
  /\ At(i, "open") \/ At(i, "done")
  /\ Ended(i)
  /\ UNCHANGED <<cardVars, projects, drawn, wishes, alive, searchSub, loads, retours, strayed>>

\* searchSub?.unsubscribe(); searchSub = null
EndSub ==
  /\ searchSub' = 0
  /\ streams' = [i \in DOMAIN streams |->
                   IF i = searchSub THEN Over ELSE streams[i]]

\* The stop button.
CancelSearch ==
  /\ Gesture /\ alive /\ Searching
  /\ EndSub
  /\ enAttente' = 0 /\ loading' = FALSE
  /\ strayed' = (strayed \/ \E i \in DOMAIN streams : At(i, "token"))
  /\ UNCHANGED <<shown, rows, seen, launched, busy, timer, batches, votes, manuals, srv, analysed,
                 relisted, doubtful, unannounced, projects, drawn, wishes, alive, loads, retours>>

\* "Cancel" in the dialog shown when nothing came for a while: only the spinner stops.
GiveUpWaiting ==
  /\ Gesture /\ alive /\ loading /\ streams # <<>>
  /\ loading' = FALSE
  /\ strayed' = TRUE
  /\ UNCHANGED <<shown, rows, seen, launched, busy, timer, batches, votes, manuals, srv, analysed,
                 relisted, doubtful, unannounced, projects, drawn, wishes, alive, streams, searchSub, loads, retours, enAttente>>

----------------------------------------------------------------------------
(* Projects. *)

LoadProject(p) ==
  /\ Gesture /\ alive /\ p \in projects
  /\ loads' = loads \union {p}
  /\ loading' = TRUE
  /\ strayed' = (strayed \/ Unended \/ loads # {})
  /\ UNCHANGED <<shown, rows, seen, launched, busy, timer, batches, votes, manuals, srv, analysed,
                 relisted, doubtful, unannounced, projects, drawn, wishes, alive, streams, searchSub, retours, enAttente>>

\* The project comes: its list, its wishes.  What was seen or sent stays noted.
Loaded(p) ==
  /\ p \in loads /\ loads' = loads \ {p} /\ loading' = FALSE
  /\ UNCHANGED <<seen, launched, busy, batches, manuals, srv, analysed, gestures,
                 projects, drawn, wishes, alive, searchSub, enAttente, strayed>>
  /\ IF p \notin projects
     THEN UNCHANGED <<shown, rows, timer, votes, streams, retours, relisted, doubtful, unannounced>>
     ELSE /\ shown' = p /\ streams' = AllOld
          /\ rows' = [n \in {m \in Names : srv[m, p] # None} |->
                        [id |-> p, manual |-> FALSE, rating |-> srv[n, p], pending |-> None,
                         analysis |-> IF <<n, p>> \in analysed THEN "done" ELSE "none",
                         stray |-> FALSE]]
          /\ retours' = wishes[p]
          /\ votes' = Stale(Names)
          /\ doubtful' = {n \in Names : Voting(n)}
          /\ unannounced' = {} /\ relisted' = InFlight
          /\ Collect

LoadFails(p) ==
  /\ p \in loads /\ loads' = loads \ {p} /\ loading' = FALSE
  /\ UNCHANGED <<cardVars, projects, drawn, wishes, alive, streams, searchSub, retours, enAttente, strayed>>

\* Mutant: the cards of the project left stay.
ResetKeepsCards ==
  /\ shown' = None /\ streams' = AllOld
  /\ seen' = {} /\ launched' = {} /\ timer' = FALSE
  /\ retours' = {} /\ UNCHANGED <<rows, votes>>
  /\ strayed' = (strayed \/ Unended \/ loads # {})

\* resetProject
Reset ==
  /\ shown' = None /\ streams' = AllOld
  /\ rows' = <<>> /\ seen' = {} /\ launched' = {} /\ timer' = FALSE
  /\ votes' = Stale(Names)
  /\ retours' = {}
  /\ strayed' = (strayed \/ Unended \/ loads # {})

\* "New project".
ResetProject ==
  /\ Gesture /\ alive
  /\ Reset
  /\ UNCHANGED <<busy, batches, manuals, srv, analysed, relisted, doubtful, unannounced,
                 projects, drawn, wishes, alive, loading, searchSub, loads, enAttente>>

\* deleteProject, answered: the project displayed is left.
DeleteProject(p) ==
  /\ Gesture /\ alive /\ p \in projects
  /\ projects' = projects \ {p}
  /\ srv' = [s \in Suggestions |-> IF s[2] = p THEN None ELSE srv[s]]
  /\ analysed' = {s \in analysed : s[2] # p}
  /\ wishes' = [wishes EXCEPT ![p] = {}]
  /\ IF shown = p THEN Reset
     ELSE UNCHANGED <<shown, rows, seen, launched, timer, votes, streams, retours, strayed>>
  /\ UNCHANGED <<busy, batches, manuals, relisted, doubtful, unannounced,
                 drawn, alive, loading, searchSub, loads, enAttente>>

\* retirerRetour: the chip goes, whether or not the server hears of it.
RetirerRetour(w) ==
  /\ Gesture /\ alive /\ ~loading /\ w \in retours
  /\ retours' = retours \ {w}
  /\ \/ UNCHANGED wishes
     \/ shown # None /\ wishes' = [wishes EXCEPT ![shown] = retours']
  /\ UNCHANGED <<shown, rows, seen, launched, busy, timer, batches, votes, manuals, srv, analysed,
                 relisted, doubtful, unannounced, projects, drawn, alive, loading, streams, searchSub, loads,
                 enAttente, strayed>>

\* ngOnDestroy
Leave ==
  /\ Gesture /\ alive
  /\ alive' = FALSE
  /\ EndSub
  /\ timer' = FALSE
  /\ UNCHANGED <<shown, rows, seen, launched, busy, batches, votes, manuals, srv, analysed,
                 relisted, doubtful, unannounced, projects, drawn, wishes, loading, loads, retours, enAttente, strayed>>

----------------------------------------------------------------------------
User ==
  \/ \E append, wish \in BOOLEAN : FindDomains(append, wish)
  \/ CancelSearch \/ GiveUpWaiting \/ ResetProject \/ Leave
  \/ \E p \in Projects : LoadProject(p) \/ DeleteProject(p)
  \/ \E w \in retours : RetirerRetour(w)
  \/ alive /\ UserOnCards /\ UNCHANGED searchVars

SearchGoesOn ==
  \/ \E i \in DOMAIN streams :
       \/ Opened(i) \/ TokenFails(i) \/ ErrorEvent(i) \/ Complete(i) \/ StreamError(i)
       \/ \E p \in Projects : Done(i, p)
  \/ \E p \in loads : Loaded(p) \/ LoadFails(p)

CardsGoOn == (ServerOnCards \/ (timer /\ EnvoyerUnLot)) /\ UNCHANGED searchVars

Next ==
  \/ User
  \/ SearchGoesOn
  \/ \E i \in DOMAIN streams, n \in Names : Result(i, n)
  \/ CardsGoOn
  \/ alive /\ (\E n \in Names : CarteVue(n)) /\ UNCHANGED searchVars

\* Requests are answered, or fail, and timers fire; nobody is forced to do anything.
Spec == Init /\ [][Next]_vars /\ WF_vars(SearchGoesOn) /\ WF_vars(CardsGoOn)

----------------------------------------------------------------------------
\* A list never mixes the names of two projects: each card belongs to the list
\* displayed, and to its project once it has an id.  Four ways out are known:
\* leaving a search or a load that goes on (loadProject and resetProject do not
\* unsubscribe), "cancel" in the timeout dialog, stop pressed before the stream is
\* open, and a search started between the error event of the one before and its
\* end (wizard.ts, lines 2726 to 2730, 2744 to 2756, 3117 to 3125, 3247 to 3262).
OnlyKnownStraysMix ==
  strayed \/ \A n \in DOMAIN rows :
               /\ ~rows[n].stray
               /\ Saved(n) => rows[n].id = shown

\* The chips displayed are wishes the server stores for the project displayed (which
\* keeps a chip whose removal it did not hear of): a wish becomes a chip when the
\* search it went with is done, never when that search was refused or stopped (wizard.ts, lines 273 to 279).
ChipsAreStored ==
  strayed \/ retours \subseteq IF shown = None THEN {} ELSE wishes[shown]

\* The list and the chips are those of the project displayed.
ScreenIsOneProject == OnlyKnownStraysMix /\ ChipsAreStored

\* What a card shows is what the server holds, once no request about it is in
\* flight, strays aside.  Other known exceptions (doubtful): two ratings of one card cross, an
\* answer is lost or refused after the card was replaced, a list is loaded while
\* a rating is in flight, a name typed in is rated before it has its id.
DisplayedIsRecorded ==
  strayed \/ \A n \in DOMAIN rows :
    Saved(n) /\ ~Voting(n) /\ n \notin doubtful /\ srv[Sugg(n)] # None
      => rows[n].rating = srv[Sugg(n)]

\* One batch of analyses at a time, whatever happens to the list meanwhile
\* (wizard.ts, line 2457).
OneBatchAtATime ==
  /\ Cardinality(Lots) <= 1
  /\ busy <=> Lots # {}

\* No name is sent twice to the model at once (each analysis is paid), unless its
\* list was loaded anew, or it was typed in after a new search, while it was analysed.
NeverAnalysedTwiceAtOnce ==
  \A b, c \in batches : b # c => b.ids \intersect c.ids \subseteq relisted

\* An analysis is asked for, and paid, once.
AnalysesAreSpared == OneBatchAtATime /\ NeverAnalysedTwiceAtOnce

\* The spinner stops: every search and every load ends it.
SpinnerEnds == loading ~> ~loading \/ ~alive

\* A card that was seen and saved is sent to analysis in the end, although the
\* two come in any order and batches wait for each other (wizard.ts, lines 2490
\* to 2505); unless the like of a name typed in failed, which alone triggers it.
EverySeenCardIsAnalysed ==
  \A n \in Names : Due(n) ~> (~Due(n) \/ n \in unannounced \/ ~alive)

\* Nothing the screen waits for is waited for in vain.
ScreenSettles == SpinnerEnds /\ EverySeenCardIsAnalysed
=============================================================================
