------------------------------- MODULE Framing -------------------------------
(***************************************************************************)
(* The framing of a search, and the search.  The screen shows what was     *)
(* read in the description: the bounds of the names and the demands, which *)
(* the user may withdraw.  He may set a maximum and a type over it, open   *)
(* or reset a project, and asks for the search, perhaps by way of the      *)
(* login, which leaves the page.  The server reads the description again,  *)
(* so the language model is asked twice, and what one reading says the     *)
(* other may not.                                                          *)
(*                                                                         *)
(* One search is framed.  Once it is sent, the screen no longer counts.    *)
(* What DomainSearch knows of the search is chosen at the start: whether   *)
(* it is for a project that exists, the credits, the extensions.           *)
(***************************************************************************)
EXTENDS DomainSearch, NamingRules

CONSTANTS
  Texts,            \* descriptions
  NoText,
  Says,             \* what the language model may read in each of them
  Wishes,           \* what it may understand of the wishes on earlier names
  MaxChoices,       \* the maxima of the selector
  Unwritable,       \* demands whose key the server refuses to withdraw
  Budgets           \* bounds: gestures on the screen, names of a batch, and
                    \* whether the client, the payer and the clock interfere

Budget == [gestures : Nat, batch : 0..MaxBatch, meanwhile : BOOLEAN]

ASSUME FramingAssumption ==
  /\ Length \in [Names -> Nat]
  /\ NoText \notin Texts
  /\ Says \in [Texts -> SUBSET Reading]
  /\ \A t \in Texts : Silent \in Says[t]
  /\ Wishes \subseteq Reading
  /\ Silent \in Wishes
  /\ \A r \in (UNION Range(Says)) \union Wishes : r.min # NoBound /\ r.max # NoBound => r.min <= r.max
  /\ MaxChoices \subseteq {n \in Nat : n >= MIN_NAME_LENGTH_FLOOR}
  /\ Budgets \subseteq Budget

VARIABLES
  text,         \* description
  read,         \* the reading on the screen (brief...)
  asked,        \* descriptions whose reading is awaited
  maxLength,    \* the maximum the user set, or NoBound (maxLengthTouched)
  retirees,     \* contraintesRetirees
  typeDeNom, typeDeNomTouched,
  retours,      \* there are wishes
  onProject,    \* the screen shows a project that exists
  loading,      \* a project is being loaded
  loggedIn,
  sending,      \* where the search is
  announced,    \* history: what the screen showed at the click
  crossed,      \* history: the screen changed between the click and the sending
  applied,      \* the terms of the search, and what they were made of
  budget        \* bounds

brief == <<read, asked>>
settings == <<maxLength, retirees, typeDeNom, typeDeNomTouched, retours>>
screen == <<text, brief, settings, onProject, loading>>
framing == <<screen, loggedIn, sending, announced, crossed, applied, budget>>
framingVars == <<framing, vars>>

Shown ==
  [bornes |-> BornesAffichees(read, maxLength),
   read |-> read, max |-> maxLength, retirees |-> retirees, type |-> typeDeNom,
   wish |-> FALSE]

Nothing == [read |-> Silent, wish |-> Silent,
            terms |-> [min |-> MIN_NAME_LENGTH_FLOOR, max |-> DEFAULT_MAX_NAME_LENGTH, demands |-> {}]]

FramingInit ==
  /\ Init
  /\ text \in Texts
  /\ read = Silent
  /\ asked = {}
  /\ maxLength = NoBound
  /\ retirees = {}
  /\ typeDeNom = "inventes"
  /\ typeDeNomTouched = FALSE
  /\ retours = FALSE
  /\ onProject = FALSE
  /\ loading = FALSE
  /\ loggedIn \in BOOLEAN
  /\ sending = "no"
  /\ announced = Shown
  /\ crossed = FALSE
  /\ applied = Nothing
  /\ budget \in Budgets

\* What happens to the screen before the search leaves it.
OnScreen ==
  /\ sending \in {"no", "click", "refused"}
  /\ crossed' = (crossed \/ sending = "click")
  /\ UNCHANGED <<vars, loggedIn, sending, announced, applied>>

Gesture ==
  /\ OnScreen
  /\ budget.gestures > 0
  /\ budget' = [budget EXCEPT !.gestures = @ - 1]

Edit(t) ==
  /\ Gesture
  /\ t # text
  /\ text' = t
  /\ UNCHANGED <<brief, settings, onProject, loading>>

\* passerAuCadrage: the reading is asked for, beside the keywords.
PasserAuCadrage ==
  /\ Gesture
  /\ text # NoText
  /\ asked' = asked \union {text}
  /\ UNCHANGED <<text, read, settings, onProject, loading>>

\* The readings come in any order, and each is displayed.
ReadingComes(t, r) ==
  /\ OnScreen
  /\ t \in asked
  /\ asked' = asked \ {t}
  /\ read' = r
  /\ retirees' = {}
  /\ typeDeNom' = IF typeDeNomTouched THEN typeDeNom ELSE r.type
  /\ UNCHANGED <<text, maxLength, typeDeNomTouched, retours, onProject, loading, budget>>

ReadingFails(t) ==
  /\ OnScreen
  /\ t \in asked
  /\ asked' = asked \ {t}
  /\ UNCHANGED <<text, read, settings, onProject, loading, budget>>

OnMaxLengthChange(n) ==
  /\ Gesture
  /\ maxLength' = n
  /\ UNCHANGED <<text, brief, retirees, typeDeNom, typeDeNomTouched, retours, onProject, loading>>

RetirerContrainte(d) ==
  /\ Gesture
  /\ d \in read.demands \ retirees
  /\ retirees' = retirees \union {d}
  /\ UNCHANGED <<text, brief, maxLength, typeDeNom, typeDeNomTouched, retours, onProject, loading>>

ChoisirTypeDeNom(v) ==
  /\ Gesture
  /\ typeDeNom' = v
  /\ typeDeNomTouched' = TRUE
  /\ UNCHANGED <<text, brief, maxLength, retirees, retours, onProject, loading>>

LoadProject ==
  /\ Gesture
  /\ loggedIn
  /\ project = "existing"
  /\ loading' = TRUE
  /\ UNCHANGED <<text, brief, settings, onProject>>

\* The project comes with its description, its maximum and its wishes.  What
\* was read of another description stays on the screen, and withdrawn.
ProjectComes(t, n, wishes) ==
  /\ OnScreen
  /\ loading
  /\ loading' = FALSE
  /\ onProject' = TRUE
  /\ text' = t
  /\ maxLength' = n
  /\ retours' = wishes
  /\ UNCHANGED <<brief, retirees, typeDeNom, typeDeNomTouched, budget>>

ProjectFails ==
  /\ OnScreen
  /\ loading
  /\ loading' = FALSE
  /\ UNCHANGED <<text, brief, settings, onProject, budget>>

\* A screen without a project.
Blank ==
  /\ text' = NoText
  /\ read' = Silent
  /\ maxLength' = NoBound
  /\ retirees' = {}
  /\ typeDeNom' = "inventes"
  /\ typeDeNomTouched' = FALSE
  /\ retours' = FALSE
  /\ onProject' = FALSE

\* What is awaited still comes.  A reset of a project between the click and the
\* sending is left out.
ResetProject ==
  /\ Gesture
  /\ sending = "click" => ~onProject
  /\ Blank
  /\ UNCHANGED <<asked, loading>>

----------------------------------------------------------------------------
\* The button of the search; `wish`, a wish typed under the names of a project.
FindDomains(wish) ==
  /\ sending \in {"no", "refused"}
  /\ text # NoText
  /\ ~loading
  /\ onProject <=> project = "existing"
  /\ wish => onProject
  /\ announced' = [Shown EXCEPT !.wish = wish]
  /\ crossed' = FALSE
  /\ sending' = IF loggedIn THEN "click" ELSE "login"
  /\ UNCHANGED <<vars, screen, loggedIn, applied, budget>>

\* Mutant: the withdrawals do not go through the login.
ReturnForgetting ==
  /\ sending = "login"
  /\ loggedIn' = TRUE
  /\ sending' = "click"
  /\ read' = Silent
  /\ asked' = {}
  /\ retirees' = {}
  /\ retours' = FALSE
  /\ UNCHANGED <<vars, text, maxLength, typeDeNom, typeDeNomTouched, onProject, loading, announced, crossed, applied, budget>>

\* Back from the login, on a page that remembers the settings and not the
\* reading; the search goes on at once (a project is only opened logged in).
Return ==
  /\ sending = "login"
  /\ loggedIn' = TRUE
  /\ sending' = "click"
  /\ read' = Silent
  /\ asked' = {}
  /\ retours' = FALSE
  /\ UNCHANGED <<vars, text, maxLength, retirees, typeDeNom, typeDeNomTouched, onProject, loading, announced, crossed, applied, budget>>

\* The session is over (updateToken fails): the page is left, and nothing kept.
SessionOver ==
  /\ sending = "click"
  /\ budget.gestures > 0
  /\ budget' = [budget EXCEPT !.gestures = @ - 1]
  /\ sending' = "no"
  /\ Blank
  /\ asked' = {}
  /\ loading' = FALSE
  /\ UNCHANGED <<vars, loggedIn, announced, crossed, applied>>

\* The request is made of the screen as it is after the wait for the token, and
\* refused without a description, or if it withdraws what cannot be written.
Send ==
  /\ sending = "click"
  /\ sending' = IF text # NoText /\ retirees \intersect Unwritable = {} THEN "sent" ELSE "refused"
  /\ UNCHANGED <<vars, screen, loggedIn, announced, crossed, applied, budget>>

----------------------------------------------------------------------------
\* The terms the server draws from its reading r and the wish i.
Terms(r, i) ==
  LET c == AppliquerRetours(RetirerContraintes(r, retirees), i)
      bornes == BornesDeLongueur(c, maxLength)
  IN  [min |-> bornes.min, max |-> bornes.max, demands |-> c.demands]

\* The server reads the description, and the wishes if there are any.
ServerReads(r, i) ==
  /\ sending = "sent"
  /\ ReadBrief
  /\ retours \/ announced.wish \/ i = Silent
  /\ applied' = [read |-> r, wish |-> i, terms |-> Terms(r, i)]
  /\ UNCHANGED <<screen, loggedIn, sending, announced, crossed, budget>>

Conforming(name) ==
  \E style \in Styles(typeDeNom) : RespecteLesContraintes(name, style, applied.terms)

\* A batch of names of the language model, those the filter lets through.
ServerGenerates ==
  /\ phase = "generating"
  /\ \E batch \in BoundedSeq({name \in Names : Conforming(name)}, budget.batch) : Generated(batch)

ServerSearch ==
  \/ sending = "sent" /\ \E r \in Says[text], i \in Wishes : ServerReads(r, i)
  \/ /\ sending = "sent"
     /\ \/ ServerGenerates
        \/ phase = "working" /\ \E w \in Workers, status \in ExtStatuses : Settle(w, status)
        \/ Bill
        \/ TransactionFails
     /\ UNCHANGED framing

Meanwhile ==
  /\ sending = "sent"
  /\ budget.meanwhile
  /\ \/ Abort
     \/ BudgetSpent
     \/ \E amount \in SpendingElsewhere : SpendElsewhere(amount)
     \/ RemoveProject
  /\ UNCHANGED framing

FramingNext ==
  \/ \E t \in Texts : Edit(t)
  \/ PasserAuCadrage
  \/ \E t \in Texts : \E r \in Says[t] : ReadingComes(t, r)
  \/ \E t \in Texts : ReadingFails(t)
  \/ \E n \in MaxChoices : OnMaxLengthChange(n)
  \/ \E d \in Demands : RetirerContrainte(d)
  \/ \E v \in Type : ChoisirTypeDeNom(v)
  \/ LoadProject
  \/ \E t \in Texts, n \in MaxChoices \union {NoBound}, wishes \in BOOLEAN : ProjectComes(t, n, wishes)
  \/ ProjectFails
  \/ ResetProject
  \/ \E wish \in BOOLEAN : FindDomains(wish)
  \/ Return
  \/ SessionOver
  \/ Send
  \/ ServerSearch
  \/ Meanwhile

FramingSpec == FramingInit /\ [][FramingNext]_framingVars

\* The token comes or not, the event loop goes on, every external call answers
\* or times out.  Nobody has to ask for a search, nor to come back from a login.
FramingFairness ==
  /\ WF_framingVars(Send)
  /\ WF_framingVars(ServerSearch)

----------------------------------------------------------------------------
FramingTypeOK ==
  /\ TypeOK
  /\ text \in Texts \union {NoText}
  /\ read \in Reading
  /\ asked \subseteq Texts
  /\ maxLength \in MaxChoices \union {NoBound}
  /\ retirees \subseteq Demands
  /\ typeDeNom \in Type
  /\ typeDeNomTouched \in BOOLEAN
  /\ retours \in BOOLEAN
  /\ onProject \in BOOLEAN
  /\ loading \in BOOLEAN
  /\ loggedIn \in BOOLEAN
  /\ sending \in {"no", "click", "login", "refused", "sent"}
  /\ crossed \in BOOLEAN
  /\ budget \in Budget

Reads == phase # "brief"

\* What the screen announced, before a login too, is what the search applies, if
\* the server reads what the screen shows, and nothing moved the screen between
\* the click and the sending (bornes-affichees.ts, lines 6 to 9).
AnnouncedIsApplied ==
  Reads /\ ~crossed /\ applied.read = announced.read /\ applied.wish = Silent =>
    applied.terms = [min |-> announced.bornes.min, max |-> announced.bornes.max,
                     demands |-> announced.read.demands \ announced.retirees]

\* Whatever the server reads and understands: the user's maximum is kept, what he
\* withdrew stays out unless he wishes for it, and the wish prevails over the
\* description.
SettingsPrevail ==
  Reads /\ ~crossed =>
    LET terms == applied.terms
        wish == applied.wish
    IN  /\ MIN_NAME_LENGTH_FLOOR <= terms.min /\ terms.min <= terms.max
        /\ announced.max # NoBound => terms.max = announced.max
        /\ announced.max = NoBound /\ wish.max # NoBound => terms.max <= Larger(wish.max, MIN_NAME_LENGTH_FLOOR)
        /\ announced.max = NoBound /\ wish.min # NoBound => terms.min = Borne(wish.min)
        /\ terms.demands \intersect announced.retirees \subseteq wish.demands

\* Every name retained is as was asked, but for demands the filter cannot see.
RetainedConform ==
  \A k \in DOMAIN results :
    LET name == results[k].name
    IN  /\ Length[name] >= MIN_NAME_LENGTH_FLOOR
        /\ Breaches[name] \intersect applied.terms.demands \subseteq Unseen
        /\ ~crossed /\ announced.type = "inventes" /\ announced.max # NoBound =>
             Length[name] <= announced.max

\* From the framing on the screen to the names it gives.
SearchIsAsFramed == AnnouncedIsApplied /\ SettingsPrevail /\ RetainedConform

\* A search asked for ends, is refused for what it withdraws, or its session is over.
AskedIsAnswered == sending = "click" ~> (phase = "done" \/ sending \in {"refused", "no"})
=============================================================================
