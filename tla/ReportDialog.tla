---------------------------- MODULE ReportDialog ----------------------------
(***************************************************************************)
(* The page of the brand report in the wizard (wizard.ts): the query       *)
(* parameter `rapport` that is to open and close it, the history of the    *)
(* browser, the confirmation before a purchase, and the requests whose     *)
(* answers write the page.                                                 *)
(*                                                                         *)
(* A navigation of the router ends before anything else happens; a         *)
(* navigation to the address one is at is ignored.  location.back() is     *)
(* done later.  `existing` may fail, which the wizard takes for "no        *)
(* report": that covers an answer older than the purchase, and the awaited *)
(* profile of openReportConfirm is part of the delay of the answer before  *)
(* it.  Left out: the mails, the offer and the summaries on the cards, the *)
(* free refresh (module BrandReport), and forceRegen, which nothing sets.  *)
(***************************************************************************)
EXTENDS Integers, Sequences

CONSTANTS
  Names,
  None,
  SAMPLE_PARAM,    \* the address of the sample report
  SAMPLE_NAME,     \* the name the sample report is about
  Balance,         \* reports the account can pay at first
  MaxGestures,     \* bound on what the user does
  MaxCalls         \* bound on the purchases asked for

ASSUME DialogAssumption ==
  /\ None \notin Names /\ SAMPLE_PARAM \notin Names \union {None} /\ SAMPLE_NAME \in Names
  /\ Balance \in Nat /\ MaxGestures \in Nat

Addresses == Names \union {None, SAMPLE_PARAM}
Asks == {"into", "ask"} \X Names

VARIABLES
  history, pos,  \* the addresses of the tab, and where it is; 0: it left the site
  popping,       \* calls of location.back() not done yet
  page,          \* what the component holds of the report
  loading,       \* brandReportLoading
  lastName,      \* lastReportName
  confirm,       \* showReportConfirm
  popup,         \* the ConfirmationService asks
  credits,       \* the balance the client knows
  asks,          \* how many `existing` requests of each kind are in flight
  calls,         \* the purchases asked for
  bought,        \* at the server: names whose report is stored
  serverBalance, \* at the server
  debited,       \* history: debits for each name
  givenUp,       \* history: purchases of each name the client stopped waiting for
  strayed,       \* history: see OneNameOnThePage
  misjudged,     \* history: see ButtonStaysOnSite
  gestures

addressVars == <<history, pos, popping>>
serverVars == <<bought, serverBalance, debited>>
dialogVars == <<addressVars, page, loading, lastName, confirm, popup, credits, asks, calls,
               serverVars, givenUp, strayed, misjudged, gestures>>

Stages == {"sent", "generating", "report", "refused", "failed"}

Pages == [brandReportName : Names \union {None}, brandReport : Names \union {None},
          showReportDialog : BOOLEAN, preloadedReportName : Names \union {None},
          reportUrlPushed : BOOLEAN, brandReportError : BOOLEAN]
Calls == [name : Names, stage : Stages, awaited : BOOLEAN]

DialogTypeOK ==
  /\ history \in Seq(Addresses) /\ pos \in 0..Len(history) /\ popping \in Nat
  /\ page \in Pages
  /\ loading \in BOOLEAN /\ lastName \in Names \union {None}
  /\ confirm \in BOOLEAN /\ popup \in BOOLEAN /\ credits \in 0..Balance
  /\ asks \in [Asks -> Nat]
  /\ calls \in Seq(Calls)
  /\ bought \subseteq Names /\ serverBalance \in 0..Balance
  /\ debited \in [Names -> Nat] /\ givenUp \in [Names -> Nat]
  /\ strayed \in BOOLEAN /\ misjudged \in BOOLEAN /\ gestures \in 0..MaxGestures

Blank == [brandReportName |-> None, brandReport |-> None, showReportDialog |-> FALSE,
          preloadedReportName |-> None, reportUrlPushed |-> FALSE, brandReportError |-> FALSE]

Url == history[pos]
OnSite == pos > 0
Awaited == {i \in DOMAIN calls : calls[i].awaited}

\* Names whose answer is awaited.
Pending == {n \in Names : \E a \in Asks : a[2] = n /\ asks[a] > 0}
             \union {calls[i].name : i \in Awaited}

\* The wizard awaits the report of a name it is no longer at, or was to show a
\* report at the address it was at already.
Strays == Pending \ {page.brandReportName} # {} \/ page.preloadedReportName # None

\* Once the awaited location.back() are done, nothing is left to go back to.
AtTheBottom == pos - popping <= 1

\* Nothing was pushed for a report opened at the address one is at.
PushesNothing == pos' = pos /\ ~page.reportUrlPushed /\ page'.reportUrlPushed

\* The tab goes from a report that was pushed to the one the visitor came by.
KeepsThePush == pos # 1 /\ pos' = 1 /\ Url' # None /\ page'.reportUrlPushed

\* The wizard takes the entry the visitor came by for one it pushed.
Misjudges == (AtTheBottom /\ PushesNothing) \/ KeepsThePush

Note ==
  /\ strayed' = (strayed \/ Strays') /\ misjudged' = (misjudged \/ Misjudges)

----------------------------------------------------------------------------
(* The address. *)

\* The address asks for a report the page does not have: it is fetched.
Loads(p, url) ==
  /\ url \in Names
  /\ p.preloadedReportName # url
  /\ ~(p.showReportDialog /\ p.brandReportName = url)

\* Mutant: the report displayed before stays until the answer.
ReportKept(p, url) == [p EXCEPT !.brandReportName = url, !.brandReportError = FALSE]

\* The page made ready for the answer about `url`.
LoadReportInto(p, url) ==
  [p EXCEPT !.brandReportName = url, !.brandReport = None, !.brandReportError = FALSE]

\* Mutant: leaving the report forgets neither the push nor the preloaded name.
SyncKeepsThePush(p, url) ==
  CASE url = None -> [p EXCEPT !.showReportDialog = FALSE]
    [] url = SAMPLE_PARAM -> [p EXCEPT !.brandReportName = SAMPLE_NAME, !.brandReport = SAMPLE_NAME,
                                       !.brandReportError = FALSE, !.showReportDialog = TRUE]
    [] url \in Names /\ p.preloadedReportName = url ->
         [p EXCEPT !.preloadedReportName = None, !.showReportDialog = TRUE]
    [] Loads(p, url) -> LoadReportInto(p, url)
    [] OTHER -> p

\* syncReportFromUrl: the page once the router is at `url`.
SyncReportFromUrl(p, url) ==
  CASE url = None -> [p EXCEPT !.reportUrlPushed = FALSE, !.preloadedReportName = None,
                               !.showReportDialog = FALSE]
    [] url = SAMPLE_PARAM -> [p EXCEPT !.brandReportName = SAMPLE_NAME, !.brandReport = SAMPLE_NAME,
                                       !.brandReportError = FALSE, !.showReportDialog = TRUE]
    [] url \in Names /\ p.preloadedReportName = url ->
         [p EXCEPT !.preloadedReportName = None, !.showReportDialog = TRUE]
    [] Loads(p, url) -> LoadReportInto(p, url)
    [] OTHER -> p

\* The router arrives at `url`, the page being p; k `existing` requests of
\* `answered` have just been answered.
Arrive(p, url, answered) ==
  /\ page' = SyncReportFromUrl(p, url)
  /\ asks' = [a \in Asks |-> asks[a] - (IF a = answered THEN 1 ELSE 0)
                                     + (IF Loads(p, url) /\ a = <<"into", url>> THEN 1 ELSE 0)]

NameAt(url) == IF url = SAMPLE_PARAM THEN SAMPLE_NAME ELSE url

Nobody == <<None, None>>

\* pushReportUrl, by a handler that left the page as p.
PushReportUrl(p, url, answered) ==
  LET q == [p EXCEPT !.reportUrlPushed = TRUE] IN
  IF url = Url
  THEN /\ page' = q
       /\ asks' = [a \in Asks |-> asks[a] - (IF a = answered THEN 1 ELSE 0)]
       /\ UNCHANGED <<history, pos>>
  ELSE /\ history' = Append(SubSeq(history, 1, pos), url)
       /\ pos' = pos + 1
       /\ Arrive(q, url, answered)

\* showReport.
ShowReport(p, name, answered) ==
  PushReportUrl([p EXCEPT !.preloadedReportName = name], name, answered)

----------------------------------------------------------------------------
(* The user. *)

Gesture == OnSite /\ gestures < MaxGestures /\ gestures' = gestures + 1
Modal == confirm \/ popup
GridShown == ~page.showReportDialog /\ ~Modal

\* A card's "voir le rapport".
OpenFullReport(name) ==
  /\ Gesture /\ GridShown /\ name \in bought
  /\ PushReportUrl(page, name, Nobody)
  /\ UNCHANGED <<popping, loading, lastName, confirm, popup, credits, calls, serverVars, givenUp>>
  /\ Note

\* A card's "vérifier".
AskBrandReport(name) ==
  /\ Gesture /\ GridShown
  /\ page' = LoadReportInto(page, name)
  /\ asks' = [asks EXCEPT ![<<"ask", name>>] = @ + 1]
  /\ UNCHANGED <<addressVars, loading, lastName, confirm, popup, credits, calls, serverVars, givenUp>>
  /\ Note

\* From the confirmation, the report of the sample.
ShowSampleReport ==
  /\ Gesture /\ confirm /\ ~popup
  /\ confirm' = FALSE
  /\ PushReportUrl(page, SAMPLE_PARAM, Nobody)
  /\ UNCHANGED <<popping, loading, lastName, popup, credits, calls, serverVars, givenUp>>
  /\ Note

CancelConfirm ==
  /\ Gesture /\ confirm /\ ~popup
  /\ confirm' = FALSE
  /\ UNCHANGED <<addressVars, page, loading, lastName, popup, credits, asks, calls, serverVars, givenUp>>
  /\ Note

\* confirmBrandReport, from the confirmation or from the locked page.
ConfirmBrandReport ==
  /\ Gesture /\ ~popup
  /\ confirm \/ (page.showReportDialog /\ ~loading /\ page.brandReport = None)
  /\ IF credits > 0 THEN popup' = TRUE /\ UNCHANGED confirm
     ELSE confirm' = FALSE /\ UNCHANGED popup
  /\ UNCHANGED <<addressVars, page, loading, lastName, credits, asks, calls, serverVars, givenUp>>
  /\ Note

RejectPopup ==
  /\ Gesture /\ popup
  /\ popup' = FALSE
  /\ UNCHANGED <<addressVars, page, loading, lastName, confirm, credits, asks, calls, serverVars, givenUp>>
  /\ Note

\* Mutant: a purchase starts although one is awaited.
GenerateAnyway(name) ==
  /\ loading' = TRUE /\ lastName' = name
  /\ calls' = Append(calls, [name |-> name, stage |-> "sent", awaited |-> TRUE])

\* generateBrandReport: nothing happens while a report is awaited.
GenerateBrandReport(name) ==
  IF loading THEN UNCHANGED <<loading, lastName, calls>>
  ELSE /\ loading' = TRUE /\ lastName' = name
       /\ calls' = Append(calls, [name |-> name, stage |-> "sent", awaited |-> TRUE])

\* What generateBrandReport leaves of the page.
Generating(p) == IF loading THEN p ELSE [p EXCEPT !.brandReport = None, !.brandReportError = FALSE]

\* The popup is accepted: launchBrandReport.
LaunchBrandReport ==
  LET name == page.brandReportName IN
  /\ Gesture /\ popup
  /\ name # None                               \* always so
  /\ Len(calls) < MaxCalls                     \* bound
  /\ popup' = FALSE /\ confirm' = FALSE
  /\ ShowReport(Generating(page), name, Nobody)
  /\ GenerateBrandReport(name)
  /\ UNCHANGED <<popping, credits, serverVars, givenUp>>
  /\ Note

RetryBrandReport ==
  /\ Gesture /\ page.showReportDialog /\ ~Modal /\ page.brandReportError /\ ~loading
  /\ Len(calls) < MaxCalls                     \* bound
  /\ page' = Generating(page)
  /\ GenerateBrandReport(lastName)
  /\ UNCHANGED <<addressVars, confirm, popup, credits, asks, serverVars, givenUp>>
  /\ Note

\* Mutant: the push is remembered after the entry was popped.
ClosePushed == popping' = popping + 1 /\ UNCHANGED <<history, page, asks>>

\* closeReport, where the wizard pushed the entry.
Pop ==
  /\ popping' = popping + 1
  /\ page' = [page EXCEPT !.reportUrlPushed = FALSE]
  /\ UNCHANGED <<history, asks>>

\* closeReport; removing the parameter where there is none is ignored.
CloseReport ==
  /\ Gesture /\ page.showReportDialog /\ ~Modal
  /\ IF page.reportUrlPushed THEN Pop
     ELSE IF Url = None THEN UNCHANGED <<history, popping, page, asks>>
     ELSE /\ history' = [history EXCEPT ![pos] = None]
          /\ Arrive(page, None, Nobody)
          /\ UNCHANGED popping
  /\ UNCHANGED <<pos, loading, lastName, confirm, popup, credits, calls, serverVars, givenUp>>
  /\ Note

\* The tab goes to another of its entries.
Travel(to) ==
  /\ pos' = to
  /\ IF history[to] = Url THEN UNCHANGED <<page, asks>> ELSE Arrive(page, history[to], Nobody)
  /\ UNCHANGED <<history, loading, lastName, confirm, popup, credits, calls, serverVars, givenUp>>

\* The browser's own buttons: it takes the traversals in order.
BackOrForward ==
  /\ Gesture /\ popping = 0
  /\ \E to \in {pos - 1, pos + 1} : to \in DOMAIN history /\ Travel(to)
  /\ UNCHANGED popping
  /\ Note

\* location.back() is done, and may leave the site.
PopState ==
  /\ OnSite /\ popping > 0
  /\ popping' = popping - 1
  /\ IF pos > 1 THEN Travel(pos - 1)
     ELSE /\ pos' = 0
          /\ UNCHANGED <<history, page, loading, lastName, confirm, popup, credits, asks, calls,
                         serverVars, givenUp>>
  /\ UNCHANGED gestures
  /\ Note

GiveUp(name) == givenUp' = [givenUp EXCEPT ![name] = @ + 1]

\* The page is loaded again: the component starts from the address.
Reload ==
  /\ Gesture
  /\ popping' = 0 /\ loading' = FALSE /\ lastName' = None /\ confirm' = FALSE /\ popup' = FALSE
  /\ page' = SyncReportFromUrl(Blank, Url)
  /\ asks' = [a \in Asks |-> IF a = <<"into", Url>> THEN 1 ELSE 0]
  /\ credits' = serverBalance
  /\ calls' = [i \in DOMAIN calls |-> [calls[i] EXCEPT !.awaited = FALSE]]
  /\ IF Awaited = {} THEN UNCHANGED givenUp ELSE \E i \in Awaited : GiveUp(calls[i].name)
  /\ UNCHANGED <<history, pos, serverVars>>
  /\ Note

----------------------------------------------------------------------------
(* Answers. *)

\* loadReportInto's: the report, or nothing, and the page is raised.
IntoAnswered(name) ==
  LET a == <<"into", name>> IN
  /\ OnSite /\ asks[a] > 0
  /\ asks' = [asks EXCEPT ![a] = @ - 1]
  /\ \/ /\ name \in bought
        /\ page' = [page EXCEPT !.brandReport = name, !.showReportDialog = TRUE]
     \/ page' = [page EXCEPT !.showReportDialog = TRUE]
  /\ UNCHANGED <<addressVars, loading, lastName, confirm, popup, credits, calls, serverVars, givenUp, gestures>>
  /\ Note

\* askBrandReport's: the report is displayed, or a purchase is proposed.
AskAnswered(name) ==
  LET a == <<"ask", name>> IN
  /\ OnSite /\ asks[a] > 0
  /\ \/ /\ name \in bought
        /\ ShowReport([page EXCEPT !.brandReport = name], name, a)
        /\ UNCHANGED confirm
     \/ /\ confirm' = TRUE
        /\ asks' = [asks EXCEPT ![a] = @ - 1]
        /\ UNCHANGED <<history, pos, page>>
  /\ UNCHANGED <<popping, loading, lastName, popup, credits, calls, serverVars, givenUp, gestures>>
  /\ Note

\* generateBrandReport's, to a client that still waits.
FullAnswered(i) ==
  /\ OnSite /\ i \in Awaited /\ calls[i].stage \in {"report", "refused", "failed"}
  /\ calls' = [calls EXCEPT ![i].awaited = FALSE]
  /\ loading' = FALSE
  /\ IF calls[i].stage = "report"
     THEN /\ page' = [page EXCEPT !.brandReport = calls[i].name]
          /\ credits' = serverBalance
     ELSE page' = [page EXCEPT !.brandReportError = TRUE] /\ UNCHANGED credits
  /\ UNCHANGED <<addressVars, lastName, confirm, popup, asks, serverVars, givenUp, gestures>>
  /\ Note

\* After 90 s the client gives up; the server does not know.
FullTimesOut(i) ==
  /\ OnSite /\ i \in Awaited
  /\ calls' = [calls EXCEPT ![i].awaited = FALSE]
  /\ loading' = FALSE
  /\ page' = [page EXCEPT !.brandReportError = TRUE]
  /\ GiveUp(calls[i].name)
  /\ UNCHANGED <<addressVars, lastName, confirm, popup, credits, asks, serverVars, gestures>>
  /\ Note

----------------------------------------------------------------------------
(* The server, in what the page can tell apart of BrandReport. *)

\* Mutant: the store is not looked at.
FindNothing(i) ==
  /\ calls[i].stage = "sent"
  /\ calls' = [calls EXCEPT ![i].stage = IF serverBalance > 0 THEN "generating" ELSE "refused"]

\* The stored report is given back; another is generated if it can be paid.
FullFind(i) ==
  /\ calls[i].stage = "sent"
  /\ calls' = [calls EXCEPT ![i].stage = IF calls[i].name \in bought THEN "report"
                                         ELSE IF serverBalance > 0 THEN "generating" ELSE "refused"]

\* Debited and stored once it is generated.
FullDebit(i) ==
  /\ calls[i].stage = "generating"
  /\ serverBalance > 0
  /\ serverBalance' = serverBalance - 1
  /\ debited' = [debited EXCEPT ![calls[i].name] = @ + 1]
  /\ bought' = bought \union {calls[i].name}
  /\ calls' = [calls EXCEPT ![i].stage = "report"]

FullRefuse(i) ==
  /\ calls[i].stage = "generating"
  /\ serverBalance = 0
  /\ calls' = [calls EXCEPT ![i].stage = "refused"]

\* A failure costs nothing.
FullFail(i) ==
  /\ calls[i].stage \in {"sent", "generating"}
  /\ calls' = [calls EXCEPT ![i].stage = "failed"]

Server(i) ==
  /\ \/ FullDebit(i)
     \/ (FullFind(i) \/ FullRefuse(i) \/ FullFail(i)) /\ UNCHANGED serverVars
  /\ UNCHANGED <<addressVars, page, loading, lastName, confirm, popup, credits, asks, givenUp, gestures>>
  /\ Note

----------------------------------------------------------------------------
\* The tab opens on the list, or on the address of a report, or of
\* the sample.
DialogInit ==
  /\ \E url \in Addresses :
       /\ history = <<url>>
       /\ page = SyncReportFromUrl(Blank, url)
       /\ asks = [a \in Asks |-> IF a = <<"into", url>> THEN 1 ELSE 0]
  /\ pos = 1 /\ popping = 0 /\ loading = FALSE /\ lastName = None
  /\ confirm = FALSE /\ popup = FALSE
  /\ bought \in SUBSET Names
  /\ serverBalance = Balance /\ credits = Balance
  /\ calls = <<>>
  /\ debited = [n \in Names |-> 0] /\ givenUp = [n \in Names |-> 0]
  /\ strayed = FALSE /\ misjudged = FALSE /\ gestures = 0

DialogNext ==
  \/ \E name \in Names : \/ OpenFullReport(name) \/ AskBrandReport(name)
                         \/ IntoAnswered(name) \/ AskAnswered(name)
  \/ ShowSampleReport \/ CancelConfirm \/ ConfirmBrandReport \/ RejectPopup \/ LaunchBrandReport
  \/ RetryBrandReport \/ CloseReport \/ BackOrForward \/ PopState \/ Reload
  \/ \E i \in DOMAIN calls : FullAnswered(i) \/ FullTimesOut(i) \/ Server(i)

DialogSpec == DialogInit /\ [][DialogNext]_dialogVars

----------------------------------------------------------------------------
\* The page is of one name: the address, the heading and the report agree,
\* wherever the user went -- as long as no report is awaited for a name that is
\* no longer displayed, and none was shown at the address it was at already:
\* the wizard takes an answer, and the name it preloaded, without a look at
\* what is on the screen.
OneNameOnThePage ==
  OnSite /\ page.showReportDialog /\ ~strayed =>
    /\ Url # None => page.brandReportName = NameAt(Url)
    /\ page.brandReport # None => page.brandReport = page.brandReportName

\* "Retour" never leaves the site, whether the visitor came by the list or by a
\* report (closeReport, lines 858 to 879), however often it is pressed and
\* wherever the browser's own buttons lead in between -- but in two cases where
\* the wizard takes for its own the entry the visitor came by: a report bought or
\* opened at the address one is at, where nothing is pushed, and a return by the
\* browser from a report it did push.  "Sur une arrivée directe [...] pour ne pas
\* sortir du site" (lines 862 to 864) is not so in those.
ButtonStaysOnSite == ~misjudged => OnSite

\* A name is paid once, and once more at most for each time the client stopped
\* waiting for it: the retry of a purchase the server goes on with is a second
\* purchase (retryBrandReport, lines 1375 to 1378), although its comment says "sans
\* re-débit".
PaidOnceUnlessGivenUp == \A n \in Names : debited[n] <= 1 + givenUp[n]

\* "showReportDialog ne se lève et ne retombe que par [l'URL]" (lines 824 and
\* 825): no report on the screen without its address.
ShownIsAddressed == OnSite /\ page.showReportDialog => Url # None
=============================================================================
