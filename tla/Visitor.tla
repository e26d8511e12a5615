------------------------------ MODULE Visitor ------------------------------
(***************************************************************************)
(* A visitor's pages: the consent (cookie-consent.ts), the recorder of     *)
(* sessions (session-replay.ts) and what they send to Replay and Funnel.   *)
(*                                                                         *)
(* The choice is a cookie all tabs share; each page has its own copy of    *)
(* it, which the recorder hears of in a later task (an effect).  The       *)
(* number of the segment and the identifier of the visit live in the       *)
(* storage of the tab, which a duplicated tab starts with.                 *)
(***************************************************************************)
EXTENDS Replay

CONSTANTS
  EVENEMENTS_PAR_LOT,
  MaxInFlight,      \* bound: batches sent and not answered
  Budgets           \* bounds: how many calls, incidents, events and gestures a behaviour has

VARIABLES
  cookie,        \* the category "replay" is accepted
  page,          \* of each tab, None: not opened
  visit, stored, \* sessionStorage: nm_sid, nm_replay_seg
  loads,         \* pages the tab has loaded
  events, gestures,   \* bounds: events to record, gestures of the visitor still to come
  copied,        \* history: visits of which a tab was duplicated
  failed         \* history: tabs in which the library could not be loaded

vars == <<funnelVars, replayVars, cookie, page, visit, stored, loads, events, gestures, copied, failed>>

Page == [granted : BOOLEAN, effect : BOOLEAN, sousAdmin : BOOLEAN, refuse : BOOLEAN,
         arreter : BOOLEAN, demarrage : BOOLEAN, tampon : Nat, segment : Nat, seq : Nat]

ASSUME VisitorAssumption ==
  /\ None \notin Page /\ None \notin Visits
  /\ EVENEMENTS_PAR_LOT \in Nat /\ MaxInFlight \in Nat
  /\ Budgets \subseteq [calls : Nat, incidents : Nat, events : Nat, gestures : Nat]

TypeOK ==
  /\ FunnelTypeOK /\ ReplayTypeOK
  /\ cookie \in BOOLEAN /\ page \in [Tabs -> Page \union {None}]
  /\ visit \in [Tabs -> Visits \union {None}] /\ stored \in [Tabs -> Nat] /\ loads \in [Tabs -> Nat]
  /\ copied \subseteq Visits /\ failed \subseteq Tabs

\* installer: the effect of the signal is scheduled as soon as the role of the user is known.
Fresh == [granted |-> cookie, effect |-> TRUE, sousAdmin |-> FALSE, refuse |-> FALSE,
          arreter |-> FALSE, demarrage |-> FALSE, tampon |-> 0, segment |-> 0, seq |-> 0]

Init ==
  /\ FunnelInit /\ ReplayInit
  /\ cookie \in BOOLEAN /\ page = [t \in Tabs |-> None] /\ visit = [t \in Tabs |-> None]
  /\ stored = [t \in Tabs |-> 0] /\ loads = [t \in Tabs |-> 0]
  /\ \E b \in Budgets :
       calls = b.calls /\ incidents = b.incidents /\ events = b.events /\ gestures = b.gestures
  /\ copied = {} /\ failed = {}

Opened(t) == page[t] # None
Allowed(p) == p.granted /\ ~p.refuse /\ ~p.sousAdmin
Gesture == gestures > 0 /\ gestures' = gestures - 1

(* What the recorder does to its page, and the batch that leaves. *)

\* envoyer
Sends(p) == p.tampon > 0 /\ ~p.refuse
Envoyer(p) == IF Sends(p) THEN [p EXCEPT !.tampon = 0, !.seq = @ + 1] ELSE p
Batch(t, p) ==
  IF Sends(p)
  THEN {[v |-> visit[t], segment |-> p.segment, seq |-> p.seq, to |-> t, page |-> <<t, loads[t]>>,
         st |-> "sent", deja |-> 0, added |-> FALSE]}
  ELSE {}

\* stopper(envoyerLeReste): the buffer is dropped, sent before or not.
Stopper(p, reste) == [p EXCEPT !.arreter = FALSE, !.tampon = 0, !.seq = IF reste /\ Sends(p) THEN @ + 1 ELSE @]

\* evaluer
Stops(p) == ~Allowed(p) /\ (p.arreter \/ p.demarrage)
Evaluer(p) ==
  CASE Allowed(p) /\ ~p.arreter /\ ~p.demarrage -> [p EXCEPT !.demarrage = TRUE]
    [] Stops(p)                                 -> Stopper(p, p.granted /\ ~p.refuse)
    [] OTHER                                    -> p
Remainder(t, p) == IF Stops(p) /\ p.granted THEN Batch(t, p) ELSE {}

Put(t, p) == page' = [page EXCEPT ![t] = p]
Leaves(S) == net' = net \union S /\ Cardinality(net') <= MaxInFlight
Server == UNCHANGED <<funnelVars, chunks, connues, totaux, jour, totalDuJour, today, crossed, incidents>>
Browser == UNCHANGED <<cookie, page, visit, stored, loads, events, gestures, copied, failed>>

(* The visitor. *)

OpenTab(t) ==
  /\ page[t] = None /\ Gesture /\ Put(t, Fresh) /\ loads' = [loads EXCEPT ![t] = 1]
  /\ \E v \in Visits : ~Begun(v) /\ visit' = [visit EXCEPT ![t] = v] /\ Begin(v)
  /\ UNCHANGED <<replayVars, comptes, row, ecrites, ecritures, calls, lien, ratees, cookie, stored, events, copied, failed>>

\* The browser gives the new tab a copy of sessionStorage.
Duplicate(t, u) ==
  /\ Opened(t) /\ page[u] = None /\ Gesture /\ Put(u, Fresh) /\ loads' = [loads EXCEPT ![u] = 1]
  /\ visit' = [visit EXCEPT ![u] = visit[t]] /\ stored' = [stored EXCEPT ![u] = stored[t]]
  /\ copied' = copied \union {visit[t]} /\ UNCHANGED failed
  /\ Server /\ UNCHANGED <<net, cookie, events>>

\* pagehide, then a new page in the tab (a login, for one): nobody waits for the answers any more.
Reload(t) ==
  /\ Opened(t) /\ Gesture /\ Put(t, Fresh) /\ loads' = [loads EXCEPT ![t] = @ + 1]
  /\ net' = {IF m.to = t THEN [m EXCEPT !.to = None] ELSE m : m \in net}
            \union {[m EXCEPT !.to = None] : m \in Batch(t, page[t])}
  /\ Server /\ UNCHANGED <<cookie, visit, stored, events, copied, failed>>

\* appliquer: the cookie and the signal of this page.
Choisir(t) ==
  /\ Opened(t) /\ Gesture /\ cookie' = ~page[t].granted
  /\ Put(t, [page[t] EXCEPT !.granted = ~@, !.effect = TRUE])
  /\ Server /\ UNCHANGED <<net, visit, stored, loads, events, copied, failed>>

\* NavigationStart, under /admin or out of it.
Naviguer(t) ==
  LET p == [page[t] EXCEPT !.sousAdmin = ~@] IN
  /\ Opened(t) /\ Gesture /\ Put(t, Evaluer(p)) /\ Leaves(Remainder(t, p))
  /\ Server /\ UNCHANGED <<cookie, visit, stored, loads, events, copied, failed>>

(* The recorder. *)

Effet(t) ==
  LET p == [page[t] EXCEPT !.effect = FALSE] IN
  /\ Opened(t) /\ page[t].effect /\ Put(t, Evaluer(p)) /\ Leaves(Remainder(t, p))
  /\ Server /\ UNCHANGED <<cookie, visit, stored, loads, events, gestures, copied, failed>>

\* Mutant: the segment is read back and not advanced.
ProchainRelu(t) == IF stored[t] = 0 THEN 1 ELSE stored[t]

\* prochainSegment: here the number of segments the tab has begun.
Prochain(t) == stored[t] + 1

\* Mutant: the conditions are not read again after the load.
DemarrerSansRelire(t) ==
  LET r == [page[t] EXCEPT !.demarrage = FALSE, !.arreter = TRUE, !.segment = Prochain(t), !.seq = 0, !.tampon = 1] IN
  /\ Opened(t) /\ page[t].demarrage
  /\ stored' = [stored EXCEPT ![t] = Prochain(t)] /\ Put(t, Envoyer(r)) /\ Leaves(Batch(t, r))
  /\ Server /\ UNCHANGED <<cookie, visit, loads, events, gestures, copied, failed>>

\* demarrer, once rrweb is there: the conditions may have changed.  The first snapshot leaves at once.
Demarrer(t) ==
  LET p == [page[t] EXCEPT !.demarrage = FALSE]
      r == [p EXCEPT !.arreter = TRUE, !.segment = Prochain(t), !.seq = 0, !.tampon = 1] IN
  /\ Opened(t) /\ page[t].demarrage
  /\ IF Allowed(p)
     THEN /\ stored' = [stored EXCEPT ![t] = Prochain(t)]
          /\ Put(t, Envoyer(r)) /\ Leaves(Batch(t, r))
     ELSE Put(t, p) /\ UNCHANGED <<stored, net>>
  /\ Server /\ UNCHANGED <<cookie, visit, loads, events, gestures, copied, failed>>

\* rrweb could not be loaded.
DemarrerEchoue(t) ==
  /\ Opened(t) /\ page[t].demarrage /\ Gesture /\ Put(t, [page[t] EXCEPT !.demarrage = FALSE])
  /\ Server /\ UNCHANGED <<net, cookie, visit, stored, loads, events, copied>> /\ failed' = failed \union {t}

\* emit: a full snapshot or a full buffer leaves at once.
Emettre(t, snapshot) ==
  LET p == [page[t] EXCEPT !.tampon = @ + 1] IN
  /\ Opened(t) /\ page[t].arreter /\ events > 0 /\ events' = events - 1
  /\ IF snapshot \/ p.tampon >= EVENEMENTS_PAR_LOT
     THEN Put(t, Envoyer(p)) /\ Leaves(Batch(t, p))
     ELSE Put(t, p) /\ UNCHANGED net
  /\ Server /\ UNCHANGED <<cookie, visit, stored, loads, gestures, copied, failed>>

\* The interval, or the page is hidden.
Tic(t) ==
  /\ Opened(t) /\ Sends(page[t]) /\ Put(t, Envoyer(page[t])) /\ Leaves(Batch(t, page[t]))
  /\ Server /\ UNCHANGED <<cookie, visit, stored, loads, events, gestures, copied, failed>>

\* abandonner: refused with a 4xx, the page gives up.
Reponse(m) ==
  /\ m \in net /\ m.st \in {"2xx", "4xx"} /\ Received(m)
  /\ IF m.to # None /\ m.st = "4xx"
     THEN Put(m.to, Stopper([page[m.to] EXCEPT !.refuse = TRUE], FALSE))
     ELSE UNCHANGED page
  /\ Server /\ UNCHANGED <<cookie, visit, stored, loads, events, gestures, copied, failed>>

\* The network loses a batch; it is not sent again.
Perdre(m) ==
  /\ m \in net /\ m.st = "sent" /\ Received(m) /\ Server /\ Browser

Incidents ==
  \/ (Purger \/ ViderTotaux \/ Minuit) /\ UNCHANGED funnelVars /\ Browser
  \/ Redemarrer /\ Forget /\ Lose /\ Browser
     /\ UNCHANGED <<comptes, row, calls, lien, before>>

Visiting ==
  \/ \E t \in Tabs : OpenTab(t) \/ Reload(t) \/ Choisir(t) \/ Naviguer(t) \/ \E u \in Tabs : Duplicate(t, u)
Recording ==
  \/ \E t \in Tabs : Effet(t) \/ Demarrer(t) \/ DemarrerEchoue(t) \/ Tic(t) \/ \E b \in BOOLEAN : Emettre(t, b)
  \/ \E m \in net : Reponse(m) \/ Perdre(m)
Receiving ==
  /\ \E m \in net : Recevoir(m) \/ Sommer(m) \/ Somme(m) \/ Inserer(m) \/ InsererEchoue(m) \/ Compter(m)
  /\ UNCHANGED funnelVars /\ Browser
Counting == FunnelNext /\ UNCHANGED replayVars /\ Browser

Next == Visiting \/ Recording \/ Receiving \/ Counting \/ Incidents

Spec == Init /\ [][Next]_vars

----------------------------------------------------------------------------
\* A page records, or keeps what it recorded, only while the visitor accepts it, the page is
\* not under /admin and the server has not refused this page; and a page that may record
\* does, once the effects and the loads are through, unless a load of the library failed.
\* Between a choice and its effect the recorder has not heard of it (evaluer, demarrer,
\* stopper, abandonner).
\* "Pour la visite", as session-replay.ts says of a refusal in lines 50, 79 and 230, is not
\* so: the refusal is a field of the page, and the next page of the visit has not heard of it.
RecorderFollowsTheChoice ==
  \A t \in Tabs : Opened(t) =>
    LET p == page[t] IN
    /\ (p.arreter \/ p.tampon > 0) => (Allowed(p) \/ p.effect)
    /\ (Allowed(p) /\ ~p.effect /\ ~p.demarrage) => (p.arreter \/ t \in failed)

\* The batches of a segment come from one page, and no batch answered with a success is
\* dropped as a double: sessionStorage numbers the segments of a visit without a gap in
\* memory between two pages, unless a tab was duplicated.
SegmentIsOnePage ==
  \A v \in Visits \ copied : Of(v) # {} =>
    /\ \A g \in DOMAIN Lire(v) : \A c, d \in Lire(v)[g] : c.page = d.page
    /\ \A c \in Of(v), m \in net :
         m.st \in {"sent", "insert"} => <<m.v, m.segment, m.seq>> # <<c.v, c.segment, c.seq>>
=============================================================================
