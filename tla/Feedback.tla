------------------------------ MODULE Feedback ------------------------------
(***************************************************************************)
(* Requests for feedback and what comes back (demande-de-retour.service,   *)
(* admin-mail.service, retours.service, feedback.service).                 *)
(*                                                                         *)
(* An hourly passage selects accounts, then reserves, mails and notes them *)
(* one by one; the administrator writes to an account by hand; the account *)
(* unsubscribes, or sends a feedback the administrator rewards, rejects or *)
(* deletes.  Any of its other requests (a visit above all) saves the whole *)
(* row of the account as it read it: `repo.save` SELECTs the row, then     *)
(* UPDATEs the columns in which what it holds differs from that SELECT     *)
(* (see Accounts).  The server may stop between any two steps.  Accounts   *)
(* are numbered in the order of their creation.                            *)
(***************************************************************************)
EXTENDS Naturals, FiniteSets

CONSTANTS
  Users,        \* eligible by configuration: an address, not internal, created since the launch
  LOT_MAX,
  Feedbacks,    \* bound: the rows of the table feedback
  MaxStops, MaxClicks,  \* bounds: stops of the server, gestures of the administrator
  MaxVisits             \* bound: saves of whole rows

ASSUME FeedbackAssumption == Users \subseteq Nat \ {0} /\ LOT_MAX \in Nat \ {0} /\ Feedbacks \subseteq Nat

VARIABLES
  aged,        \* created more than 24 hours ago
  demande,     \* demandeRetourAt is set
  desinscrit,  \* desinscritRetoursAt is set
  delivered,   \* a row of admin_mail with delivered = 1
  enCours,     \* a passage is running
  lot,         \* accounts it has selected and not yet come to
  current,     \* the account it is busy with, 0: none
  step,
  writing,     \* manual mails between the check and the sending
  feedback,    \* rows of the table: [who, awarded, rejected]
  requests,    \* awards, rejections and deletions in flight
  clicks, stops,
  visits,      \* whole-row saves under way: what each read, and what its SELECT found
  visited,     \* how many there were
  asked,       \* history: automatic mails that left, by account
  late,        \* history: accounts that unsubscribed after they were selected or checked
  erased,      \* history: reservations a save took away before a delivered mail was noted
  payments,     \* history: how often a feedback was paid
  crossed      \* history: feedbacks two requests worked on at once, or one failed half-way

mailVars == <<aged, demande, desinscrit, delivered, enCours, lot, current, step, writing, asked, late>>
visitVars == <<visits, visited, erased>>
feedbackVars == <<feedback, requests, payments, crossed>>
feedbackRequestVars == <<mailVars, visitVars, feedbackVars, clicks, stops>>

Row == [who : Users \union {0}, awarded : BOOLEAN, rejected : BOOLEAN]   \* who = 0: anonymous
Dates == [demande : BOOLEAN, desinscrit : BOOLEAN]
Visit == [who : Users, n : Nat, saving : BOOLEAN, held : Dates, found : Dates]

FeedbackTypeOK ==
  /\ \A us \in {aged, demande, desinscrit, delivered, lot, writing, late} : us \subseteq Users
  /\ enCours \in BOOLEAN /\ current \in Users \union {0} /\ step \in {"none", "reserve", "send", "note"}
  /\ DOMAIN feedback \subseteq Feedbacks /\ \A f \in DOMAIN feedback : feedback[f] \in Row
  /\ requests \subseteq [f : Feedbacks, op : {"award", "mark", "reject", "delete"}, row : Row, n : Nat]
  /\ visits \subseteq Visit /\ visited \in Nat
  /\ asked \in [Users -> Nat] /\ erased \in [Users -> Nat] /\ payments \in [Feedbacks -> Nat]

FeedbackInit ==
  /\ aged = {} /\ demande = {} /\ desinscrit = {} /\ delivered = {}
  /\ enCours = FALSE /\ lot = {} /\ current = 0 /\ step = "none" /\ writing = {}
  /\ feedback = [f \in {} |-> 0] /\ requests = {}
  /\ clicks = 0 /\ stops = 0
  /\ visits = {} /\ visited = 0
  /\ asked = [u \in Users |-> 0] /\ late = {} /\ erased = [u \in Users |-> 0]
  /\ payments = [f \in Feedbacks |-> 0] /\ crossed = {}

Click == clicks < MaxClicks /\ clicks' = clicks + 1
Same == UNCHANGED <<visitVars, clicks, stops>>

----------------------------------------------------------------------------
(* The passage. *)

Day(u) ==
  /\ u \in Users \ aged /\ aged' = aged \union {u}
  /\ Same /\ UNCHANGED <<feedbackVars, demande, desinscrit, delivered, enCours, lot, current, step, writing, asked, late>>

Wrote(u) == \E f \in DOMAIN feedback : feedback[f].who = u

\* eligibles: never asked, by machine or by hand, no feedback, not unsubscribed.
Eligible(u) ==
  u \in aged /\ u \notin demande /\ u \notin desinscrit /\ u \notin delivered /\ ~Wrote(u)

\* The oldest first, LOT_MAX at most.
Selected ==
  {u \in Users : Eligible(u) /\ Cardinality({v \in Users : Eligible(v) /\ v < u}) < LOT_MAX}

\* passage, when the timer fires and no other passage runs.
Passage ==
  /\ ~enCours /\ Selected # {}
  /\ enCours' = TRUE /\ lot' = Selected
  /\ late' = late \ Selected
  /\ Same /\ UNCHANGED <<feedbackVars, aged, demande, desinscrit, delivered, current, step, writing, asked>>

\* The next account of the lot, or the end.
Advance ==
  /\ enCours /\ current = 0
  /\ IF lot = {} THEN enCours' = FALSE /\ UNCHANGED <<lot, current, step>>
     ELSE \E u \in lot :
            /\ \A v \in lot : u <= v
            /\ lot' = lot \ {u} /\ current' = u /\ step' = "reserve" /\ UNCHANGED enCours
  /\ Same /\ UNCHANGED <<feedbackVars, aged, demande, desinscrit, delivered, writing, asked, late>>

Finished == current' = 0 /\ step' = "none"

\* Mutant: the mail leaves without a reservation.
ReserveNothing == step' = "send" /\ UNCHANGED <<current, demande>>

\* The reservation: UPDATE ... WHERE demandeRetourAt IS NULL.
Reserve ==
  IF current \in demande THEN Finished /\ UNCHANGED demande
  ELSE demande' = demande \union {current} /\ step' = "send" /\ UNCHANGED current

Reserved ==
  /\ step = "reserve"
  /\ Reserve
  /\ Same /\ UNCHANGED <<feedbackVars, aged, desinscrit, delivered, enCours, lot, writing, asked, late>>

\* mail.send: it leaves, or it fails and nothing is tried again.
Sent ==
  /\ step = "send"
  /\ \E ok \in BOOLEAN :
       /\ asked' = IF ok THEN [asked EXCEPT ![current] = @ + 1] ELSE asked
       /\ step' = IF ok THEN "note" ELSE "none"
       /\ current' = IF ok THEN current ELSE 0
  /\ Same /\ UNCHANGED <<feedbackVars, aged, demande, desinscrit, delivered, enCours, lot, writing, late>>

\* The trace in admin_mail; its failure is only logged.
Noted ==
  /\ step = "note" /\ Finished
  /\ delivered' \in {delivered, delivered \union {current}}
  /\ Same /\ UNCHANGED <<feedbackVars, aged, demande, desinscrit, enCours, lot, writing, asked, late>>

\* Mutant: the flag stays.
PassageFailsForGood ==
  /\ step = "reserve"
  /\ step' = "none" /\ lot' = {} /\ UNCHANGED <<enCours, current>>
  /\ stops < MaxStops /\ stops' = stops + 1 /\ UNCHANGED <<visitVars, clicks>>
  /\ UNCHANGED <<feedbackVars, aged, demande, desinscrit, delivered, writing, asked, late>>

\* A statement fails: the rest of the lot waits for the next passage.
PassageFails ==
  /\ step = "reserve"
  /\ Finished /\ enCours' = FALSE /\ lot' = {}
  /\ stops < MaxStops /\ stops' = stops + 1 /\ UNCHANGED <<visitVars, clicks>>
  /\ UNCHANGED <<feedbackVars, aged, demande, desinscrit, delivered, writing, asked, late>>

\* The server stops, with whatever was under way.
Stop ==
  /\ stops < MaxStops /\ stops' = stops + 1 /\ UNCHANGED <<visited, erased, clicks>>
  /\ Finished /\ enCours' = FALSE /\ lot' = {} /\ writing' = {} /\ visits' = {}
  /\ requests' = {} /\ crossed' = crossed \union {r.f : r \in {q \in requests : q.op = "mark"}}
  /\ UNCHANGED <<feedback, payments, aged, demande, desinscrit, delivered, asked, late>>

----------------------------------------------------------------------------
(* Mails by hand and answers. *)

\* Mutant: to any account.
WriteToAll(u) ==
  /\ Click
  /\ writing' = writing \union {u}
  /\ UNCHANGED <<stops, visitVars, feedbackVars, aged, demande, desinscrit, delivered, enCours, lot, current, step, asked, late>>

\* AdminMailService.envoyer: not to an account that unsubscribed.
Write(u) ==
  /\ Click /\ u \notin desinscrit
  /\ writing' = writing \union {u}
  /\ UNCHANGED <<stops, visitVars, feedbackVars, aged, demande, desinscrit, delivered, enCours, lot, current, step, asked, late>>

WrittenByHand(u) ==
  /\ u \in writing /\ writing' = writing \ {u}
  /\ delivered' \in {delivered, delivered \union {u}}
  /\ Same /\ UNCHANGED <<feedbackVars, aged, demande, desinscrit, enCours, lot, current, step, asked, late>>

MailsToCome == writing \union lot \union {current}

\* desinscrire: the link is in the automatic mails only (admin-mail.service.liens).
Unsubscribe(u) ==
  /\ asked[u] > 0
  /\ u \notin desinscrit /\ desinscrit' = desinscrit \union {u}
  /\ late' = late \union ({u} \cap MailsToCome)
  /\ Same /\ UNCHANGED <<feedbackVars, aged, demande, delivered, enCours, lot, current, step, writing, asked>>

----------------------------------------------------------------------------
(* Saves of the whole row (users.service.findOrCreateDetaille, and the     *)
(* grants and flags that read the row and save it).                        *)

DatesOf(u) == [demande |-> u \in demande, desinscrit |-> u \in desinscrit]

VisitReads(u) ==
  /\ visited < MaxVisits /\ visited' = visited + 1
  /\ visits' = visits \union
       {[who |-> u, n |-> visited, saving |-> FALSE, held |-> DatesOf(u), found |-> DatesOf(u)]}
  /\ UNCHANGED <<mailVars, feedbackVars, erased, clicks, stops>>

\* save, first statement.
VisitSelects(v) ==
  /\ v \in visits /\ ~v.saving
  /\ visits' = (visits \ {v}) \union {[v EXCEPT !.saving = TRUE, !.found = DatesOf(v.who)]}
  /\ UNCHANGED <<mailVars, feedbackVars, visited, erased, clicks, stops>>

\* A date is written when it differs from the one found: with a value, or with NULL.
WithDate(accounts, u, held, found) ==
  IF held = found THEN accounts ELSE IF held THEN accounts \union {u} ELSE accounts \ {u}

\* save, second statement.
VisitSaves(v) ==
  /\ v \in visits /\ v.saving /\ visits' = visits \ {v}
  /\ demande' = WithDate(demande, v.who, v.held.demande, v.found.demande)
  /\ desinscrit' = WithDate(desinscrit, v.who, v.held.desinscrit, v.found.desinscrit)
  /\ late' = late \union ((desinscrit' \ desinscrit) \cap MailsToCome)
  /\ erased' = [u \in Users |-> IF u \in (demande \ demande') \ delivered THEN erased[u] + 1 ELSE erased[u]]
  /\ UNCHANGED <<feedbackVars, aged, delivered, enCours, lot, current, step, writing, asked, visited, clicks, stops>>

----------------------------------------------------------------------------
(* Feedbacks. *)

Put(f, row) == [x \in DOMAIN feedback \union {f} |-> IF x = f THEN row ELSE feedback[x]]

\* submit (with or without an account), recordEmailReply.
Submit(u) ==
  /\ \E f \in Feedbacks \ DOMAIN feedback :
       /\ payments[f] = 0 /\ (\A g \in Feedbacks \ DOMAIN feedback : f <= g)   \* bound: a number is used once
       /\ f \notin crossed
       /\ feedback' = Put(f, [who |-> u, awarded |-> FALSE, rejected |-> FALSE])
  /\ Same /\ UNCHANGED <<mailVars, requests, payments, crossed>>

Busy(f) == \E r \in requests : r.f = f

\* awardCredits, reject and delete first read the row.
Read(f, kind) ==
  /\ Click
  /\ f \in DOMAIN feedback
  /\ kind # "delete" => ~feedback[f].awarded /\ ~feedback[f].rejected
  /\ kind = "award" => feedback[f].who # 0
  /\ requests' = requests \union {[f |-> f, op |-> kind, row |-> feedback[f], n |-> clicks]}
  /\ crossed' = IF Busy(f) THEN crossed \union {f} ELSE crossed
  /\ UNCHANGED <<stops, visitVars, mailVars, feedback, payments>>

\* The credits first...
Pay(r) ==
  /\ r \in requests /\ r.op = "award"
  /\ requests' = (requests \ {r}) \union {[r EXCEPT !.op = "mark"]}
  /\ payments' = [payments EXCEPT ![r.f] = @ + 1]
  /\ Same /\ UNCHANGED <<mailVars, feedback, crossed>>

\* Mutant: the reward is not marked.
MarkedNot(r) == feedback' = Put(r.f, r.row)

\* ... and then the mark, on the row as it was read (inserted again if it is gone).
Marked(r) == feedback' = Put(r.f, [r.row EXCEPT !.awarded = TRUE])

Mark(r) ==
  /\ r \in requests /\ r.op = "mark" /\ requests' = requests \ {r}
  /\ Marked(r)
  /\ Same /\ UNCHANGED <<mailVars, payments, crossed>>

RejectOrDelete(r) ==
  /\ r \in requests /\ r.op \in {"reject", "delete"} /\ requests' = requests \ {r}
  /\ feedback' = IF r.op = "reject" THEN Put(r.f, [r.row EXCEPT !.rejected = TRUE])
                 ELSE [x \in DOMAIN feedback \ {r.f} |-> feedback[x]]
  /\ Same /\ UNCHANGED <<mailVars, payments, crossed>>

\* A statement fails.
RequestFails(r) ==
  /\ r \in requests /\ requests' = requests \ {r}
  /\ crossed' = IF r.op = "mark" THEN crossed \union {r.f} ELSE crossed
  /\ Same /\ UNCHANGED <<mailVars, feedback, payments>>

----------------------------------------------------------------------------
PassageStep == Passage \/ Advance \/ Reserved \/ Sent \/ Noted

FeedbackNext ==
  \/ PassageStep \/ PassageFails \/ Stop
  \/ \E u \in Users : Day(u) \/ Write(u) \/ WrittenByHand(u) \/ Unsubscribe(u)
  \/ \E u \in Users : VisitReads(u)
  \/ \E v \in visits : VisitSelects(v) \/ VisitSaves(v)
  \/ \E u \in Users \union {0} : Submit(u)
  \/ \E f \in Feedbacks, kind \in {"award", "reject", "delete"} : Read(f, kind)
  \/ \E r \in requests : Pay(r) \/ Mark(r) \/ RejectOrDelete(r) \/ RequestFails(r)

\* The timer fires every hour and a passage goes on while the server runs.
FeedbackSpec == FeedbackInit /\ [][FeedbackNext]_feedbackRequestVars /\ WF_feedbackRequestVars(PassageStep)

----------------------------------------------------------------------------
\* An account gets one automatic request, whatever stops, fails or crosses, and
\* one more only for a reservation that the save of an older row took away while
\* no delivered mail to it was on record (demande-de-retour.service.ts, lines 128
\* to 133; users.service.ts, line 190).  "Un seul envoi par compte", as
\* user.entity.ts says in line 76, holds as long as there is no such save.
AskedOnce == \A u \in Users : asked[u] <= 1 + erased[u]

MailLeaves(u) == asked'[u] # asked[u] \/ u \in delivered' \ delivered

\* No request for feedback leaves for an account whose row says it unsubscribed,
\* unless it was selected, or the manual mail checked, before its row said so
\* (demande-de-retour.service.ts, line 94; admin-mail.service.ts, line 682).
UnsubscribedIsHeard ==
  [][\A u \in desinscrit \ late : ~MailLeaves(u)]_feedbackRequestVars

\* A feedback is paid once if it is marked so, and not otherwise, once no request
\* is about it; unless two requests crossed or one failed after the payment
\* (feedback.service.ts, lines 48 to 57: two statements).
PaidAsMarked ==
  \A f \in DOMAIN feedback : ~Busy(f) /\ f \notin crossed
    => payments[f] = IF feedback[f].awarded THEN 1 ELSE 0

\* Whoever is eligible and stays so is asked in the end, also after a stop and
\* when the mail to another account failed.
EveryoneIsAsked == \A u \in Users : Eligible(u) ~> ~Eligible(u)

\* The hourly passage (demande-de-retour.service.ts, lines 64 to 67) asks everybody who
\* stays eligible, and nobody whose reservation stands is asked a second time.
AskedExactlyOnce == []AskedOnce /\ EveryoneIsAsked
=============================================================================
