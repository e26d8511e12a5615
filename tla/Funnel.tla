------------------------------- MODULE Funnel ------------------------------
(***************************************************************************)
(* The journal of visits (funnel.service): one row of visitor_session per  *)
(* visit, written best-effort by calls that race one another.  The beacon  *)
(* of the first page creates the row, the steps and the link to the        *)
(* account create it when the beacon was lost.  A step is noted as written *)
(* in the process before its statement runs, and a failed statement is     *)
(* swallowed.                                                              *)
(*                                                                         *)
(* Dates are only compared: a row keeps the accounts that existed when it  *)
(* was inserted, so that createdAt >= firstSeenAt is "not among them".     *)
(* loggedInAtStart, which the inserting call decides, is left out.         *)
(***************************************************************************)
EXTENDS Naturals, FiniteSets

CONSTANTS
  Visits, Accounts,
  Steps,         \* searched, reportRequested, pricingViewed, checkoutStarted
  None

VARIABLES
  comptes,       \* accounts that exist
  row,           \* visitor_session
  ecrites,       \* the steps this process takes as written, of each visit
  ecritures,     \* statements under way
  calls,         \* bound: calls of the pages still to come, beacons included
  lien,          \* history: the account whose call was noted as the link of the visit
  before,        \* history: the accounts that existed when the visit began
  ratees         \* history: statements that failed

funnelVars == <<comptes, row, ecrites, ecritures, calls, lien, before, ratees>>

Quoi == Steps \union {"visite", "lien"}
Row == [avant : SUBSET Accounts, steps : SUBSET Steps,
        compte : Accounts \union {None}, cree : BOOLEAN]
Statement == [v : Visits, quoi : Quoi, compte : Accounts \union {None}, flag : BOOLEAN]

ASSUME FunnelAssumption ==
  /\ Steps \intersect {"visite", "lien"} = {}
  /\ None \notin Accounts /\ None \notin Row /\ \A S \in SUBSET Accounts : S # None

FunnelTypeOK ==
  /\ comptes \subseteq Accounts /\ row \in [Visits -> Row \union {None}]
  /\ ecrites \subseteq Visits \X Quoi /\ ecritures \subseteq Statement
  /\ calls \in Nat

FunnelInit ==
  /\ comptes = {} /\ row = [v \in Visits |-> None]
  /\ ecrites = {} /\ ecritures = {}
  /\ lien = [v \in Visits |-> None] /\ before = [v \in Visits |-> None] /\ ratees = {}

Known(v) == row[v] # None
Begun(v) == before[v] # None
Begin(v) == before' = IF Begun(v) THEN before ELSE [before EXCEPT ![v] = comptes]

\* dejaEcrit: what was noted is not written again, and is noted before it is written.
Noter(w) ==
  IF <<w.v, w.quoi>> \in ecrites THEN UNCHANGED <<ecrites, ecritures>>
  ELSE ecrites' = ecrites \union {<<w.v, w.quoi>>} /\ ecritures' = ecritures \union {w}

Call(v) == Begun(v) /\ calls > 0 /\ calls' = calls - 1
Rest == UNCHANGED <<row, before, ratees>>

\* visite: the beacon of the first page.  It may arrive late or never.
Balise(v) ==
  /\ Call(v) /\ Noter([v |-> v, quoi |-> "visite", compte |-> None, flag |-> FALSE])
  /\ Rest /\ UNCHANGED <<comptes, lien>>

\* marquer: "tarifs" comes from a beacon without a token, the others with the account of the token.
Marquer(v, s, a) ==
  /\ Call(v) /\ a \in comptes \union {None}
  /\ Noter([v |-> v, quoi |-> s, compte |-> a, flag |-> TRUE])
  /\ Rest /\ UNCHANGED <<comptes, lien>>

\* findOrCreate, by any of the calls that start when the application opens.
AutreAppel(v, a) ==
  /\ Call(v) /\ comptes' = comptes \union {a} /\ Rest /\ UNCHANGED <<ecrites, ecritures, lien>>

\* rattacher, from GET /users/credits and /users/me, with whether this call created the account.
Rattacher(v, a) ==
  /\ Call(v) /\ comptes' = comptes \union {a}
  /\ Noter([v |-> v, quoi |-> "lien", compte |-> a, flag |-> a \notin comptes])
  /\ lien' = IF <<v, "lien">> \in ecrites THEN lien ELSE [lien EXCEPT ![v] = a]
  /\ Rest

(* The statements: INSERT ... ON DUPLICATE KEY UPDATE. *)
New(w) ==
  [avant |-> comptes, steps |-> {w.quoi} \intersect Steps, compte |-> w.compte,
   cree |-> w.quoi = "lien" /\ w.flag]

Linked(r, w) == IF r.compte = None THEN w.compte ELSE r.compte

\* Mutant: the call says whether it created the account, as the journal once did.
UpdatedByCall(r, w) ==
  CASE w.quoi = "visite" -> r
    [] w.quoi = "lien" -> [r EXCEPT !.compte = Linked(r, w), !.cree = r.cree \/ w.flag]
    [] OTHER -> [r EXCEPT !.compte = Linked(r, w), !.steps = @ \union {w.quoi}]

Updated(r, w) ==
  CASE w.quoi = "visite" -> r
    [] w.quoi = "lien" -> [r EXCEPT !.compte = Linked(r, w), !.cree = r.cree \/ w.compte \notin r.avant]
    [] OTHER -> [r EXCEPT !.compte = Linked(r, w), !.steps = @ \union {w.quoi}]

\* Mutant: REPLACE INTO instead of ON DUPLICATE KEY UPDATE.
WrittenOver(w) == row' = [row EXCEPT ![w.v] = New(w)]

Written(w) == row' = [row EXCEPT ![w.v] = IF Known(w.v) THEN Updated(row[w.v], w) ELSE New(w)]

Ecrire(w) ==
  /\ w \in ecritures /\ ecritures' = ecritures \ {w} /\ Written(w)
  /\ UNCHANGED <<comptes, ecrites, calls, lien, before, ratees>>

EcrireEchoue(w) ==
  /\ w \in ecritures /\ ecritures' = ecritures \ {w} /\ ratees' = ratees \union {<<w.v, w.quoi>>}
  /\ UNCHANGED <<comptes, row, ecrites, calls, lien, before>>

\* A new process, or more than MAX_SESSIONS visits: nothing is noted any more.
Forget == ecrites' = {}
Lose == ratees' = ratees \union {<<w.v, w.quoi>> : w \in ecritures} /\ ecritures' = {}

FunnelNext ==
  \/ \E v \in Visits : Balise(v)
  \/ \E v \in Visits, s \in Steps, a \in Accounts \union {None} : Marquer(v, s, a)
  \/ \E v \in Visits, a \in Accounts : AutreAppel(v, a) \/ Rattacher(v, a)
  \/ \E w \in ecritures : Ecrire(w) \/ EcrireEchoue(w)

----------------------------------------------------------------------------
\* Whichever call creates the account and in whatever order the calls are written, and whatever
\* other account the row already names: a visit whose row was there before the account that
\* links it is counted as a sign-up once the link is written, and a visit is only ever counted
\* if some account was created after the visit began (rattacher: "un fait date et non une course").
SignupIsDated ==
  \A v \in Visits : Known(v) =>
    /\ (lien[v] \notin row[v].avant /\ <<v, "lien">> \in ecrites
        /\ (\A w \in ecritures : <<w.v, w.quoi>> # <<v, "lien">>) /\ <<v, "lien">> \notin ratees)
         => row[v].cree
    /\ row[v].cree => \E a \in comptes : a \notin before[v]

\* What the process takes as written is in the row, is being written, or its statement failed:
\* no statement undoes what another one wrote.
NotedIsWritten ==
  \A p \in ecrites :
    \/ Known(p[1]) /\ (p[2] \in Steps => p[2] \in row[p[1]].steps)
                   /\ (p[2] = "lien" => row[p[1]].compte # None)
    \/ \E w \in ecritures : <<w.v, w.quoi>> = p
    \/ p \in ratees

\* What the journal of visits says: the sign-ups and the steps of the funnel.
JournalIsTrue == SignupIsDated /\ NotedIsWritten
=============================================================================
