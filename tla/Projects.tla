------------------------------ MODULE Projects ------------------------------
(***************************************************************************)
(* One project, its suggestions and its shares (projects.service.ts,       *)
(* project-shares.service.ts), used by its owner and by guests at once.    *)
(*                                                                         *)
(* A request reads what it may do and the rows it works on, then saves.    *)
(* TypeORM's save compares the entity read earlier with the row of then:   *)
(* every column of the entity is written where it differs, and a row that  *)
(* is gone is inserted again; a share is read without its project, which   *)
(* the table demands, and cannot be.  A project read with its suggestions  *)
(* is saved with them, and those that came since lose their project.  A    *)
(* column is modelled by the number of the request that set it, 0 at first.*)
(***************************************************************************)
EXTENDS Naturals

CONSTANTS
  Owner, Guests,
  None,
  SearchNames,   \* names a search brings
  ManualNames,   \* names added by hand
  MaxCalls       \* bound on the requests

VARIABLES
  project,    \* its columns, None: there is no such row
  rows,       \* its suggestions
  shares,
  updates, searches, adds, ratings, analyses, removals, invites,   \* requests past their reads
  accepting,  \* saves of acceptedAt nobody waits for
  calls,      \* requests made
  granted,    \* history: the owner's last word on each guest
  crossed,    \* history: shares whose right was changed while a note of their opening was in flight
  exposed,    \* history: suggestions written while a save of an older reading was in flight
  leaving     \* history: the removal was asked for; "crossed" if an update was in flight at its end

requests == <<updates, searches, adds, ratings, analyses, removals, invites>>
vars == <<project, rows, shares, requests, accepting, calls, granted, crossed, exposed, leaving>>

Users == Guests \union {Owner}
Names == SearchNames \union ManualNames
Call == 0..MaxCalls
Columns == [name : Call, brief : Call]
Share == [id : Call, perm : {"read", "write"}, accepted : BOOLEAN]
Row == [attached : BOOLEAN, rating : Call, analysis : Call]

ASSUME ProjectsAssumption ==
  /\ MaxCalls \in Nat
  /\ Owner \notin Guests /\ SearchNames \cap ManualNames = {}
  /\ None \notin Columns /\ None \notin Share

TypeOK ==
  /\ project \in Columns \union {None}
  /\ DOMAIN rows \subseteq Names /\ \A s \in DOMAIN rows : rows[s] \in Row
  /\ shares \in [Guests -> Share \union {None}]
  /\ granted \in [Guests -> {"none", "read", "write"}]
  /\ leaving \in {"no", "asked", "gone", "crossed"}

Init ==
  /\ project = [name |-> 0, brief |-> 0]
  /\ rows = [s \in {} |-> None]
  /\ shares = [g \in Guests |-> None]
  /\ updates = {} /\ searches = {} /\ adds = {} /\ ratings = {} /\ analyses = {} /\ removals = {} /\ invites = {}
  /\ accepting = {} /\ calls = 0
  /\ granted = [g \in Guests |-> "none"]
  /\ crossed = {} /\ exposed = {} /\ leaving = "no"

NewCall == calls < MaxCalls /\ calls' = calls + 1
NoCall == UNCHANGED calls

Put(f, s, r) == [x \in DOMAIN f \union {s} |-> IF x = s THEN r ELSE f[x]]

----------------------------------------------------------------------------
(* Rights. *)

\* accessFor: owner by the account, guest by the share of his address.
Role(u) ==
  IF project = None THEN "none"
  ELSE IF u = Owner THEN "owner"
  ELSE IF shares[u] = None THEN "none" ELSE shares[u].perm

MayRead(u) == Role(u) # "none"
MayWrite(u) == Role(u) \in {"owner", "write"}

\* Its side effect: the first opening is noted, by a save nobody waits for.
Noted(u) ==
  accepting' = IF u \in Guests /\ ~shares[u].accepted
               THEN accepting \union {[who |-> u, share |-> shares[u]]} ELSE accepting

\* findOne, findSharedWith: the project is opened.
Open(u) ==
  /\ NewCall /\ MayRead(u) /\ Noted(u)
  /\ UNCHANGED <<project, rows, shares, requests, granted, crossed, exposed, leaving>>

IsThere(g, share) == shares[g] # None /\ shares[g].id = share.id

SaveShare(g, share) == shares' = [shares EXCEPT ![g] = share]

\* The save of a row that is gone fails, and any save may; nobody waits for this one.
Accepted(a) ==
  /\ a \in accepting /\ accepting' = accepting \ {a}
  /\ \/ IsThere(a.who, a.share) /\ SaveShare(a.who, [a.share EXCEPT !.accepted = TRUE])
     \/ UNCHANGED shares
  /\ NoCall
  /\ UNCHANGED <<project, rows, requests, granted, crossed, exposed, leaving>>

\* invite: a first invitation makes a share, another changes the right.
InviteRead(g, perm) ==
  /\ NewCall /\ project # None
  /\ invites' = invites \union
       {[who |-> g, id |-> calls, perm |-> perm, share |-> shares[g]]}
  /\ UNCHANGED <<project, rows, shares, updates, searches, adds, ratings, analyses, removals,
                 accepting, granted, crossed, exposed, leaving>>

\* Mutant: inviting again changes nothing of the share.
InvitedKeepsRight(i) ==
  IF i.share = None THEN [id |-> i.id, perm |-> i.perm, accepted |-> FALSE] ELSE i.share

Invited(i) ==
  IF i.share = None THEN [id |-> i.id, perm |-> i.perm, accepted |-> FALSE]
  ELSE [i.share EXCEPT !.perm = i.perm]

\* A note of the opening, read before, brings another right than this one.
Crosses(a, i) ==
  a.who = i.who /\ i.share # None /\ a.share.id = i.share.id /\ a.share.perm # i.perm

\* A new share needs its project, and to be the only one of the guest (unique by
\* project and address); one read earlier must still be there.  Otherwise the
\* request fails, as it may in any case.
InviteStands(i) ==
  IF i.share = None THEN project # None /\ shares[i.who] = None ELSE IsThere(i.who, i.share)

InviteSaved(i) ==
  /\ i \in invites /\ invites' = invites \ {i}
  /\ \/ /\ InviteStands(i) /\ SaveShare(i.who, Invited(i))
        /\ granted' = [granted EXCEPT ![i.who] = i.perm]
        /\ crossed' = crossed \union {Invited(i).id : a \in {x \in accepting : Crosses(x, i)}}
     \/ UNCHANGED <<shares, granted, crossed>>
  /\ NoCall
  /\ UNCHANGED <<project, rows, updates, searches, adds, ratings, analyses, removals, accepting, exposed, leaving>>

\* revoke
Revoke(g) ==
  /\ NewCall /\ project # None /\ shares[g] # None
  /\ shares' = [shares EXCEPT ![g] = None]
  /\ granted' = [granted EXCEPT ![g] = "none"]
  /\ UNCHANGED <<project, rows, requests, accepting, crossed, exposed, leaving>>

----------------------------------------------------------------------------
(* The project's columns. *)

\* update: the project is read with its suggestions (relations), and they are
\* saved with it (cascade).
UpdateRead(u) ==
  /\ NewCall /\ MayWrite(u) /\ Noted(u)
  /\ updates' = updates \union {[columns |-> [project EXCEPT !.name = calls'],
                                 rows |-> [s \in {x \in DOMAIN rows : rows[x].attached} |-> rows[s]]]}
  /\ UNCHANGED <<project, rows, shares, searches, adds, ratings, analyses, removals, invites,
                 granted, crossed, exposed, leaving>>

UpdateSaved(c) ==
  /\ c \in updates /\ updates' = updates \ {c}
  /\ project' = c.columns
  /\ rows' = [s \in DOMAIN rows \union DOMAIN c.rows |->
                IF s \in DOMAIN c.rows THEN c.rows[s] ELSE [rows[s] EXCEPT !.attached = FALSE]]
  /\ NoCall
  /\ UNCHANGED <<shares, searches, adds, ratings, analyses, removals, invites, accepting, granted, crossed,
                 exposed, leaving>>

\* createOrUpdate and addSuggestions, at the end of a search: the right first.
SearchRead(u) ==
  /\ NewCall /\ MayWrite(u) /\ Noted(u)
  /\ searches' = searches \union {calls'}
  /\ UNCHANGED <<project, rows, shares, updates, adds, ratings, analyses, removals, invites,
                 granted, crossed, exposed, leaving>>

NewRow == [attached |-> TRUE, rating |-> 0, analysis |-> 0]

\* A suggestion is written; a project or a row read earlier may be about to be saved.
Written(s, row) ==
  /\ rows' = Put(rows, s, row)
  /\ exposed' = IF updates # {} \/ (\E r \in ratings' : r.name = s) THEN exposed \union {s} ELSE exposed

Inserted(s) == Written(s, NewRow)

\* Mutant: a project that is gone is made again.
StoresAgain(c, s) ==
  /\ project' = IF project = None THEN [name |-> 0, brief |-> c] ELSE [project EXCEPT !.brief = c]
  /\ Inserted(s)

\* The project must still be there; the transaction writes it and its new names.
Stores(c, s) ==
  IF project = None THEN UNCHANGED <<project, rows, exposed>>
  ELSE project' = [project EXCEPT !.brief = c] /\ Inserted(s)

SearchSaved(c, s) ==
  /\ c \in searches /\ searches' = searches \ {c}
  /\ s \in SearchNames \ DOMAIN rows
  /\ UNCHANGED <<shares, updates, adds, ratings, analyses, removals, invites, accepting, granted, crossed, leaving>>
  /\ Stores(c, s)
  /\ NoCall

----------------------------------------------------------------------------
(* Suggestions. *)

\* addManualSuggestion: a name there is already is returned as it is.
AddRead(u, s) ==
  /\ NewCall /\ MayWrite(u) /\ Noted(u)
  /\ adds' = IF s \in DOMAIN rows /\ rows[s].attached THEN adds ELSE adds \union {s}
  /\ UNCHANGED <<project, rows, shares, updates, searches, ratings, analyses, removals, invites,
                 granted, crossed, exposed, leaving>>

\* The insertion; a second row of the same name, which the check above does not
\* exclude when two of them run at once, is not told apart from the first.
Added(s) ==
  /\ s \in adds /\ adds' = adds \ {s}
  /\ UNCHANGED <<project, shares, updates, searches, ratings, analyses, removals, invites, accepting, granted,
                 crossed, leaving>>
  /\ IF project = None THEN UNCHANGED <<rows, exposed>> ELSE Inserted(s)
  /\ NoCall

\* setRating: the row is read with its project, the right checked, the row saved.
RatingRead(u, s) ==
  /\ NewCall /\ s \in DOMAIN rows /\ rows[s].attached /\ MayWrite(u) /\ Noted(u)
  /\ ratings' = ratings \union {[name |-> s, row |-> [rows[s] EXCEPT !.rating = calls']]}
  /\ UNCHANGED <<project, rows, shares, updates, searches, adds, analyses, removals, invites,
                 granted, crossed, exposed, leaving>>

RatingSaved(c) ==
  /\ c \in ratings /\ ratings' = ratings \ {c}
  /\ NoCall
  /\ UNCHANGED <<project, shares, updates, searches, adds, analyses, removals, invites, accepting, granted,
                 crossed, leaving>>
  /\ IF project = None THEN UNCHANGED <<rows, exposed>> ELSE Written(c.name, c.row)

\* saveAnalysis, updateSuggestionsAvailability: the right first (getSuggestionForUser),
\* then one UPDATE of their own column.
AnalysisRead(u, s) ==
  /\ NewCall /\ s \in DOMAIN rows /\ rows[s].attached /\ MayWrite(u) /\ Noted(u)
  /\ analyses' = analyses \union {[name |-> s, call |-> calls', row |-> rows[s]]}
  /\ UNCHANGED <<project, rows, shares, updates, searches, adds, ratings, removals, invites,
                 granted, crossed, exposed, leaving>>

\* Mutant: the row read earlier is saved as a whole.
AnalysedWhole(c) == [c.row EXCEPT !.analysis = c.call]

Analysed(c) == [rows[c.name] EXCEPT !.analysis = c.call]

AnalysisSaved(c) ==
  /\ c \in analyses /\ analyses' = analyses \ {c}
  /\ UNCHANGED <<project, shares, updates, searches, adds, ratings, removals, invites, accepting, granted,
                 crossed, leaving>>
  /\ IF c.name \in DOMAIN rows
     THEN Written(c.name, Analysed(c))
     ELSE UNCHANGED <<rows, exposed>>
  /\ NoCall

----------------------------------------------------------------------------
(* remove: whoever may open the project, with the right to read too; its   *)
(* names as they were read, then it.                                       *)

RemoveRead(u) ==
  /\ NewCall /\ MayRead(u) /\ Noted(u)
  /\ removals' = removals \union {[names |-> {s \in DOMAIN rows : rows[s].attached}, step |-> "names"]}
  /\ leaving' = "asked"
  /\ UNCHANGED <<project, rows, shares, updates, searches, adds, ratings, analyses, invites,
                 granted, crossed, exposed>>

RemoveNames(c) ==
  /\ c \in removals /\ c.step = "names"
  /\ removals' = (removals \ {c}) \union {[c EXCEPT !.step = "project"]}
  /\ rows' = [s \in DOMAIN rows \ c.names |-> rows[s]]
  /\ NoCall
  /\ UNCHANGED <<project, shares, updates, searches, adds, ratings, analyses, invites, accepting, granted,
                 crossed, exposed, leaving>>

\* The row goes, with the shares and the suggestions that hang on it.
RemoveProject(c) ==
  /\ c \in removals /\ c.step = "project" /\ removals' = removals \ {c}
  /\ project' = None
  /\ rows' = [s \in {x \in DOMAIN rows : ~rows[x].attached} |-> rows[s]]
  /\ shares' = [g \in Guests |-> None]
  /\ granted' = [g \in Guests |-> "none"]
  /\ leaving' = IF updates # {} \/ leaving = "crossed" THEN "crossed" ELSE "gone"
  /\ NoCall
  /\ UNCHANGED <<updates, searches, adds, ratings, analyses, invites, accepting, crossed, exposed>>

\* A failure or a stop of the server between the two.
RemoveFails(c) ==
  /\ c \in removals /\ removals' = removals \ {c}
  /\ NoCall
  /\ UNCHANGED <<project, rows, shares, updates, searches, adds, ratings, analyses, invites, accepting, granted,
                 crossed, exposed, leaving>>

----------------------------------------------------------------------------
Next ==
  \/ \E u \in Users : Open(u) \/ UpdateRead(u) \/ SearchRead(u) \/ RemoveRead(u)
  \/ \E u \in Users, s \in Names : RatingRead(u, s) \/ AnalysisRead(u, s)
  \/ \E u \in Users, s \in ManualNames : AddRead(u, s)
  \/ \E g \in Guests : Revoke(g) \/ \E perm \in {"read", "write"} : InviteRead(g, perm)
  \/ \E a \in accepting : Accepted(a)
  \/ \E i \in invites : InviteSaved(i)
  \/ \E c \in updates : UpdateSaved(c)
  \/ \E c \in searches, s \in SearchNames : SearchSaved(c, s)
  \/ \E s \in adds : Added(s)
  \/ \E c \in ratings : RatingSaved(c)
  \/ \E c \in analyses : AnalysisSaved(c)
  \/ \E c \in removals : RemoveNames(c) \/ RemoveProject(c) \/ RemoveFails(c)

Spec == Init /\ [][Next]_vars

----------------------------------------------------------------------------
\* A guest has the right the owner gave him last.  A share that was revoked never
\* comes back; only its first opening, noted in the background from the row read
\* before, can put back the right it had when the owner changed it meanwhile
\* (projects.service.ts, lines 59 to 70).
RightsAreTheOwners ==
  \A g \in Guests :
    IF shares[g] = None THEN granted[g] = "none"
    ELSE granted[g] = shares[g].perm \/ (granted[g] # "none" /\ shares[g].id \in crossed)

NameIsKept(s) == s \in DOMAIN rows /\ rows[s].attached

\* What was stored is kept: a suggestion stays in its project, with the analysis
\* that was paid and the rating it was given, until the removal of the project
\* is asked for, unless it was written while an update of the project or a
\* rating read before was on its way (projects.service.ts, lines 240 to 253 and
\* 274 to 283).
WorkIsKept ==
  [][\A s \in DOMAIN rows \ exposed' :
       leaving' = "no" /\ NameIsKept(s)
         => /\ NameIsKept(s)'
            /\ rows[s].analysis # 0 => rows'[s].analysis # 0
            /\ rows[s].rating # 0 => rows'[s].rating # 0]_vars

\* A project that was removed does not come back, unless an update of it was on
\* its way when it went.
RemovedStaysRemoved == leaving = "gone" => project = None
=============================================================================
