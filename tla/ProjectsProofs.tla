--------------------------- MODULE ProjectsProofs ---------------------------
(***************************************************************************)
(* One project shared by any number of guests, with any number of names    *)
(* and requests: the rights are the owner's last word, a project that was  *)
(* removed stays so, and what was stored is kept -- but for the crossings  *)
(* the code allows, which the histories name.                              *)
(***************************************************************************)
EXTENDS Projects, TLAPS

Perms == {"read", "write"}

\* Every request that reads the project, or saves something else than a share.
Reads ==
  \E u \in Users :
    \/ Open(u) \/ UpdateRead(u) \/ SearchRead(u) \/ RemoveRead(u)
    \/ \E s \in Names : RatingRead(u, s) \/ AnalysisRead(u, s)
    \/ \E s \in ManualNames : AddRead(u, s)

SavesElse ==
  \/ \E c \in updates : UpdateSaved(c)
  \/ \E c \in searches, s \in SearchNames : SearchSaved(c, s)
  \/ \E s \in adds : Added(s)
  \/ \E c \in ratings : RatingSaved(c)
  \/ \E c \in analyses : AnalysisSaved(c)
  \/ \E c \in removals : RemoveNames(c) \/ RemoveFails(c)

----------------------------------------------------------------------------
(* Rights. *)

SharesTyped ==
  /\ calls \in Call
  /\ shares \in [Guests -> Share \union {None}]
  /\ granted \in [Guests -> Perms \union {"none"}]
  /\ \A a \in accepting : a.who \in Guests /\ a.share \in Share
  /\ \A i \in invites : /\ i.who \in Guests /\ i.id \in Call /\ i.perm \in Perms
                        /\ i.share \in Share \union {None}

\* A share's identifier is the call that made it: an invitation that has read no
\* share brings one nobody has seen.
IdsAreFresh ==
  /\ \A g \in Guests : shares[g] # None => shares[g].id < calls
  /\ \A a \in accepting : a.share.id < calls
  /\ \A i \in invites :
       /\ i.id < calls
       /\ \A j \in invites : i.id = j.id => i = j
       /\ \A g \in Guests : i.share = None /\ shares[g] # None => shares[g].id # i.id
       /\ \A a \in accepting : i.share = None => a.share.id # i.id

\* The note of an opening carries the right of today, unless the owner changed
\* it since, or revoked the share it is about.
NotesAreCurrent ==
  \A a \in accepting :
    IsThere(a.who, a.share) /\ a.share.id \notin crossed => a.share.perm = shares[a.who].perm

RightsInv == SharesTyped /\ IdsAreFresh /\ NotesAreCurrent /\ RightsAreTheOwners

LEMMA RightsStart == Init => RightsInv
  <1> SUFFICES ASSUME Init PROVE RightsInv
    OBVIOUS
  <1>1. calls \in Call
    BY ProjectsAssumption DEF Init, ProjectsAssumption, Call
  <1>2. SharesTyped
    BY <1>1 DEF Init, SharesTyped, Perms
  <1>3. IdsAreFresh /\ NotesAreCurrent /\ RightsAreTheOwners
    BY DEF Init, IdsAreFresh, NotesAreCurrent, RightsAreTheOwners
  <1> QED BY <1>2, <1>3 DEF RightsInv

\* A request counts the calls.
LEMMA CallCounted ==
  ASSUME calls \in Call, NewCall \/ NoCall
  PROVE  calls' \in Call /\ calls <= calls' /\ (NewCall => calls' # 0 /\ calls < calls')
  BY ProjectsAssumption DEF Call, NewCall, NoCall, ProjectsAssumption

\* Calls only come later, and shares only go.
LEMMA IdsStayFresh ==
  ASSUME SharesTyped, IdsAreFresh, calls' \in Call, calls <= calls',
         UNCHANGED <<invites, accepting>>,
         \A g \in Guests : shares'[g] = None \/ shares'[g] = shares[g]
  PROVE  IdsAreFresh'
  <1>1. /\ \A g \in Guests : shares[g] # None => shares[g].id \in Call
        /\ \A a \in accepting : a.share.id \in Call
        /\ \A i \in invites : i.id \in Call
    BY DEF SharesTyped, Share
  <1>2. \A x \in Call : x < calls => x < calls'
    BY DEF SharesTyped, Call
  <1> QED BY <1>1, <1>2 DEF IdsAreFresh

\* Whoever opens the project has a right, and the save of his first opening has
\* it too.
LEMMA ReadsKeepRights ==
  ASSUME RightsInv, Reads
  PROVE  RightsInv'
  <1> USE DEF RightsInv, SharesTyped
  <1>1. PICK u \in Users :
          \/ Open(u) \/ UpdateRead(u) \/ SearchRead(u) \/ RemoveRead(u)
          \/ \E s \in Names : RatingRead(u, s) \/ AnalysisRead(u, s)
          \/ \E s \in ManualNames : AddRead(u, s)
    BY DEF Reads
  <1>2. /\ NewCall /\ Role(u) # "none" /\ Noted(u)
        /\ UNCHANGED <<shares, invites, granted, crossed>>
    BY <1>1 DEF Open, UpdateRead, SearchRead, RemoveRead, RatingRead, AnalysisRead, AddRead,
                MayRead, MayWrite, requests
  <1>3. calls' \in Call /\ calls < calls' /\ calls <= calls'
    BY <1>2, CallCounted
  <1>4. RightsAreTheOwners'
    BY <1>2 DEF RightsAreTheOwners
  <1>5. CASE u \in Guests /\ ~shares[u].accepted
    <2>1. u # Owner /\ shares[u] # None /\ shares[u] \in Share
      BY <1>2, <1>5, ProjectsAssumption DEF Role, ProjectsAssumption
    <2>2. accepting' = accepting \union {[who |-> u, share |-> shares[u]]}
      BY <1>2, <1>5 DEF Noted
    <2>3. SharesTyped'
      BY <1>2, <1>3, <1>5, <2>1, <2>2
    <2>4. IdsAreFresh'
      <3>1. \A g \in Guests : shares[g] # None => shares[g] \in Share
        OBVIOUS
      <3>2. \A i \in invites : i.id \in Call
        OBVIOUS
      <3>3. \A a \in accepting : a.share \in Share
        OBVIOUS
      <3>4. shares[u].id < calls /\ \A i \in invites : i.share = None => shares[u].id # i.id
        BY <1>5, <2>1 DEF IdsAreFresh
      <3>5. \A x \in Call : x < calls => x < calls'
        BY <1>3 DEF Call
      <3>6. shares[u].id \in Call /\ (\A a \in accepting : a.share.id \in Call)
            /\ \A g \in Guests : shares[g] # None => shares[g].id \in Call
        BY <2>1, <3>1, <3>3 DEF Share
      <3> QED BY <1>2, <2>2, <3>2, <3>4, <3>5, <3>6 DEF IdsAreFresh
    <2>5. NotesAreCurrent'
      BY <1>2, <2>1, <2>2 DEF NotesAreCurrent, IsThere
    <2> QED BY <1>4, <2>3, <2>4, <2>5
  <1>6. CASE ~(u \in Guests /\ ~shares[u].accepted)
    <2>1. accepting' = accepting
      BY <1>2, <1>6 DEF Noted
    <2>2. SharesTyped'
      BY <1>2, <1>3, <2>1
    <2>3. IdsAreFresh'
      BY <1>2, <1>3, <2>1, IdsStayFresh
    <2>4. NotesAreCurrent'
      BY <1>2, <2>1 DEF NotesAreCurrent, IsThere
    <2> QED BY <1>4, <2>2, <2>3, <2>4
  <1> QED BY <1>5, <1>6

\* Saves that are not of a share leave the rights alone.
LEMMA SavesKeepRights ==
  ASSUME RightsInv, SavesElse
  PROVE  RightsInv'
  <1>1. UNCHANGED <<shares, invites, accepting, granted, crossed>> /\ NoCall
    BY DEF SavesElse, UpdateSaved, SearchSaved, Added, RatingSaved, AnalysisSaved, RemoveNames, RemoveFails
  <1> QED BY <1>1 DEF RightsInv, SharesTyped, IdsAreFresh, NotesAreCurrent, IsThere, RightsAreTheOwners, NoCall

\* The note of an opening changes no right that is current, and brings no share back.
LEMMA AcceptedKeepsRights ==
  ASSUME RightsInv, NEW a \in accepting, Accepted(a)
  PROVE  RightsInv'
  <1> USE DEF RightsInv, SharesTyped
  <1> DEFINE saved == [a.share EXCEPT !.accepted = TRUE]
  <1>1. a.who \in Guests /\ a.share \in Share
    OBVIOUS
  <1>2. saved \in Share /\ saved.perm = a.share.perm /\ saved.id = a.share.id /\ saved # None
    BY <1>1, ProjectsAssumption DEF Share, ProjectsAssumption
  <1>3. shares' = shares \/ (IsThere(a.who, a.share) /\ shares' = [shares EXCEPT ![a.who] = saved])
    BY DEF Accepted, SaveShare
  <1>4. accepting' \subseteq accepting /\ calls' = calls /\ UNCHANGED <<invites, granted, crossed>>
    BY DEF Accepted, NoCall, requests
  <1> HIDE DEF saved
  <1>5. CASE shares' = shares
    BY <1>4, <1>5 DEF IdsAreFresh, NotesAreCurrent, IsThere, RightsAreTheOwners
  <1>6. CASE IsThere(a.who, a.share) /\ shares' = [shares EXCEPT ![a.who] = saved]
    <2>1. shares' \in [Guests -> Share \union {None}] /\ shares'[a.who] = saved
      BY <1>1, <1>2, <1>6
    <2>2. \A g \in Guests : g # a.who => shares'[g] = shares[g]
      BY <1>6
    <2>3. SharesTyped'
      BY <1>4, <2>1
    <2>4. /\ shares[a.who] # None /\ saved.id = shares[a.who].id
          /\ saved.id \notin crossed => saved.perm = shares[a.who].perm
      BY <1>2, <1>6 DEF NotesAreCurrent, IsThere
    <2>5. \A g \in Guests : shares'[g] # None => shares[g] # None /\ shares'[g].id = shares[g].id
      BY <1>1, <2>1, <2>2, <2>4
    <2>6. IdsAreFresh'
      BY <1>4, <2>5 DEF IdsAreFresh
    <2>7. NotesAreCurrent'
      BY <1>2, <1>4, <2>1, <2>2, <2>4 DEF NotesAreCurrent, IsThere
    <2>8. granted[a.who] # "none" /\ (saved.id \notin crossed => granted[a.who] = saved.perm)
      <3>1. shares[a.who].perm \in Perms
        BY <1>1, <2>4 DEF Share, Perms
      <3> QED BY <1>1, <2>4, <3>1 DEF RightsAreTheOwners, Perms
    <2>9. RightsAreTheOwners'
      BY <1>1, <1>2, <1>4, <2>1, <2>2, <2>8 DEF RightsAreTheOwners
    <2> QED BY <2>3, <2>6, <2>7, <2>9
  <1> QED BY <1>3, <1>5, <1>6

\* What an invitation stores: the share it read, or a new one, with its right.
LEMMA InvitedIsShare ==
  ASSUME SharesTyped, NEW i \in invites
  PROVE  /\ Invited(i) \in Share /\ Invited(i) # None /\ Invited(i).perm = i.perm
         /\ Invited(i).id = IF i.share = None THEN i.id ELSE i.share.id
  <1>1. i.id \in Call /\ i.perm \in {"read", "write"} /\ i.share \in Share \union {None}
    BY DEF Perms, SharesTyped
  <1>2. CASE i.share = None
    <2>1. Invited(i) = [id |-> i.id, perm |-> i.perm, accepted |-> FALSE]
      BY <1>2 DEF Invited
    <2>2. Invited(i) \in Share /\ Invited(i).perm = i.perm /\ Invited(i).id = i.id
      BY <1>1, <2>1 DEF Share
    <2> QED BY <1>2, <2>2, ProjectsAssumption DEF ProjectsAssumption
  <1>3. CASE i.share \in Share /\ i.share # None
    <2>1. Invited(i) = [i.share EXCEPT !.perm = i.perm]
      BY <1>3 DEF Invited
    <2>2. Invited(i) \in Share /\ Invited(i).perm = i.perm /\ Invited(i).id = i.share.id
      BY <1>1, <1>3, <2>1 DEF Share
    <2> QED BY <1>3, <2>2, ProjectsAssumption DEF ProjectsAssumption
  <1> QED BY <1>1, <1>2, <1>3

\* An invitation is read; later it becomes the right, and the notes of the opening
\* that bring another are known to cross it.
LEMMA InvitesKeepRights ==
  ASSUME RightsInv,
         \/ \E g \in Guests, perm \in Perms : InviteRead(g, perm)
         \/ \E i \in invites : InviteSaved(i)
  PROVE  RightsInv'
  <1> USE DEF RightsInv, SharesTyped
  <1>1. ASSUME NEW g \in Guests, NEW perm \in Perms, InviteRead(g, perm) PROVE RightsInv'
    <2> DEFINE i0 == [who |-> g, id |-> calls, perm |-> perm, share |-> shares[g]]
    <2>1. calls' \in Call /\ calls < calls'
      BY <1>1, CallCounted DEF InviteRead
    <2>2. invites' = invites \union {i0} /\ UNCHANGED <<shares, accepting, granted, crossed>>
      BY <1>1 DEF InviteRead
    <2>3. i0.who = g /\ i0.id = calls /\ i0.perm = perm /\ i0.share = shares[g]
      OBVIOUS
    <2> HIDE DEF i0
    <2>4. SharesTyped'
      BY <2>1, <2>2, <2>3
    <2>5. NotesAreCurrent' /\ RightsAreTheOwners'
      BY <2>2 DEF NotesAreCurrent, IsThere, RightsAreTheOwners
    <2>6. IdsAreFresh'
      <3>1. /\ \A h \in Guests : shares[h] # None => shares[h].id \in Call
            /\ \A a \in accepting : a.share.id \in Call
            /\ \A i \in invites : i.id \in Call
        BY DEF Share
      <3>2. \A x \in Call : x < calls => x < calls' /\ x # calls
        BY <2>1 DEF Call
      <3>3. /\ \A h \in Guests : shares[h] # None => shares[h].id < calls' /\ shares[h].id # calls
            /\ \A a \in accepting : a.share.id < calls' /\ a.share.id # calls
            /\ \A i \in invites : i.id < calls' /\ i.id # calls
        BY <3>1, <3>2 DEF IdsAreFresh
      <3> QED BY <2>1, <2>2, <2>3, <3>3 DEF IdsAreFresh
    <2> QED BY <2>4, <2>5, <2>6
  <1>2. ASSUME NEW i \in invites, InviteSaved(i) PROVE RightsInv'
    <2>1. invites' = invites \ {i} /\ accepting' = accepting /\ calls' = calls
      BY <1>2 DEF InviteSaved, NoCall
    <2>2. CASE UNCHANGED <<shares, granted, crossed>>
      BY <2>1, <2>2 DEF IdsAreFresh, NotesAreCurrent, IsThere, RightsAreTheOwners
    <2>3. CASE ~UNCHANGED <<shares, granted, crossed>>
      <3>1. /\ InviteStands(i)
            /\ shares' = [shares EXCEPT ![i.who] = Invited(i)]
            /\ granted' = [granted EXCEPT ![i.who] = i.perm]
            /\ crossed' = crossed \union {Invited(i).id : a \in {x \in accepting : Crosses(x, i)}}
        BY <1>2, <2>3 DEF InviteSaved, SaveShare
      <3>2. /\ Invited(i) \in Share /\ Invited(i) # None /\ Invited(i).perm = i.perm
            /\ Invited(i).id = IF i.share = None THEN i.id ELSE i.share.id
        BY InvitedIsShare
      <3>3. i.who \in Guests /\ i.perm \in Perms
        OBVIOUS
      <3>4. shares' \in [Guests -> Share \union {None}] /\ granted' \in [Guests -> Perms \union {"none"}]
        BY <3>1, <3>2, <3>3
      <3>5. SharesTyped'
        BY <2>1, <3>4
      <3>6. /\ shares'[i.who] = Invited(i) /\ granted'[i.who] = i.perm
            /\ \A g \in Guests : g # i.who => shares'[g] = shares[g] /\ granted'[g] = granted[g]
        BY <3>1, <3>3
      <3>7. crossed \subseteq crossed' /\ \A a \in accepting : Crosses(a, i) => Invited(i).id \in crossed'
        BY <3>1
      <3>8. IdsAreFresh'
        <4>1. CASE i.share = None
          <5>1. Invited(i).id = i.id
            BY <3>2, <4>1
          <5>2. \A j \in invites' : j \in invites /\ j.id # i.id
            BY <2>1 DEF IdsAreFresh
          <5> QED BY <2>1, <3>3, <3>6, <5>1, <5>2 DEF IdsAreFresh
        <4>2. CASE i.share # None
          <5>1. shares[i.who] # None /\ Invited(i).id = shares[i.who].id
            BY <3>1, <3>2, <4>2 DEF InviteStands, IsThere
          <5> QED BY <2>1, <3>3, <3>6, <5>1 DEF IdsAreFresh
        <4> QED BY <4>1, <4>2
      <3>9. NotesAreCurrent'
        <4> SUFFICES ASSUME NEW a \in accepting, a.who = i.who, a.share.id = Invited(i).id,
                            a.share.id \notin crossed'
                     PROVE  a.share.perm = i.perm
          BY <2>1, <3>2, <3>6, <3>7 DEF NotesAreCurrent, IsThere
        <4>1. i.share # None
          BY <3>2 DEF IdsAreFresh
        <4> QED BY <3>2, <3>7, <4>1 DEF Crosses
      <3>10. RightsAreTheOwners'
        BY <3>2, <3>3, <3>6, <3>7 DEF RightsAreTheOwners
      <3> QED BY <3>5, <3>8, <3>9, <3>10
    <2> QED BY <2>2, <2>3
  <1> QED BY <1>1, <1>2

\* A right that is taken back, from one guest or from all with the project, is
\* gone: no save brings it back.
LEMMA RevokedKeepsRights ==
  ASSUME RightsInv,
         (\E g \in Guests : Revoke(g)) \/ (\E c \in removals : RemoveProject(c))
  PROVE  RightsInv'
  <1> USE DEF RightsInv, SharesTyped
  <1>1. /\ calls' \in Call /\ calls <= calls' /\ UNCHANGED <<invites, accepting, crossed>>
        /\ shares' \in [Guests -> Share \union {None}] /\ granted' \in [Guests -> Perms \union {"none"}]
        /\ \A g \in Guests : \/ shares'[g] = None /\ granted'[g] = "none"
                             \/ shares'[g] = shares[g] /\ granted'[g] = granted[g]
    <2>1. ASSUME NEW g \in Guests, Revoke(g)
          PROVE  /\ NewCall
                 /\ shares' = [shares EXCEPT ![g] = None] /\ granted' = [granted EXCEPT ![g] = "none"]
                 /\ UNCHANGED <<invites, accepting, crossed>>
      BY <2>1 DEF Revoke, requests
    <2>2. ASSUME NEW c \in removals, RemoveProject(c)
          PROVE  /\ NoCall
                 /\ shares' = [g \in Guests |-> None] /\ granted' = [g \in Guests |-> "none"]
                 /\ UNCHANGED <<invites, accepting, crossed>>
      BY <2>2 DEF RemoveProject
    <2>3. CASE \E g \in Guests : Revoke(g)
      BY <2>1, <2>3, CallCounted
    <2>4. CASE \E c \in removals : RemoveProject(c)
      BY <2>2, <2>4, CallCounted
    <2> QED BY <2>3, <2>4
  <1>2. SharesTyped'
    BY <1>1
  <1>3. IdsAreFresh'
    BY <1>1, IdsStayFresh
  <1>4. NotesAreCurrent'
    BY <1>1 DEF NotesAreCurrent, IsThere
  <1>5. RightsAreTheOwners'
    BY <1>1 DEF RightsAreTheOwners
  <1> QED BY <1>2, <1>3, <1>4, <1>5

LEMMA NextCases ==
  ASSUME Next
  PROVE  \/ Reads \/ SavesElse
         \/ \E a \in accepting : Accepted(a)
         \/ \E g \in Guests, perm \in Perms : InviteRead(g, perm)
         \/ \E i \in invites : InviteSaved(i)
         \/ (\E g \in Guests : Revoke(g)) \/ (\E c \in removals : RemoveProject(c))
  <1>1. ASSUME NEW u \in Users, NEW s \in ManualNames, AddRead(u, s) PROVE Reads
    BY <1>1 DEF Reads
  <1>2. ASSUME NEW u \in Users,
               \/ Open(u) \/ UpdateRead(u) \/ SearchRead(u) \/ RemoveRead(u)
               \/ \E s \in Names : RatingRead(u, s) \/ AnalysisRead(u, s)
        PROVE  Reads
    BY <1>2 DEF Reads
  <1>3. ASSUME \/ \E c \in updates : UpdateSaved(c)
               \/ \E c \in searches, s \in SearchNames : SearchSaved(c, s)
               \/ \E s \in adds : Added(s)
               \/ \E c \in ratings : RatingSaved(c)
               \/ \E c \in analyses : AnalysisSaved(c)
               \/ \E c \in removals : RemoveNames(c) \/ RemoveFails(c)
        PROVE  SavesElse
    BY <1>3 DEF SavesElse
  <1> QED BY <1>1, <1>2, <1>3 DEF Next, Perms

LEMMA RightsStep ==
  ASSUME RightsInv, [Next]_vars
  PROVE  RightsInv'
  <1>1. CASE Next
    BY <1>1, NextCases, ReadsKeepRights, SavesKeepRights, AcceptedKeepsRights, InvitesKeepRights,
       RevokedKeepsRights
  <1>2. CASE UNCHANGED vars
    BY <1>2 DEF vars, requests, RightsInv, SharesTyped, IdsAreFresh, NotesAreCurrent, IsThere,
                RightsAreTheOwners
  <1> QED BY <1>1, <1>2

LEMMA RightsInductive == Spec => []RightsInv
  <1>1. RightsInv /\ [Next]_vars => RightsInv'
    BY RightsStep
  <1> QED BY RightsStart, <1>1, PTL DEF Spec

\* A guest has the right the owner gave him last, none once it was revoked: only
\* the note of his first opening, read before the owner changed his right, can put
\* back the older one (projects.service.ts, lines 59 to 70).
THEOREM RightsKept == Spec => []RightsAreTheOwners
  <1>1. RightsInv => RightsAreTheOwners
    BY DEF RightsInv
  <1> QED BY RightsInductive, <1>1, PTL

----------------------------------------------------------------------------
(* Removal. *)

\* A project that is gone has no update on its way, and gets none: nobody has a
\* right on it.
GoneInv == leaving = "gone" => project = None /\ updates = {}

LEMMA GoneStep ==
  ASSUME GoneInv, [Next]_vars
  PROVE  GoneInv'
  <1>1. ASSUME Reads PROVE GoneInv'
    <2>1. PICK u \in Users :
            \/ Open(u) \/ UpdateRead(u) \/ SearchRead(u) \/ RemoveRead(u)
            \/ \E s \in Names : RatingRead(u, s) \/ AnalysisRead(u, s)
            \/ \E s \in ManualNames : AddRead(u, s)
      BY <1>1 DEF Reads
    <2>2. project # None /\ project' = project /\ (leaving' = leaving \/ leaving' = "asked")
      BY <2>1 DEF Open, UpdateRead, SearchRead, RemoveRead, RatingRead, AnalysisRead, AddRead,
                  MayRead, MayWrite, Role
    <2> QED BY <2>2 DEF GoneInv
  <1>2. ASSUME NEW c \in updates, UpdateSaved(c) PROVE GoneInv'
    BY <1>2 DEF UpdateSaved, GoneInv
  <1>3. ASSUME NEW c \in searches, NEW s \in SearchNames, SearchSaved(c, s) PROVE GoneInv'
    BY <1>3 DEF SearchSaved, Stores, GoneInv
  <1>4. CASE SavesElse
    <2>1. ASSUME \/ \E s \in adds : Added(s)
                 \/ \E c \in ratings : RatingSaved(c)
                 \/ \E c \in analyses : AnalysisSaved(c)
                 \/ \E c \in removals : RemoveNames(c) \/ RemoveFails(c)
          PROVE  UNCHANGED <<project, updates, leaving>>
      BY <2>1 DEF Added, RatingSaved, AnalysisSaved, RemoveNames, RemoveFails
    <2>2. UNCHANGED <<project, updates, leaving>> => GoneInv'
      BY DEF GoneInv
    <2> QED BY <1>2, <1>3, <1>4, <2>1, <2>2 DEF SavesElse
  <1>5. ASSUME NEW c \in removals, RemoveProject(c) PROVE GoneInv'
    BY <1>5 DEF RemoveProject, GoneInv
  <1>6. ASSUME \/ \E a \in accepting : Accepted(a)
               \/ \E g \in Guests, perm \in Perms : InviteRead(g, perm)
               \/ \E i \in invites : InviteSaved(i)
               \/ \E g \in Guests : Revoke(g)
        PROVE  GoneInv'
    BY <1>6 DEF Accepted, InviteRead, InviteSaved, Revoke, requests, GoneInv
  <1>7. CASE UNCHANGED vars
    BY <1>7 DEF vars, requests, GoneInv
  <1>8. Next => GoneInv'
    BY <1>1, <1>4, <1>5, <1>6, NextCases
  <1> QED BY <1>7, <1>8

\* A project that was removed does not come back, unless an update of it was on
\* its way when it went (projects.service.ts, createOrUpdate's check).
THEOREM RemovedForGood == Spec => []RemovedStaysRemoved
  <1>1. Init => GoneInv
    BY DEF Init, GoneInv
  <1>2. GoneInv /\ [Next]_vars => GoneInv'
    BY GoneStep
  <1>3. GoneInv => RemovedStaysRemoved
    BY DEF GoneInv, RemovedStaysRemoved
  <1> QED BY <1>1, <1>2, <1>3, PTL DEF Spec

----------------------------------------------------------------------------
(* Suggestions. *)

RowsTyped ==
  /\ calls \in Call
  /\ \A s \in DOMAIN rows : rows[s] \in Row
  /\ \A c \in updates : \A s \in DOMAIN c.rows : c.rows[s] \in Row /\ c.rows[s].attached
  /\ \A r \in ratings : r.row \in Row
  /\ \A c \in analyses : c.call \in Call /\ c.call # 0
  /\ adds \subseteq ManualNames

\* An update on its way carries the suggestions of today, those excepted that
\* were written since it read them.
UpdatesAgree ==
  \A c \in updates :
    /\ \A s \in DOMAIN rows \ exposed : rows[s].attached => s \in DOMAIN c.rows
    /\ \A s \in DOMAIN c.rows \ exposed : s \in DOMAIN rows /\ rows[s] = c.rows[s]

\* A rating on its way carries the analysis of today, unless the row was written since.
RatingsAgree ==
  \A r \in ratings : r.name \notin exposed =>
    /\ NameIsKept(r.name)
    /\ r.row.attached /\ r.row.rating # 0 /\ r.row.analysis = rows[r.name].analysis

\* A name about to be added is not in the project.
AddsAreNew == \A s \in adds \ exposed : ~NameIsKept(s)

WorkInv ==
  /\ RowsTyped
  /\ leaving = "no" => removals = {} /\ UpdatesAgree /\ RatingsAgree /\ AddsAreNew

\* What one step does to the work stored.
KeepsWork ==
  \A s \in DOMAIN rows \ exposed' :
    leaving' = "no" /\ NameIsKept(s)
      => /\ NameIsKept(s)'
         /\ rows[s].analysis # 0 => rows'[s].analysis # 0
         /\ rows[s].rating # 0 => rows'[s].rating # 0

LEMMA WorkStart == Init => WorkInv
  <1> SUFFICES ASSUME Init PROVE WorkInv
    OBVIOUS
  <1>1. calls \in Call
    BY ProjectsAssumption DEF Init, ProjectsAssumption, Call
  <1>2. RowsTyped
    BY <1>1 DEF Init, RowsTyped
  <1>3. removals = {} /\ UpdatesAgree /\ RatingsAgree /\ AddsAreNew
    BY DEF Init, UpdatesAgree, RatingsAgree, AddsAreNew
  <1> QED BY <1>2, <1>3 DEF WorkInv

\* A step that writes no suggestion and reads none keeps everything.
LEMMA RowsUntouched ==
  ASSUME WorkInv, calls' \in Call,
         UNCHANGED <<rows, updates, ratings, analyses, exposed>>, adds' = adds,
         leaving' = "no" => leaving = "no" /\ removals' = {}
  PROVE  WorkInv' /\ KeepsWork
  <1>1. RowsTyped'
    BY DEF WorkInv, RowsTyped
  <1>2. leaving' = "no" => removals' = {} /\ UpdatesAgree' /\ RatingsAgree' /\ AddsAreNew'
    BY DEF WorkInv, UpdatesAgree, RatingsAgree, AddsAreNew, NameIsKept
  <1>3. KeepsWork
    BY DEF KeepsWork, NameIsKept
  <1> QED BY <1>1, <1>2, <1>3 DEF WorkInv

\* Writing one suggestion disturbs the requests that read it before, and they
\* are known.
LEMMA WrittenKeepsWork ==
  ASSUME WorkInv, NEW s, NEW row \in Row, Written(s, row),
         calls' = calls, UNCHANGED <<updates, removals, leaving>>,
         ratings' \subseteq ratings, analyses' \subseteq analyses, adds' \subseteq adds,
         leaving = "no" /\ s \in adds' \ exposed => ~row.attached,
         leaving = "no" /\ s \notin exposed /\ NameIsKept(s) =>
           /\ row.attached
           /\ rows[s].analysis # 0 => row.analysis # 0
           /\ rows[s].rating # 0 => row.rating # 0
  PROVE  WorkInv' /\ KeepsWork
  <1>1. /\ DOMAIN rows' = DOMAIN rows \union {s} /\ rows'[s] = row
        /\ \A x \in DOMAIN rows : x # s => rows'[x] = rows[x]
    BY DEF Written, Put
  <1>2. /\ exposed \subseteq exposed'
        /\ updates # {} => s \in exposed'
        /\ \A r \in ratings' : r.name = s => s \in exposed'
    BY DEF Written
  <1>3. RowsTyped'
    BY <1>1 DEF WorkInv, RowsTyped
  <1>4. ASSUME leaving' = "no" PROVE UpdatesAgree'
    BY <1>1, <1>2, <1>4 DEF WorkInv, UpdatesAgree
  <1>5. ASSUME leaving' = "no" PROVE RatingsAgree'
    BY <1>1, <1>2, <1>5 DEF WorkInv, RatingsAgree, NameIsKept
  <1>6. ASSUME leaving' = "no" PROVE AddsAreNew'
    BY <1>1, <1>2, <1>6 DEF WorkInv, AddsAreNew, NameIsKept
  <1>7. leaving' = "no" => removals' = {}
    BY DEF WorkInv
  <1>8. KeepsWork
    BY <1>1, <1>2 DEF KeepsWork, NameIsKept
  <1> QED BY <1>3, <1>4, <1>5, <1>6, <1>7, <1>8 DEF WorkInv

\* Whatever a request reads is the work of today.
LEMMA ReadsKeepWork ==
  ASSUME WorkInv, Reads
  PROVE  WorkInv' /\ KeepsWork
  <1> USE DEF WorkInv, RowsTyped
  <1>1. PICK u \in Users :
          \/ Open(u) \/ UpdateRead(u) \/ SearchRead(u) \/ RemoveRead(u)
          \/ \E s \in Names : RatingRead(u, s) \/ AnalysisRead(u, s)
          \/ \E s \in ManualNames : AddRead(u, s)
    BY DEF Reads
  <1>2. NewCall /\ UNCHANGED <<rows, exposed>>
    BY <1>1 DEF Open, UpdateRead, SearchRead, RemoveRead, RatingRead, AnalysisRead, AddRead
  <1>3. calls' \in Call /\ calls' # 0
    BY <1>2, CallCounted
  <1>4. KeepsWork
    BY <1>2 DEF KeepsWork, NameIsKept
  <1>5. CASE Open(u) \/ SearchRead(u) \/ RemoveRead(u)
    <2>1. /\ UNCHANGED <<rows, updates, ratings, analyses, exposed>> /\ adds' = adds
          /\ leaving' = "no" => leaving = "no" /\ removals' = removals
      BY <1>5 DEF Open, SearchRead, RemoveRead, requests
    <2> QED BY <1>3, <2>1, RowsUntouched
  <1>6. CASE UpdateRead(u)
    <2> DEFINE c == [columns |-> [project EXCEPT !.name = calls'],
                     rows |-> [s \in {x \in DOMAIN rows : rows[x].attached} |-> rows[s]]]
    <2>1. /\ updates' = updates \union {c}
          /\ UNCHANGED <<ratings, analyses, adds, removals, leaving>>
      BY <1>6 DEF UpdateRead
    <2>2. /\ \A s \in DOMAIN c.rows : s \in DOMAIN rows /\ rows[s].attached /\ c.rows[s] = rows[s]
          /\ \A s \in DOMAIN rows : rows[s].attached => s \in DOMAIN c.rows
      OBVIOUS
    <2> HIDE DEF c
    <2>3. RowsTyped'
      BY <1>2, <1>3, <2>1, <2>2
    <2>4. leaving' = "no" => removals' = {} /\ UpdatesAgree' /\ RatingsAgree' /\ AddsAreNew'
      BY <1>2, <2>1, <2>2 DEF UpdatesAgree, RatingsAgree, AddsAreNew, NameIsKept
    <2> QED BY <1>4, <2>3, <2>4
  <1>7. ASSUME NEW s \in Names, RatingRead(u, s) PROVE WorkInv' /\ KeepsWork
    <2> DEFINE r == [name |-> s, row |-> [rows[s] EXCEPT !.rating = calls']]
    <2>1. /\ ratings' = ratings \union {r} /\ NameIsKept(s)
          /\ UNCHANGED <<updates, analyses, adds, removals, leaving>>
      BY <1>7 DEF RatingRead, NameIsKept
    <2>2. /\ r.name = s /\ r.row \in Row /\ r.row.attached = rows[s].attached
          /\ r.row.rating = calls' /\ r.row.analysis = rows[s].analysis
      BY <1>3, <2>1 DEF Row, NameIsKept
    <2> HIDE DEF r
    <2>3. RowsTyped'
      BY <1>2, <1>3, <2>1, <2>2
    <2>4. ASSUME leaving' = "no" PROVE removals' = {} /\ UpdatesAgree' /\ AddsAreNew'
      BY <1>2, <2>1, <2>4 DEF UpdatesAgree, AddsAreNew, NameIsKept
    <2>5. ASSUME leaving' = "no" PROVE RatingsAgree'
      BY <1>2, <1>3, <2>1, <2>2, <2>5 DEF RatingsAgree, NameIsKept
    <2> QED BY <1>4, <2>3, <2>4, <2>5
  <1>8. ASSUME NEW s \in Names, AnalysisRead(u, s) PROVE WorkInv' /\ KeepsWork
    <2>1. /\ analyses' = analyses \union {[name |-> s, call |-> calls', row |-> rows[s]]}
          /\ UNCHANGED <<updates, ratings, adds, removals, leaving>>
      BY <1>8 DEF AnalysisRead
    <2>2. RowsTyped'
      BY <1>2, <1>3, <2>1
    <2>3. leaving' = "no" => removals' = {} /\ UpdatesAgree' /\ RatingsAgree' /\ AddsAreNew'
      BY <1>2, <2>1 DEF UpdatesAgree, RatingsAgree, AddsAreNew, NameIsKept
    <2> QED BY <1>4, <2>2, <2>3
  <1>9. ASSUME NEW s \in ManualNames, AddRead(u, s) PROVE WorkInv' /\ KeepsWork
    <2>1. /\ adds' = adds \/ (adds' = adds \union {s} /\ ~NameIsKept(s))
          /\ UNCHANGED <<updates, ratings, analyses, removals, leaving>>
      BY <1>9 DEF AddRead, NameIsKept
    <2>2. RowsTyped'
      BY <1>2, <1>3, <2>1
    <2>3. leaving' = "no" => removals' = {} /\ UpdatesAgree' /\ RatingsAgree' /\ AddsAreNew'
      BY <1>2, <2>1 DEF UpdatesAgree, RatingsAgree, AddsAreNew, NameIsKept
    <2> QED BY <1>4, <2>2, <2>3
  <1> QED BY <1>1, <1>5, <1>6, <1>7, <1>8, <1>9

\* An update saves its suggestions as they were read: as they are, but for those
\* written in between.
LEMMA UpdateKeepsWork ==
  ASSUME WorkInv, NEW c \in updates, UpdateSaved(c)
  PROVE  WorkInv' /\ KeepsWork
  <1> USE DEF WorkInv, RowsTyped
  <1>1. /\ updates' = updates \ {c} /\ calls' = calls
        /\ UNCHANGED <<adds, ratings, analyses, removals, exposed, leaving>>
    BY DEF UpdateSaved, NoCall
  <1>2. /\ DOMAIN rows' = DOMAIN rows \union DOMAIN c.rows
        /\ \A s \in DOMAIN c.rows : rows'[s] = c.rows[s]
        /\ \A s \in DOMAIN rows \ DOMAIN c.rows : rows'[s] = [rows[s] EXCEPT !.attached = FALSE]
    <2>1. rows' = [s \in DOMAIN rows \union DOMAIN c.rows |->
                     IF s \in DOMAIN c.rows THEN c.rows[s] ELSE [rows[s] EXCEPT !.attached = FALSE]]
      BY DEF UpdateSaved
    <2>2. DOMAIN rows' = DOMAIN rows \union DOMAIN c.rows
      BY <2>1
    <2>3. \A s \in DOMAIN rows \union DOMAIN c.rows :
            rows'[s] = IF s \in DOMAIN c.rows THEN c.rows[s] ELSE [rows[s] EXCEPT !.attached = FALSE]
      BY <2>1, Zenon
    <2>4. \A s \in DOMAIN c.rows : rows'[s] = c.rows[s]
      BY <2>3
    <2>5. \A s \in DOMAIN rows \ DOMAIN c.rows : rows'[s] = [rows[s] EXCEPT !.attached = FALSE]
      BY <2>3
    <2> QED BY <2>2, <2>4, <2>5
  <1>3. \A s \in DOMAIN rows \ DOMAIN c.rows : rows'[s] \in Row /\ ~rows'[s].attached
    <2> TAKE s \in DOMAIN rows \ DOMAIN c.rows
    <2>1. rows'[s] = [rows[s] EXCEPT !.attached = FALSE] /\ rows[s] \in Row
      BY <1>2
    <2> QED BY <2>1 DEF Row
  <1>4. RowsTyped'
    BY <1>1, <1>2, <1>3
  <1>5. ASSUME leaving' = "no"
        PROVE  /\ \A s \in DOMAIN c.rows \ exposed : s \in DOMAIN rows /\ rows'[s] = rows[s]
               /\ \A s \in DOMAIN rows \ exposed : rows[s].attached => s \in DOMAIN c.rows
               /\ \A s \in DOMAIN rows' \ exposed : rows'[s].attached => s \in DOMAIN c.rows
    BY <1>1, <1>2, <1>3, <1>5 DEF UpdatesAgree
  <1>6. ASSUME leaving' = "no" PROVE UpdatesAgree'
    BY <1>1, <1>2, <1>5, <1>6 DEF UpdatesAgree
  <1>7. ASSUME leaving' = "no" PROVE RatingsAgree'
    BY <1>1, <1>2, <1>5, <1>7 DEF RatingsAgree, NameIsKept
  <1>8. ASSUME leaving' = "no" PROVE AddsAreNew'
    BY <1>1, <1>5, <1>8 DEF AddsAreNew, NameIsKept
  <1>9. KeepsWork
    BY <1>1, <1>2, <1>5 DEF KeepsWork, NameIsKept
  <1> QED BY <1>1, <1>4, <1>6, <1>7, <1>8, <1>9

\* The other saves write one suggestion, or none.
LEMMA SavesKeepWork ==
  ASSUME WorkInv,
         \/ \E c \in searches, s \in SearchNames : SearchSaved(c, s)
         \/ \E s \in adds : Added(s)
         \/ \E c \in ratings : RatingSaved(c)
         \/ \E c \in analyses : AnalysisSaved(c)
  PROVE  WorkInv' /\ KeepsWork
  <1> USE DEF WorkInv, RowsTyped
  <1>1. NewRow \in Row /\ NewRow.attached
    BY ProjectsAssumption DEF NewRow, Row, Call, ProjectsAssumption
  <1>2. ASSUME NEW c \in searches, NEW s \in SearchNames, SearchSaved(c, s)
        PROVE  WorkInv' /\ KeepsWork
    <2>1. /\ UNCHANGED <<updates, adds, ratings, analyses, removals, leaving>> /\ calls' = calls
          /\ s \notin DOMAIN rows
      BY <1>2 DEF SearchSaved, NoCall
    <2>2. CASE UNCHANGED <<rows, exposed>>
      BY <2>1, <2>2, RowsUntouched
    <2>3. CASE Written(s, NewRow)
      <3>1. s \notin adds
        BY ProjectsAssumption DEF ProjectsAssumption
      <3>2. ~NameIsKept(s)
        BY <2>1 DEF NameIsKept
      <3> QED BY <1>1, <2>1, <2>3, <3>1, <3>2, WrittenKeepsWork
    <2> QED BY <1>2, <2>2, <2>3 DEF SearchSaved, Stores, Inserted
  <1>3. ASSUME NEW s \in adds, Added(s) PROVE WorkInv' /\ KeepsWork
    <2>1. /\ UNCHANGED <<updates, ratings, analyses, removals, leaving>> /\ calls' = calls
          /\ adds' = adds \ {s}
      BY <1>3 DEF Added, NoCall
    <2>2. CASE UNCHANGED <<rows, exposed>>
      <3>1. RowsTyped'
        BY <2>1, <2>2
      <3>2. leaving' = "no" => removals' = {} /\ UpdatesAgree' /\ RatingsAgree' /\ AddsAreNew'
        BY <2>1, <2>2 DEF UpdatesAgree, RatingsAgree, AddsAreNew, NameIsKept
      <3>3. KeepsWork
        BY <2>2 DEF KeepsWork, NameIsKept
      <3> QED BY <3>1, <3>2, <3>3
    <2>3. CASE Written(s, NewRow)
      <3>1. leaving = "no" /\ s \notin exposed => ~NameIsKept(s)
        BY DEF AddsAreNew
      <3> QED BY <1>1, <2>1, <2>3, <3>1, WrittenKeepsWork
    <2> QED BY <1>3, <2>2, <2>3 DEF Added, Inserted
  <1>4. ASSUME NEW r \in ratings, RatingSaved(r) PROVE WorkInv' /\ KeepsWork
    <2>1. /\ UNCHANGED <<updates, adds, analyses, removals, leaving>> /\ calls' = calls
          /\ ratings' = ratings \ {r} /\ r.row \in Row
      BY <1>4 DEF RatingSaved, NoCall
    <2>2. leaving = "no" /\ r.name \notin exposed =>
            /\ NameIsKept(r.name) /\ r.name \notin adds
            /\ r.row.attached /\ r.row.rating # 0 /\ r.row.analysis = rows[r.name].analysis
      BY DEF RatingsAgree, AddsAreNew
    <2>3. CASE UNCHANGED <<rows, exposed>>
      <3>1. RowsTyped'
        BY <2>1, <2>3
      <3>2. leaving' = "no" => removals' = {} /\ UpdatesAgree' /\ RatingsAgree' /\ AddsAreNew'
        BY <2>1, <2>3 DEF UpdatesAgree, RatingsAgree, AddsAreNew, NameIsKept
      <3>3. KeepsWork
        BY <2>3 DEF KeepsWork, NameIsKept
      <3> QED BY <3>1, <3>2, <3>3
    <2>4. CASE Written(r.name, r.row)
      BY <2>1, <2>2, <2>4, WrittenKeepsWork
    <2> QED BY <1>4, <2>3, <2>4 DEF RatingSaved
  <1>5. ASSUME NEW c \in analyses, AnalysisSaved(c) PROVE WorkInv' /\ KeepsWork
    <2>1. /\ UNCHANGED <<updates, adds, ratings, removals, leaving>> /\ calls' = calls
          /\ analyses' = analyses \ {c} /\ c.call \in Call /\ c.call # 0
      BY <1>5 DEF AnalysisSaved, NoCall
    <2>2. CASE UNCHANGED <<rows, exposed>>
      <3>1. RowsTyped'
        BY <2>1, <2>2
      <3>2. leaving' = "no" => removals' = {} /\ UpdatesAgree' /\ RatingsAgree' /\ AddsAreNew'
        BY <2>1, <2>2 DEF UpdatesAgree, RatingsAgree, AddsAreNew, NameIsKept
      <3>3. KeepsWork
        BY <2>2 DEF KeepsWork, NameIsKept
      <3> QED BY <3>1, <3>2, <3>3
    <2>3. CASE c.name \in DOMAIN rows /\ Written(c.name, Analysed(c))
      <3>1. /\ Analysed(c) \in Row /\ Analysed(c).attached = rows[c.name].attached
            /\ Analysed(c).analysis = c.call /\ Analysed(c).rating = rows[c.name].rating
        BY <2>1, <2>3 DEF Analysed, Row
      <3>2. leaving = "no" /\ c.name \in adds \ exposed => ~rows[c.name].attached
        BY <2>3 DEF AddsAreNew, NameIsKept
      <3> QED BY <2>1, <2>3, <3>1, <3>2, WrittenKeepsWork DEF NameIsKept
    <2> QED BY <1>5, <2>2, <2>3 DEF AnalysisSaved
  <1> QED BY <1>2, <1>3, <1>4, <1>5

\* Once the removal is asked for, nothing is promised of the suggestions but
\* their shape.
LEMMA RemovalsKeepWork ==
  ASSUME WorkInv, NEW c \in removals, RemoveNames(c) \/ RemoveProject(c) \/ RemoveFails(c)
  PROVE  WorkInv' /\ KeepsWork
  <1>1. leaving' # "no" /\ calls' = calls /\ UNCHANGED <<updates, adds, ratings, analyses>>
    BY DEF RemoveNames, RemoveProject, RemoveFails, WorkInv, NoCall
  <1>2. \/ rows' = [s \in DOMAIN rows \ c.names |-> rows[s]]
        \/ rows' = [s \in {x \in DOMAIN rows : ~rows[x].attached} |-> rows[s]]
        \/ rows' = rows
    BY DEF RemoveNames, RemoveProject, RemoveFails
  <1>3. \A s \in DOMAIN rows' : rows'[s] \in Row
    BY <1>2 DEF WorkInv, RowsTyped
  <1> QED BY <1>1, <1>3 DEF WorkInv, RowsTyped, KeepsWork

LEMMA WorkStep ==
  ASSUME WorkInv, [Next]_vars
  PROVE  WorkInv' /\ [KeepsWork]_vars
  <1>1. ASSUME SavesElse \/ (\E c \in removals : RemoveProject(c))
        PROVE  WorkInv' /\ KeepsWork
    BY <1>1, UpdateKeepsWork, SavesKeepWork, RemovalsKeepWork DEF SavesElse
  <1>2. ASSUME \/ \E a \in accepting : Accepted(a)
               \/ \E g \in Guests, perm \in Perms : InviteRead(g, perm)
               \/ \E i \in invites : InviteSaved(i)
               \/ \E g \in Guests : Revoke(g)
        PROVE  WorkInv' /\ KeepsWork
    <2>1. /\ NewCall \/ NoCall
          /\ UNCHANGED <<rows, updates, ratings, analyses, adds, removals, exposed, leaving>>
      BY <1>2 DEF Accepted, InviteRead, InviteSaved, Revoke, requests
    <2>2. calls' \in Call
      BY <2>1, CallCounted DEF WorkInv, RowsTyped
    <2> QED BY <2>1, <2>2, RowsUntouched DEF WorkInv
  <1>3. CASE Next
    BY <1>1, <1>2, <1>3, NextCases, ReadsKeepWork
  <1>4. CASE UNCHANGED vars
    <2>1. /\ calls' = calls
          /\ UNCHANGED <<rows, updates, ratings, analyses, adds, removals, exposed, leaving>>
      BY <1>4 DEF vars, requests
    <2> QED BY <2>1, RowsUntouched DEF WorkInv, RowsTyped
  <1> QED BY <1>3, <1>4

\* A suggestion stays in its project with its analysis and its rating until the
\* removal of the project is asked for, unless it was written while an update of
\* the project or a rating read before was on its way (projects.service.ts,
\* update and setRating).
THEOREM WorkStored == Spec => WorkIsKept
  <1>1. WorkInv /\ [Next]_vars => WorkInv'
    BY WorkStep
  <1>2. WorkInv /\ [Next]_vars => [KeepsWork]_vars
    BY WorkStep
  <1> QED BY WorkStart, <1>1, <1>2, PTL DEF Spec, WorkIsKept, KeepsWork
=============================================================================
