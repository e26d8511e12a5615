--------------------------- MODULE MCDomainSearch ---------------------------
(***************************************************************************)
(* Small instances of a search and its framing.  Either the screen is left *)
(* alone, with batches of three with repetitions for two workers, so that  *)
(* a third name waits while two are at the registries, and a target of     *)
(* two, reached by two names at once or missed; or the user frames the     *)
(* search with a few gestures, and it draws its names one by one.          *)
(***************************************************************************)
EXTENDS Framing

CONSTANTS n1, n2, n3, quiet, telling, w1, w2, avoided, accented

MCNames == {n1, n2, n3}
MCTexts == {quiet, telling}
TwoExtensions == <<".com", ".fr">>
MCExclusions == {{}, {n1}}
UnitSpending == {1}

MCDemands == {avoided, accented}
MCUnseen == {accented}
MCLength == n1 :> 10 @@ n2 :> 9 @@ n3 :> 6
MCBreaches == n1 :> {} @@ n2 :> {accented} @@ n3 :> {avoided}

\* A description that asks for nothing, and one in which a request for short
\* names, below the floor, without two words may be read, or one for long names.
MCSays == quiet :> {Silent} @@ telling :> {
  Silent,
  [min |-> NoBound, max |-> 5, demands |-> {avoided, accented}, type |-> "inventes"],
  [min |-> 9, max |-> NoBound, demands |-> {avoided}, type |-> "descriptifs"]}

\* "Shorter"; "longer, and not this word".
MCWishes == {
  Silent,
  [min |-> NoBound, max |-> 8, demands |-> {}, type |-> "inventes"],
  [min |-> 8, max |-> NoBound, demands |-> {avoided}, type |-> "inventes"]}

MCMaxChoices == {8}

MCBudgets == {
  [gestures |-> 0, batch |-> 3, meanwhile |-> TRUE],
  [gestures |-> 3, batch |-> 1, meanwhile |-> FALSE]}

MCInit ==
  /\ FramingInit
  /\ budget.gestures = 0 => text = quiet /\ loggedIn
  /\ budget.gestures > 0 =>
       /\ text = telling
       /\ matchMode = "all"
       /\ excluded = {n1}
       /\ balance = 1

MCSpec == MCInit /\ [][FramingNext]_framingVars /\ FramingFairness
=============================================================================
