----------------------------- MODULE NamingRules -----------------------------
(***************************************************************************)
(* The terms of a search: how long its names may be and what is demanded   *)
(* of them.  The language model reads them in the description; the user    *)
(* withdraws some, sets a maximum over the rest, and wishes for others     *)
(* once he has seen names.                                                 *)
(*                                                                         *)
(* A bound is a number of characters or NoBound (null).  A demand is a     *)
(* word or an ending to avoid, or a word to hold, and a name breaches some *)
(* of them.  The setting of a minimum is left out: it only comes from tabs *)
(* opened before the screen lost it.                                       *)
(***************************************************************************)
EXTENDS Integers

CONSTANTS
  NoBound,
  MIN_NAME_LENGTH_FLOOR,     \* 6
  DEFAULT_MAX_NAME_LENGTH,   \* 10
  MAX_NAME_LENGTH_FLOOR,     \* 12, the most a minimum may be
  Demands,
  Unseen,                    \* demands the filter cannot see: their word has an accent, or two letters
  Length,                    \* characters of each name
  Breaches                   \* demands each name breaches

ASSUME RulesAssumption ==
  /\ NoBound \notin Int
  /\ MIN_NAME_LENGTH_FLOOR \in Nat
  /\ DEFAULT_MAX_NAME_LENGTH \in Nat
  /\ MAX_NAME_LENGTH_FLOOR \in Nat
  /\ MIN_NAME_LENGTH_FLOOR <= DEFAULT_MAX_NAME_LENGTH
  /\ MIN_NAME_LENGTH_FLOOR <= MAX_NAME_LENGTH_FLOOR

Bound == Nat \union {NoBound}
Type == {"inventes", "descriptifs"}
Reading == [min : Bound, max : Bound, demands : SUBSET Demands, type : Type]

\* Nothing read, or a reading that failed.
Silent == [min |-> NoBound, max |-> NoBound, demands |-> {}, type |-> "inventes"]

Larger(a, b) == IF a >= b THEN a ELSE b
Smaller(a, b) == IF a <= b THEN a ELSE b
Or(bound, default) == IF bound = NoBound THEN default ELSE bound

Borne(n) == Smaller(Larger(n, MIN_NAME_LENGTH_FLOOR), MAX_NAME_LENGTH_FLOOR)
MaxParDefaut(min) == Larger(DEFAULT_MAX_NAME_LENGTH, min + 2)

\* What the search applies: the setting of the screen, or else what was read, or
\* else the defaults.
BornesDeLongueur(c, reglage) ==
  LET lu == Borne(Or(c.min, MIN_NAME_LENGTH_FLOOR))
      max == IF c.max # NoBound THEN Larger(c.max, MIN_NAME_LENGTH_FLOOR) ELSE MaxParDefaut(lu)
      choisi == Larger(reglage, MIN_NAME_LENGTH_FLOOR)
  IN  CASE reglage # NoBound ->
             [min |-> IF lu <= choisi THEN lu ELSE MIN_NAME_LENGTH_FLOOR, max |-> choisi]
        [] reglage = NoBound /\ c.min = NoBound /\ c.max = NoBound ->
             [min |-> MIN_NAME_LENGTH_FLOOR, max |-> DEFAULT_MAX_NAME_LENGTH]
        [] OTHER ->
             [min |-> lu, max |-> Larger(max, lu)]

\* Mutant: the double of the screen trusts a short maximum of the description.
BornesSansPlancher(c, reglage) ==
  IF reglage = NoBound /\ c.max # NoBound
  THEN [min |-> Borne(Or(c.min, MIN_NAME_LENGTH_FLOOR)), max |-> c.max]
  ELSE BornesDeLongueur(c, reglage)

\* Its double, which announces the bounds on the screen.
BornesAffichees(c, reglage) ==
  LET lu == Borne(Or(c.min, MIN_NAME_LENGTH_FLOOR))
      max == IF c.max # NoBound THEN Larger(c.max, MIN_NAME_LENGTH_FLOOR) ELSE MaxParDefaut(lu)
      choisi == Larger(reglage, MIN_NAME_LENGTH_FLOOR)
  IN  CASE reglage # NoBound ->
             [min |-> IF lu <= choisi THEN lu ELSE MIN_NAME_LENGTH_FLOOR, max |-> choisi]
        [] reglage = NoBound /\ c.min = NoBound /\ c.max = NoBound ->
             [min |-> MIN_NAME_LENGTH_FLOOR, max |-> DEFAULT_MAX_NAME_LENGTH]
        [] OTHER ->
             [min |-> lu, max |-> Larger(max, lu)]

RetirerContraintes(c, retirees) == [c EXCEPT !.demands = @ \ retirees]

\* A wish replaces the bounds that were read, and a bound that was read and
\* contradicts it falls: the most recent prevails.  Demands add up.
AppliquerRetours(c, i) ==
  LET min == IF i.min # NoBound THEN i.min ELSE c.min
      max == IF i.max # NoBound THEN i.max ELSE c.max
      contredit == min # NoBound /\ max # NoBound /\ min > max
  IN  [c EXCEPT !.min = IF contredit /\ i.max # NoBound /\ i.min = NoBound THEN NoBound ELSE min,
                !.max = IF contredit /\ i.min # NoBound /\ i.max = NoBound THEN NoBound ELSE max,
                !.demands = @ \union i.demands]

\* A name of a style; what its demands say, as far as the filter sees them.
RespecteLesContraintes(name, style, terms) ==
  /\ Length[name] >= IF style = "standard" THEN terms.min ELSE Smaller(terms.min, MIN_NAME_LENGTH_FLOOR)
  /\ style = "standard" => Length[name] <= Larger(terms.max, terms.min)
  /\ Breaches[name] \intersect terms.demands \subseteq Unseen

Styles(type) == IF type = "inventes" THEN {"standard"} ELSE {"standard", "other"}
==============================================================================
