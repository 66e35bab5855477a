---------------------------- MODULE RatingEngine ----------------------------
(***************************************************************************)
(* backend/src/lib/performanceEngine.js: from the scores of a review's     *)
(* targets and competencies to its rating.                                 *)
(*                                                                         *)
(* Scores and weights are whole numbers; averages, parts and ratings are   *)
(* counted in hundredths, the two digits to which the code rounds them.    *)
(* The error of a binary fraction right at a half is left out.             *)
(***************************************************************************)
EXTENDS Integers, FiniteSetsExt

CONSTANT None

Groups == {"CORE", "STRATEGIC", "SUPPORT"}

\* Math.round(a / b), for a >= 0.
Rounded(a, b) == (2 * a + b) \div (2 * b)

WeightedAverage(value, weight) ==
  LET S == DOMAIN value
  IN Rounded(MapThenSumSet(LAMBDA k : value[k] * weight[k], S), MapThenSumSet(LAMBDA k : weight[k], S))

-----------------------------------------------------------------------------
(* computeAverageScore                                                     *)

\* A score comes as the number of a request or as the Decimal of a row.  reduce's a + b adds two
\* numbers; a Decimal becomes text there, and from then on digits are put behind digits.
Score(value, decimal) == [value |-> value, decimal |-> decimal]
Missing(s) == s.value = None
Plus(sum, s) ==
  IF Missing(s) THEN sum
  ELSE IF sum.text \/ s.decimal THEN [n |-> 10 * sum.n + s.value, text |-> TRUE]
  ELSE [n |-> sum.n + s.value, text |-> FALSE]

One(s) == IF Missing(s) THEN 0 ELSE 1
LengthOfAll(q, e, t) == 3
Length(q, e, t) == One(q) + One(e) + One(t)

computeAverageScore(q, e, t) ==
  LET sum == Plus(Plus(Plus([n |-> 0, text |-> FALSE], q), e), t) IN
  IF Missing(q) /\ Missing(e) /\ Missing(t) THEN None
  ELSE Rounded(100 * sum.n, Length(q, e, t))

\* Where more than one score is summed and one of them is a Decimal, the sum is none.
Misread(q, e, t) ==
  /\ Length(q, e, t) > 1
  /\ \E s \in {q, e, t} : ~Missing(s) /\ s.decimal

-----------------------------------------------------------------------------
(* computePartI, computePartII, computeFinalRating, computeFullReview      *)

\* Every weight is read with `Number(w) || d`: a weight of zero is the default.
OrElse(w, d) == IF w = 0 THEN d ELSE w

GroupAverage(targets, g) ==
  LET S == {k \in DOMAIN targets : /\ targets[k].group = g /\ targets[k].weight > 0
                                   /\ targets[k].average # None}
  IN IF S = {} THEN None
     ELSE WeightedAverage([k \in S |-> targets[k].average], [k \in S |-> targets[k].weight])

\* Groups without targets do not count: the others' percentages are made to add up to a whole.
computePartIOfAll(targets, percent) ==
  LET S == {g \in Groups : GroupAverage(targets, g) # None /\ percent[g] > 0}
  IN IF S = {} THEN None
     ELSE Rounded(MapThenSumSet(LAMBDA g : GroupAverage(targets, g) * percent[g], S), 100)
computePartI(targets, percent) ==
  LET S == {g \in Groups : GroupAverage(targets, g) # None /\ percent[g] > 0}
  IN IF S = {} THEN None
     ELSE WeightedAverage([g \in S |-> GroupAverage(targets, g)], percent)

computePartII(items) ==
  LET S == {c \in DOMAIN items : items[c] # None /\ items[c].score # None /\ items[c].weight > 0}
  IN IF S = {} THEN None
     ELSE WeightedAverage([c \in S |-> 100 * items[c].score], [c \in S |-> items[c].weight])

adjectivalLabel(rating) ==
  CASE rating >= 451 -> "OUTSTANDING"
    [] rating >= 351 /\ rating < 451 -> "VERY_SATISFACTORY"
    [] rating >= 251 /\ rating < 351 -> "SATISFACTORY"
    [] rating >= 151 /\ rating < 251 -> "UNSATISFACTORY"
    [] rating < 151 -> "POOR"

computeFinalRating(partI, partII, competencyWeight, officeRatingCap) ==
  LET final == IF partI # None /\ partII # None
               THEN Rounded(partI * (100 - competencyWeight) + partII * competencyWeight, 100)
               ELSE IF partI # None THEN partI ELSE partII
      capped == IF officeRatingCap # None /\ final > officeRatingCap THEN officeRatingCap ELSE final
  IN IF final = None THEN [rating |-> None, adjectival |-> None]
     ELSE [rating |-> capped, adjectival |-> adjectivalLabel(capped)]

\* A target without an average would have it computed here; the rows have one whenever they
\* have a score.
computeFullReview(targets, items, config) ==
  computeFinalRating(
    computePartI(targets, [CORE |-> OrElse(config.core, 50), STRATEGIC |-> OrElse(config.strategic, 30),
                           SUPPORT |-> OrElse(config.support, 20)]),
    computePartII(items), OrElse(config.competency, 30), config.cap)

=============================================================================
