--------------------------- MODULE MCPerformance ----------------------------
(* One review that two handlers edit and approve, with two targets and one competency.       *)
EXTENDS Performance, TLC

CONSTANTS r1, c1, w1, w2

Usual == [core |-> 50, strategic |-> 30, support |-> 20, competency |-> 30, cap |-> None]
Capped == [core |-> 50, strategic |-> 30, support |-> 20, competency |-> 0, cap |-> 400]
OneScore == [group |-> "CORE", weight |-> 60, quality |-> 1, efficiency |-> None, timeliness |-> None]
TwoScores == [group |-> "CORE", weight |-> 40, quality |-> 1, efficiency |-> 5, timeliness |-> None]
Carry == [group |-> Keep, weight |-> Keep, quality |-> Keep, efficiency |-> Keep, timeliness |-> Keep]

MCConfigs == {Capped}
MCDefaults == Usual
MCTargetForms == {OneScore, TwoScores}
MCPatches == {[Carry EXCEPT !.quality = 5]}
MCItemForms == {[score |-> 5, weight |-> 10]}
Handlers == Permutations(Workers)

=============================================================================
