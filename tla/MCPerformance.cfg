SPECIFICATION Spec
CONSTANTS
  r1 = r1
  c1 = c1
  w1 = w1
  w2 = w2
  Workers = {w1, w2}
  Reviews = {r1}
  Competencies = {c1}
  Configs <- MCConfigs
  Defaults <- MCDefaults
  TargetForms <- MCTargetForms
  Patches <- MCPatches
  ItemForms <- MCItemForms
  Keep = Keep
  None = None
  MaxTargets = 2
  MaxOverlaps = 1
INVARIANTS TypeOK RatingOfItsRows AverageIsMean RatedOnScale
PROPERTY ApprovedIsFinal
SYMMETRY Handlers
CHECK_DEADLOCK FALSE
