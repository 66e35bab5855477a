SPECIFICATION Spec
CONSTANTS
  None = None
  ana = ana
  r1 = r1
  r2 = r2
  w1 = w1
  w2 = w2
  Workers = {w1, w2}
  Requests = {r1, r2}
  Employees = {ana}
  Types = {"VACATION"}
  Forms <- SomeForms
  Edits <- SomeEdits
  YearLength = 4
  RestDays = {3}
  LastYear = 1
SYMMETRY Interchangeable
CHECK_DEADLOCK FALSE
INVARIANTS TypeOK NoOverlap OneRegularPayoutAYear LedgerBalanced ChargedOnce
PROPERTY NoNewDecision
