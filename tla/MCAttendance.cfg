SPECIFICATION AttSpec
CONSTANTS
  None = None
  Gone = Gone
  ana = ana
  r1 = r1
  r2 = r2
  r3 = r3
  w1 = w1
  w2 = w2
  Employees = {ana}
  Rows = {r1, r2, r3}
  Workers = {w1, w2}
  Sheets <- SomeSheets
  Amendments <- SomeAmendments
  Told = {0}
  DayLength = 1
  LastTime = 1
SYMMETRY Interchangeable
INVARIANTS AttTypeOK OneOpenRow PunchesKept
PROPERTY KeepsTime
