SPECIFICATION Spec
CONSTANTS
  None = None
  ana = ana
  r1 = r1
  r2 = r2
  w1 = w1
  w2 = w2
  Workers = {w1}
  Requests = {r1}
  Employees = {ana}
  Types = {"VACATION"}
  Forms <- SomeForms
  Edits <- NoEdits
  YearLength = 4
  RestDays = {3}
  LastYear = 1
SYMMETRY Interchangeable
CHECK_DEADLOCK FALSE
INVARIANT TerminalCancellable
