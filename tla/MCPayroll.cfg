SPECIFICATION Spec
CONSTANTS
  p1 = p1
  r1 = r1
  x1 = x1
  e1 = e1
  e2 = e2
  l1 = l1
  l2 = l2
  i1 = i1
  i2 = i2
  i3 = i3
  s1 = s1
  s2 = s2
  Syncs = {s1, s2}
  Periods = {p1}
  Runs = {r1}
  Records = {x1}
  Employees = {e1, e2}
  Loans = {l1, l2}
  Installments = {i1, i2, i3}
  tenantId = None
  Newcomers = {e1}
  Answers <- MCAnswers
  None = None
  MaxFaults = 1
  MaxOverlaps = 1
  PeriodOf <- MCPeriodOf
  RunOf <- MCRunOf
  EmployeeOf <- MCEmployeeOf
  LoanOf <- MCLoanOf
  Borrower <- MCBorrower
  DueDate <- MCDueDate
  EndDate <- MCEndDate
INVARIANTS TypeOK OneRowPerExternalId AnnouncedOnce LinesMirrored PostedIsSettled
PROPERTY SettlesAsPromised
SYMMETRY Workers
