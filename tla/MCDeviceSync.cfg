SPECIFICATION Spec
CONSTANTS
  None = None
  Gone = Gone
  ana = ana
  zk = zk
  u1 = u1
  r1 = r1
  r2 = r2
  r3 = r3
  p1 = p1
  p2 = p2
  Employees = {ana}
  Rows = {r1, r2, r3}
  Workers = {p1, p2}
  Pulls = {p1, p2}
  Devices = {zk}
  Users = {u1}
  Number <- AnasNumber
  Stranger = mapping
  Events <- TwoEvents
  Told = {}
  Sheets = {}
  Amendments = {}
  DayLength = 2
  LastTime = 1
  MaxFaults = 2
SYMMETRY Interchangeable
INVARIANTS TypeOK OneOpenRow PunchesKept AppliedOnce MarkedIsPunched OnePollPerDevice
