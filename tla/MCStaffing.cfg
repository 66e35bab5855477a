SPECIFICATION Spec
CONSTANTS
  w1 = w1
  w2 = w2
  a1 = a1
  a2 = a2
  v1 = v1
  v2 = v2
  i1 = i1
  Workers = {w1, w2}
  Applicants = {a1, a2}
  Vacancies = {v1, v2}
  Items = {i1}
  Stages <- MCStages
  SeatForms <- MCSeatForms
  AppointmentForms <- MCAppointmentForms
  None = None
  MaxEmployees = 2
  MaxAppointments = 2
  MaxOverlaps = 1
INVARIANTS TypeOK HiresAccounted SeatHeldOnce
PROPERTY OpenedForVacant
SYMMETRY Symmetry
