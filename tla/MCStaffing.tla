------------------------------ MODULE MCStaffing ------------------------------
EXTENDS Staffing, TLC

CONSTANTS w1, w2, a1, a2, v1, v2, i1

MCStages == {"OFFERED"}
MCSeatForms == {"VACANT", "FROZEN"}
MCAppointmentForms == {"EFFECTIVE", "ENDED"}
Symmetry == Permutations({w1, w2}) \cup Permutations({a1, a2}) \cup Permutations({v1, v2})

=============================================================================
