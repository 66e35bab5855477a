---------------------------- MODULE MCAttendance ----------------------------
(* An instance of Attendance for TLC: two days of one instant each, one of them open to *)
(* the manual form and the imports.                                                     *)
EXTENDS Attendance, TLC

CONSTANTS ana, r1, r2, r3, w1, w2

\* A form that opens a session; as an import, a line that only knows when the day began.
SomeSheets == {[day |-> 0, in |-> 0, out |-> None]}

\* Reopening a row by clearing its timeOut.
SomeAmendments == {"out" :> None}

Interchangeable == Permutations(Rows) \cup Permutations(Workers)

=============================================================================
