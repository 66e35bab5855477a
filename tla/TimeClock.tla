----------------------------- MODULE TimeClock -----------------------------
(***************************************************************************)
(* What the time record promises an employee of a day nobody corrects by   *)
(* hand: there is one session at a time, a session is closed once, and     *)
(* what was entered stays as it is.  It knows nothing of transactions, of  *)
(* terminals or of who punches; a corrected day is no longer its business. *)
(***************************************************************************)
CONSTANTS
  Employees,
  Days,
  Times,
  Sessions,
  None

VARIABLES
  book,         \* the sessions: who, on which day, from when and until when
  corrected     \* the employees and days somebody has corrected

Of(e, d) == {s \in Sessions : book[s] # None /\ book[s].emp = e /\ book[s].day = d}
Running(e, d) == {s \in Of(e, d) : book[s].out = None}

Init ==
  /\ book = [s \in Sessions |-> None]
  /\ corrected = {}

Arrive(e, d, t) ==
  /\ <<e, d>> \notin corrected
  /\ Running(e, d) = {}
  /\ \E s \in Sessions :
       /\ book[s] = None
       /\ book' = [book EXCEPT ![s] = [emp |-> e, day |-> d, in |-> t, out |-> None]]
  /\ UNCHANGED corrected

Depart(e, d, t) ==
  /\ \E s \in Running(e, d) :
       book' = [book EXCEPT ![s] = [emp |-> e, day |-> d, in |-> book[s].in, out |-> t]]
  /\ UNCHANGED corrected

Correct(e, d) ==
  /\ corrected' = corrected \cup {<<e, d>>}
  /\ book' = [s \in Sessions |-> IF s \in Of(e, d) THEN None ELSE book[s]]

Next ==
  \E e \in Employees, d \in Days :
    \/ \E t \in Times : Arrive(e, d, t) \/ Depart(e, d, t)
    \/ Correct(e, d)

Spec == Init /\ [][Next]_<<book, corrected>>

=============================================================================
