------------------------------ MODULE MCLeave ------------------------------
(* Instances of Leave for TLC.  Days 0..3 are the first year, 4..7 the second.  *)
EXTENDS Leave, TLC

CONSTANTS ana, r1, r2, w1, w2

Vacation(from, to) ==
  [emp |-> ana, type |-> "VACATION", from |-> from, to |-> to, half |-> FALSE,
   lwop |-> FALSE, terminal |-> FALSE, forced |-> FALSE, byApprover |-> FALSE,
   noticed |-> TRUE, shortNotice |-> TRUE, certificate |-> FALSE]

\* A vacation of the first day of the second year, and a terminal leave, of half days, that
\* begins at the end of the first and touches it.
SomeForms ==
  {Vacation(4, 4), [Vacation(3, 4) EXCEPT !.terminal = TRUE, !.byApprover = TRUE, !.half = TRUE]}

\* A vacation of the second year, which can be filed in the first.
NextYearForms == {Vacation(4, 5)}

NoEdits == {<<>>}
SomeEdits == {<<>>, "terminal" :> TRUE}

Interchangeable == Permutations(Requests) \cup Permutations(Workers)

=============================================================================
