----------------------------- MODULE MCPayroll ------------------------------
(* One period with one run that pays one of two borrowers, who owe three installments.       *)
EXTENDS Payroll, TLC

CONSTANTS p1, r1, x1, e1, e2, l1, l2, i1, i2, i3, s1, s2

MCPeriodOf == [r \in Runs |-> p1]
MCRunOf == [x \in Records |-> r1]
MCEmployeeOf == [x \in Records |-> e1]
MCLoanOf == [i \in Installments |-> IF i = i3 THEN l2 ELSE l1]
MCBorrower == [l \in Loans |-> IF l = l1 THEN e1 ELSE e2]
MCDueDate == [i \in Installments |-> IF i = i2 THEN 2 ELSE 1]
MCEndDate == [p \in Periods |-> 1]
Workers == Permutations(Syncs)
MCAnswers == {Ids, Records}

=============================================================================
