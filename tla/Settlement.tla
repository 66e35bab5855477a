----------------------------- MODULE Settlement -----------------------------
(***************************************************************************)
(* What the mirror of the payroll promises of the loans, whatever syncs    *)
(* overlap or fail: an installment becomes paid only through a run that    *)
(* the payroll system has completed and that covers it, that is, one that  *)
(* pays its borrower for a period ended on or after its due date; and a    *)
(* paid installment stays paid for as long as its loan is there.           *)
(***************************************************************************)
CONSTANTS
  Runs,
  Loans,
  Installments,
  LoanOf,       \* the loan of each installment
  Covers        \* the installments each run covers

VARIABLES
  completed,    \* the runs the payroll system has completed
  ledger        \* what became of each installment

Life == {"none", "unpaid", "paid"}

Of(l) == {i \in Installments : LoanOf[i] = l}

Init ==
  /\ completed = {}
  /\ ledger = [i \in Installments |-> "none"]

Complete(r) ==
  /\ completed' = completed \cup {r}
  /\ UNCHANGED ledger

File(l) ==
  /\ \A i \in Of(l) : ledger[i] = "none"
  /\ ledger' = [i \in Installments |-> IF i \in Of(l) THEN "unpaid" ELSE ledger[i]]
  /\ UNCHANGED completed

Withdraw(l) ==
  /\ ledger' = [i \in Installments |-> IF i \in Of(l) THEN "none" ELSE ledger[i]]
  /\ UNCHANGED completed

Settle(r, I) ==
  /\ r \in completed
  /\ I \subseteq Covers[r]
  /\ \A i \in I : ledger[i] = "unpaid"
  /\ ledger' = [i \in Installments |-> IF i \in I THEN "paid" ELSE ledger[i]]
  /\ UNCHANGED completed

Next ==
  \/ \E r \in Runs : Complete(r) \/ \E I \in SUBSET Installments : Settle(r, I)
  \/ \E l \in Loans : File(l) \/ Withdraw(l)

Spec == Init /\ [][Next]_<<completed, ledger>>

=============================================================================
