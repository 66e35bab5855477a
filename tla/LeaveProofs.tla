---------------------------- MODULE LeaveProofs ----------------------------
(***************************************************************************)
(* Proofs about Leave, for any number of workers, requests and employees.  *)
(***************************************************************************)
EXTENDS Leave, Sums

\* The number of half days of a form is a natural number: countWorkdays counts the days of
\* an interval.
LEMMA DaysNat == ASSUME NEW f \in Form PROVE Days(f) \in Nat
  <1> DEFINE W == {d \in f.from .. f.to : d \notin RestDays}
  <1>1. IsFiniteSet(f.from .. f.to)
    BY FS_Interval DEF Form
  <1>2. IsFiniteSet(W)
    BY <1>1, FS_Subset
  <1>3. Cardinality(W) \in Nat
    BY <1>2, FS_CardinalityType
  <1> QED
    BY <1>3 DEF Days

\* An admissible row points at an account of the ledger.
LEMMA AccountTyped == ASSUME NEW f \in Forms PROVE Account(f) \in Accounts
  BY LeaveAssumption DEF Account, Accounts, Form

\* A PATCH leaves a row a row, of the same form and with the same payout.
LEMMA UpdatedTyped ==
  ASSUME NEW row \in Row, NEW to \in Statuses \cup {"KEEP"}, NEW edit \in Edits
  PROVE  /\ Updated(row, to, edit) \in Row
         /\ Updated(row, to, edit).form = row.form
         /\ Updated(row, to, edit).payout = row.payout
         /\ Updated(row, to, edit).status = IF to = "KEEP" THEN row.status ELSE to
  BY LeaveAssumption DEF Updated, Row, Statuses

-----------------------------------------------------------------------------
(* Types                                                                   *)

\* An account that reconcileCredits opens has an opening balance.
LEMMA OpeningTyped == ASSUME NEW a \in FixedAccounts PROVE a \in Accounts /\ Opening[a[2]] \in Int
  BY DEF FixedAccounts, Accounts, Fixed, Opening

\* Every operation leaves the rows, the balances and the handlers' states well formed.
THEOREM TypeCorrect == Spec => []TypeOK
  <1> USE LeaveAssumption
  <1>1. Init => TypeOK
    BY DEF Init, TypeOK, Job, Idle, Years
  <1>2. TypeOK /\ [Next]_vars => TypeOK'
    <2> SUFFICES ASSUME TypeOK, [Next]_vars PROVE TypeOK'
      OBVIOUS
    <2>1. ASSUME NEW w \in Workers, NEW f \in Forms, FileStart(w, f) PROVE TypeOK'
      BY <2>1 DEF FileStart, Begin, InFlight, For, TypeOK, Job, Filed, Form
    <2>2. ASSUME NEW w \in Workers, FileCheckCredit(w) PROVE TypeOK'
      BY <2>2 DEF FileCheckCredit, Goto, Finish, Idle, TypeOK, Job, Filed
    <2>3. ASSUME NEW w \in Workers, FileInsert(w) PROVE TypeOK'
      BY <2>3 DEF FileInsert, Finish, Idle, TypeOK, Job, Filed, Row, Form, Statuses
    <2>4. ASSUME NEW w \in Workers, NEW r \in Filed, NEW to \in Statuses \cup {"KEEP"},
                 NEW edit \in Edits, DecideStart(w, r, to, edit)
          PROVE  TypeOK'
      BY <2>4 DEF DecideStart, Begin, InFlight, For, Charged, TypeOK, Job, Filed, Row, Form
    <2>5. ASSUME NEW w \in Workers, DecideWrite(w) PROVE TypeOK'
      <3> DEFINE a == job[w].arg
      <3>1. /\ job[w].pc = "decide" /\ job[w].req \in Requests /\ req[job[w].req] \in Row
            /\ a \in [to: Statuses \cup {"KEEP"}, edit: Edits, charged: BOOLEAN]
        BY <2>5 DEF DecideWrite, TypeOK, Job, Filed
      <3>2. Updated(req[job[w].req], a.to, a.edit) \in Row
        BY <3>1, UpdatedTyped
      <3>3. req' \in [Requests -> Row \cup {None}] /\ Filed' = Filed
        BY <2>5, <3>1, <3>2 DEF DecideWrite, TypeOK, Filed
      <3>4. job' \in [Workers -> Job] /\ \A v \in Workers : job'[v].req # None => job'[v].req \in Filed
        BY <2>5, <3>1 DEF DecideWrite, Goto, Finish, Idle, TypeOK, Job
      <3> QED
        BY <2>5, <3>3, <3>4 DEF DecideWrite, Goto, Finish, TypeOK
    <2>6. ASSUME NEW w \in Workers, Debit(w) PROVE TypeOK'
      BY <2>6, DaysNat, AccountTyped DEF Debit, Finish, Idle, TypeOK, Job, Filed, Row
    <2>7. ASSUME NEW w \in Workers, NEW r \in Filed, PayStart(w, r) PROVE TypeOK'
      BY <2>7 DEF PayStart, Begin, InFlight, For, TypeOK, Job, Filed, Row, Form
    <2>8. ASSUME NEW w \in Workers, PayReadCredit(w) PROVE TypeOK'
      BY <2>8 DEF PayReadCredit, Goto, Finish, Idle, TypeOK, Job, Filed
    <2>9. ASSUME NEW w \in Workers, PayCount(w) PROVE TypeOK'
      BY <2>9 DEF PayCount, Goto, Finish, Idle, TypeOK, Job, Filed
    <2>10. ASSUME NEW w \in Workers, PayWrite(w) PROVE TypeOK'
      BY <2>10 DEF PayWrite, Finish, Idle, TypeOK, Job, Filed, Row, Statuses
    <2>11. ASSUME NEW w \in Workers, NEW e \in Employees, ReconcileStart(w, e) PROVE TypeOK'
      BY <2>11 DEF ReconcileStart, Begin, InFlight, For, TypeOK, Job, Filed
    <2>12. ASSUME NEW w \in Workers, ReconcileCreate(w) PROVE TypeOK'
      <3>1. PICK a \in job[w].arg :
              /\ OpenAccount(a)
              /\ IF job[w].arg = {a} THEN Finish(w) ELSE Goto(w, "reconcile", job[w].arg \ {a})
        BY <2>12 DEF ReconcileCreate
      <3>2. job[w] \in [pc: {"reconcile"}, emp: {None}, req: {None}, arg: SUBSET FixedAccounts]
        BY <2>12 DEF ReconcileCreate, TypeOK, Job
      <3>3. credit' \in [Accounts -> Int \cup {None}]
        BY <3>1, <3>2, OpeningTyped DEF OpenAccount, TypeOK
      <3>4. job' \in [Workers -> Job] /\ \A v \in Workers : job'[v].req # None => job'[v].req \in Filed
        BY <3>1, <3>2 DEF Goto, Finish, Idle, TypeOK, Job
      <3> QED
        BY <2>12, <3>1, <3>3, <3>4 DEF ReconcileCreate, Goto, Finish, TypeOK, Filed
    <2>13. ASSUME NEW w \in Workers, Abort(w) PROVE TypeOK'
      BY <2>13 DEF Abort, Finish, Idle, TypeOK, Job, Filed
    <2>14. CASE NewYear
      BY <2>14 DEF NewYear, TypeOK, Filed, Years
    <2>15. CASE UNCHANGED vars
      BY <2>15 DEF vars, TypeOK, Filed
    <2> QED
      BY <2>1, <2>2, <2>3, <2>4, <2>5, <2>6, <2>7, <2>8, <2>9, <2>10, <2>11, <2>12, <2>13,
         <2>14, <2>15 DEF Next
  <1> QED
    BY <1>1, <1>2, PTL DEF Spec

-----------------------------------------------------------------------------
(* One charge per request                                                  *)

\* What a handler read is still so when it writes.
Current(w) ==
  LET r == job[w].req IN
  /\ job[w].pc = "decide" /\ job[w].arg.to # "KEEP" => Transition(req[r].status, job[w].arg.to)
  /\ job[w].pc = "debit" => req[r].status = "APPROVED" /\ debits[r] = 0
  /\ job[w].pc \in {"payCredit", "payCount", "payWrite"} => req[r].status = "APPROVED"

\* The strengthening of ChargedOnce: for an employee who is not rushed there is at most one
\* handler, and its snapshot is current.
ChargeInv ==
  /\ \A r \in Requests : req[r] = None => debits[r] = 0
  /\ \A w \in Workers : job[w].req # None => job[w].emp = req[job[w].req].form.emp
  /\ \A v, w \in Workers :
       job[v].emp = job[w].emp /\ job[w].emp # None /\ job[w].emp \notin rushed => v = w
  /\ \A w \in Workers : job[w].req # None /\ job[w].emp \notin rushed => Current(w)
  /\ ChargedOnce

\* A handler that starts for an employee either is alone or marks the employee as rushed.
LEMMA BeginSolo ==
  ASSUME TypeOK, ChargeInv, NEW w \in Workers, NEW pc, NEW e \in Employees, NEW r, NEW arg,
         Begin(w, pc, e, r, arg), UNCHANGED <<req, debits>>,
         r # None => r \in Filed /\ e = req[r].form.emp,
         r # None /\ e \notin rushed' => Current(w)'
  PROVE  ChargeInv'
  <1> USE LeaveAssumption
  <1>1. /\ job' = [job EXCEPT ![w] = [pc |-> pc, emp |-> e, req |-> r, arg |-> arg]]
        /\ job \in [Workers -> Job]
        /\ rushed \subseteq rushed'
        /\ e \notin rushed' => \A v \in Workers : job[v].emp # e
        /\ e # None /\ e \notin {None}
    BY DEF Begin, For, TypeOK
  <1>2. /\ job'[w].emp = e /\ job'[w].req = r
        /\ \A v \in Workers \ {w} : job'[v] = job[v]
    BY <1>1
  <1>3. \A u \in Workers : job'[u].req # None => job'[u].emp = req'[job'[u].req].form.emp
    BY <1>1, <1>2 DEF ChargeInv
  <1>4. \A u, v \in Workers :
          job'[u].emp = job'[v].emp /\ job'[v].emp # None /\ job'[v].emp \notin rushed' => u = v
    BY <1>1, <1>2 DEF ChargeInv
  <1>5. \A v \in Workers : job'[v].req # None /\ job'[v].emp \notin rushed' => Current(v)'
    BY <1>1, <1>2 DEF ChargeInv, Current
  <1>6. ChargedOnce'
    BY <1>1 DEF ChargeInv, ChargedOnce, Filed
  <1> QED
    BY <1>3, <1>4, <1>5, <1>6 DEF ChargeInv

\* A handler that goes on or ends without writing keeps the invariant.
LEMMA StepSolo ==
  ASSUME TypeOK, ChargeInv, NEW w \in Workers, NEW j, InFlight(w),
         job' = [job EXCEPT ![w] = j], UNCHANGED <<req, debits, rushed>>,
         \/ j = Idle
         \/ j.emp = job[w].emp /\ j.req = job[w].req /\ (j.req # None => j.pc = "payWrite" \/ j.pc = "payCount")
            /\ (j.req # None => job[w].pc \in {"payCredit", "payCount"})
  PROVE  ChargeInv'
  <1> USE LeaveAssumption
  <1>1. /\ job'[w] = j
        /\ \A v \in Workers \ {w} : job'[v] = job[v]
        /\ job \in [Workers -> Job]
    BY DEF TypeOK
  <1>2. \A u \in Workers : job'[u].req # None => job'[u].emp = req'[job'[u].req].form.emp
    BY <1>1 DEF ChargeInv, Idle
  <1>3. \A u, v \in Workers :
          job'[u].emp = job'[v].emp /\ job'[v].emp # None /\ job'[v].emp \notin rushed' => u = v
    BY <1>1 DEF ChargeInv, Idle
  <1>4. \A v \in Workers : job'[v].req # None /\ job'[v].emp \notin rushed' => Current(v)'
    BY <1>1 DEF ChargeInv, Idle, Current
  <1>5. ChargedOnce'
    BY DEF ChargeInv, ChargedOnce, Filed
  <1> QED
    BY <1>2, <1>3, <1>4, <1>5 DEF ChargeInv

\* A write of request r by its own handler w, the last of its steps or the one before the
\* charge, keeps the invariant if the row it writes accounts for the charges made.
LEMMA WriteSolo ==
  ASSUME TypeOK, TypeOK', ChargeInv, NEW w \in Workers, NEW j, NEW row \in Row,
         InFlight(w), job[w].req # None,
         job' = [job EXCEPT ![w] = j],
         j = Idle \/ (j.pc = "debit" /\ j.req = job[w].req /\ j.emp = job[w].emp),
         req' = [req EXCEPT ![job[w].req] = row], row.form = req[job[w].req].form,
         UNCHANGED rushed,
         \A r \in Requests \ {job[w].req} : debits'[r] = debits[r],
         job[w].emp \notin rushed =>
           /\ debits'[job[w].req] <= 1
           /\ debits'[job[w].req] = 1 \/ row.payout # "none" => row.status = "APPROVED"
           /\ j # Idle => row.status = "APPROVED" /\ debits'[job[w].req] = 0
  PROVE  ChargeInv'
  <1> USE LeaveAssumption
  <1> DEFINE r == job[w].req
  <1>1. /\ job'[w] = j
        /\ \A v \in Workers \ {w} : job'[v] = job[v]
        /\ job \in [Workers -> Job]
        /\ r \in Filed /\ r \in Requests /\ req'[r] = row /\ row # None
        /\ \A q \in Requests \ {r} : req'[q] = req[q]
        /\ Filed' = Filed
    BY DEF TypeOK, Filed
  <1>2. /\ job[w].emp = req[r].form.emp
        /\ job[w].emp # None
    BY <1>1 DEF ChargeInv, TypeOK, Job
  <1>3. \A q \in Requests : req'[q] = None => debits'[q] = 0
    BY <1>1 DEF ChargeInv
  <1>4. \A u \in Workers : job'[u].req # None => job'[u].emp = req'[job'[u].req].form.emp
    BY <1>1, <1>2 DEF ChargeInv, Idle, TypeOK, Filed
  <1>5. \A u, v \in Workers :
          job'[u].emp = job'[v].emp /\ job'[v].emp # None /\ job'[v].emp \notin rushed' => u = v
    BY <1>1 DEF ChargeInv, Idle
  <1>6. \A v \in Workers : job'[v].req # None /\ job'[v].emp \notin rushed' => Current(v)'
    <2> SUFFICES ASSUME NEW v \in Workers, job'[v].req # None, job'[v].emp \notin rushed'
                 PROVE  Current(v)'
      OBVIOUS
    <2>1. CASE v = w
      BY <2>1, <1>1, <1>2 DEF Current, Idle
    <2>2. CASE v # w
      <3>1. job[v].req # r
        BY <2>2, <1>1, <1>2 DEF ChargeInv
      <3>2. job[v].req \in Requests
        BY <2>2, <1>1 DEF TypeOK, Filed
      <3> QED
        BY <2>2, <3>1, <3>2, <1>1 DEF ChargeInv, Current
    <2> QED
      BY <2>1, <2>2
  <1>7. ChargedOnce'
    BY <1>1, <1>2 DEF ChargeInv, ChargedOnce, Filed
  <1> QED
    BY <1>3, <1>4, <1>5, <1>6, <1>7 DEF ChargeInv

\* Filing inserts a row nobody works on and nothing was charged to.
LEMMA InsertSolo ==
  ASSUME TypeOK, ChargeInv, NEW w \in Workers, FileInsert(w)
  PROVE  ChargeInv'
  <1> USE LeaveAssumption
  <1>1. PICK r \in Requests \ Filed :
          req' = [req EXCEPT ![r] = [form |-> job[w].arg, status |-> "PENDING",
                                     lwop |-> job[w].arg.lwop, terminal |-> job[w].arg.terminal,
                                     recommended |-> FALSE, payout |-> "none"]]
    BY DEF FileInsert
  <1>2. /\ \A q \in Requests \ {r} : req'[q] = req[q]
        /\ req'[r].payout = "none" /\ debits'[r] = 0
        /\ job' = [job EXCEPT ![w] = Idle] /\ UNCHANGED <<rushed, debits>>
        /\ \A v \in Workers : job[v].req # r
        /\ \A v \in Workers : job[v].req # None => job[v].req \in Requests
        /\ req[r] = None
    BY <1>1 DEF FileInsert, Finish, ChargeInv, TypeOK, Filed
  <1>3. /\ \A v \in Workers \ {w} : job'[v] = job[v]
        /\ job'[w] = Idle
    BY <1>2 DEF TypeOK
  <1>4. \A q \in Requests : req'[q] = None => debits'[q] = 0
    BY <1>2 DEF ChargeInv
  <1>5. \A u \in Workers : job'[u].req # None => job'[u].emp = req'[job'[u].req].form.emp
    BY <1>2, <1>3 DEF ChargeInv, Idle
  <1>6. \A u, v \in Workers :
          job'[u].emp = job'[v].emp /\ job'[v].emp # None /\ job'[v].emp \notin rushed' => u = v
    BY <1>2, <1>3 DEF ChargeInv, Idle
  <1>7. \A v \in Workers : job'[v].req # None /\ job'[v].emp \notin rushed' => Current(v)'
    BY <1>2, <1>3 DEF ChargeInv, Idle, Current
  <1>8. ChargedOnce'
    BY <1>2 DEF ChargeInv, ChargedOnce, Filed, TypeOK
  <1> QED
    BY <1>4, <1>5, <1>6, <1>7, <1>8 DEF ChargeInv

\* For every number of workers and requests: who is not rushed has one handler at most, and what
\* it read is still so.
THEOREM ChargeInvCorrect == Spec => []ChargeInv
  <1> USE LeaveAssumption
  <1>1. Init => ChargeInv
    BY DEF Init, ChargeInv, ChargedOnce, Filed, Idle, Current
  <1>2. TypeOK /\ TypeOK' /\ ChargeInv /\ [Next]_vars => ChargeInv'
    <2> SUFFICES ASSUME TypeOK, TypeOK', ChargeInv, [Next]_vars PROVE ChargeInv'
      OBVIOUS
    <2>1. ASSUME NEW w \in Workers, NEW f \in Forms, FileStart(w, f) PROVE ChargeInv'
      <3>1. f.emp \in Employees
        BY DEF Form
      <3> QED
        BY <2>1, <3>1, BeginSolo DEF FileStart
    <2>2. ASSUME NEW w \in Workers, FileCheckCredit(w) PROVE ChargeInv'
      <3>1. job[w] \in Job /\ job[w].pc = "fileCredit" /\ job[w].req = None /\ InFlight(w)
        BY <2>2 DEF FileCheckCredit, TypeOK, Job, InFlight
      <3>2. CASE Finish(w)
        BY <2>2, <3>1, <3>2, StepSolo DEF FileCheckCredit, Finish
      <3>3. CASE Goto(w, "fileInsert", job[w].arg)
        <4>1. job' = [job EXCEPT ![w] = [job[w] EXCEPT !.pc = "fileInsert", !.arg = job[w].arg]]
          BY <3>3 DEF Goto, TypeOK
        <4> QED
          BY <2>2, <3>1, <3>3, <4>1, StepSolo DEF FileCheckCredit, Goto, Job
      <3> QED
        BY <2>2, <3>2, <3>3 DEF FileCheckCredit
    <2>3. ASSUME NEW w \in Workers, FileInsert(w) PROVE ChargeInv'
      BY <2>3, InsertSolo
    <2>4. ASSUME NEW w \in Workers, NEW r \in Filed, NEW to \in Statuses \cup {"KEEP"},
                 NEW edit \in Edits, DecideStart(w, r, to, edit)
          PROVE  ChargeInv'
      <3>1. r \in Requests /\ req[r] \in Row /\ req[r].form.emp \in Employees /\ r # None
        BY DEF Filed, TypeOK, Row, Form
      <3>2. Current(w)'
        BY <2>4, <3>1 DEF DecideStart, Begin, Current, TypeOK
      <3> QED
        BY <2>4, <3>1, <3>2, BeginSolo DEF DecideStart
    <2>5. ASSUME NEW w \in Workers, DecideWrite(w) PROVE ChargeInv'
      <3> DEFINE a == job[w].arg
                 row == Updated(req[job[w].req], a.to, a.edit)
                 j == IF a.to = "APPROVED" /\ a.charged
                        THEN [job[w] EXCEPT !.pc = "debit", !.arg = None] ELSE Idle
      <3>1. /\ job[w].pc = "decide" /\ job[w].req \in Requests /\ req[job[w].req] \in Row
            /\ a \in [to: Statuses \cup {"KEEP"}, edit: Edits, charged: BOOLEAN]
            /\ job[w] \in Job /\ job[w].req # None /\ InFlight(w)
        BY <2>5 DEF DecideWrite, TypeOK, Job, Filed, InFlight
      <3>2. /\ row \in Row /\ row.form = req[job[w].req].form
            /\ row.payout = req[job[w].req].payout
            /\ row.status = IF a.to = "KEEP" THEN req[job[w].req].status ELSE a.to
        <4>1. a.to \in Statuses \cup {"KEEP"} /\ a.edit \in Edits
          BY <3>1
        <4> HIDE DEF a
        <4> QED
          BY <3>1, <4>1, UpdatedTyped DEF row
      <3>3. job' = [job EXCEPT ![w] = j] /\ req' = [req EXCEPT ![job[w].req] = row]
        BY <2>5, <3>1 DEF DecideWrite, Goto, Finish, TypeOK
      <3>4. /\ j = Idle \/ (j.pc = "debit" /\ j.req = job[w].req /\ j.emp = job[w].emp)
            /\ j # Idle => a.to = "APPROVED"
        BY <3>1 DEF Job
      <3>5. debits' = debits /\ rushed' = rushed
        BY <2>5 DEF DecideWrite, Goto, Finish
      <3>6. job[w].emp \notin rushed =>
              /\ debits'[job[w].req] <= 1
              /\ debits'[job[w].req] = 1 \/ row.payout # "none" => row.status = "APPROVED"
              /\ j # Idle => row.status = "APPROVED" /\ debits'[job[w].req] = 0
        <4> SUFFICES ASSUME job[w].emp \notin rushed
                     PROVE  /\ debits[job[w].req] <= 1
                            /\ debits[job[w].req] = 1 \/ row.payout # "none" => row.status = "APPROVED"
                            /\ j # Idle => row.status = "APPROVED" /\ debits[job[w].req] = 0
          BY <3>5
        <4>1. Current(w) /\ job[w].emp = req[job[w].req].form.emp
          BY <3>1 DEF ChargeInv
        <4>2. /\ debits[job[w].req] \in Nat /\ debits[job[w].req] <= 1
              /\ debits[job[w].req] = 1 \/ req[job[w].req].payout # "none"
                   => req[job[w].req].status = "APPROVED"
          BY <3>1, <4>1 DEF ChargeInv, ChargedOnce, Filed, TypeOK
        <4>3. a.to # "KEEP" => req[job[w].req].status # "APPROVED"
          BY <3>1, <4>1 DEF Current, Transition
        <4> QED
          BY <3>2, <3>4, <4>2, <4>3
      <3> QED
        BY <3>1, <3>2, <3>3, <3>4, <3>5, <3>6, WriteSolo
    <2>6. ASSUME NEW w \in Workers, Debit(w) PROVE ChargeInv'
      <3> DEFINE r == job[w].req
      <3>1. /\ job[w].pc = "debit" /\ r \in Requests /\ r # None /\ req[r] \in Row /\ InFlight(w)
            /\ job' = [job EXCEPT ![w] = Idle] /\ UNCHANGED <<req, rushed>>
            /\ debits' = debits \/ debits' = [debits EXCEPT ![r] = @ + 1]
        BY <2>6 DEF Debit, Finish, TypeOK, Job, Filed, InFlight
      <3>2. req' = [req EXCEPT ![r] = req[r]]
        BY <3>1 DEF TypeOK
      <3>3. job[w].emp \notin rushed =>
              debits[r] = 0 /\ req[r].status = "APPROVED"
        BY <3>1 DEF ChargeInv, Current
      <3>4. job[w].emp \notin rushed => debits'[r] <= 1
        BY <3>1, <3>3 DEF TypeOK
      <3>5. \A q \in Requests \ {r} : debits'[q] = debits[q]
        BY <3>1 DEF TypeOK
      <3> QED
        BY <3>1, <3>2, <3>3, <3>4, <3>5, WriteSolo
    <2>7. ASSUME NEW w \in Workers, NEW r \in Filed, PayStart(w, r) PROVE ChargeInv'
      <3>1. r \in Requests /\ req[r] \in Row /\ req[r].form.emp \in Employees /\ r # None
        BY DEF Filed, TypeOK, Row, Form
      <3>2. Current(w)'
        BY <2>7, <3>1 DEF PayStart, Payable, Begin, Current, TypeOK
      <3> QED
        BY <2>7, <3>1, <3>2, BeginSolo DEF PayStart
    <2>8. ASSUME NEW w \in Workers, PayReadCredit(w) \/ PayCount(w) PROVE ChargeInv'
      <3>1. /\ job[w].pc \in {"payCredit", "payCount"} /\ InFlight(w) /\ UNCHANGED <<req, debits, rushed>>
            /\ Finish(w) \/ Goto(w, "payWrite", job[w].arg) \/ Goto(w, "payCount", job[w].arg)
        BY <2>8 DEF PayReadCredit, PayCount, InFlight, Goto, Finish
      <3>2. CASE Finish(w)
        BY <3>1, <3>2, StepSolo DEF Finish
      <3>3. ASSUME NEW pc \in {"payWrite", "payCount"}, Goto(w, pc, job[w].arg) PROVE ChargeInv'
        <4>1. job' = [job EXCEPT ![w] = [job[w] EXCEPT !.pc = pc, !.arg = job[w].arg]]
          BY <3>3 DEF Goto, TypeOK
        <4>2. job[w] \in Job
          BY DEF TypeOK
        <4> QED
          BY <3>1, <4>1, <4>2, StepSolo DEF Job
      <3> QED
        BY <3>1, <3>2, <3>3
    <2>9. ASSUME NEW w \in Workers, PayWrite(w) PROVE ChargeInv'
      <3> DEFINE r == job[w].req
                 row == [req[r] EXCEPT !.status = "APPROVED",
                                       !.payout = IF job[w].arg THEN "terminal" ELSE "regular"]
      <3>1. /\ job[w].pc = "payWrite" /\ r \in Requests /\ r # None /\ req[r] \in Row /\ InFlight(w)
            /\ job' = [job EXCEPT ![w] = Idle] /\ UNCHANGED <<debits, rushed>>
        BY <2>9 DEF PayWrite, Finish, TypeOK, Job, Filed, InFlight
      <3>2. row \in Row /\ row.form = req[r].form /\ row.status = "APPROVED"
        BY <3>1 DEF Row, Statuses
      <3>3. req' = [req EXCEPT ![r] = row]
        BY <2>9 DEF PayWrite, TypeOK
      <3>4. job[w].emp \notin rushed => debits[r] <= 1
        BY <3>1 DEF ChargeInv, ChargedOnce, Filed
      <3> QED
        BY <3>1, <3>2, <3>3, <3>4, WriteSolo
    <2>10. ASSUME NEW w \in Workers, NEW e \in Employees, ReconcileStart(w, e) PROVE ChargeInv'
      BY <2>10 DEF ReconcileStart, Begin, ChargeInv, ChargedOnce, Current, Filed, TypeOK, InFlight
    <2>11. ASSUME NEW w \in Workers, ReconcileCreate(w) PROVE ChargeInv'
      <3>1. /\ job[w].pc = "reconcile" /\ job[w].req = None /\ InFlight(w) /\ job[w] \in Job
            /\ UNCHANGED <<req, debits, rushed>>
            /\ Finish(w) \/ \E a \in job[w].arg : Goto(w, "reconcile", job[w].arg \ {a})
        BY <2>11 DEF ReconcileCreate, InFlight, Goto, Finish, TypeOK, Job
      <3>2. CASE Finish(w)
        BY <3>1, <3>2, StepSolo DEF Finish
      <3>3. ASSUME NEW a \in job[w].arg, Goto(w, "reconcile", job[w].arg \ {a}) PROVE ChargeInv'
        <4>1. job' = [job EXCEPT ![w] = [job[w] EXCEPT !.pc = "reconcile", !.arg = job[w].arg \ {a}]]
          BY <3>3 DEF Goto, TypeOK
        <4> QED
          BY <3>1, <4>1, StepSolo DEF Job
      <3> QED
        BY <3>1, <3>2, <3>3
    <2>12. ASSUME NEW w \in Workers, Abort(w) PROVE ChargeInv'
      BY <2>12, StepSolo DEF Abort, Finish
    <2>13. CASE NewYear
      BY <2>13 DEF NewYear, ChargeInv, ChargedOnce, Current, Filed
    <2>14. CASE UNCHANGED vars
      BY <2>14 DEF vars, ChargeInv, ChargedOnce, Current, Filed
    <2> QED
      BY <2>1, <2>2, <2>3, <2>4, <2>5, <2>6, <2>7, <2>8, <2>9, <2>10, <2>11, <2>12, <2>13, <2>14
      DEF Next
  <1> QED
    BY <1>1, <1>2, TypeCorrect, PTL DEF Spec

\* For every number of workers, requests and employees: the requests of an employee whose
\* handlers ran one at a time are charged at most once, and only while approved.
THEOREM ChargedOnceCorrect == Spec => []ChargedOnce
  <1>1. ChargeInv => ChargedOnce
    BY DEF ChargeInv
  <1> QED
    BY <1>1, ChargeInvCorrect, PTL

-----------------------------------------------------------------------------
(* A decision is final                                                     *)

\* What no step lets grow while request r is decided.
HandsShrink(r) ==
  /\ Overruling(r)' \subseteq Overruling(r) /\ Charging(r)' \subseteq Charging(r)
  /\ req[r].status # "APPROVED" => Paying(r)' \subseteq Paying(r)

\* A step of worker w alone lets the hands on r shrink, if it takes r in none of its own.
LEMMA HandsOf ==
  ASSUME NEW r \in Requests, NEW w \in Workers,
         \A v \in Workers \ {w} : job'[v] = job[v],
         w \in Overruling(r)' => w \in Overruling(r),
         w \in Charging(r)' => w \in Charging(r),
         req[r].status # "APPROVED" /\ w \in Paying(r)' => w \in Paying(r)
  PROVE  HandsShrink(r)
  BY DEF HandsShrink, Overruling, Charging, Paying, On

\* While a request is decided, only the handlers that had it in hand change its status and its
\* charge, each once at most: for every number of workers and requests, however they race.
THEOREM NoNewDecisionCorrect == Spec => NoNewDecision
  <1> USE LeaveAssumption
  <1> DEFINE Kept(r) ==
        /\ HandsShrink(r)
        /\ \/ req'[r].status = req[r].status
           \/ Overruling(r)' # Overruling(r)
           \/ Paying(r)' # Paying(r) /\ req'[r].status = "APPROVED"
        /\ \/ debits'[r] = debits[r]
           \/ Charging(r)' # Charging(r) /\ debits'[r] = debits[r] + 1
  <1> DEFINE Steady == \A r \in Filed : req[r].status \in Decided => Kept(r)
  <1>1. TypeOK /\ [Next]_vars => [Steady]_vars
    <2> SUFFICES ASSUME TypeOK, Next, NEW r \in Filed, req[r].status \in Decided PROVE Kept(r)
      OBVIOUS
    <2>0. /\ r \in Requests /\ r # None /\ req[r] # None /\ req[r] \in Row
          /\ req[r].status \notin {"PENDING", "RECOMMENDED"}
      BY DEF TypeOK, Filed, Decided
    <2>a. ASSUME NEW w \in Workers, \A v \in Workers \ {w} : job'[v] = job[v],
                 job'[w].req # r, req'[r] = req[r], debits'[r] = debits[r]
          PROVE  Kept(r)
      <3>1. w \notin Overruling(r)' /\ w \notin Charging(r)' /\ w \notin Paying(r)'
        BY <2>a DEF Overruling, Charging, Paying, On
      <3> QED
        BY <2>0, <2>a, <3>1, HandsOf
    <2>b. ASSUME NEW w \in Workers, Finish(w), req'[r] = req[r], debits'[r] = debits[r]
          PROVE  Kept(r)
      BY <2>b, <2>0, <2>a DEF Finish, Idle, TypeOK
    <2>c. ASSUME NEW w \in Workers, NEW e, NEW pc, NEW arg, Begin(w, pc, e, None, arg),
                 UNCHANGED <<req, debits>>
          PROVE  Kept(r)
      BY <2>c, <2>0, <2>a DEF Begin, TypeOK
    <2>d. ASSUME NEW w \in Workers, NEW arg, NEW pc, Goto(w, pc, arg), job[w].req = None,
                 job[w] \in Job, UNCHANGED <<req, debits>>
          PROVE  Kept(r)
      <3>1. job'[w].req = None /\ \A v \in Workers \ {w} : job'[v] = job[v]
        BY <2>d DEF Goto, TypeOK, Job
      <3> QED
        BY <2>d, <2>0, <2>a, <3>1
    <2>1. ASSUME NEW w \in Workers, NEW f \in Forms, FileStart(w, f) PROVE Kept(r)
      BY <2>1, <2>c DEF FileStart
    <2>2. ASSUME NEW w \in Workers, FileCheckCredit(w) PROVE Kept(r)
      BY <2>2, <2>b, <2>d DEF FileCheckCredit, TypeOK, Job
    <2>3. ASSUME NEW w \in Workers, FileInsert(w) PROVE Kept(r)
      <3>1. req'[r] = req[r] /\ debits'[r] = debits[r] /\ Finish(w)
        BY <2>3, <2>0 DEF FileInsert, TypeOK
      <3> QED
        BY <3>1, <2>b
    <2>4. ASSUME NEW w \in Workers, NEW q \in Filed, NEW to \in Statuses \cup {"KEEP"},
                 NEW edit \in Edits, DecideStart(w, q, to, edit)
          PROVE  Kept(r)
      <3>1. /\ job'[w].req = q /\ job'[w].pc = "decide" /\ job'[w].arg.to = to
            /\ \A v \in Workers \ {w} : job'[v] = job[v]
            /\ UNCHANGED <<req, debits>>
        BY <2>4 DEF DecideStart, Begin, TypeOK
      <3>2. q = r => to = "KEEP"
        BY <2>4, <2>0 DEF DecideStart, Transition
      <3>3. w \notin Overruling(r)' /\ w \notin Charging(r)' /\ w \notin Paying(r)'
        BY <3>1, <3>2 DEF Overruling, Charging, Paying, On
      <3> QED
        BY <3>1, <3>3, <2>0, HandsOf
    <2>5. ASSUME NEW w \in Workers, DecideWrite(w) PROVE Kept(r)
      <3> DEFINE q == job[w].req
      <3>1. /\ job[w].pc = "decide" /\ q \in Requests /\ job[w] \in Job
            /\ job[w].arg.edit \in Edits /\ UNCHANGED debits
            /\ req' = [req EXCEPT ![q] = Updated(req[q], job[w].arg.to, job[w].arg.edit)]
            /\ \/ Finish(w)
               \/ job[w].arg.to = "APPROVED" /\ job[w].arg.charged /\ Goto(w, "debit", None)
        BY <2>5 DEF DecideWrite, TypeOK, Job, Filed
      <3>2. /\ \A v \in Workers \ {w} : job'[v] = job[v]
            /\ job'[w].pc \in {"idle", "debit"}
            /\ job'[w].req \in {None, q}
            /\ job'[w].pc = "debit" => job[w].arg.to = "APPROVED" /\ job[w].arg.charged
        <4>1. CASE Finish(w)
          BY <4>1 DEF Finish, Idle, TypeOK
        <4>2. CASE job[w].arg.to = "APPROVED" /\ job[w].arg.charged /\ Goto(w, "debit", None)
          <5>1. job'[w] = [job[w] EXCEPT !.pc = "debit", !.arg = None]
            BY <4>2 DEF Goto, TypeOK
          <5>2. job'[w].pc = "debit" /\ job'[w].req = q
            BY <3>1, <5>1 DEF Job
          <5>3. \A v \in Workers \ {w} : job'[v] = job[v]
            BY <4>2 DEF Goto, TypeOK
          <5> QED
            BY <4>2, <5>2, <5>3
        <4> QED
          BY <3>1, <4>1, <4>2
      <3>3. CASE q = r
        <4>1. w \notin Overruling(r)' /\ w \notin Paying(r)'
          BY <3>2 DEF Overruling, Paying
        <4>2. w \in Charging(r)' => w \in Charging(r)
          BY <3>1, <3>2, <3>3 DEF Charging, On
        <4>3. CASE job[w].arg.to = "KEEP"
          <5>1. req'[r] = Updated(req[r], "KEEP", job[w].arg.edit)
            BY <3>1, <3>3, <4>3 DEF TypeOK
          <5>2. req'[r].status = req[r].status
            BY <3>1, <5>1, <2>0, UpdatedTyped
          <5> QED
            BY <3>1, <3>2, <4>1, <4>2, <5>2, <2>0, HandsOf
        <4>4. CASE job[w].arg.to # "KEEP"
          <5>1. w \in Overruling(r)
            BY <3>1, <3>3, <4>4 DEF Overruling, On
          <5> QED
            BY <3>1, <3>2, <4>1, <4>2, <5>1, <2>0, HandsOf
        <4> QED
          BY <4>3, <4>4
      <3>4. CASE q # r
        BY <3>1, <3>2, <3>4, <2>0, <2>a DEF TypeOK
      <3> QED
        BY <3>3, <3>4
    <2>6. ASSUME NEW w \in Workers, Debit(w) PROVE Kept(r)
      <3>1. /\ job[w].pc = "debit" /\ Finish(w) /\ UNCHANGED req
            /\ debits' = debits \/ debits' = [debits EXCEPT ![job[w].req] = @ + 1]
        BY <2>6 DEF Debit
      <3>2. CASE job[w].req = r
        <4>1. w \in Charging(r)
          BY <3>1, <3>2 DEF Charging, On
        <4>2. job'[w] = Idle /\ \A v \in Workers \ {w} : job'[v] = job[v]
          BY <3>1 DEF Finish, TypeOK
        <4>3. w \notin Overruling(r)' /\ w \notin Charging(r)' /\ w \notin Paying(r)'
          BY <4>2, <2>0 DEF Idle, Overruling, Charging, Paying, On
        <4>4. debits'[r] = debits[r] \/ debits'[r] = debits[r] + 1
          BY <3>1, <3>2, <2>0 DEF TypeOK
        <4> QED
          BY <3>1, <4>1, <4>2, <4>3, <4>4, <2>0, HandsOf
      <3>3. CASE job[w].req # r
        BY <3>1, <3>3, <2>0, <2>b DEF TypeOK
      <3> QED
        BY <3>2, <3>3
    <2>7. ASSUME NEW w \in Workers, NEW q \in Filed, PayStart(w, q) PROVE Kept(r)
      <3>1. /\ job'[w].req = q /\ job'[w].pc = "payCredit" /\ req[q].status = "APPROVED"
            /\ \A v \in Workers \ {w} : job'[v] = job[v]
            /\ UNCHANGED <<req, debits>>
        BY <2>7 DEF PayStart, Payable, Begin, TypeOK
      <3>2. w \notin Overruling(r)' /\ w \notin Charging(r)'
        BY <3>1 DEF Overruling, Charging
      <3>3. w \in Paying(r)' => req[r].status = "APPROVED"
        BY <3>1 DEF Paying, On
      <3> QED
        BY <3>1, <3>2, <3>3, <2>0, HandsOf
    <2>8. ASSUME NEW w \in Workers, PayReadCredit(w) \/ PayCount(w) PROVE Kept(r)
      <3>1. /\ job[w].pc \in {"payCredit", "payCount"} /\ UNCHANGED <<req, debits>>
            /\ Finish(w) \/ \E pc \in {"payCount", "payWrite"} : Goto(w, pc, job[w].arg)
        BY <2>8 DEF PayReadCredit, PayCount
      <3>2. ASSUME NEW pc \in {"payCount", "payWrite"}, Goto(w, pc, job[w].arg) PROVE Kept(r)
        <4>1. /\ job'[w].req = job[w].req /\ job'[w].pc = pc
              /\ \A v \in Workers \ {w} : job'[v] = job[v]
          BY <3>2 DEF Goto, TypeOK, Job
        <4>2. w \notin Overruling(r)' /\ w \notin Charging(r)'
          BY <4>1 DEF Overruling, Charging
        <4>3. w \in Paying(r)' => w \in Paying(r)
          BY <3>1, <4>1 DEF Paying, On
        <4> QED
          BY <3>1, <4>1, <4>2, <4>3, <2>0, HandsOf
      <3> QED
        BY <3>1, <3>2, <2>b
    <2>9. ASSUME NEW w \in Workers, PayWrite(w) PROVE Kept(r)
      <3> DEFINE q == job[w].req
                 row == [req[q] EXCEPT !.status = "APPROVED",
                                       !.payout = IF job[w].arg THEN "terminal" ELSE "regular"]
      <3>1. /\ job[w].pc = "payWrite" /\ q \in Requests /\ req[q] \in Row /\ UNCHANGED debits
            /\ req' = [req EXCEPT ![q] = row] /\ Finish(w)
        BY <2>9 DEF PayWrite, TypeOK, Job, Filed
      <3>2. CASE q = r
        <4>1. req'[r].status = "APPROVED"
          BY <3>1, <3>2 DEF Row, TypeOK
        <4>2. w \in Paying(r)
          BY <3>1, <3>2 DEF Paying, On
        <4>3. job'[w] = Idle /\ \A v \in Workers \ {w} : job'[v] = job[v]
          BY <3>1 DEF Finish, TypeOK
        <4>4. w \notin Overruling(r)' /\ w \notin Charging(r)' /\ w \notin Paying(r)'
          BY <4>3, <2>0 DEF Idle, Overruling, Charging, Paying, On
        <4> QED
          BY <3>1, <4>1, <4>2, <4>3, <4>4, <2>0, HandsOf
      <3>3. CASE q # r
        BY <3>1, <3>3, <2>0, <2>b DEF TypeOK
      <3> QED
        BY <3>2, <3>3
    <2>10. ASSUME NEW w \in Workers, NEW e \in Employees, ReconcileStart(w, e) PROVE Kept(r)
      BY <2>10, <2>c DEF ReconcileStart
    <2>11. ASSUME NEW w \in Workers, ReconcileCreate(w) PROVE Kept(r)
      <3>1. /\ job[w].req = None /\ job[w] \in Job /\ UNCHANGED <<req, debits>>
            /\ Finish(w) \/ \E a \in job[w].arg : Goto(w, "reconcile", job[w].arg \ {a})
        BY <2>11 DEF ReconcileCreate, TypeOK, Job
      <3> QED
        BY <3>1, <2>b, <2>d
    <2>12. ASSUME NEW w \in Workers, Abort(w) PROVE Kept(r)
      BY <2>12, <2>b DEF Abort
    <2>13. CASE NewYear
      BY <2>13 DEF NewYear, HandsShrink, Overruling, Charging, Paying, On
    <2> QED
      BY <2>1, <2>2, <2>3, <2>4, <2>5, <2>6, <2>7, <2>8, <2>9, <2>10, <2>11, <2>12, <2>13
      DEF Next
  <1>2. Steady => \A r \in Filed : req[r].status \in Decided =>
          /\ Overruling(r)' \subseteq Overruling(r) /\ Charging(r)' \subseteq Charging(r)
          /\ req[r].status # "APPROVED" => Paying(r)' \subseteq Paying(r)
          /\ \/ req'[r].status = req[r].status
             \/ Overruling(r)' # Overruling(r)
             \/ Paying(r)' # Paying(r) /\ req'[r].status = "APPROVED"
          /\ \/ debits'[r] = debits[r]
             \/ Charging(r)' # Charging(r) /\ debits'[r] = debits[r] + 1
    BY DEF HandsShrink
  <1> HIDE DEF Steady
  <1> QED
    BY <1>1, <1>2, TypeCorrect, PTL DEF Spec, NoNewDecision

-----------------------------------------------------------------------------
(* Dates and payouts                                                       *)

\* What a filing and a payout found out still holds when they write.
Prepared(w) ==
  LET j == job[w] IN
  /\ j.pc \in {"fileCredit", "fileInsert"} =>
       /\ j.emp = j.arg.emp /\ j.arg.from <= j.arg.to
       /\ j.emp \notin rushed => Exempt(j.arg) \/ \A r \in Filed : ~Overlapping(j.arg, r)
  /\ j.pc = "payWrite" /\ ~j.arg /\ j.emp \notin rushed => PaidSince(req[j.req].form) = {}

\* A row runs forward, and remembers that it was recommended.
Sound(row) ==
  /\ row.form.from <= row.form.to
  /\ row.status = "RECOMMENDED" => row.recommended

\* The strengthening of NoOverlap and OneRegularPayoutAYear.
DatesInv ==
  /\ \A r \in Filed : Sound(req[r])
  /\ \A w \in Workers : Prepared(w)
  /\ NoOverlap
  /\ OneRegularPayoutAYear

\* Rows that findOverlapping looks at and holds to the rule.
Live(row) ==
  row.status \in {"PENDING", "APPROVED"} /\ ~row.recommended /\ ~Exempt(row.form)

\* Later dates are in later years or the same.
LEMMA YearMonotone ==
  ASSUME NEW a \in Nat, NEW b \in Nat, a <= b
  PROVE  YearOf(a) <= YearOf(b) /\ YearOf(a) \in Nat /\ YearOf(b) \in Nat
  <1> DEFINE n == YearLength  p == a \div n  q == b \div n
  <1>1. n \in Nat /\ n > 0
    BY LeaveAssumption
  <1>2. p \in Nat /\ q \in Nat /\ n * p <= a /\ b < n * q + n
    BY <1>1
  <1>3. ASSUME q < p PROVE FALSE
    <2> HIDE DEF n, p, q
    <2>1. p - q - 1 \in Nat
      BY <1>2, <1>3
    <2>2. n * (p - q - 1) \in Nat
      BY <1>1, <2>1
    <2>3. n * (p - q - 1) = n * p - n * q - n
      BY <1>1, <1>2
    <2>4. n * p \in Int /\ n * q \in Int
      BY <1>1, <1>2
    <2> QED
      BY <1>1, <1>2, <2>2, <2>3, <2>4
  <1> QED
    BY <1>2, <1>3 DEF YearOf

\* A handler that stays where it is stays prepared if the rows stay.
LEMMA PreparedStays ==
  ASSUME NEW v \in Workers, Prepared(v), job'[v] = job[v], req' = req, rushed \subseteq rushed'
  PROVE  Prepared(v)'
  BY DEF Prepared, Filed, Overlapping, PaidSince

\* A step that writes no row keeps the invariant if the handler that took it is prepared.
LEMMA ReadDates ==
  ASSUME TypeOK, DatesInv, NEW w \in Workers, \A v \in Workers \ {w} : job'[v] = job[v],
         req' = req, rushed \subseteq rushed', Prepared(w)'
  PROVE  DatesInv'
  <1>1. \A v \in Workers : Prepared(v)'
    BY PreparedStays DEF DatesInv
  <1>2. NoOverlap' /\ OneRegularPayoutAYear'
    BY DEF DatesInv, NoOverlap, OneRegularPayoutAYear, Filed
  <1> QED
    BY <1>1, <1>2 DEF DatesInv, Filed

\* A handler writes a row of its own employee, for whom no other one is prepared.
LEMMA WriteDates ==
  ASSUME TypeOK, ChargeInv, DatesInv, NEW w \in Workers, NEW r \in Requests, NEW row \in Row,
         job[w].emp = row.form.emp, r \in Filed => row.form = req[r].form,
         job' = [job EXCEPT ![w] = Idle] \/ job' = [job EXCEPT ![w] = [job[w] EXCEPT !.pc = "debit", !.arg = None]],
         req' = [req EXCEPT ![r] = row], rushed' = rushed,
         Sound(row),
         job[w].emp \notin rushed /\ Live(row) =>
           \/ r \in Filed /\ Live(req[r])
           \/ \A s \in Filed : ~Overlapping(row.form, s),
         job[w].emp \notin rushed /\ row.payout = "regular" =>
           \/ r \in Filed /\ req[r].payout = "regular"
           \/ PaidSince(row.form) = {}
  PROVE  DatesInv'
  <1> USE LeaveAssumption
  <1>0. row # None /\ row.form \in Form /\ row.form.emp \in Employees /\ row.form.emp # None
    BY DEF Row, Form
  <1>1. /\ req'[r] = row /\ \A s \in Requests \ {r} : req'[s] = req[s]
        /\ Filed' = Filed \cup {r}
    BY <1>0 DEF TypeOK, Filed
  <1>2. /\ \A v \in Workers \ {w} : job'[v] = job[v]
        /\ job'[w].pc \in {"idle", "debit"}
    <2>1. job \in [Workers -> Job] /\ job[w] \in Job
      BY DEF TypeOK
    <2> DEFINE debiting == [job[w] EXCEPT !.pc = "debit", !.arg = None]
    <2>2. debiting.pc = "debit" /\ Idle.pc = "idle"
      BY <2>1 DEF Job, Idle
    <2>3. job' = [job EXCEPT ![w] = Idle] \/ job' = [job EXCEPT ![w] = debiting]
      OBVIOUS
    <2> HIDE DEF debiting
    <2>4. CASE job' = [job EXCEPT ![w] = Idle]
      BY <2>1, <2>2, <2>4
    <2>5. CASE job' = [job EXCEPT ![w] = debiting]
      BY <2>1, <2>2, <2>5
    <2> QED
      BY <2>3, <2>4, <2>5
  <1>3. \A s \in Filed' : Sound(req[s])'
    BY <1>1 DEF DatesInv, Sound
  <1>4. ASSUME NEW v \in Workers PROVE Prepared(v)'
    <2>1. CASE v = w
      BY <1>2, <2>1 DEF Prepared
    <2>2. CASE v # w
      <3>0. job'[v] = job[v] /\ Prepared(v) /\ job[v] \in Job
        BY <1>2, <2>2 DEF DatesInv, TypeOK
      <3>1. ASSUME job[v].emp \notin rushed PROVE job[v].emp # row.form.emp
        BY <1>0, <2>2, <3>1 DEF ChargeInv
      <3>2. CASE job[v].pc \in {"fileCredit", "fileInsert"}
        <4>1. ASSUME job[v].emp \notin rushed, NEW s \in Filed', Overlapping(job[v].arg, s)'
              PROVE  s \in Filed /\ Overlapping(job[v].arg, s)
          BY <1>1, <3>0, <3>1, <3>2, <4>1 DEF Overlapping, Prepared
        <4> QED
          BY <3>0, <3>2, <4>1 DEF Prepared
      <3>3. CASE job[v].pc = "payWrite"
        <4>1. job[v].req \in Requests /\ job[v].emp = req[job[v].req].form.emp
          BY <3>0, <3>3 DEF Job, ChargeInv
        <4>2. ASSUME job[v].emp \notin rushed, ~job[v].arg
              PROVE  PaidSince(req[job[v].req].form)' = {}
          <5>1. job[v].req # r \/ r \notin Filed
            BY <3>1, <4>1, <4>2
          <5>2. job[v].req \in Filed
            BY <3>0, <3>3 DEF TypeOK, Job
          <5>3. req'[job[v].req] = req[job[v].req]
            BY <1>1, <4>1, <5>1, <5>2
          <5>4. PaidSince(req[job[v].req].form) = {}
            BY <3>0, <3>3, <4>2 DEF Prepared
          <5> QED
            BY <1>1, <3>0, <3>1, <4>1, <4>2, <5>3, <5>4 DEF PaidSince
        <4> QED
          BY <3>0, <3>3, <4>2 DEF Prepared
      <3> QED
        BY <3>0, <3>2, <3>3 DEF Prepared
    <2> QED
      BY <2>1, <2>2
  <1>5. NoOverlap'
    <2>1. ASSUME NEW s \in Filed, s # r, row.form.emp \notin rushed, req[s].form.emp = row.form.emp,
                 Live(row), Live(req[s]), row.form.from <= req[s].form.to, req[s].form.from <= row.form.to
          PROVE  FALSE
      <3>0. req[s] \in Row /\ req[s].form \in Form
        BY DEF TypeOK, Filed, Row
      <3>1. Overlapping(row.form, s)
        BY <2>1 DEF Overlapping, Live
      <3>2. r \in Filed /\ Live(req[r]) /\ row.form = req[r].form
        BY <2>1, <3>1
      <3> QED
        BY <1>0, <2>1, <3>0, <3>2 DEF DatesInv, NoOverlap, Live, Form
    <2>2. ASSUME NEW s \in Filed', NEW t \in Filed', s # t, req'[s].form.emp = req'[t].form.emp,
                 req'[s].form.emp \notin rushed, Live(req'[s]), Live(req'[t]),
                 req'[s].form.from <= req'[t].form.to, req'[t].form.from <= req'[s].form.to
          PROVE  FALSE
      <3>1. CASE s = r
        BY <1>1, <2>1, <2>2, <3>1
      <3>2. CASE t = r
        BY <1>1, <2>1, <2>2, <3>2
      <3>3. CASE s # r /\ t # r
        <4>1. s \in Filed /\ t \in Filed /\ req'[s] = req[s] /\ req'[t] = req[t]
          BY <1>1, <3>3 DEF Filed
        <4>2. req[s].form \in Form /\ req[t].form \in Form
          BY <4>1 DEF TypeOK, Filed, Row
        <4> QED
          BY <2>2, <4>1, <4>2 DEF DatesInv, NoOverlap, Live, Form
      <3> QED
        BY <3>1, <3>2, <3>3
    <2>3. \A s \in Filed' : req'[s].form \in Form
      BY <1>0, <1>1 DEF TypeOK, Filed, Row
    <2> QED
      BY <2>2, <2>3 DEF NoOverlap, Live, Form
  <1>6. OneRegularPayoutAYear'
    <2>1. ASSUME NEW s \in Filed, s # r, row.form.emp \notin rushed, req[s].form.emp = row.form.emp,
                 row.payout = "regular", req[s].payout = "regular"
          PROVE  YearOf(req[s].form.from) # YearOf(row.form.from)
      <3>1. CASE r \in Filed /\ req[r].payout = "regular"
        BY <2>1, <3>1 DEF DatesInv, OneRegularPayoutAYear
      <3>2. CASE PaidSince(row.form) = {}
        <4>1. ~(YearOf(req[s].form.to) >= YearOf(row.form.from))
          BY <2>1, <3>2 DEF PaidSince
        <4>2. /\ req[s].form.from <= req[s].form.to
              /\ req[s].form.from \in Nat /\ req[s].form.to \in Nat
          <5>1. req[s].form \in Form /\ Sound(req[s])
            BY DEF TypeOK, Filed, Row, DatesInv
          <5> QED
            BY <5>1 DEF Sound, Form
        <4>3. YearOf(row.form.from) \in Nat
          BY <1>0, YearMonotone DEF Form
        <4> QED
          BY <4>1, <4>2, <4>3, YearMonotone
      <3> QED
        BY <2>1, <3>1, <3>2
    <2> QED
      BY <1>1, <2>1 DEF OneRegularPayoutAYear, DatesInv, Filed
  <1> QED
    BY <1>3, <1>4, <1>5, <1>6 DEF DatesInv

\* The decision of a request leaves its dates and never makes it live.
LEMMA DecideDates ==
  ASSUME TypeOK, ChargeInv, DatesInv, NEW w \in Workers, DecideWrite(w)
  PROVE  DatesInv'
  <1> USE LeaveAssumption
  <1> DEFINE r == job[w].req
             a == job[w].arg
             row == Updated(req[r], a.to, a.edit)
  <1>1. /\ job[w].pc = "decide" /\ r \in Requests /\ r \in Filed /\ req[r] \in Row
        /\ a.to \in Statuses \cup {"KEEP"} /\ a.edit \in Edits /\ r # None
    BY DEF DecideWrite, TypeOK, Job, Filed
  <1>2. /\ row \in Row /\ row.form = req[r].form /\ row.payout = req[r].payout
        /\ row.status = IF a.to = "KEEP" THEN req[r].status ELSE a.to
    <2> HIDE DEF a, r
    <2> QED
      BY <1>1, UpdatedTyped DEF row
  <1>3. row.recommended = (req[r].recommended \/ a.to = "RECOMMENDED")
    BY <1>1 DEF Updated, Row
  <1>4. job[w].emp = req[r].form.emp
    BY <1>1 DEF ChargeInv
  <1>5. Sound(req[r])
    BY <1>1 DEF DatesInv
  <1>6. /\ job' = [job EXCEPT ![w] = Idle]
           \/ job' = [job EXCEPT ![w] = [job[w] EXCEPT !.pc = "debit", !.arg = None]]
        /\ req' = [req EXCEPT ![r] = row] /\ rushed' = rushed
    BY DEF DecideWrite, Goto, Finish, TypeOK
  <1> HIDE DEF row, r, a
  <1>7. Sound(row)
    BY <1>2, <1>3, <1>5 DEF Sound
  <1>8. ASSUME job[w].emp \notin rushed, Live(row) PROVE Live(req[r])
    <2>1. a.to # "KEEP" => Transition(req[r].status, a.to)
      BY <1>1, <1>8 DEF ChargeInv, Current, r, a
    <2>2. ~req[r].recommended /\ ~Exempt(req[r].form)
      BY <1>2, <1>3, <1>8 DEF Live
    <2>3. req[r].status # "RECOMMENDED"
      BY <1>5, <2>2 DEF Sound
    <2> QED
      BY <1>2, <1>8, <2>1, <2>2, <2>3 DEF Live, Transition
  <1> QED
    BY <1>1, <1>2, <1>4, <1>6, <1>7, <1>8, WriteDates

\* So does the payout, which no earlier one of the year precedes.
LEMMA PayDates ==
  ASSUME TypeOK, ChargeInv, DatesInv, NEW w \in Workers, PayWrite(w)
  PROVE  DatesInv'
  <1> USE LeaveAssumption
  <1> DEFINE r == job[w].req
             row == [req[r] EXCEPT !.status = "APPROVED",
                                   !.payout = IF job[w].arg THEN "terminal" ELSE "regular"]
  <1>1. /\ job[w].pc = "payWrite" /\ r \in Requests /\ r \in Filed /\ req[r] \in Row /\ r # None
        /\ job[w].arg \in BOOLEAN
    BY DEF PayWrite, TypeOK, Job, Filed
  <1>2. /\ row \in Row /\ row.form = req[r].form /\ row.status = "APPROVED"
        /\ row.recommended = req[r].recommended /\ (row.payout = "regular" => ~job[w].arg)
    BY <1>1 DEF Row, Statuses
  <1>3. job[w].emp = req[r].form.emp
    BY <1>1 DEF ChargeInv
  <1>4. req' = [req EXCEPT ![r] = row] /\ job' = [job EXCEPT ![w] = Idle] /\ rushed' = rushed
    BY DEF PayWrite, Finish, TypeOK
  <1>5. Sound(req[r]) /\ Prepared(w)
    BY <1>1 DEF DatesInv
  <1>6. job[w].emp \notin rushed => req[r].status = "APPROVED"
    BY <1>1 DEF ChargeInv, Current
  <1> HIDE DEF row, r
  <1>7. Sound(row)
    BY <1>2, <1>5 DEF Sound
  <1>8. job[w].emp \notin rushed /\ Live(row) => Live(req[r])
    BY <1>2, <1>6 DEF Live
  <1>9. job[w].emp \notin rushed /\ row.payout = "regular" => PaidSince(row.form) = {}
    BY <1>1, <1>2, <1>5 DEF Prepared, r
  <1> QED
    BY <1>1, <1>2, <1>3, <1>4, <1>7, <1>8, <1>9, WriteDates

\* A filing that found no clash inserts a row that clashes with none.
LEMMA InsertDates ==
  ASSUME TypeOK, ChargeInv, DatesInv, NEW w \in Workers, FileInsert(w)
  PROVE  DatesInv'
  <1> USE LeaveAssumption
  <1> DEFINE f == job[w].arg
             row == [form |-> f, status |-> "PENDING", lwop |-> f.lwop,
                     terminal |-> f.terminal, recommended |-> FALSE, payout |-> "none"]
  <1>1. job[w].pc = "fileInsert" /\ f \in Forms /\ f \in Form
    BY DEF FileInsert, TypeOK, Job
  <1>2. PICK r \in Requests \ Filed : req' = [req EXCEPT ![r] = row]
    BY DEF FileInsert
  <1>3. job' = [job EXCEPT ![w] = Idle] /\ rushed' = rushed /\ Prepared(w)
    BY DEF FileInsert, Finish, DatesInv
  <1>4. row \in Row
    BY <1>1 DEF Row, Form, Statuses
  <1>5. row.form = f /\ row.status = "PENDING" /\ row.payout = "none"
    OBVIOUS
  <1> HIDE DEF row
  <1>6. job[w].emp = row.form.emp /\ Sound(row)
    BY <1>1, <1>3, <1>5 DEF Prepared, Sound
  <1>7. job[w].emp \notin rushed /\ Live(row) => \A s \in Filed : ~Overlapping(row.form, s)
    BY <1>1, <1>3, <1>5 DEF Prepared, Live
  <1> QED
    BY <1>2, <1>3, <1>4, <1>5, <1>6, <1>7, WriteDates

\* Every step keeps what handlers know of dates and payouts.
LEMMA DatesStep == TypeOK /\ ChargeInv /\ DatesInv /\ [Next]_vars => DatesInv'
  <1> SUFFICES ASSUME TypeOK, ChargeInv, DatesInv, [Next]_vars PROVE DatesInv'
    OBVIOUS
  <1> USE LeaveAssumption
  <1>a. ASSUME NEW w \in Workers, NEW pc, NEW e, NEW r, NEW arg, Begin(w, pc, e, r, arg), req' = req,
               pc \notin {"fileCredit", "fileInsert", "payWrite"}
        PROVE  DatesInv'
    <2>1. /\ job'[w].pc = pc /\ \A v \in Workers \ {w} : job'[v] = job[v]
          /\ rushed \subseteq rushed'
      BY <1>a DEF Begin, TypeOK
    <2>2. Prepared(w)'
      BY <1>a, <2>1 DEF Prepared
    <2> QED
      BY <1>a, <2>1, <2>2, ReadDates
  <1>b. ASSUME NEW w \in Workers, Finish(w), req' = req PROVE DatesInv'
    <2>1. /\ job'[w].pc = "idle" /\ \A v \in Workers \ {w} : job'[v] = job[v] /\ rushed' = rushed
      BY <1>b DEF Finish, Idle, TypeOK
    <2>2. Prepared(w)'
      BY <2>1 DEF Prepared
    <2> QED
      BY <1>b, <2>1, <2>2, ReadDates DEF Finish
  <1>c. ASSUME NEW w \in Workers, NEW pc, NEW arg, Goto(w, pc, arg)
        PROVE  /\ job'[w].pc = pc /\ job'[w].arg = arg
               /\ job'[w].emp = job[w].emp /\ job'[w].req = job[w].req
               /\ \A v \in Workers \ {w} : job'[v] = job[v]
               /\ rushed' = rushed
    <2>1. job \in [Workers -> Job] /\ job[w] \in Job
      BY DEF TypeOK
    <2> DEFINE new == [job[w] EXCEPT !.pc = pc, !.arg = arg]
    <2>2. new.pc = pc /\ new.arg = arg /\ new.emp = job[w].emp /\ new.req = job[w].req
      BY <2>1 DEF Job
    <2>3. job' = [job EXCEPT ![w] = new] /\ rushed' = rushed
      BY <1>c, <2>1 DEF Goto
    <2> HIDE DEF new
    <2> QED
      BY <2>1, <2>2, <2>3
  <1>d. ASSUME NEW w \in Workers, NEW pc, NEW arg, Goto(w, pc, arg), req' = req,
               pc \notin {"fileCredit", "fileInsert", "payWrite"}
        PROVE  DatesInv'
    <2>1. Prepared(w)'
      BY <1>c, <1>d DEF Prepared
    <2> QED
      BY <1>c, <1>d, <2>1, ReadDates
  <1>1. ASSUME NEW w \in Workers, NEW f \in Forms, FileStart(w, f) PROVE DatesInv'
    <2>1. /\ job'[w] = [pc |-> "fileCredit", emp |-> f.emp, req |-> None, arg |-> f]
          /\ \A v \in Workers \ {w} : job'[v] = job[v]
          /\ rushed \subseteq rushed' /\ req' = req
      BY <1>1 DEF FileStart, Begin, TypeOK
    <2>2. f.from <= f.to /\ (Exempt(f) \/ \A r \in Filed : ~Overlapping(f, r))
      BY <1>1 DEF FileStart, Admissible, Exempt
    <2>3. Prepared(w)'
      BY <2>1, <2>2 DEF Prepared, Filed, Overlapping
    <2> QED
      BY <2>1, <2>3, ReadDates
  <1>2. ASSUME NEW w \in Workers, FileCheckCredit(w) PROVE DatesInv'
    <2>1. req' = req /\ job[w].pc = "fileCredit" /\ Prepared(w)
      BY <1>2 DEF FileCheckCredit, DatesInv
    <2>2. CASE Finish(w)
      BY <1>b, <2>1, <2>2
    <2>3. CASE Goto(w, "fileInsert", job[w].arg)
      <3>1. Prepared(w)'
        BY <1>c, <2>1, <2>3 DEF Prepared, Filed, Overlapping
      <3> QED
        BY <1>c, <2>1, <2>3, <3>1, ReadDates
    <2> QED
      BY <1>2, <2>2, <2>3 DEF FileCheckCredit
  <1>3. ASSUME NEW w \in Workers, NEW r \in Filed, NEW to \in Statuses \cup {"KEEP"},
               NEW edit \in Edits, DecideStart(w, r, to, edit)
        PROVE  DatesInv'
    BY <1>3, <1>a DEF DecideStart
  <1>4. ASSUME NEW w \in Workers, Debit(w) \/ Abort(w) PROVE DatesInv'
    BY <1>4, <1>b DEF Debit, Abort
  <1>5. ASSUME NEW w \in Workers, NEW r \in Filed, PayStart(w, r) PROVE DatesInv'
    BY <1>5, <1>a DEF PayStart
  <1>6. ASSUME NEW w \in Workers, PayReadCredit(w) PROVE DatesInv'
    <2>1. req' = req /\ job[w].pc = "payCredit"
      BY <1>6 DEF PayReadCredit
    <2>2. CASE Finish(w)
      BY <1>b, <2>1, <2>2
    <2>3. CASE Goto(w, "payCount", job[w].arg)
      BY <1>d, <2>1, <2>3
    <2>4. CASE job[w].arg /\ Goto(w, "payWrite", job[w].arg)
      <3>0. Goto(w, "payWrite", job[w].arg) /\ job[w].arg
        BY <2>4, Zenon
      <3>1. job'[w].pc = "payWrite" /\ job'[w].arg = job[w].arg
        BY <1>c, <3>0
      <3>2. job'[w].arg
        BY <3>0, <3>1, Zenon
      <3>3. Prepared(w)'
        BY <3>1, <3>2 DEF Prepared
      <3> QED
        BY <1>c, <2>1, <3>0, <3>3, ReadDates
    <2> QED
      BY <1>6, <2>2, <2>3, <2>4 DEF PayReadCredit
  <1>7. ASSUME NEW w \in Workers, PayCount(w) PROVE DatesInv'
    <2>1. req' = req /\ job[w].pc = "payCount"
      BY <1>7 DEF PayCount
    <2>2. CASE Finish(w)
      BY <1>b, <2>1, <2>2
    <2>3. CASE PaidSince(req[job[w].req].form) = {} /\ Goto(w, "payWrite", job[w].arg)
      <3>1. Prepared(w)'
        BY <1>c, <2>1, <2>3 DEF Prepared, PaidSince, Filed
      <3> QED
        BY <1>c, <2>1, <2>3, <3>1, ReadDates
    <2> QED
      BY <1>7, <2>2, <2>3 DEF PayCount
  <1>8. ASSUME NEW w \in Workers, NEW e \in Employees, ReconcileStart(w, e) PROVE DatesInv'
    BY <1>8, <1>a DEF ReconcileStart
  <1>9. ASSUME NEW w \in Workers, ReconcileCreate(w) PROVE DatesInv'
    <2>1. req' = req /\ (Finish(w) \/ \E arg : Goto(w, "reconcile", arg))
      BY <1>9 DEF ReconcileCreate
    <2> QED
      BY <1>b, <1>d, <2>1
  <1>10. CASE NewYear \/ UNCHANGED vars
    BY <1>10 DEF NewYear, vars, DatesInv, Prepared, Filed, Overlapping, PaidSince, NoOverlap, OneRegularPayoutAYear
  <1> QED
    BY <1>1, <1>2, <1>3, <1>4, <1>5, <1>6, <1>7, <1>8, <1>9, <1>10, DecideDates, PayDates, InsertDates
    DEF Next

\* What a filing or a payout found out before it writes still holds when it does, for employees
\* who are not rushed.
THEOREM DatesInvCorrect == Spec => []DatesInv
  <1>1. Init => DatesInv
    BY LeaveAssumption DEF Init, DatesInv, Filed, Prepared, Idle, NoOverlap, OneRegularPayoutAYear
  <1> QED
    BY <1>1, DatesStep, TypeCorrect, ChargeInvCorrect, PTL DEF Spec

\* NoOverlap, for every number of workers, requests and employees: of an employee whose
\* handlers ran one at a time no two live requests that findOverlapping looks at share a date.
THEOREM NoOverlapCorrect == Spec => []NoOverlap
  <1>1. DatesInv => NoOverlap
    BY DEF DatesInv
  <1> QED
    BY <1>1, DatesInvCorrect, PTL

\* OneRegularPayoutAYear, likewise: no two requests that start in one year are both paid out
\* as regular leave.
THEOREM OneRegularPayoutCorrect == Spec => []OneRegularPayoutAYear
  <1>1. DatesInv => OneRegularPayoutAYear
    BY DEF DatesInv
  <1> QED
    BY <1>1, DatesInvCorrect, PTL

-----------------------------------------------------------------------------
(* The ledger                                                              *)

\* What was charged for each request, and the requests whose form points at account a.
Charges == [r \in Requests |-> IF req[r] = None THEN 0 ELSE debits[r] * Days(req[r].form)]
Holders(a) == {r \in Filed : Account(req[r].form) = a}
Spent(a) == Sum(Charges, Holders(a))

\* The strengthening of LedgerBalanced: an account without a row was charged nothing, so that
\* it may be opened late, and there are finitely many requests to sum over.
LedgerInv ==
  /\ IsFiniteSet(Filed)
  /\ \A a \in Accounts : IF credit[a] = None
                         THEN \A r \in Holders(a) : debits[r] = 0
                         ELSE a \in FixedAccounts /\ credit[a] = Opening[a[2]] - Spent(a)

\* The charges are integers, and those to an account are finitely many.
LEMMA ChargesTyped ==
  ASSUME TypeOK, LedgerInv
  PROVE  /\ \A r \in Requests : Charges[r] \in Int
         /\ \A a \in Accounts : IsFiniteSet(Holders(a)) /\ Holders(a) \subseteq Requests /\ Spent(a) \in Int
  <1>1. ASSUME NEW r \in Requests PROVE Charges[r] \in Int
    <2>1. CASE req[r] = None
      BY <2>1 DEF Charges
    <2>2. CASE req[r] # None
      <3>1. req[r].form \in Form
        BY <2>2, LeaveAssumption DEF TypeOK, Row
      <3>2. Days(req[r].form) \in Nat /\ debits[r] \in Nat
        BY <3>1, DaysNat DEF TypeOK
      <3> QED
        BY <2>2, <3>2 DEF Charges
    <2> QED
      BY <2>1, <2>2
  <1>2. ASSUME NEW a \in Accounts
        PROVE  IsFiniteSet(Holders(a)) /\ Holders(a) \subseteq Requests
    BY FS_Subset DEF LedgerInv, Holders, Filed
  <1>3. ASSUME NEW a \in Accounts PROVE Spent(a) \in Int
    BY <1>1, <1>2, SumSplit DEF Spent
  <1> QED
    BY <1>1, <1>2, <1>3

\* The sum LedgerBalanced states is Spent.
LEMMA SpentStated ==
  ASSUME TypeOK, LedgerInv, NEW a \in Accounts
  PROVE  Spent(a) = MapThenSumSet(LAMBDA r : debits[r] * Days(req[r].form),
                                  {r \in Filed : Account(req[r].form) = a})
  <1> DEFINE S == Holders(a)
  <1> DEFINE IsFold(g) ==
        g = [s \in SUBSET S |-> IF s = {} THEN 0
               ELSE debits[Taken(s)] * Days(req[Taken(s)].form) + g[s \ {Taken(s)}]]
  <1>1. MapThenSumSet(LAMBDA r : debits[r] * Days(req[r].form), S) = (CHOOSE g : IsFold(g))[S]
    BY DEF MapThenSumSet, MapThenFoldSet, Taken
  <1>2. \A s \in SUBSET S : s # {} =>
          Charges[Taken(s)] = debits[Taken(s)] * Days(req[Taken(s)].form)
    BY DEF Taken, Charges, Holders, Filed
  <1>3. ASSUME NEW g PROVE Solves(Charges, S, g) <=> IsFold(g)
    <2> HIDE DEF S
    <2>1. [s \in SUBSET S |-> IF s = {} THEN 0
               ELSE debits[Taken(s)] * Days(req[Taken(s)].form) + g[s \ {Taken(s)}]]
          = [s \in SUBSET S |-> IF s = {} THEN 0 ELSE Charges[Taken(s)] + g[s \ {Taken(s)}]]
      BY <1>2
    <2> QED
      BY <2>1 DEF Solves
  <1> HIDE DEF IsFold
  <1>4. IsFiniteSet(S)
    BY ChargesTyped
  <1>5. PICK g : IsFold(g) /\ (CHOOSE h : IsFold(h)) = g
    BY <1>3, <1>4, SolutionExists
  <1>6. Sum(Charges, S) = g[S]
    BY <1>3, <1>4, <1>5, SumOfSolution
  <1> QED
    BY <1>1, <1>5, <1>6 DEF Spent, Holders

\* A step that charges nothing, opens no account and writes no form keeps the ledger.
LEMMA LedgerStays ==
  ASSUME TypeOK, LedgerInv, credit' = credit, debits' = debits,
         \A r \in Requests :
           /\ req'[r] = None <=> req[r] = None
           /\ req[r] # None => req'[r].form = req[r].form
  PROVE  LedgerInv'
  <1>1. Filed' = Filed
    BY DEF Filed
  <1>2. Charges' = Charges
    BY DEF Charges
  <1>3. ASSUME NEW a \in Accounts PROVE Holders(a)' = Holders(a) /\ Spent(a)' = Spent(a)
    <2>1. Holders(a)' = Holders(a)
      BY <1>1 DEF Holders, Filed
    <2> QED
      BY <1>2, <2>1 DEF Spent
  <1> QED
    BY <1>1, <1>3 DEF LedgerInv

\* A new request was not charged.
LEMMA InsertLedger ==
  ASSUME TypeOK, TypeOK', ChargeInv, LedgerInv, NEW r \in Requests \ Filed,
         \A s \in Requests \ {r} : req'[s] = req[s], req'[r] # None,
         credit' = credit, debits' = debits
  PROVE  LedgerInv'
  <1>1. debits[r] = 0 /\ r \notin Filed
    BY DEF ChargeInv, Filed
  <1>2. Filed' = Filed \cup {r}
    BY DEF Filed
  <1>3. IsFiniteSet(Filed')
    BY <1>2, FS_AddElement DEF LedgerInv
  <1>4. SameOn(Charges, Charges', Requests \ {r}) /\ Charges'[r] = 0
    <2>1. Days(req'[r].form) \in Nat
      BY DaysNat, LeaveAssumption DEF TypeOK, Row
    <2>2. Charges'[r] = 0
      BY <1>1, <2>1 DEF Charges
    <2>3. SameOn(Charges, Charges', Requests \ {r})
      BY DEF Charges, SameOn
    <2> QED
      BY <2>2, <2>3
  <1>5. ASSUME NEW a \in Accounts
        PROVE  Holders(a)' \in {Holders(a), Holders(a) \cup {r}} /\ Spent(a)' = Spent(a)
    <2>1. Holders(a)' \in {Holders(a), Holders(a) \cup {r}} /\ r \notin Holders(a)
      BY <1>1, <1>2 DEF Holders, Filed
    <2>2. IsFiniteSet(Holders(a)) /\ Holders(a) \subseteq Requests \ {r} /\ Spent(a) \in Int
          /\ \A s \in Requests : Charges[s] \in Int
      BY <2>1, ChargesTyped
    <2>3. \A s \in Holders(a) \cup {r} : Charges'[s] \in Int
      BY <1>4, <2>2 DEF SameOn
    <2>4. Sum(Charges', Holders(a)) = Spent(a)
      <3>1. SameOn(Charges, Charges', Holders(a))
        BY <1>4, <2>2 DEF SameOn
      <3> QED
        BY <2>2, <3>1, SumSame DEF Spent
    <2>5. Sum(Charges', Holders(a) \cup {r}) = Spent(a)
      BY <1>4, <2>1, <2>2, <2>3, <2>4, SumAdd
    <2> QED
      BY <2>1, <2>4, <2>5 DEF Spent
  <1>6. ASSUME NEW a \in Accounts, credit[a] = None, NEW s \in Holders(a)' PROVE debits[s] = 0
    BY <1>1, <1>5, <1>6 DEF LedgerInv
  <1> QED
    BY <1>3, <1>5, <1>6 DEF LedgerInv

\* Of one account, the charge of one request changes.
LEMMA OneMoreCharge ==
  ASSUME NEW a \in Accounts, IsFiniteSet(Holders(a)), NEW r \in Holders(a),
         SameOn(Charges, Charges', Holders(a) \ {r}),
         IntegersOn(Charges, Holders(a)), IntegersOn(Charges', Holders(a))
  PROVE  /\ Sum(Charges, Holders(a)) \in Int
         /\ Sum(Charges', Holders(a)) = Sum(Charges, Holders(a)) - Charges[r] + Charges'[r]
  BY SumChanged

\* A charge goes to the account of its request and to no other one.
LEMMA DebitLedger ==
  ASSUME TypeOK, LedgerInv, NEW r \in Filed, NEW a \in Accounts,
         a = Account(req[r].form), credit[a] # None, req' = req,
         credit' = [credit EXCEPT ![a] = @ - Days(req[r].form)],
         debits' = [debits EXCEPT ![r] = @ + 1]
  PROVE  LedgerInv'
  <1> DEFINE d == Days(req[r].form)
  <1>1. r \in Requests /\ req[r] # None /\ d \in Nat /\ debits[r] \in Nat
    BY DaysNat, LeaveAssumption DEF TypeOK, Row, Filed
  <1>2. Filed' = Filed /\ \A b \in Accounts : Holders(b)' = Holders(b)
    BY DEF Filed, Holders
  <1>3. SameOn(Charges, Charges', Requests \ {r}) /\ Charges'[r] = Charges[r] + d
    <2>1. debits'[r] = debits[r] + 1 /\ \A s \in Requests \ {r} : debits'[s] = debits[s]
      BY <1>1 DEF TypeOK
    <2>2. Charges[r] = debits[r] * d /\ Charges'[r] = (debits[r] + 1) * d
      BY <1>1, <2>1 DEF Charges
    <2>3. SameOn(Charges, Charges', Requests \ {r})
      BY <2>1 DEF Charges, SameOn
    <2> HIDE DEF d
    <2>4. (debits[r] + 1) * d = debits[r] * d + d
      BY <1>1
    <2> QED
      BY <2>2, <2>3, <2>4
  <1>4. \A s \in Requests : Charges[s] \in Int /\ Charges'[s] \in Int
    BY <1>1, <1>3, ChargesTyped DEF SameOn
  <1>5. Spent(a)' = Spent(a) + d
    <2>1. r \in Holders(a) /\ IsFiniteSet(Holders(a)) /\ Holders(a) \subseteq Requests
      BY ChargesTyped DEF Holders
    <2>2. SameOn(Charges, Charges', Holders(a) \ {r})
      BY <1>3, <2>1 DEF SameOn
    <2>a. \A s \in Holders(a) : Charges[s] \in Int /\ Charges'[s] \in Int
      BY <1>4, <2>1
    <2>3. /\ Sum(Charges, Holders(a)) \in Int
          /\ Sum(Charges', Holders(a)) = Sum(Charges, Holders(a)) - Charges[r] + Charges'[r]
      <3>1. IntegersOn(Charges, Holders(a)) /\ IntegersOn(Charges', Holders(a))
        BY <2>a DEF IntegersOn
      <3> QED
        BY <2>1, <2>2, <3>1, OneMoreCharge
    <2> HIDE DEF d
    <2>4. Sum(Charges', Holders(a)) = Sum(Charges, Holders(a)) + d
      BY <1>1, <1>3, <1>4, <2>3
    <2> QED
      BY <1>2, <2>4 DEF Spent
  <1>6. ASSUME NEW b \in Accounts \ {a} PROVE Spent(b)' = Spent(b) /\ r \notin Holders(b)
    <2>1. r \notin Holders(b) /\ IsFiniteSet(Holders(b)) /\ Holders(b) \subseteq Requests
      BY ChargesTyped DEF Holders
    <2>2. SameOn(Charges, Charges', Holders(b))
      BY <1>3, <2>1 DEF SameOn
    <2>3. Sum(Charges', Holders(b)) = Sum(Charges, Holders(b))
      BY <2>1, <2>2, SumSame
    <2> QED
      BY <1>2, <2>1, <2>3 DEF Spent
  <1>7. /\ credit'[a] = credit[a] - d /\ credit[a] \in Int
        /\ \A b \in Accounts \ {a} : credit'[b] = credit[b]
    BY DEF TypeOK
  <1>8. credit'[a] # None /\ a \in FixedAccounts /\ credit'[a] = Opening[a[2]] - Spent(a)'
    <2>1. a \in FixedAccounts /\ credit[a] = Opening[a[2]] - Spent(a)
      BY DEF LedgerInv
    <2>2. Opening[a[2]] \in Int /\ Spent(a) \in Int
      BY <2>1, OpeningTyped, ChargesTyped
    <2> HIDE DEF d
    <2>3. credit'[a] = Opening[a[2]] - (Spent(a) + d) /\ credit'[a] \in Int
      BY <1>1, <1>7, <2>1, <2>2
    <2> QED
      BY <1>5, <2>1, <2>3, LeaveAssumption
  <1>9. ASSUME NEW b \in Accounts \ {a}
        PROVE  IF credit'[b] = None THEN \A s \in Holders(b)' : debits'[s] = 0
               ELSE b \in FixedAccounts /\ credit'[b] = Opening[b[2]] - Spent(b)'
    <2>1. \A s \in Holders(b) : debits'[s] = debits[s]
      BY <1>6 DEF Holders, Filed, TypeOK
    <2> QED
      BY <1>2, <1>6, <1>7, <2>1 DEF LedgerInv
  <1> QED
    BY <1>2, <1>8, <1>9 DEF LedgerInv

\* An account that is opened was charged nothing before.
LEMMA OpenLedger ==
  ASSUME TypeOK, LedgerInv, NEW a \in FixedAccounts, OpenAccount(a), req' = req, debits' = debits
  PROVE  LedgerInv'
  <1>1. a \in Accounts /\ Opening[a[2]] \in Int
    BY OpeningTyped
  <1>2. /\ Filed' = Filed
        /\ \A b \in Accounts : Holders(b)' = Holders(b) /\ Spent(b)' = Spent(b)
    BY DEF Filed, Holders, Spent, Charges
  <1>3. /\ credit'[a] = IF credit[a] = None THEN Opening[a[2]] ELSE credit[a]
        /\ \A b \in Accounts \ {a} : credit'[b] = credit[b]
    BY <1>1 DEF OpenAccount, TypeOK
  <1>4. CASE credit[a] = None
    <2>1. \A r \in Holders(a) : Charges[r] = 0
      <3> SUFFICES ASSUME NEW r \in Holders(a) PROVE Charges[r] = 0
        OBVIOUS
      <3>1. debits[r] = 0 /\ r \in Requests /\ req[r] # None
        BY <1>1, <1>4 DEF LedgerInv, Holders, Filed
      <3>2. Days(req[r].form) \in Nat
        BY <3>1, DaysNat, LeaveAssumption DEF TypeOK, Row
      <3> QED
        BY <3>1, <3>2 DEF Charges
    <2>2. Spent(a) = 0
      BY <1>1, <2>1, SumZero, ChargesTyped DEF Spent
    <2>3. credit'[a] = Opening[a[2]] - Spent(a)' /\ credit'[a] # None
      BY <1>1, <1>2, <1>3, <1>4, <2>2, LeaveAssumption
    <2> QED
      BY <1>2, <1>3, <2>3 DEF LedgerInv
  <1>5. CASE credit[a] # None
    <2>1. \A b \in Accounts : credit'[b] = credit[b]
      BY <1>3, <1>5
    <2> QED
      BY <1>2, <2>1 DEF LedgerInv
  <1> QED
    BY <1>4, <1>5

\* Every step keeps the ledger.
LEMMA LedgerStep == TypeOK /\ TypeOK' /\ ChargeInv /\ LedgerInv /\ [Next]_vars => LedgerInv'
  <1> SUFFICES ASSUME TypeOK, TypeOK', ChargeInv, LedgerInv, [Next]_vars PROVE LedgerInv'
    OBVIOUS
  <1> USE LeaveAssumption
  <1>a. ASSUME req' = req, credit' = credit, debits' = debits PROVE LedgerInv'
    BY <1>a, LedgerStays
  <1>b. ASSUME NEW r \in Requests, NEW row \in Row, req[r] # None, row.form = req[r].form,
               req' = [req EXCEPT ![r] = row], credit' = credit, debits' = debits
        PROVE  LedgerInv'
    <2>1. req'[r] = row /\ row # None /\ \A s \in Requests \ {r} : req'[s] = req[s]
      BY <1>b DEF TypeOK
    <2>2. \A s \in Requests :
            /\ req'[s] = None <=> req[s] = None
            /\ req[s] # None => req'[s].form = req[s].form
      BY <1>b, <2>1
    <2> QED
      BY <1>b, <2>2, LedgerStays
  <1>1. ASSUME NEW w \in Workers, NEW f \in Forms, FileStart(w, f) PROVE LedgerInv'
    BY <1>1, <1>a DEF FileStart
  <1>2. ASSUME NEW w \in Workers, FileCheckCredit(w) PROVE LedgerInv'
    BY <1>2, <1>a DEF FileCheckCredit
  <1>3. ASSUME NEW w \in Workers, FileInsert(w) PROVE LedgerInv'
    <2> DEFINE f == job[w].arg
    <2> DEFINE row == [form |-> f, status |-> "PENDING", lwop |-> f.lwop, terminal |-> f.terminal,
                       recommended |-> FALSE, payout |-> "none"]
    <2>1. f \in Forms
      BY <1>3 DEF FileInsert, TypeOK, Job
    <2>2. PICK r \in Requests \ Filed : req' = [req EXCEPT ![r] = row]
      BY <1>3 DEF FileInsert
    <2>3. row \in Row
      BY <2>1 DEF Row, Form, Statuses
    <2> HIDE DEF row
    <2>4. req'[r] # None /\ \A s \in Requests \ {r} : req'[s] = req[s]
      BY <2>2, <2>3 DEF TypeOK
    <2> QED
      BY <1>3, <2>4, InsertLedger DEF FileInsert
  <1>4. ASSUME NEW w \in Workers, NEW r \in Filed, NEW to \in Statuses \cup {"KEEP"},
               NEW edit \in Edits, DecideStart(w, r, to, edit)
        PROVE  LedgerInv'
    BY <1>4, <1>a DEF DecideStart
  <1>5. ASSUME NEW w \in Workers, DecideWrite(w) PROVE LedgerInv'
    <2> DEFINE r == job[w].req
    <2> DEFINE row == Updated(req[r], job[w].arg.to, job[w].arg.edit)
    <2>1. /\ job[w].pc = "decide" /\ r \in Requests /\ req[r] # None /\ req[r] \in Row
          /\ job[w].arg \in [to: Statuses \cup {"KEEP"}, edit: Edits, charged: BOOLEAN]
      BY <1>5 DEF DecideWrite, TypeOK, Job, Filed
    <2>2. row \in Row /\ row.form = req[r].form
      BY <2>1, UpdatedTyped
    <2>3. req' = [req EXCEPT ![r] = row]
      BY <1>5, <2>1 DEF DecideWrite, TypeOK
    <2> HIDE DEF row
    <2> QED
      BY <1>5, <1>b, <2>1, <2>2, <2>3 DEF DecideWrite
  <1>6. ASSUME NEW w \in Workers, Debit(w) PROVE LedgerInv'
    <2>1. job[w].req \in Filed /\ Account(req[job[w].req].form) \in Accounts
      <3>1. job[w].req \in Filed /\ job[w].req \in Requests /\ req[job[w].req] \in Row
        BY <1>6 DEF Debit, TypeOK, Job, Filed
      <3> QED
        BY <3>1, AccountTyped DEF Row
    <2>2. CASE credit[Account(req[job[w].req].form)] = None
      BY <1>6, <1>a, <2>2 DEF Debit
    <2>3. CASE credit[Account(req[job[w].req].form)] # None
      BY <1>6, <2>1, <2>3, DebitLedger DEF Debit
    <2> QED
      BY <2>2, <2>3
  <1>7. ASSUME NEW w \in Workers, NEW r \in Filed, PayStart(w, r) PROVE LedgerInv'
    BY <1>7, <1>a DEF PayStart
  <1>8. ASSUME NEW w \in Workers, PayReadCredit(w) \/ PayCount(w) \/ Abort(w) PROVE LedgerInv'
    BY <1>8, <1>a DEF PayReadCredit, PayCount, Abort
  <1>9. ASSUME NEW w \in Workers, PayWrite(w) PROVE LedgerInv'
    <2> DEFINE r == job[w].req
    <2> DEFINE row == [req[r] EXCEPT !.status = "APPROVED",
                                     !.payout = IF job[w].arg THEN "terminal" ELSE "regular"]
    <2>1. r \in Requests /\ req[r] # None /\ req[r] \in Row
      BY <1>9 DEF PayWrite, TypeOK, Job, Filed
    <2>2. row \in Row /\ row.form = req[r].form
      BY <2>1 DEF Row, Statuses
    <2>3. req' = [req EXCEPT ![r] = row]
      BY <1>9, <2>1 DEF PayWrite, TypeOK
    <2> HIDE DEF row
    <2> QED
      BY <1>9, <1>b, <2>1, <2>2, <2>3 DEF PayWrite
  <1>10. ASSUME NEW w \in Workers, NEW e \in Employees, ReconcileStart(w, e) PROVE LedgerInv'
    BY <1>10, <1>a DEF ReconcileStart
  <1>11. ASSUME NEW w \in Workers, ReconcileCreate(w) PROVE LedgerInv'
    <2>1. PICK a \in job[w].arg : OpenAccount(a)
      BY <1>11 DEF ReconcileCreate
    <2>2. job[w].arg \subseteq FixedAccounts
      BY <1>11 DEF ReconcileCreate, TypeOK, Job
    <2> QED
      BY <1>11, <2>1, <2>2, OpenLedger DEF ReconcileCreate
  <1>12. CASE NewYear \/ UNCHANGED vars
    BY <1>12, <1>a DEF NewYear, vars
  <1> QED
    BY <1>1, <1>2, <1>3, <1>4, <1>5, <1>6, <1>7, <1>8, <1>9, <1>10, <1>11, <1>12 DEF Next

\* LedgerInv holds always: it needs only that a request not yet filed has no charge.
THEOREM LedgerInvCorrect == Spec => []LedgerInv
  <1>1. Init => LedgerInv
    BY FS_EmptySet DEF Init, LedgerInv, Filed, Holders
  <1> QED
    BY <1>1, LedgerStep, TypeCorrect, ChargeInvCorrect, PTL DEF Spec

\* LedgerBalanced: whatever approvals and reconciliations race, an account holds its opening
\* balance less every charge made to it.
THEOREM LedgerCorrect == Spec => []LedgerBalanced
  <1>1. TypeOK /\ LedgerInv => LedgerBalanced
    <2> SUFFICES ASSUME TypeOK, LedgerInv, NEW a \in Accounts, credit[a] # None
                 PROVE  credit[a] = Opening[a[2]]
                          - MapThenSumSet(LAMBDA r : debits[r] * Days(req[r].form),
                                          {r \in Filed : Account(req[r].form) = a})
      BY DEF LedgerBalanced
    <2>1. credit[a] = Opening[a[2]] - Spent(a)
      BY DEF LedgerInv
    <2> QED
      BY <2>1, SpentStated
  <1> QED
    BY <1>1, LedgerInvCorrect, TypeCorrect, PTL

=============================================================================
