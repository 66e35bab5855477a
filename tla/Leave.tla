------------------------------- MODULE Leave -------------------------------
(***************************************************************************)
(* Leave requests and the leave-credit ledger: backend/src/services/       *)
(* leaveService.js over backend/src/repositories/leaveRepository.js.       *)
(*                                                                         *)
(* Every HTTP handler is a worker that runs one awaited statement per      *)
(* step.  PostgreSQL runs at READ COMMITTED, so between two statements of  *)
(* a handler any statement of another one may run.  What a handler keeps   *)
(* from its reads is in its job; everything else is in the tables.         *)
(*                                                                         *)
(* Amounts of leave are counted in half days, so that the half-day rule    *)
(* needs no fractions.  A date is a natural number; YearLength of them     *)
(* make a year and RestDays are its weekends.                              *)
(***************************************************************************)
EXTENDS Integers, FiniteSets, FiniteSetsExt

CONSTANTS
  Workers,      \* request handlers that can be in flight at the same time
  Requests,     \* ids a leave request can be given (bounds the requests filed)
  Employees,
  Types,        \* the leave types of this instance, among LeaveTypes
  Forms,        \* the filing forms clients may send
  Edits,        \* the flag edits a PATCH may carry: functions from a set of flags
  YearLength,
  RestDays,
  LastYear,     \* bounds the calendar
  None

VARIABLES
  req,        \* LeaveRequest rows
  credit,     \* LeaveCredit rows: balance by account, None where there is no row
  year,       \* the year of the server's clock
  job,        \* what each worker is in the middle of
  debits,     \* history: how often each request was charged to the ledger
  rushed      \* history: employees two handlers worked for at the same time

vars == <<req, credit, year, job, debits, rushed>>

-----------------------------------------------------------------------------
(* Rows, forms and accounts                                                *)

LeaveTypes == {"VACATION", "SICK", "SPECIAL_PRIVILEGE", "SPECIAL_WOMEN",
               "MATERNITY", "PATERNITY", "SOLO_PARENT", "COMPENSATORY"}

CREDIT_TYPES == {"VACATION", "SICK", "SPECIAL_PRIVILEGE", "SPECIAL_WOMEN"}

Statuses == {"PENDING", "RECOMMENDED", "APPROVED", "DENIED", "CANCELLED"}
Decided  == {"APPROVED", "DENIED", "CANCELLED"}

Form == [emp: Employees, type: Types, from: Nat, to: Nat, half: BOOLEAN,
         lwop: BOOLEAN, terminal: BOOLEAN, forced: BOOLEAN, byApprover: BOOLEAN,
         noticed: BOOLEAN, shortNotice: BOOLEAN, certificate: BOOLEAN]

\* The balances reconcileCredits opens an account with, in half days.
Opening == [VACATION |-> 30, SICK |-> 30, SPECIAL_PRIVILEGE |-> 10,
            SPECIAL_WOMEN |-> 120, MATERNITY |-> 210, PATERNITY |-> 14,
            SOLO_PARENT |-> 14]

Fixed == Types \cap DOMAIN Opening

Years == 0 .. LastYear

YearOf(d) == d \div YearLength

\* countWorkdays, doubled; a half-day filing takes half of it.
Days(f) == Cardinality({d \in f.from .. f.to : d \notin RestDays}) * (IF f.half THEN 1 ELSE 2)

Account(f) == <<f.emp, f.type, YearOf(f.from)>>

Accounts == Employees \X Types \X Years
FixedAccounts == Employees \X Fixed \X Years

Row == [form: Forms, status: Statuses, lwop: BOOLEAN, terminal: BOOLEAN,
        recommended: BOOLEAN, payout: {"none", "regular", "terminal"}]

ASSUME LeaveAssumption ==
  /\ YearLength \in Nat \ {0} /\ LastYear \in Nat
  /\ RestDays \subseteq Nat
  /\ Types \subseteq LeaveTypes
  /\ Forms \subseteq Form
  /\ \A f \in Forms : YearOf(f.from) \in Years
  /\ \A e \in Edits : \A x \in {"lwop", "terminal"} \cap DOMAIN e : e[x] \in BOOLEAN
  /\ None \notin Requests \cup Employees \cup Int \cup Row

Filed == {r \in Requests : req[r] # None}

-----------------------------------------------------------------------------
(* Workers                                                                 *)

Idle == [pc |-> "idle", emp |-> None, req |-> None, arg |-> None]

InFlight(w) == job[w].pc # "idle"

On(r) == {w \in Workers : job[w].req = r}
For(e) == {w \in Workers : job[w].emp = e}

\* A handler on request r for employee e begins with its first read.
Begin(w, pc, e, r, arg) ==
  /\ ~InFlight(w)
  /\ job' = [job EXCEPT ![w] = [pc |-> pc, emp |-> e, req |-> r, arg |-> arg]]
  /\ rushed' = IF e # None /\ For(e) # {} THEN rushed \cup {e} ELSE rushed

Goto(w, pc, arg) ==
  /\ job' = [job EXCEPT ![w].pc = pc, ![w].arg = arg]
  /\ UNCHANGED rushed

Finish(w) ==
  /\ job' = [job EXCEPT ![w] = Idle]
  /\ UNCHANGED rushed

-----------------------------------------------------------------------------
(* POST /leave/requests, POST /ess/leave-requests: createRequest           *)

\* The checks of the form that read no table.
Admissible(f) ==
  /\ f.from <= f.to
  /\ f.forced => f.byApprover
  /\ (f.type = "VACATION" /\ ~f.lwop /\ ~f.terminal /\ ~f.noticed) => ~f.shortNotice
  /\ (f.type = "SICK" /\ Days(f) > 6 /\ ~f.lwop) => f.certificate
  /\ f.terminal => f.type \in {"VACATION", "SICK"} /\ f.byApprover

\* findOverlapping: RECOMMENDED requests are not looked at.
OverlappingTouchingIgnored(f, r) ==
  /\ req[r].form.emp = f.emp
  /\ req[r].status \in {"PENDING", "APPROVED"}
  /\ req[r].form.from < f.to /\ f.from < req[r].form.to
Overlapping(f, r) ==
  /\ req[r].form.emp = f.emp
  /\ req[r].status \in {"PENDING", "APPROVED"}
  /\ req[r].form.from <= f.to /\ f.from <= req[r].form.to

FileStart(w, f) ==
  /\ Admissible(f)
  /\ (\E r \in Filed : Overlapping(f, r)) => f.terminal \/ f.forced
  /\ Begin(w, "fileCredit", f.emp, None, f)
  /\ UNCHANGED <<req, credit, year, debits>>

Charged(f, lwop) == f.type \in CREDIT_TYPES /\ ~lwop

\* The account the filing is checked against: this year's, else the latest earlier one.
CheckedBalance(f) ==
  LET held == {y \in Years : y <= YearOf(f.from) /\ credit[<<f.emp, f.type, y>>] # None}
  IN  IF held = {} THEN 0 ELSE credit[<<f.emp, f.type, Max(held)>>]

FileCheckCredit(w) ==
  LET f == job[w].arg IN
  /\ job[w].pc = "fileCredit"
  /\ IF Charged(f, f.lwop) /\ CheckedBalance(f) < Days(f)
       THEN Finish(w)
       ELSE Goto(w, "fileInsert", f)
  /\ UNCHANGED <<req, credit, year, debits>>

FileInsert(w) ==
  LET f == job[w].arg IN
  /\ job[w].pc = "fileInsert"
  /\ \E r \in Requests \ Filed :
       req' = [req EXCEPT ![r] = [form |-> f, status |-> "PENDING", lwop |-> f.lwop,
                                  terminal |-> f.terminal, recommended |-> FALSE,
                                  payout |-> "none"]]
  /\ Finish(w)
  /\ UNCHANGED <<credit, year, debits>>

-----------------------------------------------------------------------------
(* PATCH /leave/requests/:id: updateRequest                                *)

TransitionReopened(from, to) ==
  to \in Statuses \ {from, "PENDING"}
Transition(from, to) ==
  \/ from = "PENDING" /\ to \in {"RECOMMENDED", "APPROVED", "DENIED", "CANCELLED"}
  \/ from = "RECOMMENDED" /\ to \in {"APPROVED", "DENIED", "CANCELLED"}

\* The check for terminal leave lets a cancellation of a decided one pass, to Transition.
TerminalMay(row, to) == row.terminal /\ row.status \in Decided => to = "CANCELLED"

\* findRequest and the checks on what it returned; "KEEP" is a PATCH without status.
DecideStart(w, r, to, edit) ==
  /\ to # "KEEP" => TerminalMay(req[r], to) /\ Transition(req[r].status, to)
  /\ to = "KEEP" => DOMAIN edit # {}
  /\ Begin(w, "decide", req[r].form.emp, r,
           [to |-> to, edit |-> edit, charged |-> Charged(req[r].form, req[r].lwop)])
  /\ UNCHANGED <<req, credit, year, debits>>

\* The columns a PATCH writes; without a status in the body Prisma leaves the column alone.
UpdatedAlways(row, to, edit) ==
  [row EXCEPT !.status = to,
              !.recommended = @ \/ to = "RECOMMENDED",
              !.lwop = IF "lwop" \in DOMAIN edit THEN edit["lwop"] ELSE @,
              !.terminal = IF "terminal" \in DOMAIN edit THEN edit["terminal"] ELSE @]
Updated(row, to, edit) ==
  [row EXCEPT !.status = IF to = "KEEP" THEN @ ELSE to,
              !.recommended = @ \/ to = "RECOMMENDED",
              !.lwop = IF "lwop" \in DOMAIN edit THEN edit["lwop"] ELSE @,
              !.terminal = IF "terminal" \in DOMAIN edit THEN edit["terminal"] ELSE @]

\* updateRequestStatus writes through the global client: it commits here, inside
\* the approval's $transaction as much as outside it.
DecideWrite(w) ==
  LET a == job[w].arg IN
  /\ job[w].pc = "decide"
  /\ req' = [req EXCEPT ![job[w].req] = Updated(@, a.to, a.edit)]
  /\ IF a.to = "APPROVED" /\ a.charged THEN Goto(w, "debit", None) ELSE Finish(w)
  /\ UNCHANGED <<credit, year, debits>>

\* The approval's transaction proper: find this year's account, charge it, commit;
\* without the account the handler answers INVALID_STATE.
Debit(w) ==
  LET r == job[w].req  a == Account(req[r].form) IN
  /\ job[w].pc = "debit"
  /\ \/ /\ credit[a] # None
        /\ credit' = [credit EXCEPT ![a] = @ - Days(req[r].form)]
        /\ debits' = [debits EXCEPT ![r] = @ + 1]
     \/ /\ credit[a] = None
        /\ UNCHANGED <<credit, debits>>
  /\ Finish(w)
  /\ UNCHANGED <<req, year>>

-----------------------------------------------------------------------------
(* POST /leave/requests/:id/monetize                                       *)

PayableUndecided(row) ==
  row.payout = "none" /\ row.form.type \in {"VACATION", "SICK"}
Payable(row) ==
  row.status = "APPROVED" /\ row.payout = "none" /\ row.form.type \in {"VACATION", "SICK"}

PayStart(w, r) ==
  /\ Payable(req[r])
  /\ Begin(w, "payCredit", req[r].form.emp, r, req[r].terminal)
  /\ UNCHANGED <<req, credit, year, debits>>

PayReadCredit(w) ==
  /\ job[w].pc = "payCredit"
  /\ IF credit[Account(req[job[w].req].form)] = None
       THEN Finish(w)
       ELSE Goto(w, IF job[w].arg THEN "payWrite" ELSE "payCount", job[w].arg)
  /\ UNCHANGED <<req, credit, year, debits>>

\* Paid requests of the employee that reach into the year of form f or a later one.
PaidAfter(f) ==
  {r \in Filed : /\ req[r].form.emp = f.emp
                 /\ req[r].payout # "none"
                 /\ YearOf(req[r].form.from) > YearOf(f.from)}
PaidSince(f) ==
  {r \in Filed : /\ req[r].form.emp = f.emp
                 /\ req[r].payout # "none"
                 /\ YearOf(req[r].form.to) >= YearOf(f.from)}

PayCount(w) ==
  /\ job[w].pc = "payCount"
  /\ IF PaidSince(req[job[w].req].form) # {}
       THEN Finish(w)
       ELSE Goto(w, "payWrite", job[w].arg)
  /\ UNCHANGED <<req, credit, year, debits>>

PayWrite(w) ==
  /\ job[w].pc = "payWrite"
  /\ req' = [req EXCEPT ![job[w].req].status = "APPROVED",
                        ![job[w].req].payout = IF job[w].arg THEN "terminal" ELSE "regular"]
  /\ Finish(w)
  /\ UNCHANGED <<credit, year, debits>>

-----------------------------------------------------------------------------
(* GET /leave/credits, POST /leave/credits/reconcile: reconcileCredits     *)

ReconcileStart(w, e) ==
  LET missing == {a \in FixedAccounts : a[1] = e /\ a[3] = year /\ credit[a] = None} IN
  /\ missing # {}
  /\ Begin(w, "reconcile", None, None, missing)
  /\ UNCHANGED <<req, credit, year, debits>>

\* createLeaveCredit: the unique index refuses a second row, and the refusal is swallowed.
OpenAccountUpsert(a) ==
  credit' = [credit EXCEPT ![a] = Opening[a[2]]]
OpenAccount(a) ==
  credit' = [credit EXCEPT ![a] = IF @ = None THEN Opening[a[2]] ELSE @]

ReconcileCreate(w) ==
  /\ job[w].pc = "reconcile"
  /\ \E a \in job[w].arg :
       /\ OpenAccount(a)
       /\ IF job[w].arg = {a} THEN Finish(w) ELSE Goto(w, "reconcile", job[w].arg \ {a})
  /\ UNCHANGED <<req, year, debits>>

-----------------------------------------------------------------------------
(* The environment                                                         *)

\* Any awaited statement may throw and the process may die: the handler ends where it is
\* and what it wrote so far stays.
Abort(w) ==
  /\ InFlight(w)
  /\ Finish(w)
  /\ UNCHANGED <<req, credit, year, debits>>

NewYear ==
  /\ year < LastYear
  /\ year' = year + 1
  /\ UNCHANGED <<req, credit, job, debits, rushed>>

-----------------------------------------------------------------------------

Init ==
  /\ req = [r \in Requests |-> None]
  /\ credit = [a \in Accounts |-> None]
  /\ year = 0
  /\ job = [w \in Workers |-> Idle]
  /\ debits = [r \in Requests |-> 0]
  /\ rushed = {}

Next ==
  \/ \E w \in Workers :
       \/ \E f \in Forms : FileStart(w, f)
       \/ FileCheckCredit(w)
       \/ FileInsert(w)
       \/ \E r \in Filed, to \in Statuses \cup {"KEEP"}, edit \in Edits : DecideStart(w, r, to, edit)
       \/ DecideWrite(w)
       \/ Debit(w)
       \/ \E r \in Filed : PayStart(w, r)
       \/ PayReadCredit(w)
       \/ PayCount(w)
       \/ PayWrite(w)
       \/ \E e \in Employees : ReconcileStart(w, e)
       \/ ReconcileCreate(w)
       \/ Abort(w)
  \/ NewYear

Spec == Init /\ [][Next]_vars

-----------------------------------------------------------------------------
(* Properties                                                              *)

Job ==
  [pc: {"idle"}, emp: {None}, req: {None}, arg: {None}]
  \cup [pc: {"fileCredit", "fileInsert"}, emp: Employees, req: {None}, arg: Forms]
  \cup [pc: {"decide"}, emp: Employees, req: Requests,
        arg: [to: Statuses \cup {"KEEP"}, edit: Edits, charged: BOOLEAN]]
  \cup [pc: {"debit"}, emp: Employees, req: Requests, arg: {None}]
  \cup [pc: {"payCredit", "payCount", "payWrite"}, emp: Employees, req: Requests, arg: BOOLEAN]
  \cup [pc: {"reconcile"}, emp: {None}, req: {None}, arg: SUBSET FixedAccounts]

\* The rows and the handlers' local states have the shapes the schema and the code give
\* them, and a handler on a request only runs while the row exists.
TypeOK ==
  /\ req \in [Requests -> Row \cup {None}]
  /\ credit \in [Accounts -> Int \cup {None}]
  /\ year \in Years
  /\ job \in [Workers -> Job]
  /\ debits \in [Requests -> Nat]
  /\ rushed \subseteq Employees
  /\ \A w \in Workers : job[w].req # None => job[w].req \in Filed

\* The ledger loses no charge and makes none up: whatever handlers race, an account holds
\* its opening balance less every charge made to it (leaveService.js approval decrement
\* against reconcileCredits, which may run on every read of the credits).
LedgerBalanced ==
  \A a \in Accounts : credit[a] # None =>
    credit[a] = Opening[a[2]]
                - MapThenSumSet(LAMBDA r : debits[r] * Days(req[r].form),
                                {r \in Filed : Account(req[r].form) = a})

\* A request of an employee whose handlers ran one at a time is charged at most once, and is
\* charged or paid out only if it is approved (updateRequest and monetize together).
ChargedOnce ==
  \A r \in {r \in Filed : req[r].form.emp \notin rushed} :
    /\ debits[r] <= 1
    /\ debits[r] = 1 \/ req[r].payout # "none" => req[r].status = "APPROVED"

\* The handlers that have request r in hand: to write a status, to charge it, to pay it out.
Overruling(r) == {w \in On(r) : job[w].pc = "decide" /\ job[w].arg.to # "KEEP"}
Charging(r) ==
  {w \in On(r) : \/ job[w].pc = "debit"
                 \/ job[w].pc = "decide" /\ job[w].arg.to = "APPROVED" /\ job[w].arg.charged}
Paying(r) == {w \in On(r) : job[w].pc \in {"payCredit", "payCount", "payWrite"}}

\* While a request is decided, nothing decides it anew: its status and its charge change only
\* by handlers that had read it before it was, each of which overrules it once and charges it
\* once at most, and monetize brings one back to APPROVED only if it was that when monetize
\* began.  So what nobody else had in hand stays as decided, an approved terminal leave too:
\* the documents let that one be cancelled, see TerminalCancellable.  A stale recommendation
\* is such a handler as well, and ends the decision.
NoNewDecision ==
  [][\A r \in Filed : req[r].status \in Decided =>
       /\ Overruling(r)' \subseteq Overruling(r) /\ Charging(r)' \subseteq Charging(r)
       /\ req[r].status # "APPROVED" => Paying(r)' \subseteq Paying(r)
       /\ \/ req'[r].status = req[r].status
          \/ Overruling(r)' # Overruling(r)
          \/ Paying(r)' # Paying(r) /\ req'[r].status = "APPROVED"
       /\ \/ debits'[r] = debits[r]
          \/ Charging(r)' # Charging(r) /\ debits'[r] = debits[r] + 1]_vars

Exempt(f) == f.forced \/ f.terminal

\* For an employee whose handlers ran one at a time, two live requests on the same date
\* are possible only if one of them was exempt from the overlap check (forced, terminal)
\* or was RECOMMENDED, which findOverlapping does not look at.
NoOverlap ==
  \A r, s \in Filed :
    \/ r = s
    \/ req[r].form.emp # req[s].form.emp \/ req[r].form.emp \in rushed
    \/ req[r].form.from > req[s].form.to \/ req[s].form.from > req[r].form.to
    \/ ~ {req[r].status, req[s].status} \subseteq {"PENDING", "APPROVED"}
    \/ Exempt(req[r].form) \/ Exempt(req[s].form)
    \/ req[r].recommended \/ req[s].recommended

\* "Leave can only be monetized once per calendar year": for an employee whose handlers ran
\* one at a time no two requests of one year are both paid out as regular leave.
OneRegularPayoutAYear ==
  \A r, s \in Filed :
    req[r].payout = "regular" /\ req[s].payout = "regular" /\ req[r].form.emp = req[s].form.emp
      => \/ r = s
         \/ req[r].form.emp \in rushed
         \/ YearOf(req[r].form.from) # YearOf(req[s].form.from)

\* What LEAVE_APPOINTMENTS.md says of the approval, that the charge is made in one transaction
\* with the status update: an approved request that costs credit, and whose approval is
\* over, has been charged.
ApprovedIsCharged ==
  \A r \in Filed :
    req[r].status = "APPROVED" /\ Charged(req[r].form, req[r].lwop)
      /\ Overruling(r) \cup Charging(r) = {}
      => debits[r] >= 1

\* What LEAVE_APPOINTMENTS.md and the message of updateRequest say of terminal leave, that it
\* "cannot change status except CANCELLED after approval": once approved, it can be cancelled.
TerminalCancellable ==
  \A r \in Filed, w \in Workers :
    req[r].terminal /\ req[r].status = "APPROVED" /\ ~InFlight(w)
      => ENABLED DecideStart(w, r, "CANCELLED", <<>>)

=============================================================================
