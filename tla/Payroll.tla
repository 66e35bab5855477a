------------------------------ MODULE Payroll -------------------------------
(***************************************************************************)
(* The mirror of lgu-payroll: backend/src/services/payrollAdapter.js, the  *)
(* writes of payrollRepository.js, and the loans of routes/loans.js whose  *)
(* installments a posted run settles.                                      *)
(*                                                                         *)
(* A sync, started by lgu-payroll's webhook or by a person, fetches what   *)
(* changed and upserts it entry by entry; an entry that throws is counted  *)
(* and the sync goes on.  Nothing keeps two syncs apart, and nothing runs  *)
(* in a transaction: every statement is a step of its own here.            *)
(***************************************************************************)
EXTENDS Integers, FiniteSets, Sequences

CONSTANTS
  Syncs,        \* what runs syncs
  Periods, Runs, Records,   \* lgu-payroll's external ids
  PeriodOf,     \* the period of a run
  RunOf,        \* the run of a record
  Employees,
  EmployeeOf,   \* who a record pays
  Loans, Installments,
  LoanOf,       \* the loan of an installment
  Borrower,     \* the employee of a loan
  DueDate,      \* the due date of an installment
  EndDate,      \* the last day of a period
  tenantId,     \* req.tenantId of the syncs: an agency's id, or None in the platform view
  Answers,      \* bounds what a sync is answered with
  Newcomers,    \* the employees HRMS does not know at first
  None,
  MaxOverlaps,  \* bounds the syncs that start while another is under way
  MaxFaults     \* bounds the failures

VARIABLES
  their,        \* lgu-payroll: the status of its runs and periods
  staff,        \* the employees HRMS knows
  period,       \* PayrollPeriod.status of the rows of each external id
  run,          \* PayrollRun rows [ext, status], in the order they were created
  item,         \* PayrollItem rows [ext, run, lines, payslip], likewise
  inst,         \* LoanAmortization by installment: none, unpaid or paid
  job,          \* what each sync is in the middle of
  posted,       \* history: payroll.run.posted events by run, up to two
  crossed,      \* history: the ids two syncs had in hand at once
  cut,          \* history: the ids whose upsert was cut between two writes that belong together
  late,         \* history: records and installments that came after the run was mirrored as posted
  overlaps,     \* history: the syncs so far that started while another was under way
  faults        \* history: the failures so far

mirror == <<period, run, item, inst>>
history == <<posted, crossed, cut, late, overlaps, faults>>
vars == <<their, staff, mirror, job, history>>

Ids == Periods \cup Runs \cup Records
TheirRun == {"DRAFT", "PROCESSING", "APPROVED", "COMPLETED", "CANCELLED"}
TheirPeriod == {"OPEN", "CLOSED"}
RunStatus == {"DRAFT", "APPROVED", "POSTED", "CANCELLED"}
Life == {"none", "unpaid", "paid"}
RunRow == [ext: Runs, status: RunStatus]
ItemRow == [ext: Records, run: Nat \ {0}, lines: Nat, payslip: BOOLEAN]
Entry == [id: Ids, status: TheirRun \cup TheirPeriod]

ASSUME PayrollAssumption ==
  /\ Periods \cap Runs = {} /\ Periods \cap Records = {} /\ Runs \cap Records = {}
  /\ Records \cap Installments = {}
  /\ PeriodOf \in [Runs -> Periods]
  /\ RunOf \in [Records -> Runs]
  /\ EmployeeOf \in [Records -> Employees]
  /\ LoanOf \in [Installments -> Loans]
  /\ Borrower \in [Loans -> Employees]
  /\ DueDate \in [Installments -> Int]
  /\ EndDate \in [Periods -> Int]
  /\ None \notin RunStatus \cup TheirPeriod
  /\ Answers \subseteq SUBSET Ids /\ \A ids \in Answers : IsFiniteSet(ids)
  /\ MaxOverlaps \in Nat /\ MaxFaults \in Nat

\* The installments a run is there to settle: due by the end of its period, of whom it pays.
Covers ==
  [r \in Runs |-> {i \in Installments :
                     /\ DueDate[i] <= EndDate[PeriodOf[r]]
                     /\ \E x \in Records : RunOf[x] = r /\ EmployeeOf[x] = Borrower[LoanOf[i]]}]

RunsOfUnposted(r) == {k \in DOMAIN run : run[k].ext = r /\ run[k].status # "POSTED"}
RunsOf(r) == {k \in DOMAIN run : run[k].ext = r}
ItemsOf(x) == {m \in DOMAIN item : item[m].ext = x}
Filed(l) == \E i \in Installments : LoanOf[i] = l /\ inst[i] # "none"

-----------------------------------------------------------------------------
(* A sync: payrollAdapter.sync                                             *)

Idle == [pc |-> "idle", todo |-> <<>>, row |-> 0, prev |-> None, emps |-> {}]
Taking(todo) == IF todo = <<>> THEN Idle ELSE [Idle EXCEPT !.pc = "next", !.todo = todo]

Entered(w, kinds) == job[w].pc = "next" /\ Head(job[w].todo).id \in kinds
Current(w) == Head(job[w].todo)

Goto(w, pc, row, prev, emps) ==
  job' = [job EXCEPT ![w] = [pc |-> pc, todo |-> @.todo, row |-> row, prev |-> prev, emps |-> emps]]
Skip(w) == job' = [job EXCEPT ![w] = Taking(Tail(@.todo))]

\* What lgu-payroll answers with: periods, then runs, then the records of the runs it has
\* computed, which carry a payslip once their run is completed.
Computed(x) == their[RunOf[x]] # "DRAFT"
Changes(ids) ==
  LET entry(e) == [id |-> e, status |-> IF e \in Records THEN their[RunOf[e]] ELSE their[e]]
      before(d, e) == \/ d \in Periods /\ e \notin Periods
                      \/ d \in Runs /\ e \in Records
      lists == {s \in [1 .. Cardinality(ids) -> ids] :
                  \A a, b \in DOMAIN s : a # b => s[a] # s[b] /\ (before(s[a], s[b]) => a < b)}
  IN {[n \in DOMAIN s |-> entry(s[n])] : s \in lists}

InHand(v) == {job[v].todo[n].id : n \in DOMAIN job[v].todo}

\* POST /payroll/changes.  The webhook asks for everything, a person for what changed since.
Fetch(w) ==
  /\ job[w] = Idle
  /\ overlaps' = IF \A v \in Syncs : job[v] = Idle THEN overlaps ELSE overlaps + 1
  /\ overlaps' <= MaxOverlaps
  /\ \E ids \in Answers :
       /\ \E todo \in Changes({e \in ids : e \in Records => Computed(e)}) :
            job' = [job EXCEPT ![w] = Taking(todo)]
       /\ crossed' = crossed \cup ((ids \ Periods) \cap UNION {InHand(v) : v \in Syncs \ {w}})
  /\ UNCHANGED <<their, staff, mirror, posted, cut, late, faults>>

\* An entry of which a row it needs is missing throws before it writes.
Unplaced(e) ==
  \/ e \in Runs /\ period[PeriodOf[e]] = <<>>
  \/ e \in Records /\ (RunsOf(RunOf[e]) = {} \/ EmployeeOf[e] \notin staff)
Refuse(w) ==
  /\ Entered(w, {e \in Ids : Unplaced(e)})
  /\ Skip(w)
  /\ UNCHANGED <<their, staff, mirror, history>>

-----------------------------------------------------------------------------
(* _upsertPeriod                                                           *)

FindPeriod(w) ==
  LET rows == period[Current(w).id] IN
  /\ Entered(w, Periods)
  /\ \/ rows = <<>> /\ Goto(w, "period", 0, None, {})
     \/ \E k \in DOMAIN rows : Goto(w, "period", k, rows[k], {})
  /\ UNCHANGED <<their, staff, mirror, history>>

\* A tenant's periods have unique names: of two syncs that found no row, the second one's create
\* throws.  Rows without a tenant are not held to it.
Refused(w) == tenantId # None /\ period[Current(w).id] # <<>>

WritePeriod(w) ==
  LET e == Current(w)
      status == IF e.status = "CLOSED" THEN "CLOSED" ELSE job[w].prev
  IN
  /\ job[w].pc = "period"
  /\ period' =
       IF job[w].prev # None THEN [period EXCEPT ![e.id][job[w].row] = status]
       ELSE IF Refused(w) THEN period
       ELSE [period EXCEPT ![e.id] = Append(@, "OPEN")]
  /\ Skip(w)
  /\ UNCHANGED <<their, staff, run, item, inst, history>>

-----------------------------------------------------------------------------
(* _upsertRun, _settleAmortizations                                        *)

mapLguPayrollStatusRaw(s) == s
mapLguPayrollStatus(s) ==
  CASE s \in {"DRAFT", "PROCESSING"} -> "DRAFT"
    [] s = "COMPLETED" -> "POSTED"
    [] s \in {"APPROVED", "CANCELLED"} -> s

\* findRunByExternalId names no order: with two rows of one id it may find either.
FindRun(w) ==
  /\ Entered(w, Runs) /\ ~Unplaced(Current(w).id)
  /\ LET rows == RunsOf(Current(w).id) IN
       \/ rows = {} /\ Goto(w, "run", 0, None, {})
       \/ \E k \in rows : Goto(w, "run", k, run[k].status, {})
  /\ UNCHANGED <<their, staff, mirror, history>>

MovedAlways(mapped, previous) == TRUE
Moved(mapped, previous) == mapped # previous

\* The status is written; only a change of it goes on, and only to POSTED does more than tell.
WriteRun(w) ==
  LET e == Current(w)
      mapped == mapLguPayrollStatus(e.status)
  IN
  /\ job[w].pc = "run"
  /\ run' = IF job[w].row = 0 THEN Append(run, [ext |-> e.id, status |-> mapped])
            ELSE [run EXCEPT ![job[w].row].status = mapped]
  /\ IF Moved(mapped, job[w].prev) /\ mapped = "POSTED"
     THEN Goto(w, "posted", job[w].row, None, {})
     ELSE Skip(w)
  /\ UNCHANGED <<their, staff, period, item, inst, history>>

\* A created run is looked up again by its external id; findRunById then reads its items.
ReadItems(w) ==
  /\ job[w].pc = "posted"
  /\ \E k \in IF job[w].row = 0 THEN RunsOf(Current(w).id) ELSE {job[w].row} :
       Goto(w, "settle", k, None, {EmployeeOf[item[m].ext] : m \in {m \in DOMAIN item : item[m].run = k}})
  /\ UNCHANGED <<their, staff, mirror, history>>

\* POST /loans stamps the loan and not the installments it creates with it, so their
\* tenantId is null; the settlement looks for installments of the sync's tenant.
InstallmentTenant == None
Visible == tenantId = None \/ tenantId = InstallmentTenant

DueBefore(i, r) == DueDate[i] < EndDate[PeriodOf[r]]
Due(i, r) == DueDate[i] <= EndDate[PeriodOf[r]]

OfAnyone(i, emps) == emps # {}
OfEmployees(i, emps) == Borrower[LoanOf[i]] \in emps

Settle(w) ==
  LET r == Current(w).id IN
  /\ job[w].pc = "settle"
  /\ inst' = [i \in Installments |->
       IF inst[i] = "unpaid" /\ Visible /\ Due(i, r) /\ OfEmployees(i, job[w].emps)
       THEN "paid" ELSE inst[i]]
  /\ posted' = [posted EXCEPT ![r] = IF @ = 2 THEN 2 ELSE @ + 1]
  /\ Skip(w)
  /\ UNCHANGED <<their, staff, period, run, item, crossed, cut, late, overlaps, faults>>

-----------------------------------------------------------------------------
(* _upsertRecord                                                           *)

FindItem(w) ==
  /\ Entered(w, Records) /\ ~Unplaced(Current(w).id)
  /\ LET rows == ItemsOf(Current(w).id) IN
       \/ rows = {} /\ \E k \in RunsOf(RunOf[Current(w).id]) : Goto(w, "create", k, None, {})
       \/ \E m \in rows : Goto(w, "clear", m, None, {})
  /\ UNCHANGED <<their, staff, mirror, history>>

CreateItem(w) ==
  LET x == Current(w).id IN
  /\ job[w].pc = "create"
  /\ item' = Append(item, [ext |-> x, run |-> job[w].row, lines |-> 0, payslip |-> FALSE])
  /\ late' = IF run[job[w].row].status = "POSTED" THEN late \cup {x} ELSE late
  /\ Goto(w, "lines", Len(item) + 1, None, {})
  /\ UNCHANGED <<their, staff, period, run, inst, posted, crossed, cut, overlaps, faults>>

ClearedNever(n) == n
Cleared(n) == 0

\* updateItemExternal writes the figures and the employee, which are the record's own.
ClearLines(w) ==
  /\ job[w].pc = "clear"
  /\ item' = [item EXCEPT ![job[w].row].lines = Cleared(@)]
  /\ Goto(w, "lines", job[w].row, None, {})
  /\ UNCHANGED <<their, staff, period, run, inst, history>>

WriteLines(w) ==
  /\ job[w].pc = "lines"
  /\ item' = [item EXCEPT ![job[w].row].lines = @ + 1]
  /\ IF Current(w).status = "COMPLETED" THEN Goto(w, "payslip", job[w].row, None, {}) ELSE Skip(w)
  /\ UNCHANGED <<their, staff, period, run, inst, history>>

\* A payslip of the item is updated, or created; a second one the unique index refuses.
WritePayslip(w) ==
  /\ job[w].pc = "payslip"
  /\ item' = [item EXCEPT ![job[w].row].payslip = TRUE]
  /\ Skip(w)
  /\ UNCHANGED <<their, staff, period, run, inst, history>>

-----------------------------------------------------------------------------
(* Failures                                                                *)

\* Between these statements and the ones before them nothing may fail without a trace.
Owing(w) == job[w].pc \in {"posted", "settle", "lines"}

\* A statement throws: the entry counts as an error and the next one is taken.
Throw(w) ==
  /\ job[w].pc \notin {"idle", "next"}
  /\ faults < MaxFaults
  /\ faults' = faults + 1
  /\ cut' = IF Owing(w) THEN cut \cup {Current(w).id} ELSE cut
  /\ Skip(w)
  /\ UNCHANGED <<their, staff, mirror, posted, crossed, late, overlaps>>

\* The process dies with every sync in it.
Crash ==
  /\ faults < MaxFaults
  /\ faults' = faults + 1
  /\ cut' = cut \cup {Current(w).id : w \in {w \in Syncs : Owing(w)}}
  /\ job' = [w \in Syncs |-> Idle]
  /\ UNCHANGED <<their, staff, mirror, posted, crossed, late, overlaps>>

-----------------------------------------------------------------------------
(* Loans, staff, and lgu-payroll itself                                    *)

\* POST /loans: the loan with its installments.
FileLoan(l) ==
  LET mine == {i \in Installments : LoanOf[i] = l} IN
  /\ Borrower[l] \in staff /\ ~Filed(l)
  /\ inst' = [i \in Installments |-> IF i \in mine THEN "unpaid" ELSE inst[i]]
  /\ late' = late \cup {i \in mine : \E k \in DOMAIN run :
                             run[k].status = "POSTED" /\ i \in Covers[run[k].ext]}
  /\ UNCHANGED <<their, staff, period, run, item, job, posted, crossed, cut, overlaps, faults>>

\* DELETE /loans/:id asks for a PENDING loan, and no code ever moves one from PENDING.
DeleteLoan(l) ==
  /\ Filed(l)
  /\ inst' = [i \in Installments |-> IF LoanOf[i] = l THEN "none" ELSE inst[i]]
  /\ late' = {e \in late : e \in Installments => LoanOf[e] # l}
  /\ UNCHANGED <<their, staff, period, run, item, job, posted, crossed, cut, overlaps, faults>>

Hire(e) ==
  /\ staff' = staff \cup {e}
  /\ UNCHANGED <<their, mirror, job, history>>

Following(s) ==
  CASE s = "DRAFT" -> {"PROCESSING", "CANCELLED"}
    [] s = "PROCESSING" -> {"APPROVED", "CANCELLED"}
    [] s = "APPROVED" -> {"COMPLETED", "CANCELLED"}
    [] s = "OPEN" -> {"CLOSED"}
    [] OTHER -> {}

\* A period closes when its runs are through.
LguPayroll(e) ==
  /\ e \in Periods => \A r \in Runs : PeriodOf[r] = e => their[r] \in {"COMPLETED", "CANCELLED"}
  /\ \E s \in Following(their[e]) : their' = [their EXCEPT ![e] = s]
  /\ UNCHANGED <<staff, mirror, job, history>>

-----------------------------------------------------------------------------

Init ==
  /\ their = [e \in Periods \cup Runs |-> IF e \in Periods THEN "OPEN" ELSE "DRAFT"]
  /\ staff = Employees \ Newcomers
  /\ period = [p \in Periods |-> <<>>]
  /\ run = <<>> /\ item = <<>>
  /\ inst = [i \in Installments |-> "none"]
  /\ job = [w \in Syncs |-> Idle]
  /\ posted = [r \in Runs |-> 0]
  /\ crossed = {} /\ cut = {} /\ late = {}
  /\ overlaps = 0 /\ faults = 0

SyncStep(w) ==
  \/ Fetch(w) \/ Refuse(w)
  \/ FindPeriod(w) \/ WritePeriod(w)
  \/ FindRun(w) \/ WriteRun(w) \/ ReadItems(w) \/ Settle(w)
  \/ FindItem(w) \/ CreateItem(w) \/ ClearLines(w) \/ WriteLines(w) \/ WritePayslip(w)
  \/ Throw(w)

Next ==
  \/ \E w \in Syncs : SyncStep(w)
  \/ Crash
  \/ \E l \in Loans : FileLoan(l) \/ DeleteLoan(l)
  \/ \E e \in Employees : Hire(e)
  \/ \E e \in Periods \cup Runs : LguPayroll(e)

Spec == Init /\ [][Next]_vars

-----------------------------------------------------------------------------
(* Properties                                                              *)

Job == [pc: {"idle", "next", "period", "run", "posted", "settle",
             "create", "clear", "lines", "payslip"},
        todo: Seq(Entry), row: Nat, prev: RunStatus \cup TheirPeriod \cup {None},
        emps: SUBSET Employees]

\* The mirrored rows and the local states of the syncs have the shapes the code gives them.
TypeOK ==
  /\ their \in [Periods \cup Runs -> TheirRun \cup TheirPeriod]
  /\ staff \subseteq Employees
  /\ period \in [Periods -> Seq(TheirPeriod)]
  /\ run \in Seq(RunRow)
  /\ item \in Seq(ItemRow)
  /\ inst \in [Installments -> Life]
  /\ job \in [Syncs -> Job]
  /\ posted \in [Runs -> 0 .. 2]
  /\ crossed \subseteq Runs \cup Records /\ cut \subseteq Runs \cup Records /\ late \subseteq Records \cup Installments
  /\ overlaps \in 0 .. MaxOverlaps /\ faults \in 0 .. MaxFaults

\* A run has one mirrored row, and a record one item, unless two syncs had it in hand at once:
\* external ids carry no unique index, and finding before creating is all there is.
OneRowPerExternalId ==
  /\ \A j, k \in DOMAIN run : run[j].ext = run[k].ext /\ run[j].ext \notin crossed => j = k
  /\ \A m, n \in DOMAIN item : item[m].ext = item[n].ext /\ item[m].ext \notin crossed => m = n

\* An item shows its deduction lines once, however often it was synced, but while its lines
\* are being rewritten, or after a sync was cut or crossed there.
LinesMirrored ==
  \A m \in DOMAIN item :
    \/ item[m].lines = 1
    \/ item[m].ext \in crossed \cup cut
    \/ \E w \in Syncs : job[w].pc = "lines" /\ job[w].row = m

Settling(r) == \E w \in Syncs : job[w].pc \in {"posted", "settle"} /\ Current(w).id = r

\* "Transition-only, so an idempotent re-sync that changes nothing dispatches nothing": a run
\* is announced as posted once, when it is, unless the sync that posted it was cut before it
\* told of it or crossed another one.
AnnouncedOnce ==
  /\ \A r \in Runs \ crossed : posted[r] <= 1
  /\ \A k \in DOMAIN run :
       LET r == run[k].ext IN
       run[k].status = "POSTED" /\ r \notin crossed \cup cut /\ ~Settling(r) => posted[r] = 1

\* A run mirrored as posted has settled what it covers, but for items and loans that came after
\* it was posted, and unless the sync that posted it was cut before it settled or crossed
\* another one.
DueIsPaid ==
  \A m \in DOMAIN item : \A i \in Installments :
    LET x == item[m].ext
        k == item[m].run
        r == run[k].ext
    IN (/\ run[k].status = "POSTED" /\ r \notin crossed \cup cut /\ ~Settling(r)
        /\ i \in Covers[r] /\ Borrower[LoanOf[i]] = EmployeeOf[x] /\ inst[i] # "none"
        /\ x \notin late \cup crossed /\ i \notin late)
       => inst[i] = "paid"

\* That is so where the settlement can see the installments: in the platform view.
PostedIsSettled == tenantId = None => DueIsPaid

Completed == {r \in Runs : their[r] = "COMPLETED"}

Promise == INSTANCE Settlement WITH completed <- Completed, ledger <- inst

\* Stale snapshots, duplicate rows, failures and all: only a run that lgu-payroll completed
\* pays installments, only those it covers, and what is paid stays paid.
SettlesAsPromised == Promise!Spec

=============================================================================
