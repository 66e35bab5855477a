# LGU HRMS: TLA+ models and proofs

The HRMS is an Express API over PostgreSQL (Prisma), with a React frontend, a
kiosk and a poller that pulls biometric terminals. Its state is the database;
what makes it hard is that every HTTP handler and every pull is a sequence of
awaited statements, most of them outside a transaction and at READ COMMITTED,
so that between two statements of one handler any statement of another may run,
and the process may stop. The modules here model the parts where that matters,
statement by statement.

## The system's parts

| part | state it keeps | operations | hard behaviour |
|---|---|---|---|
| Leave (`leaveService.js`) | `LeaveRequest`, `LeaveCredit` | file, decide, pay out (monetize), reconcile the credits | checks before writes, a transaction that is none, ledger arithmetic |
| Attendance (`attendanceService.js`) | `Attendance` | punch, manual form, edit, delete, two imports | racing punches, retry of a timed-out transaction, unprotected writes beside them |
| Device sync (`deviceSyncService.js`) | `BiometricDeviceLog`, the `running` set in memory | poll, manual sync, record, punch, mark | repeated and overlapping pulls, failures and restarts between two writes, eventual application |
| Terminals and mappings (`routes/biometricDevices.js`) | `BiometricDevice`, `BiometricDeviceUser` | register, switch on and off, delete | a delete cascades to logs and mappings of pulls under way |
| Documents (`documentRepository.js`, `workflow.js`) | `Document`, `DocumentAccessLog`, files on disk | create, edit, move through the workflow, download | read, check, unconditional write; file and row in step |
| Payroll mirror (`payrollAdapter.js`, `routes/loans.js`) | `PayrollPeriod`, `PayrollRun`, `PayrollItem` with lines and payslip, `LoanAmortization` | sync, webhook, settle; file and delete loans | answers in any order, more than once and from two sides; several writes per entry; an event that is sent only on a transition |
| Recruitment and plantilla (`recruitmentRepository.js`, `vacancyRepository.js`, `plantillaRepository.js`, `appointmentsService.js`) | `Applicant`, `Vacancy`, `PlantillaItem`, `Appointment`, `Employee` | open a vacancy, apply, hire, appoint, separate | checks outside the hiring transaction; statuses set by hand |
| Performance (`performanceService.js`, `performanceEngine.js`) | `PerformanceReview`, its targets and competencies | review lifecycle, scores, rating | a derived rating, written row by row some time after its inputs were read |
| Overtime, training | one status column each | create, edit, approve | edits racing approvals |
| Sign-in, permissions, tenants | users, sessions, roles | per-request gates | none across requests that a model would add to |
| Webhooks, reports, database tools, UI | none of their own | I/O | not modelled |

The parts meet in few places. A terminal's event becomes a punch
(`deviceSyncService` calls `attendanceService.devicePunch`); the punch looks
at approved leave only for its remark; the payroll mirror marks loan
amortizations paid; hiring creates the employee whose number a terminal's user
id is matched with and whom the payroll's records pay. `DeviceSync` composes
`Attendance` with the pulls, `Payroll` the mirror with the loans, `Performance`
the reviews with the rating engine; `DeviceSync`'s `Hire` stands for the part of
recruitment and the employee forms that a pull can see.

What makes each part correct, in a sentence: a leave balance is its opening
less the charges made, and every request is charged once or never; punches lose
nothing and open at most one session; an event of a terminal is applied once and
in the end; a document reaches no status its workflow does not lead to; a posted
run settles what it covers, once, and is announced once; a plantilla item has one
appointee and an applicant becomes one employee; an approved review stays
approved, and its rating is the one its rows give.

## Modules

| module | models | uses |
|---|---|---|
| `Sums` | sums over finite sets: lemmas for the proofs | TLAPS |
| `Leave` | leave requests and the ledger | |
| `LeaveProofs` | theorems about `Leave` | `Leave`, `Sums` |
| `MCLeave` | instances for TLC | `Leave` |
| `TimeClock` | what the time record promises of a day nobody corrects | |
| `Attendance` | the daily time record and its writers; implements `TimeClock` | `TimeClock` |
| `AttendanceProofs` | theorems about `Attendance` | `Attendance`, TLAPS |
| `MCAttendance` | an instance for TLC | `Attendance` |
| `DeviceSync` | pulls of terminals, over the punches of `Attendance` | `Attendance` |
| `DeviceSyncProofs` | theorems about `DeviceSync`, and those of `Attendance` under syncs | `DeviceSync`, `AttendanceProofs` |
| `MCDeviceSync` | instances for TLC | `DeviceSync` |
| `Documents` | documents, their workflow and their files | |
| `DocumentsProofs` | theorems about `Documents` | `Documents`, TLAPS |
| `MCDocuments` | instances for TLC | `Documents` |
| `Settlement` | what a mirror of the payroll promises of the loans | |
| `Payroll` | the mirror of the payroll and the loans; implements `Settlement` | `Settlement` |
| `PayrollProofs` | types, the refinement, and what the mirror does once | `Payroll`, TLAPS |
| `MCPayroll` | an instance for TLC | `Payroll` |
| `RatingEngine` | from scores to averages, parts and ratings | |
| `Performance` | reviews, targets, competencies and their rating | `RatingEngine` |
| `PerformanceProofs` | theorems about the engine and about `Performance` | `Performance`, `Sums` |
| `MCPerformance` | an instance for TLC | `Performance` |
| `Staffing` | vacancies, applicants, plantilla items, appointments | |
| `StaffingProofs` | theorems about `Staffing` | `Staffing`, TLAPS |
| `MCStaffing` | an instance for TLC | `Staffing` |

The properties are at the end of the module they are about, each with a comment
that says it in words. A definition directly before another one, with a longer
name and the same parameters (`UpdatedAlways` before `Updated`), is that
definition with a plausible mistake in it; nothing uses it, and putting it in
the other's place breaks the property it belongs to, as `PROJECT.json` lists.

### Leave

`req` and `credit` are the two tables, `year` the year of the server's clock,
`job[w]` what the handler run by worker `w` is in the middle of: its program
counter, the employee and request it is about, and the values it keeps from its
reads. An action is one awaited statement together with the checks that follow
it. Filing is `FileStart` (the checks and the overlap query), `FileCheckCredit`,
`FileInsert`. A PATCH is `DecideStart` (`findRequest`, the lifecycle check),
`DecideWrite` and, for an approval that costs credit, `Debit`. A payout is
`PayStart`, `PayReadCredit`, `PayCount`, `PayWrite`. Reconciliation is
`ReconcileStart` and one `ReconcileCreate` per missing account. `Abort` ends any
handler anywhere and leaves what it wrote: a statement that throws, a client
that gives up, a process that dies.

Two points of the code carry the model. `updateRequestStatus` writes through
the global Prisma client, so the status of an approval commits in `DecideWrite`,
alone, although the code opens a transaction around it. And the payout's count
and its write are in a transaction at READ COMMITTED, which isolates neither.

Amounts are in half days, so the half-day rule stays in the integers. Dates are
numbers, `YearLength` of them a year. What a filing tells the checks
(short notice, a certificate, the approver's role) are booleans of the form.

History variables: `debits[r]` counts the charges of a request; `rushed` holds
the employees for whom two handlers were ever in flight at the same time.
`ChargedOnce`, `NoOverlap` and `OneRegularPayoutAYear` are about the others. That keeps them true of the code, which takes
no lock: two approvals at the same instant do charge twice (the hazard list
names the line), and the properties say that nothing less does. What handlers that
do race may still change of a decided request is in `NoNewDecision`.

### Attendance and TimeClock

`att` is the table, `Gone` marks a deleted row, `punch[w]` the serializable
transaction of a worker and `import[w]` an import between its read and its
write. `PunchRead` is the `findMany` with the choice of the open row, `PunchIn`
and `PunchOut` the write and the commit. What PostgreSQL promises of
SERIALIZABLE is in `Serialized`: a transaction that writes commits only if no
other such transaction has written the rows of the day since it read them, and
if the row it updates is the one it read. Rows that READ COMMITTED statements
write are protected by the second half only, and so are they in the model.
`PunchAgain` is the one retry, of P2028; `PunchConflict` is P2034, which the
code throws on.

`HandCreate`, `HandUpdate`, `HandRemove` are the CRUD routes. `ImportRead` and
`ImportWrite` are one record of `bulkImport`; `bulkIngest` runs the same two
statements in one transaction for all of its records, which READ COMMITTED
makes visible together: a batch of one record is modelled.

History variables: `touched` holds the employees and days written by hand or by
an import, `kept` the punches accepted for each other day. The properties are
about days not touched: the manual form may create a second open row, by
design of the form, and an import may write over a punch (both in the hazards).

`TimeClock` is the promise for such days: sessions of employees who arrive when no
session of theirs runs and depart from the one that does, in any order among each
other, and a correction that takes a day out of the book. `Book`, the rows of the
days not touched, is its state, so that each commit of a punch has to be an arrival
or a departure, every write by hand a correction of its one day, and all the rest
nothing.

### DeviceSync

`terminal` is the `BiometricDevice` table, `log` is `BiometricDeviceLog` by event,
`running` the poller's set, `pull[w]` a pull: the terminal, whether the poller started it, the logs still to do, the
snapshot it works from (`have`) and the cache of `getEmployee`. The actions
follow `syncDevice` and `ingestLogs`: `PollStart` or `ManualStart`, `PullLogs`,
`Snapshot`, and for every log `Lookup`, `Record`, then `Skip`, or `Apply`,
`ApplyRead`, `Applied` (the punch of `Attendance`, action for action) and
`Mark`. The failures are `PullFailed`, `ApplyConflict`, `ApplyFailed`,
`MarkFailed`, `ApplyAgain` and `Restart`.

`Register`, `UpdateDevice` and `DeleteDevice` are the routes of the terminals, at any
moment of a pull. A pull starts for an active terminal and is not told when that
changes. A delete takes the logs and mappings with it: a pull that has not fetched
yet fails on its first write (`PullOrphaned`), one in the middle cannot record a log
(`Record` ends it) or mark one (`MarkOrphaned`), and may still punch what it has in
hand. A terminal registered again is another row, with a log of its own.

A terminal is outside the program: it is the set of the events it recorded so
far (`Held`), and it gives all of them in order on every pull. Users are
matched by number (`hired`) or by a mapping (`mapped`). The code returns the
mapping's own row where it should return the employee's, so a mapped user's id is
`Stranger`, an id that no employee has; the punch of such an event throws. The
routes that would write mappings read a parameter their paths do not set and end in
an error before they write, so the table holds what was put there by hand: `Init`
chooses it, and only the cascade changes it.

History variables: `applications` counts the punches of an event, `exposed`
holds the events that were in one of two windows: their pull was cut between the
punch and the mark, or two pulls had them in hand at once. `AppliedOnce` says
that these are the only ways to apply an event twice.

### Documents

`doc` is the `Document` table: the status, the file `url` names, and the
outcomes whose user and time the row keeps. `disk` is `uploads/documents`, and
`job[w]` what a handler is in the middle of. `AdvanceStart` is `setStatus` up to
its check, with what it saw, and `AdvanceWrite` its update, which has no
condition on the status; DELETE is the transition to `ARCHIVED`. multer stores a
file before the handler runs, so `CreateStart` and `EditStart` put it on disk and
`CreateInsert` and `EditWrite` name it in a row. `UploadThrows` unlinks it again;
`UploadRefused` is a form that `validate` answers, which does not. `DownloadStart`
and `DownloadSend` are the public portal. `Restart` ends every handler where it
is. A file that `validateUploadedFile` refuses is unlinked at once and leaves
nothing, so it is not a step. A statement that throws is taken not to have
written: an answer lost after a commit is not modelled.

Who makes a transition is left out. The role check can only refuse, and for
every transition some role is let through, so every order of transitions the
model has is one the users can make.

History variables: `contested` holds the documents that two handlers ever had in
hand at once, `slipped` those edited after their approval, `reviewed[d]` the files
approvals of `d` looked at, `leaked` the files left behind with a reason, and
`served` what the portal sent.

### Payroll and Settlement

`Settlement` is the promise, in forty lines: an installment becomes paid only
through a run that the payroll system has completed and that covers it (the run
pays its borrower, and its period ends on or after the due date), and stays paid
while its loan exists. It knows nothing of syncs.

`Payroll` is the mirror. `their` is lgu-payroll, the external system: it moves
its runs and periods on by itself and answers a fetch with any list of its
entries that has periods before runs before records. `period`, `run` and `item`
are the mirrored rows, sequences because nothing keeps two rows of one external
id apart; `inst` is `LoanAmortization`. `job[w]` is a sync: the entries still to
do, and for the current one where it is and what it found. `Fetch` is
`fetchChanges`; a period is `FindPeriod`, `WritePeriod`; a run `FindRun`,
`WriteRun` and, when its status became POSTED by this write, `ReadItems` and
`Settle`; a record `FindItem`, `CreateItem` or `ClearLines`, `WriteLines` and
`WritePayslip`. `Refuse` is an entry of which a row it needs is missing. `Throw`
ends one entry and the sync goes on, `Crash` ends every sync.

`tenantId` is a constant of the model because it is one of the request. The
installments a `POST /loans` creates carry no tenant (`loans.js:91` sets it on the
loan only), so a settlement that filters by a tenant finds none of them:
`PostedIsSettled` is about the platform view, where no tenant is asked for. A
settlement goes by the due date and the end of the period alone, although
`payrollAdapter.js:199` and `PAYROLL.md:22` say "due within the period"; an
overdue installment of an earlier period is settled too, and `Covers` says so.

History variables: `posted[r]` counts the announcements of a run, `crossed` holds
the ids two syncs had in hand at once, `cut` those whose upsert failed between two
writes that belong together, `late` the records and installments that came after
their run was mirrored as posted. The properties name these windows, all of them
real: nothing in the code makes up for them, because the next sync finds the
status already written.

`SettlesAsPromised` has none of these exceptions: stale snapshots, duplicate rows
and crashes can leave an installment unpaid, and can never pay one that no
completed run covers.

### RatingEngine and Performance

`RatingEngine` holds the functions of `performanceEngine.js`: averages, the two
parts, the final rating with its cap, and the adjectival label. Numbers are in
hundredths, the digits the code rounds to. `Plus` is what `reduce`'s `a + b` does:
numbers add, but a score read back from a row is a Prisma `Decimal`, which `+`
turns into text, so that 1 and 5 become "015" and their average 7.5. The model
computes that, `Misread` says when it happens, and the history variable `misread`
holds the reviews it happened to. `RatedOnScale` and `AverageIsMean` except them.

`Performance` is `performanceService.js`. `status`, `config` and `rated` are the
review, `target` and `item` its rows, `job[w]` a handler between its reads and its
writes, and `verdict[w]` the rating it computed. An approval reads the review with
its rows once (`UpdateStart`, `Assess`), writes the average of each target
(`WriteAverage`), then the rating (`WriteRating`), then status, weights and rating
(`UpdateWrite`), in no transaction; `ComputeStart` is the same without the last
write. Targets are added and removed with one check and one write, and edited with
two reads before it (`EditTargetStart`, `EditTargetRead`, `EditTargetWrite`).
Competencies do not look at the status at all, and are only ever added: the routes
that change or remove one are validated by a schema without their id, so the handler
does not know it and ends in an error. `Throw` ends a handler anywhere.

History variables: `contested` holds the reviews one handler wrote while another
one had them in hand, `amended` those changed after their approval in a way the
code lets pass (competencies, weights, a target removed through another review's
path).

### Staffing

`applicant`, `vacancy`, `seat` (the status of a plantilla item), `employee` and
`appointment` are the tables. `hireApplicant` is `hireRead` (the applicant with its
vacancy), `hireCheck` (the item, read again and asked to be VACANT) and
`hireCommit`, its transaction, which asks neither again; `createVacancy` is
`createVacancyRead` and `createVacancyWrite`. The other requests write what they
write whatever they read, so each is one step, with its database constraints:
an item that a vacancy refers to cannot be deleted, an applicant loses a deleted
vacancy, an appointment a deleted item.

`updatePlantillaItem` may set any status of a held item. Besides the form, a PATCH
without a status does: the schema is a `partial()` of one with `.default('VACANT')`,
and under zod 4 the default inside a partial still applies
(`contracts/plantilla.js:37`).

History variables: `contested` holds the applicants and items written while
another handler had them in hand, `reopened` the applicants given another status
after they were hired, `handled` the items set by hand while held, or with an
appointment put in force by hand. `src/src/docs/RSP.md:44` counts the double fill
as fixed; the check of VACANT is still outside the transaction, and
`SeatHeldOnce` holds only with `contested` left out.

## What the runs check

| run | instance | shows |
|---|---|---|
| `leave` | 2 workers, 2 requests, 2 forms, 2 years, flag edits | `TypeOK`, `LedgerBalanced`, `ChargedOnce`, `NoNewDecision`, `NoOverlap`, `OneRegularPayoutAYear` |
| `leave_charge` | 1 worker, 1 request of next year | violates `ApprovedIsCharged` |
| `leave_terminal` | 1 worker, 1 request | violates `TerminalCancellable` |
| `attendance` | 2 workers, 3 rows, 2 days | `AttTypeOK`, `OneOpenRow`, `PunchesKept`, and `KeepsTime`: `Attendance` implements `TimeClock` |
| `device_sync` | 2 pulls, 1 terminal that comes and goes, 2 events, 3 rows, 2 failures | the first three of these under syncs, `AppliedOnce`, `MarkedIsPunched`, `OnePollPerDevice` |
| `device_live` | 2 pulls, 1 terminal that comes and goes, 1 event, 2 rows, 1 failure | `EventuallyApplied` |
| `device_resync` | 2 pulls, 1 event, no failure | violates `NeverReapplied` |
| `documents` | 2 workers, 1 document, 3 files | `TypeOK`, `StampsReflectStatus`, `PublishedAsReviewed`, `ServedAsReviewed`, `FilesAccounted` |
| `documents_terminal` | 2 workers, 1 document | violates `ArchivedIsTerminal` |
| `payroll` | 2 syncs, 1 period, run and record, 3 installments of 2 loans, 1 overlap, 1 failure | `TypeOK`, `OneRowPerExternalId`, `AnnouncedOnce`, `LinesMirrored`, `PostedIsSettled`, and `SettlesAsPromised`: `Payroll` implements `Settlement` |
| `performance` | 2 workers, 1 review, 2 targets, 1 competency, 1 overlap | `TypeOK`, `RatingOfItsRows`, `AverageIsMean`, `RatedOnScale`, `ApprovedIsFinal` |
| `staffing` | 2 workers, 2 applicants, 2 vacancies, 1 item, 2 hires, 1 overlap | `TypeOK`, `HiresAccounted`, `SeatHeldOnce`, `OpenedForVacant` |

**Bounds.** Two workers are what a race needs: every property relates one
request, one day or one event to at most two handlers that have it in hand. Two
requests let two filings, two payouts or two charges of one account meet, and the
properties relate two; the proofs are about any number. The two forms of `MCLeave`
touch on one date; one is exempt from the overlap check, begins on a rest day and
crosses the turn of the year, the other is of the second year. Years are four dates
long. Three attendance rows hold two sessions
of a day and one of another, or a day opened, closed and opened again. Two
events are an arrival and a departure. One terminal is enough for the runs of
`DeviceSync`: pulls of different terminals meet only in the punches of an employee,
which `Attendance` has from two workers already, and the proofs are about any number
of terminals. `MaxFaults` counts failures, retries and
restarts; two of them are enough to fail twice in one pull, or to fail and
restart. One document is enough for `Documents`, whose properties are about one
document each; three files upload it, replace its file and fail a third time.
In `Payroll`, one run that pays one of two
borrowers covers the first's installment that is due in time and neither its later
one nor the other's, so that each condition of the settlement decides one
installment; a fetch answers with everything or with the records alone, which is
how an item comes after its run. `Performance` has one review: its properties are
about one review each, and its rows (a target with one score, one with two, a patch
to the first score, weights with a cap) give every outcome of an average; a second
review would multiply the states beyond reach, so the removal of another review's
target by its id is in the model and in the proofs but does not occur in the run.
In `Staffing` two vacancies and two applicants compete for one item.

`MaxOverlaps` counts the handlers that start while another one is under way: with
one, any two may meet once, at any of their statements, and every further handler
starts alone. A third handler in flight adds no kind of step to those properties,
each of which relates one row to two handlers; the proofs need none of these bounds.
Workers, requests, rows, pulls, documents, files, syncs, applicants and vacancies
are interchangeable, and the safety runs use that as a symmetry; the liveness run
does not.

`CHECK_DEADLOCK FALSE` is set for `Leave`, `Documents` and `Performance` only: when
all ids are used and everything is decided, archived or deleted, nothing is left to
do. The other runs check for deadlock.

**Fairness.** `EventuallyApplied` assumes that the poller's timer goes on firing
(`setInterval` in `startBiometricPoller`, started by the server) and that a pull
that can take a step takes one: it runs on the event loop and awaits statements
that answer or throw, `zkteco` reads with a timeout, and the transaction of a
punch has one too. Nothing is assumed of the Sync button, of hiring or of
the terminals' routes, and failures are finitely many (`MaxFaults`): a database that never
answers again applies nothing. The liveness run allows one failure because each
application twice over takes a row, and with more failures the two rows of the
instance run out, which would stop the model and not the program. Its property
has three exceptions, which the code makes: a log recorded before the employee
existed is never looked at again, an event of a mapped user never applies, and a
terminal that is switched off or deleted is not polled.

**What the four violations show.** `leave_charge`: a leave of next year is
checked against this year's balance (the code falls back to the latest earlier
account) and approved; the status commits, the account of the next year is not
found, the handler throws, and the request is APPROVED and free of charge.
`leave_terminal`: of a decided terminal leave `updateRequest` refuses every status
but CANCELLED (`TerminalMay`), as `LEAVE_APPOINTMENTS.md` has it, and the transition
table it asks next leads nowhere from APPROVED: an approved terminal leave cannot be
cancelled. `NoNewDecision`, which holds, says so of the code with every other
decided request; the document and the message of the check say otherwise.
`device_resync`: a poll takes its snapshot, the Sync button starts a pull and
takes one too, both apply the event. `documents_terminal`: an archive and a
submission both read DRAFT, both write, and the archived document is back in
review. Documentation and comments claim otherwise of all four; `PROJECT.json`
quotes them.

## What is proved

`LeaveProofs`, for every number of workers, requests, employees and forms:

- `TypeCorrect`: `Spec => []TypeOK`. `TypeOK` is inductive by itself; it includes
  that a handler on a request runs only while the row exists, without which no
  column a handler reads would be typed.
- `ChargedOnceCorrect`: `Spec => []ChargedOnce`. The property speaks of requests
  and says nothing of handlers, so it is not inductive. `ChargeInv` adds that,
  for an employee not in `rushed`, at most one handler is in flight, and that
  what it keeps from its reads still holds of the row (`Current`): a decision
  with a status holds a row from which that status is reachable, a charge an
  approved and uncharged row, a payout an approved one.
- `NoNewDecisionCorrect`: `Spec => NoNewDecision`, for handlers that race as they
  like. It needs no more than `TypeOK`: each action of each worker is shown to take a
  decided request in no new hand (`HandsOf`), since the lifecycle check refuses to start
  a decision and `monetize` starts on approved requests only, and to change a status or a
  charge only as it drops the request. It bounds the races the other
  properties leave out: two decisions that both read PENDING overrule each other
  once, and a payout that began between them can bring the first one back. A
  recommendation that is among them ends the decision, and a new one may follow.
- `NoOverlapCorrect` and `OneRegularPayoutCorrect`: `NoOverlap` and
  `OneRegularPayoutAYear`, from `DatesInv`. It says what a handler found and still
  relies on (`Prepared`): no filed request has the dates of a form that is about to
  be inserted, and no other request of the year is paid out when a regular payout is
  about to be written. `ChargeInv` keeps that true: outside `rushed` no other handler
  of the employee is in flight to disturb it. `Sound` adds that a row runs forward in
  time, so that of two payouts of a year each is in what the other counts, and
  remembers a recommendation, so that a row `findOverlapping` did not see is one the
  property excepts.
- `LedgerCorrect`: `Spec => []LedgerBalanced`, for handlers that race as they like.
  `LedgerInv` adds that the filed requests are finitely many, so that the sum is
  one, and that nothing was charged to an account that does not exist yet: a
  reconciliation opens it with all of its opening balance. A filing puts a request into the sum
  with no charge; a charge raises one summand by the days it takes off the account.
  That sums behave so is proved in `Sums`.

They assume `LeaveAssumption`: the forms are well formed and start in a year of
the calendar, `None` is no id, and edits carry booleans. TLC evaluates it on
every run of `MCLeave`.

`AttendanceProofs`, for every number of workers, employees, rows, imports and any
length of the calendar:

- `AttTypeCorrect`: `AttSpec => []AttTypeOK`.
- `OneOpenRowCorrect`: `AttSpec => []OneOpenRow`.
- `PunchesKeptCorrect`: `AttSpec => []PunchesKept`.
- `KeepsTimeCorrect`: `AttSpec => KeepsTime`, the refinement of `TimeClock`.

All of them follow from `AttInvCorrect`. Neither of the two properties is
inductive: they say nothing of the transactions in flight, and it is a
transaction in flight that would open the second row. `AttInv` adds what each of
them knows. A punch that found no open row and has not been marked stale
(`Looking`) proves that its day has none, so its insert opens the only one; the
commit marks every other punch of that day stale, so no second one is left that
looks. A punch that found a row found an open one of its day (`FoundOpen`), and
commits only while the row is as it was read, so its update closes it and adds
one time. An import that found a row writes the day it read (`FoundOfDay`), even
when the row was edited or deleted since, so what it disturbs is the day it
marks as touched. Each action has one lemma that says it keeps `AttInv`, over
the lemmas `Inserted` and `Rewritten`, which say what a write does to the rows of
a day. For the refinement, `RunningIsOpen` says that the sessions running in the
book are the open rows, so that `Looking` gives `ClockIn` its arrival and `FoundOpen`
gives `ClockOut` its departure; `ClockByHand` shows each form and import to write
rows of one day only.

They assume `AttendanceAssumption`: sheets, told instants and amendments are well
formed, `None` and `Gone` are no values, and the ids of rows are finitely many
(a cardinality is a number only of a finite set).

`DeviceSyncProofs`, for any number of pulls, terminals, events and failures:

- `SyncedOneOpenRow`, `SyncedPunchesKept` and `SyncedKeepsTime`: what holds of
  `Attendance` holds under syncs. `AttInv` is inductive there too: a pull's steps
  either leave the tables of `Attendance` alone or are steps of a punch, for which the
  lemmas of `AttendanceProofs` are cited, and a restart only ends transactions.
- `SyncTypeCorrect`, `PollsSingly`, `MarksOnlyPunched` and `AppliesOnce`: `TypeOK`,
  `OnePollPerDevice`, `MarkedIsPunched` and `AppliedOnce`, from `SyncInv`. To these
  it adds what a pull has in hand (`InHand`: its events are of its terminal, and the
  one it punches or marks is recorded and its employee known); that an event which
  is marked or about to be was punched (`PunchedFirst`); and, for an event outside the
  two windows, that one pull at most has its recorded log still to do, unmarked, and
  that an event punched before is marked, about to be, or of a terminal that is gone
  and in no hand (`Custody`). A delete cannot undo that, because nobody pulls a
  terminal that is gone anew.

They assume `DeviceSyncAssumption` besides: pulls are workers, events are well
formed, and a terminal records one event at an instant.

`DocumentsProofs`, for every number of documents, files and workers:

- `DocTypeCorrect`: `Spec => []TypeOK`.
- `FilesCorrect`: `Spec => []FilesAccounted`. `FilesInv` adds that a file under way
  is in no row, is not left behind, and is no other upload's: without it the
  `unlink` of a failed upload could take another document's file. That holds
  because multer gives every upload a new name.
- `StampsCorrect`, `ReviewedCorrect`, `ServedCorrect`: `StampsReflectStatus`,
  `PublishedAsReviewed` and `ServedAsReviewed`, from one invariant. `ReviewInv`
  says that two handlers with one document in hand make it contested (`Alone`),
  that a transition of any other document still knows its status and file
  (`Current`), and that a download has a reviewed file in hand (`SendsReviewed`).

They assume `DocumentsAssumption`: `None` is no file, row or handler.

`PayrollProofs`, for every number of periods, runs, records, loans and syncs, and
any number of failures and overlaps:

- `PayrollTypeCorrect`: `Spec => []TypeOK`, from `TypeInv`, which adds what a sync
  has in hand: its entry is of the kind its stage works on, its row is one of that
  entry, and a run it was told is completed is completed (lgu-payroll reopens
  nothing).
- `SettlesCorrect`: `Spec => SettlesAsPromised`. Every step is a step of `Settlement`
  or leaves its variables alone. Only `Settle` pays: `TypeInv` gives it a completed
  run, and the employees it read off the items are ones the run's records pay,
  because an item stays in the run of its record.

- `OneRowCorrect`, `AnnouncedCorrect`, `LinesCorrect`, `SettledCorrect`:
  `OneRowPerExternalId`, `AnnouncedOnce`, `LinesMirrored` and `PostedIsSettled`, from
  one invariant. None of them mentions what a sync has read, and a sync acts on
  that. `MirrorInv` says first that two syncs with a run or record in hand have
  crossed it (`Apart`, with `EntriesOnce`: an answer names an id once). For a run
  that was never crossed `RunCare` then says that its row is the only one; that a
  sync about to write knows it, or knows that there is none; that while one is
  about to announce it, it is posted and not announced; that once it is posted every
  sync that has it in hand was told it is completed (`Told`), so none takes the
  status back; and that the employees a settlement read off the items are those of
  all items but the late ones (`Listed`). `PaidCare` is `PostedIsSettled` for such a
  run, and `RecordCare` says of a record what `RunCare` says of a run, with the
  lines in place of the event. A sync that fetched long ago is the case to get
  right: its answer may hold the status of a run from before it was completed. If
  another sync has posted the run since, both had it in hand, and it is crossed.

They assume `PayrollAssumption`: ids of different kinds differ, and answers are
finite.

`PerformanceProofs`, for every number of reviews, targets, competencies and
handlers, and any scores and weights:

- `PerformanceTypeCorrect`: `Spec => []TypeOK`.
- `ApprovedCorrect`, `RatingCorrect`, `AverageCorrect`: `ApprovedIsFinal`,
  `RatingOfItsRows` and `AverageIsMean`, from one invariant. `OwnInv` says that the
  targets a handler has in hand are its review's; `HandFits` that what it read of
  an uncontested review still holds (the transition it makes is allowed, the
  rating it computed is the one the rows give now, each average it will write is
  that of the row's scores); `FairRows` that a stored average is that of the scores
  beside it, as numbers. The step that could break the rating is the first write of
  an approval, which changes rows after the rating was computed from them: where
  nothing was misread, `FairRows` makes it write the average that is already there
  (`AverageSpares`), so the rating still is that of the rows when it is written.

- `RatedCorrect`: `Spec => []RatedOnScale`. A rating of nothing misread is between
  1.00 and 5.00 because each stage of the engine keeps that scale: the mean of
  scores from 1 to 5 does (`MeanOnScale`), so does a weighted average of values on
  it, whatever the weights and however many values (`WeightedAverageOnScale`, from
  `SumBetween` of `Sums`), so do both parts and their weighting, and rounding to a
  hundredth keeps whole bounds (`RoundedBetween`); `FullReviewOnScale` puts them
  together for every input. `ScaleInv` says that what the rows hold, and what
  handlers carry to them, are such inputs.

They assume `PerformanceAssumption`: the forms are well formed and `None` is no
value. Averages are proved through `AverageOfNumbers`, by arithmetic on the three
scores. The first three theorems never open the sums over targets: they only need
that equal rows have equal ratings.

`StaffingProofs`, for every number of handlers, applicants, vacancies and items:

- `StaffingTypeCorrect`: `Spec => []TypeOK`, which includes that what a row refers
  to exists.
- `HiresCorrect`, `SeatsCorrect`, `VacanciesCorrect`: `HiresAccounted`,
  `SeatHeldOnce` and `OpenedForVacant`. `HandFree` says what a handler checked and
  still holds: a hire of an applicant neither contested nor reopened knows of no
  employee made from it, one that passed `hireCheck` for an item neither contested
  nor handled knows that no appointment of it is in force, and a vacancy about to be
  opened that its item is VACANT. Any write to an applicant or item in a handler's
  hand contests it, so `HandFree` survives the steps of the others.

They assume `StaffingAssumption`: a request gives no applicant the status HIRED.

`Sums` holds what the ledger and the weighted averages need of
`MapThenSumSet`, the community modules' fold over a set, which is a recursive
function on its subsets, applied to a choice of the next element. The module proves
that the recursion has a solution, which is the same over every set that contains
the summands, and with it that the sum of the empty set is zero, that an element
adds its value whatever order the elements are taken in, and that a weighted sum
lies between the bounds of its values (`SumBetween`). The library's induction rules take a
predicate as a parameter, which the provers cannot instantiate. The inductions are
therefore over sets: `NumberInduction` is about a set of good numbers and
`SubsetInduction` about a set of good subsets, and both follow from the
well-foundedness of `<` on the naturals.

Only model-checked: `EventuallyApplied`, as liveness under fairness is out of the
proof system's reach. Every other property of a passing run is a theorem. The runs
remain the place where the strengthened invariants were first tried, where the
mutants are caught, and where the properties are known not to hold vacuously. The
four properties that runs refute are refuted by TLC alone.

## What is not modelled, and why

Most of the repository's lines hold no state of their own: over half are the
React pages and components, and most of the rest are single-table CRUD routes,
reports, seeds, database tools and the adapters of external services. The modelled
parts are the services in which the order of two statements matters, and they are
a small share of the lines.

The components marked `not_modelled` in `PROJECT.json` with their reasons:
sign-in, permissions and tenant scoping are gates of single requests and the
models are of one tenant; CRUD over one table has no protocol; webhooks are sent
once and not recorded, and reports and database tools are I/O. Overtime and
training are single rows with a status: the one hazard of overtime (an approval
between the check and the write of an edit) is in the list, and is the race of
`UpdateStart` and `UpdateWrite` in `Performance` over fewer columns.

Inside the modelled parts: the amounts of payouts, hours and remarks of rows, the
figures of payroll items, the department scope of approvers, notifications;
accounts opened by accrual rules, which nothing reads; OPCR links and comments of
reviews; salaries, dates and publications of vacancies; connection pool and
transaction timeouts as resources.

## Plan

The first plan is carried out: the parts in which the order of two statements
matters are modelled, and their safety properties are theorems. What could be added,
in order of importance:

1. The refuted statements about races and failures as theorems of what does hold: which requests are
   approved and not charged, which events a pull applies twice, and which archived
   documents come back, each in terms of the steps that led there. For the events
   that is `AppliedOnce`.
2. Overtime as a module of its own, for the approval between the check and the write
   of an edit.
3. A step towards `EventuallyApplied`: the invariants its argument would use (a pull
   under way has a next step, and a log it took up for an employee it knows is applied
   or still to do) proved, with the fairness argument left to TLC.
