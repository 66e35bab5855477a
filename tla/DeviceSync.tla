----------------------------- MODULE DeviceSync -----------------------------
(***************************************************************************)
(* Pulling the logs of biometric terminals into the daily time records:    *)
(* backend/src/services/deviceSyncService.js, over the punches of          *)
(* Attendance.                                                             *)
(*                                                                         *)
(* A terminal keeps every event it recorded and hands all of them out on   *)
(* every pull.  BiometricDeviceLog remembers which were applied.  Pulls    *)
(* run from the poller, one at a time for a terminal, and from the Sync    *)
(* button, which looks at no such thing.  A terminal is registered, taken  *)
(* out of service and deleted, with its logs, at any moment of them.       *)
(***************************************************************************)
EXTENDS Attendance

CONSTANTS
  Pulls,        \* workers that run pulls; the other workers serve clients
  Devices,      \* ids of BiometricDevice rows, each used once
  Events,       \* what the terminals record: [dev, user, at]
  Users,        \* user ids keyed in on the terminals
  Number,       \* the employee whose number is that user id
  Stranger,     \* the id of a BiometricDeviceUser row, which no employee has
  MaxFaults     \* bounds the failures of a run

VARIABLES
  terminal,     \* BiometricDevice: whether the row is there, and active
  log,          \* BiometricDeviceLog: None, or [emp, applied], by event
  pull,         \* what each pull is in the middle of
  running,      \* the poller's Set of terminals it is pulling
  hired,        \* the user ids that are the number of an employee by now
  mapped,       \* BiometricDeviceUser: the <<terminal, user id>> with a row
  applications, \* history: how many punches each event made
  exposed,      \* history: events cut between punch and mark, or in two pulls at once
  faults        \* history: the failures so far

\* What no pull writes.
registry == <<terminal, hired, mapped>>
syncVars == <<registry, log, pull, running, applications, exposed, faults>>
vars == <<attVars, syncVars>>

Event == [dev: Devices, user: Users, at: Times]
Clients == Workers \ Pulls
Idle == [pc |-> "idle"]

Answers == Employees \cup {None, Stranger}

Log == [emp: Answers, applied: BOOLEAN]
Cache == UNION {[U -> Answers] : U \in SUBSET Users}
Asking == [pc: {"pull"}, dev: Devices, polled: BOOLEAN]
Handed == [pc: {"snapshot"}, dev: Devices, polled: BOOLEAN, todo: SUBSET Events]
InBatch == [pc: {"log", "punch", "mark"}, dev: Devices, polled: BOOLEAN, todo: SUBSET Events,
            have: SUBSET Events, cache: Cache]
Pull == {Idle} \cup Asking \cup Handed \cup InBatch

ASSUME DeviceSyncAssumption ==
  /\ Pulls \subseteq Workers
  /\ Events \subseteq Event
  /\ \A e, f \in Events : e.dev = f.dev /\ e.at = f.at => e = f
  /\ Number \in [Users -> Employees]
  /\ Stranger \notin Employees /\ Stranger # None
  /\ None \notin Log \cup Punch
  /\ MaxFaults \in Nat

Held(d) == {e \in Events : e.dev = d /\ e.at <= clock}

\* The terminal lists its events in the order it recorded them.
NextUp(todo) == {e \in todo : \A f \in todo : e.at <= f.at}

Past(w) == pull[w].pc \notin {"idle", "pull", "snapshot"}

Fail ==
  /\ faults < MaxFaults
  /\ faults' = faults + 1

-----------------------------------------------------------------------------
(* A pull: syncDevice, ingestLogs                                          *)

Start(w, d, polled) ==
  /\ terminal[d] = "active"
  /\ pull[w] = Idle
  /\ pull' = [pull EXCEPT ![w] = [pc |-> "pull", dev |-> d, polled |-> polled]]
  /\ UNCHANGED <<attVars, log, registry, applications, exposed, faults>>

PollStartAnyway(w, d) ==
  /\ running' = running \cup {d}
  /\ Start(w, d, TRUE)
PollStart(w, d) ==
  /\ d \notin running
  /\ running' = running \cup {d}
  /\ Start(w, d, TRUE)

ManualStart(w, d) ==
  /\ Start(w, d, FALSE)
  /\ UNCHANGED running

ReleasedNever(w) == running
Released(w) == IF pull[w].polled THEN running \ {pull[w].dev} ELSE running

Stop(w) ==
  /\ pull' = [pull EXCEPT ![w] = Idle]
  /\ running' = Released(w)

PullLogs(w) ==
  /\ pull[w].pc = "pull"
  /\ terminal[pull[w].dev] # "gone"
  /\ pull' = [pull EXCEPT ![w] = [pc |-> "snapshot", dev |-> @.dev, polled |-> @.polled,
                                  todo |-> Held(@.dev)]]
  /\ UNCHANGED <<attVars, log, running, registry, applications, exposed, faults>>

\* The row was deleted meanwhile: writing lastConnectedAt to it throws, and so does lastError.
PullOrphaned(w) ==
  /\ pull[w].pc = "pull"
  /\ terminal[pull[w].dev] = "gone"
  /\ Stop(w)
  /\ UNCHANGED <<attVars, log, registry, applications, exposed, faults>>

\* Applied logs are duplicates; a log once recorded without an employee is left alone.
PendingUnchecked(row) == row.emp # None
Pending(row) == ~row.applied /\ row.emp # None

\* ingestLogs reads the rows of the terminal once, and works from them to the end.
Snapshot(w) ==
  LET have == {e \in pull[w].todo : log[e] # None}
      todo == {e \in pull[w].todo : e \in have => Pending(log[e])}
  IN
  /\ pull[w].pc = "snapshot"
  /\ pull' = [pull EXCEPT ![w] = [pc |-> "log", dev |-> @.dev, polled |-> @.polled, todo |-> todo,
                                  have |-> have, cache |-> [u \in {} |-> None]]]
  /\ exposed' = exposed \cup {e \in have \cap todo : \E v \in Pulls \ {w} : Past(v) /\ e \in pull[v].todo}
  /\ UNCHANGED <<attVars, log, running, registry, applications, faults>>

\* getEmployee: what a mapping finds is the mapping's own row, and its id is taken for the employee's.
Employee(d, u) ==
  IF <<d, u>> \in mapped THEN Stranger
  ELSE IF u \in hired THEN Number[u]
  ELSE None

Working(w, e) == Past(w) /\ e \in NextUp(pull[w].todo)

Lookup(w, e) ==
  /\ pull[w].pc = "log" /\ Working(w, e)
  /\ e.user \notin DOMAIN pull[w].cache
  /\ pull' = [pull EXCEPT ![w].cache =
       [u \in DOMAIN @ \cup {e.user} |-> IF u = e.user THEN Employee(e.dev, u) ELSE @[u]]]
  /\ UNCHANGED <<attVars, log, running, registry, applications, exposed, faults>>

Who(w, e) == pull[w].cache[e.user]
Known(w, e) == pull[w].pc = "log" /\ Working(w, e) /\ e.user \in DOMAIN pull[w].cache

\* The unique index [deviceId, deviceLogId] refuses a second row, and the foreign key a row
\* of a terminal that was deleted: either ends the whole pull.
Record(w, e) ==
  /\ Known(w, e) /\ e \notin pull[w].have
  /\ \/ /\ log[e] = None /\ terminal[e.dev] # "gone"
        /\ log' = [log EXCEPT ![e] = [emp |-> Who(w, e), applied |-> FALSE]]
        /\ pull' = [pull EXCEPT ![w].have = @ \cup {e}]
        /\ UNCHANGED running
     \/ /\ log[e] # None \/ terminal[e.dev] = "gone"
        /\ Stop(w)
        /\ UNCHANGED log
  /\ UNCHANGED <<attVars, registry, applications, exposed, faults>>

AdvanceInPlace(w, e) == pull' = [pull EXCEPT ![w] = [@ EXCEPT !.todo = pull[w].todo \ {e}]]
Advance(w, e) == pull' = [pull EXCEPT ![w] = [@ EXCEPT !.pc = "log", !.todo = pull[w].todo \ {e}]]

\* No employee: the log stays unmatched.  An id that is no employee's: the punch throws.
Skip(w, e) ==
  /\ Known(w, e) /\ e \in pull[w].have
  /\ Who(w, e) \in {None, Stranger}
  /\ Advance(w, e)
  /\ UNCHANGED <<attVars, log, running, registry, applications, exposed, faults>>

Apply(w, e) ==
  /\ Known(w, e) /\ e \in pull[w].have
  /\ Who(w, e) \in Employees
  /\ PunchBegin(w, Who(w, e), None, e.at)
  /\ pull' = [pull EXCEPT ![w].pc = "punch"]
  /\ UNCHANGED <<att, clock, import, kept, touched>>
  /\ UNCHANGED <<log, running, registry, applications, exposed, faults>>

ApplyRead(w) ==
  /\ pull[w].pc = "punch"
  /\ PunchRead(w)
  /\ UNCHANGED syncVars

Applied(w, e) ==
  /\ pull[w].pc = "punch" /\ Working(w, e)
  /\ PunchIn(w) \/ PunchOut(w)
  /\ pull' = [pull EXCEPT ![w].pc = "mark"]
  /\ applications' = [applications EXCEPT ![e] = @ + 1]
  /\ UNCHANGED <<log, running, registry, exposed, faults>>

ApplyAgain(w) ==
  /\ pull[w].pc = "punch"
  /\ PunchAgain(w)
  /\ Fail
  /\ UNCHANGED <<log, pull, running, registry, applications, exposed>>

\* The punch threw: the row stays as it is and the batch goes on.
ApplyConflictSwallowed(w, e) ==
  /\ pull[w].pc = "punch" /\ Working(w, e)
  /\ PunchConflict(w)
  /\ pull' = [pull EXCEPT ![w].pc = "mark"]
  /\ UNCHANGED <<log, running, registry, applications, exposed, faults>>
ApplyConflict(w, e) ==
  /\ pull[w].pc = "punch" /\ Working(w, e)
  /\ PunchConflict(w)
  /\ Advance(w, e)
  /\ UNCHANGED <<log, running, registry, applications, exposed, faults>>

ApplyFailed(w, e) ==
  /\ pull[w].pc = "punch" /\ Working(w, e)
  /\ PunchAbort(w)
  /\ Fail
  /\ Advance(w, e)
  /\ UNCHANGED <<log, running, registry, applications, exposed>>

Mark(w, e) ==
  /\ pull[w].pc = "mark" /\ Working(w, e)
  /\ log[e] # None
  /\ log' = [log EXCEPT ![e] = [emp |-> Who(w, e), applied |-> TRUE]]
  /\ Advance(w, e)
  /\ UNCHANGED <<attVars, running, registry, applications, exposed, faults>>

\* The second write fails: the event is applied and its log says it is not.
MarkFailed(w, e) ==
  /\ pull[w].pc = "mark" /\ Working(w, e)
  /\ Fail
  /\ Advance(w, e)
  /\ exposed' = exposed \cup {e}
  /\ UNCHANGED <<attVars, log, running, registry, applications>>

\* The log went with its terminal: the update throws, and the batch goes on.
MarkOrphaned(w, e) ==
  /\ pull[w].pc = "mark" /\ Working(w, e)
  /\ log[e] = None
  /\ Advance(w, e)
  /\ UNCHANGED <<attVars, log, running, registry, applications, exposed, faults>>

PullEnd(w) ==
  /\ pull[w].pc = "log" /\ pull[w].todo = {}
  /\ Stop(w)
  /\ UNCHANGED <<attVars, log, registry, applications, exposed, faults>>

\* The terminal cannot be reached, or a statement outside the per-log try throws.
PullFailed(w) ==
  /\ pull[w].pc \in {"pull", "snapshot", "log"}
  /\ Fail
  /\ Stop(w)
  /\ UNCHANGED <<attVars, log, registry, applications, exposed>>

-----------------------------------------------------------------------------
(* The environment                                                         *)

\* The process dies: everything in flight is gone, the tables stay.
Restart ==
  /\ Fail
  /\ exposed' = exposed \cup {e \in Events : \E w \in Pulls : pull[w].pc = "mark" /\ Working(w, e)}
  /\ pull' = [w \in Pulls |-> Idle]
  /\ running' = {}
  /\ punch' = [w \in Workers |-> None]
  /\ import' = [w \in Workers |-> None]
  /\ UNCHANGED <<att, clock, kept, touched, registry, log, applications>>

Hire(u) ==
  /\ hired' = hired \cup {u}
  /\ UNCHANGED <<attVars, terminal, log, pull, running, mapped, applications, exposed, faults>>

Register(d) ==
  /\ terminal[d] = "new"
  /\ \E state \in {"active", "inactive"} : terminal' = [terminal EXCEPT ![d] = state]
  /\ UNCHANGED <<attVars, log, pull, running, hired, mapped, applications, exposed, faults>>

\* PATCH: a pull under way goes on with the row it was given.
UpdateDevice(d) ==
  /\ terminal[d] \in {"active", "inactive"}
  /\ \E state \in {"active", "inactive"} : terminal' = [terminal EXCEPT ![d] = state]
  /\ UNCHANGED <<attVars, log, pull, running, hired, mapped, applications, exposed, faults>>

\* DELETE cascades to the logs and the mappings; pulls under way are not told.
DeleteDevice(d) ==
  /\ terminal[d] \in {"active", "inactive"}
  /\ terminal' = [terminal EXCEPT ![d] = "gone"]
  /\ log' = [e \in Events |-> IF e.dev = d THEN None ELSE log[e]]
  /\ mapped' = {m \in mapped : m[1] # d}
  /\ UNCHANGED <<attVars, pull, running, hired, applications, exposed, faults>>

-----------------------------------------------------------------------------

\* No route succeeds in writing a mapping (the handlers read a parameter the routes do not
\* set), so the table holds what was put there by hand.
Init ==
  /\ AttInit
  /\ terminal \in [Devices -> {"new", "active", "inactive"}]
  /\ log = [e \in Events |-> None]
  /\ pull = [w \in Pulls |-> Idle]
  /\ running = {}
  /\ hired \in SUBSET Users
  /\ mapped \in SUBSET {<<d, u>> : d \in {c \in Devices : terminal[c] # "new"}, u \in Users}
  /\ applications = [e \in Events |-> 0]
  /\ exposed = {}
  /\ faults = 0

PullStep(w) ==
  \/ PullLogs(w)
  \/ PullOrphaned(w)
  \/ Snapshot(w)
  \/ \E e \in Events : \/ Lookup(w, e) \/ Record(w, e) \/ Skip(w, e) \/ Apply(w, e)
                       \/ Applied(w, e) \/ ApplyConflict(w, e) \/ Mark(w, e)
                       \/ MarkOrphaned(w, e)
  \/ ApplyRead(w)
  \/ PullEnd(w)

PullTrouble(w) ==
  \/ PullFailed(w)
  \/ ApplyAgain(w)
  \/ \E e \in Events : ApplyFailed(w, e) \/ MarkFailed(w, e)

Desk ==
  /\ Tick \/ \E w \in Clients : ClientStep(w)
  /\ UNCHANGED syncVars

Next ==
  \/ \E w \in Pulls :
       \/ \E d \in Devices : PollStart(w, d) \/ ManualStart(w, d)
       \/ PullStep(w)
       \/ PullTrouble(w)
  \/ Desk
  \/ Restart
  \/ \E u \in Users : Hire(u)
  \/ \E d \in Devices : Register(d) \/ UpdateDevice(d) \/ DeleteDevice(d)

Spec == Init /\ [][Next]_vars

\* A pull's own steps, with the poller's timer, go on for as long as the process lives.
Fairness ==
  /\ \A d \in Devices : WF_vars(\E w \in Pulls : PollStart(w, d))
  /\ \A w \in Pulls : WF_vars(PullStep(w))

FairSpec == Spec /\ Fairness

-----------------------------------------------------------------------------
(* Properties                                                              *)

\* The tables and the local states of the pulls have the shapes the code gives them, and a
\* pull is inside a punch exactly while it awaits one.
TypeOK ==
  /\ AttTypeOK
  /\ log \in [Events -> Log \cup {None}]
  /\ pull \in [Pulls -> Pull]
  /\ running \subseteq Devices
  /\ terminal \in [Devices -> {"new", "active", "inactive", "gone"}]
  /\ hired \subseteq Users /\ mapped \subseteq Devices \X Users
  /\ applications \in [Events -> Nat]
  /\ exposed \subseteq Events
  /\ faults \in 0 .. MaxFaults
  /\ \A w \in Pulls : punch[w] # None <=> pull[w].pc = "punch"

\* An event makes at most one punch, unless its pull was cut between the punch and the mark
\* or two pulls had it in hand at once: syncs repeat, overlap and fail halfway, and neither
\* the snapshot of ingestLogs nor the unique index lets a second punch through.
AppliedOnce == \A e \in Events \ exposed : applications[e] <= 1

\* A log says applied only of an event that made a punch: no failure, conflict or restart on
\* the way marks an event that never reached the time record.
MarkedIsPunched ==
  \A e \in Events : log[e] # None /\ log[e].applied => applications[e] >= 1

\* The poller never has two pulls of a terminal, and the terminals it holds back are those it
\* is pulling: neither an overrun of the timer nor a failed pull breaks its Set.
OnePollPerDevice ==
  LET polls == {w \in Pulls : pull[w] # Idle /\ pull[w].polled} IN
  /\ \A v, w \in polls : pull[v].dev = pull[w].dev => v = w
  /\ running = {pull[w].dev : w \in polls}

\* What DEVICES.md says of re-running a sync: it never applies an event again.
NeverReapplied == \A e \in Events : applications[e] <= 1

\* An event of an employee known by number is applied in the end, whatever fails on the way,
\* unless its terminal is taken out of service, its user id is mapped, or its log was
\* recorded when no such employee existed.
EventuallyApplied ==
  \A e \in Events :
    (e.at <= clock /\ e.user \in hired)
      ~> \/ log[e] # None /\ log[e].applied
         \/ log[e] # None /\ log[e].emp = None
         \/ <<e.dev, e.user>> \in mapped
         \/ terminal[e.dev] # "active"

=============================================================================
