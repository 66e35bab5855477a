-------------------------- MODULE DeviceSyncProofs --------------------------
(***************************************************************************)
(* Proofs about DeviceSync, for any number of pulls, terminals and events. *)
(* What Attendance promises of the daily time records holds of them under  *)
(* syncs too, by the lemmas of AttendanceProofs on the steps of a punch.   *)
(***************************************************************************)
EXTENDS DeviceSync, AttendanceProofs

\* A step that leaves the tables of Attendance alone keeps what holds of them.
LEMMA AttStutter ==
  ASSUME AttInv, UNCHANGED attVars
  PROVE  AttInv'
  <1>1. UNCHANGED <<att, clock, punch, import, kept, touched>>
    BY DEF attVars
  <1>2. AttTypeOK' /\ FoundOpen' /\ FoundOfDay'
    BY <1>1 DEF AttInv, AttTypeOK, FoundOpen, FoundOfDay
  <1>3. \A w \in Workers, e \in Employees, d \in Days : Looking(w, e, d)' => Looking(w, e, d)
    BY <1>1 DEF Looking
  <1> QED
    BY <1>1, <1>2, <1>3, StillDays DEF AttInv

\* A restart ends every transaction and every import that was under way.
LEMMA AttRestart ==
  ASSUME AttInv, Restart
  PROVE  AttInv'
  <1> USE AttendanceAssumption
  <1>1. /\ UNCHANGED <<att, clock, kept, touched>>
        /\ punch' = [w \in Workers |-> None] /\ import' = [w \in Workers |-> None]
    BY DEF Restart
  <1>2. AttTypeOK' /\ FoundOpen' /\ FoundOfDay'
    BY <1>1 DEF AttInv, AttTypeOK, FoundOpen, FoundOfDay
  <1>3. \A w \in Workers, e \in Employees, d \in Days : Looking(w, e, d)' => Looking(w, e, d)
    BY <1>1 DEF Looking
  <1> QED
    BY <1>1, <1>2, <1>3, StillDays DEF AttInv

\* A pull punches as the clients do: whoever it takes the event for, and at its time.
LEMMA ApplyKeeps ==
  ASSUME AttInv, NEW w \in Pulls, NEW e \in Events, Apply(w, e)
  PROVE  AttInv'
  <1>1. w \in Workers /\ e.at \in Times /\ Who(w, e) \in Employees
    BY DeviceSyncAssumption DEF Apply, Event
  <1>2. PunchBegin(w, Who(w, e), None, e.at) /\ UNCHANGED <<att, clock, import, kept, touched>>
    BY DEF Apply
  <1> QED
    BY <1>1, <1>2, BeginKeeps

\* Every step of a system that syncs terminals keeps the invariant of Attendance.
LEMMA AttNextKeeps ==
  ASSUME AttInv, [Next]_vars
  PROVE  AttInv'
  <1> USE DeviceSyncAssumption
  <1>1. ASSUME NEW w \in Pulls, NEW d \in Devices, PollStart(w, d) \/ ManualStart(w, d)
        PROVE  AttInv'
    BY <1>1, AttStutter DEF PollStart, ManualStart, Start
  <1>2. ASSUME NEW w \in Pulls, PullStep(w) PROVE AttInv'
    <2>1. CASE PullLogs(w) \/ PullOrphaned(w) \/ Snapshot(w) \/ PullEnd(w)
      BY <2>1, AttStutter DEF PullLogs, PullOrphaned, Snapshot, PullEnd
    <2>2. ASSUME NEW e \in Events,
                 Lookup(w, e) \/ Record(w, e) \/ Skip(w, e) \/ Mark(w, e) \/ MarkOrphaned(w, e)
          PROVE  AttInv'
      BY <2>2, AttStutter DEF Lookup, Record, Skip, Mark, MarkOrphaned
    <2>3. ASSUME NEW e \in Events, Applied(w, e) PROVE AttInv'
      BY <2>3, WriteKeeps DEF Applied
    <2>4. ASSUME NEW e \in Events, ApplyConflict(w, e) PROVE AttInv'
      BY <2>4, IdleKeeps DEF ApplyConflict, PunchConflict
    <2>5. CASE ApplyRead(w)
      BY <2>5, ReadKeeps DEF ApplyRead
    <2> QED
      BY <1>2, <2>1, <2>2, <2>3, <2>4, <2>5, ApplyKeeps DEF PullStep
  <1>3. ASSUME NEW w \in Pulls, PullTrouble(w) PROVE AttInv'
    <2>1. CASE PullFailed(w)
      BY <2>1, AttStutter DEF PullFailed
    <2>2. CASE ApplyAgain(w)
      BY <2>2, IdleKeeps DEF ApplyAgain
    <2>3. ASSUME NEW e \in Events, ApplyFailed(w, e) PROVE AttInv'
      BY <2>3, IdleKeeps DEF ApplyFailed, PunchAbort
    <2>4. ASSUME NEW e \in Events, MarkFailed(w, e) PROVE AttInv'
      BY <2>4, AttStutter DEF MarkFailed
    <2> QED
      BY <1>3, <2>1, <2>2, <2>3, <2>4 DEF PullTrouble
  <1>4. CASE Desk
    <2>1. ASSUME NEW w \in Clients, ClientStep(w) PROVE AttInv'
      BY <2>1, BeginKeeps, PunchingKeeps, ByHandKeeps DEF ClientStep, ClientPunch, Clients
    <2> QED
      BY <1>4, <2>1, TickKeeps DEF Desk
  <1>5. ASSUME NEW u \in Users, Hire(u) PROVE AttInv'
    BY <1>5, AttStutter DEF Hire
  <1>7. ASSUME NEW d \in Devices, Register(d) \/ UpdateDevice(d) \/ DeleteDevice(d) PROVE AttInv'
    BY <1>7, AttStutter DEF Register, UpdateDevice, DeleteDevice
  <1>6. CASE UNCHANGED vars
    BY <1>6, AttStutter DEF vars
  <1> QED
    BY <1>1, <1>2, <1>3, <1>4, <1>5, <1>6, <1>7, AttRestart DEF Next

\* So it always holds.
LEMMA SyncedAttInv == Spec => []AttInv
  <1>1. Init => AttInv
    BY AttInvStart DEF Init
  <1>2. AttInv /\ [Next]_vars => AttInv'
    BY AttNextKeeps
  <1> QED
    BY <1>1, <1>2, PTL DEF Spec

-----------------------------------------------------------------------------
(* The shapes of the pulls                                                 *)

\* A pull is known by its pc.
LEMMA Phases ==
  ASSUME NEW r \in Pull
  PROVE  /\ r.pc \in {"idle", "pull", "snapshot", "log", "punch", "mark"}
         /\ r.pc = "idle" <=> r = Idle
         /\ r.pc = "pull" => r \in Asking
         /\ r.pc = "snapshot" => r \in Handed
         /\ r.pc \in {"log", "punch", "mark"} => r \in InBatch
         /\ r # Idle => r.dev \in Devices /\ r.polled \in BOOLEAN
  BY DEF Pull, Idle, Asking, Handed, InBatch

\* What a pull writes of its own record while it goes through a batch keeps it one.
LEMMA BatchFields ==
  ASSUME NEW r \in InBatch
  PROVE  /\ \A pc \in {"log", "punch", "mark"} : [r EXCEPT !.pc = pc] \in InBatch
         /\ \A h \in SUBSET Events : [r EXCEPT !.have = h] \in InBatch
         /\ \A c \in Cache : [r EXCEPT !.cache = c] \in InBatch
         /\ \A t \in SUBSET Events : [r EXCEPT !.pc = "log", !.todo = t] \in InBatch
  BY DEF InBatch

\* What a pull in one of its stages has, taken apart.
LEMMA Batched ==
  ASSUME TypeOK, NEW w \in Pulls
  PROVE  /\ pull[w] \in Pull
         /\ Past(w) <=> pull[w].pc \in {"log", "punch", "mark"}
         /\ Past(w) => pull[w] \in InBatch
  BY Phases DEF TypeOK, Past

\* A pull whose record stays well formed leaves all of them so.
LEMMA OnePullTyped ==
  ASSUME pull \in [Pulls -> Pull], NEW w \in Pulls, NEW r \in Pull,
         pull' = [pull EXCEPT ![w] = r]
  PROVE  pull' \in [Pulls -> Pull]
  OBVIOUS

\* Going on to the next log keeps the types.
LEMMA AdvanceTyped ==
  ASSUME TypeOK, NEW w \in Pulls, NEW e \in Events, Past(w), Advance(w, e)
  PROVE  pull' \in [Pulls -> Pull] /\ pull'[w].pc = "log"
  <1> DEFINE r == [pull[w] EXCEPT !.pc = "log", !.todo = pull[w].todo \ {e}]
  <1>1. pull[w] \in InBatch
    BY Batched
  <1>2. r \in InBatch /\ r.pc = "log"
    BY <1>1, BatchFields DEF InBatch
  <1>3. pull' = [pull EXCEPT ![w] = r]
    BY DEF Advance
  <1>4. pull \in [Pulls -> Pull]
    BY DEF TypeOK
  <1> HIDE DEF r
  <1>5. r \in Pull
    BY <1>2 DEF Pull
  <1> QED
    BY <1>2, <1>3, <1>4, <1>5

\* So does the end of a pull, which lets go of its terminal.
LEMMA StopTyped ==
  ASSUME TypeOK, NEW w \in Pulls, pull[w] # Idle, Stop(w)
  PROVE  pull' \in [Pulls -> Pull] /\ pull'[w].pc = "idle" /\ running' \subseteq Devices
  BY DEF TypeOK, Stop, Released, Pull, Idle

\* An answer of getEmployee is put into the cache of a pull.
LEMMA CacheTyped ==
  ASSUME NEW c \in Cache, NEW u \in Users, NEW a \in Answers
  PROVE  [v \in DOMAIN c \cup {u} |-> IF v = u THEN a ELSE c[v]] \in Cache
  <1>1. PICK U \in SUBSET Users : c \in [U -> Answers]
    BY DEF Cache
  <1>2. [v \in DOMAIN c \cup {u} |-> IF v = u THEN a ELSE c[v]] \in [U \cup {u} -> Answers]
    BY <1>1
  <1> QED
    BY <1>2 DEF Cache

\* A step of one worker's punch begins and ends no other worker's.
LEMMA OthersPunch ==
  ASSUME AttTypeOK, NEW w \in Workers, NEW v \in Workers, v # w,
         \/ PunchIn(w) \/ PunchOut(w) \/ PunchEnd(w) \/ PunchRead(w) \/ PunchAgain(w)
         \/ \E e \in Employees, type \in {"IN", "OUT", None}, at \in Times : PunchBegin(w, e, type, at)
  PROVE  punch'[v] = None <=> punch[v] = None
  <1> USE DeviceSyncAssumption DEF AttTypeOK
  <1>1. CASE PunchIn(w) \/ PunchOut(w)
    <2>1. punch' = [x \in Workers |-> IF x = w THEN None
                                      ELSE IF Rival(x, w) THEN [punch[x] EXCEPT !.stale = TRUE]
                                      ELSE punch[x]]
      BY <1>1 DEF PunchIn, PunchOut, PunchCommit
    <2>2. CASE Rival(v, w)
      <3>1. punch[v] \in Punch
        BY <2>2 DEF Rival
      <3>2. [punch[v] EXCEPT !.stale = TRUE] \in Punch
        BY <3>1 DEF Punch
      <3> QED
        BY <2>1, <2>2, <3>1, <3>2
    <2> QED
      BY <2>1, <2>2
  <1>2. CASE PunchEnd(w) \/ PunchRead(w) \/ PunchAgain(w)
    BY <1>2 DEF PunchEnd, PunchRead, PunchAgain
  <1>3. CASE \E e \in Employees, type \in {"IN", "OUT", None}, at \in Times : PunchBegin(w, e, type, at)
    BY <1>3 DEF PunchBegin
  <1> QED
    BY <1>1, <1>2, <1>3

\* A punch that begins, reads or is tried again is under way; one that writes or ends is not.
LEMMA OwnPunch ==
  ASSUME AttTypeOK, AttTypeOK', NEW w \in Workers
  PROVE  /\ PunchIn(w) \/ PunchOut(w) \/ PunchEnd(w) => punch'[w] = None
         /\ PunchRead(w) \/ PunchAgain(w) => punch'[w] # None
         /\ \A e \in Employees, type \in {"IN", "OUT", None}, at \in Times :
              PunchBegin(w, e, type, at) => punch'[w] # None
  <1> USE DeviceSyncAssumption DEF AttTypeOK
  <1>1. PunchIn(w) \/ PunchOut(w) \/ PunchEnd(w) => punch'[w] = None
    BY DEF PunchIn, PunchOut, PunchEnd, PunchCommit
  <1>2. ASSUME PunchRead(w) PROVE punch'[w] # None
    <2>1. punch[w] \in Punch
      BY <1>2 DEF PunchRead
    <2>2. PICK o \in FirstOpen(punch[w].emp, Day(punch[w].at)) :
            punch' = [punch EXCEPT ![w].pc = "write", ![w].open = o,
                                   ![w].row = IF o = None THEN None ELSE att[o]]
      BY <1>2 DEF PunchRead
    <2> DEFINE found == IF o = None THEN None ELSE att[o]
    <2>3. found \in Row \cup {None} /\ o \in Rows \cup {None}
      BY <2>2, DayRowsTyped DEF FirstOpen, OpenRows
    <2>4. punch' = [punch EXCEPT ![w].pc = "write", ![w].open = o, ![w].row = found]
      BY <2>2
    <2> HIDE DEF found
    <2>5. punch'[w] \in Punch
      BY <2>1, <2>3, <2>4 DEF Punch
    <2> QED
      BY <2>5
  <1>3. ASSUME PunchAgain(w) PROVE punch'[w] # None
    <2>1. punch[w] \in Punch
      BY <1>3 DEF PunchAgain
    <2>2. [punch[w] EXCEPT !.pc = "read", !.again = TRUE, !.open = None, !.row = None,
                           !.stale = FALSE] \in Punch
      BY <2>1 DEF Punch
    <2> QED
      BY <1>3, <2>2 DEF PunchAgain
  <1>4. ASSUME NEW e \in Employees, NEW type \in {"IN", "OUT", None}, NEW at \in Times,
               PunchBegin(w, e, type, at)
        PROVE  punch'[w] # None
    <2>1. [pc |-> "read", emp |-> e, type |-> type, at |-> at, again |-> FALSE,
           open |-> None, row |-> None, stale |-> FALSE] \in Punch
      BY DEF Punch
    <2> QED
      BY <1>4, <2>1 DEF PunchBegin
  <1> QED
    BY <1>1, <1>2, <1>3, <1>4

\* What a step of one pull has to keep, for the types.
LEMMA StepTyped ==
  ASSUME TypeOK, AttTypeOK', NEW w \in Pulls,
         pull' \in [Pulls -> Pull], punch'[w] # None <=> pull'[w].pc = "punch",
         \A v \in Pulls \ {w} : pull'[v] = pull[v] /\ (punch'[v] = None <=> punch[v] = None),
         log' \in [Events -> Log \cup {None}], running' \subseteq Devices,
         applications' \in [Events -> Nat], exposed' \subseteq Events, faults' \in 0 .. MaxFaults,
         UNCHANGED registry
  PROVE  TypeOK'
  BY DEF TypeOK, registry

\* The punch stays what it was when neither it nor the pull is inside it.
LEMMA StillPunch ==
  ASSUME TypeOK, NEW w \in Pulls, UNCHANGED attVars, pull[w].pc # "punch", pull'[w].pc # "punch"
  PROVE  /\ punch'[w] # None <=> pull'[w].pc = "punch"
         /\ \A v \in Pulls \ {w} : punch'[v] = None <=> punch[v] = None
  BY DEF TypeOK, attVars

\* A failure counts up to its bound.
LEMMA FailTyped == ASSUME TypeOK, Fail PROVE faults' \in 0 .. MaxFaults
  BY DeviceSyncAssumption DEF TypeOK, Fail

\* Starting, asking and ending.
LEMMA EdgesTyped ==
  ASSUME TypeOK, AttTypeOK', NEW w \in Pulls,
         \/ \E d \in Devices : PollStart(w, d) \/ ManualStart(w, d)
         \/ PullLogs(w) \/ PullOrphaned(w) \/ Snapshot(w) \/ PullEnd(w) \/ PullFailed(w)
  PROVE  TypeOK'
  <1> USE DEF TypeOK
  <1>1. ASSUME NEW d \in Devices, PollStart(w, d) \/ ManualStart(w, d) PROVE TypeOK'
    <2>1. PICK polled \in BOOLEAN : Start(w, d, polled)
      BY <1>1 DEF PollStart, ManualStart
    <2> DEFINE r == [pc |-> "pull", dev |-> d, polled |-> polled]
    <2>2. r \in Pull /\ pull' = [pull EXCEPT ![w] = r]
      BY <2>1 DEF Start, Pull, Asking
    <2>3. pull[w].pc # "punch" /\ pull'[w].pc # "punch" /\ running' \subseteq Devices
      BY <2>1, <2>2, <1>1 DEF Start, PollStart, ManualStart, Idle
    <2> QED
      BY <2>1, <2>2, <2>3, StillPunch, StepTyped DEF Start
  <1>2. CASE PullLogs(w)
    <2> DEFINE r == [pc |-> "snapshot", dev |-> pull[w].dev, polled |-> pull[w].polled,
                     todo |-> Held(pull[w].dev)]
    <2>1. pull[w] \in Asking
      BY <1>2, Phases DEF PullLogs
    <2>2. r \in Pull /\ pull' = [pull EXCEPT ![w] = r]
      BY <1>2, <2>1 DEF PullLogs, Pull, Asking, Handed, Held
    <2>3. pull[w].pc # "punch" /\ pull'[w].pc # "punch"
      BY <1>2, <2>2 DEF PullLogs
    <2> QED
      BY <1>2, <2>2, <2>3, StillPunch, StepTyped DEF PullLogs
  <1>3. CASE Snapshot(w)
    <2> DEFINE have == {e \in pull[w].todo : log[e] # None}
               todo == {e \in pull[w].todo : e \in have => Pending(log[e])}
               none == [u \in {} |-> None]
               r == [pc |-> "log", dev |-> pull[w].dev, polled |-> pull[w].polled, todo |-> todo,
                     have |-> have, cache |-> none]
    <2>1. pull[w] \in Handed
      BY <1>3, Phases DEF Snapshot
    <2>2. none \in Cache
      <3>1. none \in [{} -> Answers] /\ {} \in SUBSET Users
        OBVIOUS
      <3> QED
        BY <3>1 DEF Cache
    <2>3. have \subseteq Events /\ todo \subseteq Events
      BY <2>1 DEF Handed
    <2>4. pull' = [pull EXCEPT ![w] = r] /\ exposed' \subseteq Events
      BY <1>3, <2>3 DEF Snapshot
    <2> HIDE DEF have, todo, none
    <2>5. r \in InBatch
      BY <2>1, <2>2, <2>3 DEF InBatch, Handed
    <2>6. pull[w].pc # "punch" /\ pull'[w].pc # "punch" /\ r \in Pull
      BY <1>3, <2>4, <2>5 DEF Snapshot, Pull
    <2>7. UNCHANGED <<attVars, log, running, registry, applications, faults>>
      BY <1>3 DEF Snapshot
    <2> HIDE DEF r
    <2>8. pull' \in [Pulls -> Pull] /\ \A v \in Pulls \ {w} : pull'[v] = pull[v]
      BY <2>4, <2>6
    <2> QED
      BY <2>4, <2>6, <2>7, <2>8, StillPunch, StepTyped
  <1>4. CASE PullOrphaned(w) \/ PullEnd(w) \/ PullFailed(w)
    <2>1. pull[w].pc \in {"pull", "snapshot", "log"} /\ Stop(w)
      BY <1>4 DEF PullOrphaned, PullEnd, PullFailed
    <2>2. pull[w] # Idle
      BY <2>1 DEF Idle
    <2>3. \A v \in Pulls \ {w} : pull'[v] = pull[v]
      BY <2>1 DEF Stop
    <2>4. faults' \in 0 .. MaxFaults
      BY <1>4, FailTyped DEF PullOrphaned, PullEnd, PullFailed
    <2>5. UNCHANGED <<attVars, log, registry, applications, exposed>>
      BY <1>4 DEF PullOrphaned, PullEnd, PullFailed
    <2> QED
      BY <2>1, <2>2, <2>3, <2>4, <2>5, StopTyped, StillPunch, StepTyped
  <1> QED
    BY <1>1, <1>2, <1>3, <1>4

\* A pull works on the logs of its terminal, and what it punches or marks is recorded and
\* its employee known.
HandOf(r) ==
  /\ r.pc \in {"snapshot", "log", "punch", "mark"} => \A e \in r.todo : e.dev = r.dev
  /\ r.pc \in {"punch", "mark"} =>
       \A e \in NextUp(r.todo) : e \in r.have /\ e.user \in DOMAIN r.cache
InHand == \A w \in Pulls : HandOf(pull[w])

\* A terminal records one event at an instant, so one event is next.
LEMMA OneNext ==
  ASSUME NEW r \in InBatch, HandOf(r), NEW e \in NextUp(r.todo), NEW f \in NextUp(r.todo)
  PROVE  e = f
  <1>1. e \in Events /\ f \in Events /\ e.at \in Int /\ f.at \in Int
    BY DeviceSyncAssumption DEF NextUp, InBatch, Event, Times
  <1>2. e.dev = f.dev /\ e.at <= f.at /\ f.at <= e.at
    BY DEF NextUp, HandOf, InBatch
  <1> QED
    BY <1>1, <1>2, DeviceSyncAssumption

\* Whoever a log turned out to be of.
LEMMA WhoTyped ==
  ASSUME NEW w \in Pulls, NEW e \in Events, pull[w] \in InBatch, e.user \in DOMAIN pull[w].cache
  PROVE  Who(w, e) \in Answers
  BY DEF InBatch, Cache, Who

\* One log: found out, recorded, left or marked.
LEMMA LogsTyped ==
  ASSUME TypeOK, InHand, AttTypeOK', NEW w \in Pulls, NEW e \in Events,
         \/ Lookup(w, e) \/ Record(w, e) \/ Skip(w, e) \/ Mark(w, e) \/ MarkOrphaned(w, e)
         \/ MarkFailed(w, e)
  PROVE  TypeOK'
  <1> USE DeviceSyncAssumption
  <1>1. Past(w) /\ pull[w] \in InBatch /\ e.user \in Users /\ UNCHANGED <<attVars, registry>>
    BY Batched DEF Lookup, Record, Skip, Mark, MarkOrphaned, MarkFailed, Known, Working, Event
  <1>2. /\ pull \in [Pulls -> Pull] /\ log \in [Events -> Log \cup {None}]
        /\ running \subseteq Devices /\ exposed \subseteq Events
        /\ applications \in [Events -> Nat] /\ faults \in 0 .. MaxFaults
    BY DEF TypeOK
  <1>3. e.user \in DOMAIN pull[w].cache => Who(w, e) \in Answers
    BY <1>1, WhoTyped
  <1>4. CASE Lookup(w, e)
    <2>1. Employee(e.dev, e.user) \in Answers
      BY <1>1 DEF Employee, Answers
    <2> DEFINE c == [u \in DOMAIN pull[w].cache \cup {e.user} |->
                       IF u = e.user THEN Employee(e.dev, u) ELSE pull[w].cache[u]]
    <2>2. c \in Cache
      BY <1>1, <2>1, CacheTyped DEF InBatch
    <2>3. pull' = [pull EXCEPT ![w] = [pull[w] EXCEPT !.cache = c]]
      BY <1>4 DEF Lookup
    <2> HIDE DEF c
    <2>4. [pull[w] EXCEPT !.cache = c] \in InBatch
      BY <1>1, <2>2, BatchFields
    <2>5. pull[w].pc = "log" /\ UNCHANGED <<log, running, applications, exposed, faults>>
      BY <1>4 DEF Lookup
    <2>6. pull' \in [Pulls -> Pull] /\ \A v \in Pulls \ {w} : pull'[v] = pull[v]
      BY <1>2, <2>3, <2>4 DEF Pull
    <2>7. pull'[w].pc = "log"
      BY <1>1, <1>2, <2>3, <2>5 DEF InBatch
    <2> QED
      BY <1>1, <1>2, <2>5, <2>6, <2>7, StillPunch, StepTyped
  <1>5. CASE Record(w, e)
    <2>1. pull[w].pc = "log" /\ pull[w] # Idle /\ UNCHANGED <<applications, exposed, faults>>
      BY <1>5 DEF Record, Known, Idle
    <2>2. CASE Stop(w) /\ UNCHANGED log
      <3>1. \A v \in Pulls \ {w} : pull'[v] = pull[v]
        BY <2>2 DEF Stop
      <3> QED
        BY <1>1, <1>2, <2>1, <2>2, <3>1, StopTyped, StillPunch, StepTyped
    <2>3. CASE /\ log' = [log EXCEPT ![e] = [emp |-> Who(w, e), applied |-> FALSE]]
               /\ pull' = [pull EXCEPT ![w].have = @ \cup {e}]
               /\ UNCHANGED running
      <3> DEFINE r == [pull[w] EXCEPT !.have = pull[w].have \cup {e}]
      <3>1. r \in InBatch /\ r.pc = pull[w].pc
        BY <1>1, BatchFields DEF InBatch
      <3>2. pull' = [pull EXCEPT ![w] = r]
        BY <2>3
      <3>3. log' \in [Events -> Log \cup {None}]
        BY <1>2, <1>3, <1>5, <2>3 DEF Record, Known, Log
      <3> HIDE DEF r
      <3>4. pull' \in [Pulls -> Pull] /\ pull'[w].pc = "log" /\ \A v \in Pulls \ {w} : pull'[v] = pull[v]
        BY <1>2, <2>1, <3>1, <3>2 DEF Pull
      <3> QED
        BY <1>1, <1>2, <2>1, <2>3, <3>3, <3>4, StillPunch, StepTyped
    <2> QED
      BY <1>5, <2>2, <2>3 DEF Record
  <1>6. CASE Skip(w, e) \/ Mark(w, e) \/ MarkOrphaned(w, e) \/ MarkFailed(w, e)
    <2>1. Advance(w, e) /\ pull[w].pc # "punch" /\ UNCHANGED <<running, applications>>
      BY <1>6 DEF Skip, Mark, MarkOrphaned, MarkFailed, Known
    <2>2. \A v \in Pulls \ {w} : pull'[v] = pull[v]
      BY <2>1 DEF Advance
    <2>3. faults' \in 0 .. MaxFaults /\ exposed' \subseteq Events
      BY <1>2, <1>6, FailTyped DEF Skip, Mark, MarkOrphaned, MarkFailed
    <2>4. log' \in [Events -> Log \cup {None}]
      <3>1. CASE Mark(w, e)
        <4>1. Who(w, e) \in Answers
          BY <1>1, <1>3, <3>1 DEF Mark, Working, InHand, HandOf
        <4> QED
          BY <1>2, <3>1, <4>1 DEF Mark, Log
      <3> QED
        BY <1>2, <1>6, <3>1 DEF Skip, MarkOrphaned, MarkFailed
    <2> QED
      BY <1>1, <1>2, <2>1, <2>2, <2>3, <2>4, AdvanceTyped, StillPunch, StepTyped
  <1> QED
    BY <1>4, <1>5, <1>6

\* A pull that moves on within its batch.
LEMMA PcTyped ==
  ASSUME TypeOK, NEW w \in Pulls, NEW pc \in {"log", "punch", "mark"}, Past(w),
         pull' = [pull EXCEPT ![w].pc = pc]
  PROVE  /\ pull' \in [Pulls -> Pull] /\ pull'[w].pc = pc
         /\ \A v \in Pulls \ {w} : pull'[v] = pull[v]
  <1>1. pull \in [Pulls -> Pull] /\ pull[w] \in InBatch
    BY Batched DEF TypeOK
  <1> DEFINE r == [pull[w] EXCEPT !.pc = pc]
  <1>2. r \in InBatch /\ r.pc = pc
    BY <1>1, BatchFields DEF InBatch
  <1>3. pull' = [pull EXCEPT ![w] = r]
    OBVIOUS
  <1> HIDE DEF r
  <1> QED
    BY <1>1, <1>2, <1>3 DEF Pull

\* The punch of a log.
LEMMA ApplyTyped ==
  ASSUME TypeOK, AttTypeOK', NEW w \in Pulls,
         \/ ApplyRead(w) \/ ApplyAgain(w)
         \/ \E e \in Events : Apply(w, e) \/ Applied(w, e) \/ ApplyConflict(w, e) \/ ApplyFailed(w, e)
  PROVE  TypeOK'
  <1> USE DeviceSyncAssumption
  <1>1. /\ pull \in [Pulls -> Pull] /\ log \in [Events -> Log \cup {None}] /\ AttTypeOK
        /\ running \subseteq Devices /\ exposed \subseteq Events /\ w \in Workers
        /\ applications \in [Events -> Nat] /\ faults \in 0 .. MaxFaults
    BY DEF TypeOK
  <1>2. CASE ApplyRead(w) \/ ApplyAgain(w)
    <2>1. /\ UNCHANGED <<registry, log, pull, running, applications, exposed>>
          /\ pull[w].pc = "punch" /\ faults' \in 0 .. MaxFaults
          /\ PunchRead(w) \/ PunchAgain(w)
      BY <1>1, <1>2, FailTyped DEF ApplyRead, ApplyAgain, syncVars
    <2>2. punch'[w] # None /\ \A v \in Pulls \ {w} : punch'[v] = None <=> punch[v] = None
      BY <1>1, <2>1, OwnPunch, OthersPunch
    <2> QED
      BY <1>1, <2>1, <2>2, StepTyped
  <1>3. ASSUME NEW e \in Events, Apply(w, e) PROVE TypeOK'
    <2>1. /\ Past(w) /\ Who(w, e) \in Employees /\ e.at \in Times
          /\ UNCHANGED <<log, running, registry, applications, exposed, faults>>
      BY <1>3 DEF Apply, Known, Working, Event
    <2>2. PunchBegin(w, Who(w, e), None, e.at) /\ pull' = [pull EXCEPT ![w].pc = "punch"]
      BY <1>3 DEF Apply
    <2>3. punch'[w] # None /\ \A v \in Pulls \ {w} : punch'[v] = None <=> punch[v] = None
      BY <1>1, <2>1, <2>2, OwnPunch, OthersPunch
    <2>4. /\ pull' \in [Pulls -> Pull] /\ pull'[w].pc = "punch"
          /\ \A v \in Pulls \ {w} : pull'[v] = pull[v]
      BY <2>1, <2>2, PcTyped
    <2> QED
      BY <1>1, <2>1, <2>3, <2>4, StepTyped
  <1>4. ASSUME NEW e \in Events, Applied(w, e) PROVE TypeOK'
    <2>1. /\ Past(w) /\ (PunchIn(w) \/ PunchOut(w)) /\ pull' = [pull EXCEPT ![w].pc = "mark"]
          /\ applications' \in [Events -> Nat] /\ UNCHANGED <<log, running, registry, exposed, faults>>
      BY <1>1, <1>4 DEF Applied, Working
    <2>2. punch'[w] = None /\ \A v \in Pulls \ {w} : punch'[v] = None <=> punch[v] = None
      BY <1>1, <2>1, OwnPunch, OthersPunch
    <2>3. /\ pull' \in [Pulls -> Pull] /\ pull'[w].pc = "mark"
          /\ \A v \in Pulls \ {w} : pull'[v] = pull[v]
      BY <2>1, PcTyped
    <2> QED
      BY <1>1, <2>1, <2>2, <2>3, StepTyped
  <1>5. ASSUME NEW e \in Events, ApplyConflict(w, e) \/ ApplyFailed(w, e) PROVE TypeOK'
    <2>1. /\ Past(w) /\ PunchEnd(w) /\ Advance(w, e) /\ faults' \in 0 .. MaxFaults
          /\ UNCHANGED <<log, running, registry, applications, exposed>>
      BY <1>1, <1>5, FailTyped DEF ApplyConflict, ApplyFailed, PunchConflict, PunchAbort, Working
    <2>2. punch'[w] = None /\ \A v \in Pulls \ {w} : punch'[v] = None <=> punch[v] = None
      BY <1>1, <2>1, OwnPunch, OthersPunch
    <2>3. \A v \in Pulls \ {w} : pull'[v] = pull[v]
      BY <2>1 DEF Advance
    <2> QED
      BY <1>1, <2>1, <2>2, <2>3, AdvanceTyped, StepTyped
  <1> QED
    BY <1>2, <1>3, <1>4, <1>5

\* What clients do begins and ends no pull's punch.
LEMMA DeskPunch ==
  ASSUME AttTypeOK, Desk, NEW v \in Pulls
  PROVE  punch'[v] = None <=> punch[v] = None
  <1> USE DeviceSyncAssumption
  <1>1. CASE Tick
    BY <1>1 DEF Tick
  <1>2. ASSUME NEW w \in Clients, ClientStep(w) PROVE punch'[v] = None <=> punch[v] = None
    <2>0. w \in Workers /\ v \in Workers /\ v # w
      BY DEF Clients
    <2>1. ASSUME NEW e \in Employees, NEW type \in {"IN", "OUT", None}, NEW at \in Times,
                 ClientPunch(w, e, type, at)
          PROVE  punch'[v] = None <=> punch[v] = None
      BY <2>0, <2>1, OthersPunch DEF ClientPunch
    <2>2. CASE Punching(w)
      BY <2>0, <2>2, OthersPunch DEF Punching, PunchIdle, PunchConflict, PunchAbort
    <2>3. CASE ByHand(w)
      BY <2>3 DEF ByHand, HandCreate, HandUpdate, HandRemove, ImportRead, ImportWrite, ImportAbort, Touch
    <2> QED
      BY <1>2, <2>1, <2>2, <2>3 DEF ClientStep
  <1> QED
    BY <1>1, <1>2 DEF Desk

\* Every step keeps the types, given those of Attendance.
LEMMA NextTyped ==
  ASSUME AttInv, AttInv', TypeOK, InHand, [Next]_vars
  PROVE  TypeOK'
  <1>1. AttTypeOK /\ AttTypeOK'
    BY DEF AttInv
  <1>2. ASSUME NEW w \in Pulls,
               \/ \E d \in Devices : PollStart(w, d) \/ ManualStart(w, d)
               \/ PullStep(w) \/ PullTrouble(w)
        PROVE  TypeOK'
    BY <1>1, <1>2, EdgesTyped, LogsTyped, ApplyTyped DEF PullStep, PullTrouble
  <1>3. CASE Desk
    BY <1>1, <1>3, DeskPunch DEF Desk, TypeOK, syncVars, registry
  <1>4. CASE Restart
    BY <1>1, <1>4, FailTyped, DeviceSyncAssumption DEF Restart, TypeOK, registry, Pull, Idle
  <1>5. ASSUME NEW u \in Users, Hire(u) PROVE TypeOK'
    BY <1>1, <1>5 DEF Hire, TypeOK, attVars
  <1>6. ASSUME NEW d \in Devices, Register(d) \/ UpdateDevice(d) PROVE TypeOK'
    BY <1>1, <1>6 DEF Register, UpdateDevice, TypeOK, attVars
  <1>7. ASSUME NEW d \in Devices, DeleteDevice(d) PROVE TypeOK'
    BY <1>1, <1>7 DEF DeleteDevice, TypeOK, attVars
  <1>8. CASE UNCHANGED vars
    BY <1>1, <1>8 DEF vars, syncVars, registry, attVars, TypeOK
  <1> QED
    BY <1>2, <1>3, <1>4, <1>5, <1>6, <1>7, <1>8 DEF Next

-----------------------------------------------------------------------------
(* What a pull has in hand                                                 *)

\* What a pull has in hand stays what it says of it.
LEMMA InHandKeeps ==
  ASSUME TypeOK, InHand, [Next]_vars
  PROVE  InHand'
  <1> USE DEF InHand
  <1>0. pull \in [Pulls -> Pull]
    BY DEF TypeOK
  <1>1. ASSUME NEW w \in Pulls, HandOf(pull[w])', \A v \in Pulls \ {w} : pull'[v] = pull[v]
        PROVE  InHand'
    BY <1>1
  <1>2. ASSUME NEW w \in Pulls, NEW d \in Devices, PollStart(w, d) \/ ManualStart(w, d)
        PROVE  InHand'
    BY <1>0, <1>1, <1>2 DEF PollStart, ManualStart, Start, HandOf
  <1>3. ASSUME NEW w \in Pulls, Stop(w) PROVE InHand'
    BY <1>0, <1>1, <1>3 DEF Stop, HandOf, Idle
  <1>4. ASSUME NEW w \in Pulls, PullLogs(w) PROVE InHand'
    <2>1. /\ pull'[w].pc = "snapshot" /\ pull'[w].dev = pull[w].dev
          /\ pull'[w].todo = Held(pull[w].dev)
      BY <1>0, <1>4 DEF PullLogs
    <2> QED
      BY <1>0, <1>1, <1>4, <2>1 DEF PullLogs, HandOf, Held
  <1>5. ASSUME NEW w \in Pulls, Snapshot(w) PROVE InHand'
    <2>1. /\ pull'[w].pc = "log" /\ pull'[w].dev = pull[w].dev
          /\ pull'[w].todo \subseteq pull[w].todo
      BY <1>0, <1>5 DEF Snapshot
    <2> QED
      BY <1>0, <1>1, <1>5, <2>1 DEF Snapshot, HandOf
  <1>6. ASSUME NEW w \in Pulls, NEW e \in Events, Past(w), Advance(w, e) PROVE InHand'
    <2>1. pull[w] \in InBatch
      BY <1>6, Batched
    <2>2. /\ pull'[w].pc = "log" /\ pull'[w].dev = pull[w].dev
          /\ pull'[w].todo \subseteq pull[w].todo
      BY <1>0, <1>6, <2>1 DEF Advance, InBatch
    <2> QED
      BY <1>0, <1>1, <1>6, <2>1, <2>2 DEF Advance, HandOf, InBatch
  <1>7. ASSUME NEW w \in Pulls, NEW e \in Events, Lookup(w, e) \/ Record(w, e) PROVE InHand'
    <2>1. pull[w] \in InBatch /\ pull[w].pc = "log"
      BY <1>7, Batched DEF Lookup, Record, Known, Working
    <2>2. CASE Stop(w)
      BY <1>3, <2>2
    <2>3. CASE ~Stop(w)
      <3>1. /\ pull'[w].pc = "log" /\ pull'[w].dev = pull[w].dev
            /\ pull'[w].todo = pull[w].todo
            /\ \A v \in Pulls \ {w} : pull'[v] = pull[v]
        BY <1>0, <1>7, <2>1, <2>3 DEF Lookup, Record, InBatch
      <3> QED
        BY <1>1, <2>1, <3>1 DEF HandOf
    <2> QED
      BY <2>2, <2>3
  <1>8. ASSUME NEW w \in Pulls, NEW e \in Events, Apply(w, e) PROVE InHand'
    <2>1. pull[w] \in InBatch /\ e \in NextUp(pull[w].todo)
      BY <1>8, Batched DEF Apply, Known, Working
    <2>2. /\ pull'[w].dev = pull[w].dev /\ pull'[w].todo = pull[w].todo
          /\ pull'[w].have = pull[w].have /\ pull'[w].cache = pull[w].cache
          /\ \A v \in Pulls \ {w} : pull'[v] = pull[v]
      BY <1>0, <1>8, <2>1 DEF Apply, InBatch
    <2>3. e \in pull[w].have /\ e.user \in DOMAIN pull[w].cache
      BY <1>8 DEF Apply, Known
    <2>4. \A f \in NextUp(pull[w].todo) : f = e
      BY <2>1, OneNext
    <2>5. \A f \in pull[w].todo : f.dev = pull[w].dev
      BY <2>1 DEF HandOf, InBatch
    <2> QED
      BY <1>1, <2>2, <2>3, <2>4, <2>5 DEF HandOf
  <1>9. ASSUME NEW w \in Pulls, NEW e \in Events, Applied(w, e) PROVE InHand'
    <2>1. pull[w] \in InBatch /\ pull[w].pc = "punch"
      BY <1>9, Batched DEF Applied, Working
    <2>2. /\ pull'[w].dev = pull[w].dev /\ pull'[w].todo = pull[w].todo
          /\ pull'[w].have = pull[w].have /\ pull'[w].cache = pull[w].cache
          /\ \A v \in Pulls \ {w} : pull'[v] = pull[v]
      BY <1>0, <1>9, <2>1 DEF Applied, InBatch
    <2> QED
      BY <1>1, <2>1, <2>2 DEF HandOf
  <1>10. ASSUME UNCHANGED pull PROVE InHand'
    BY <1>10
  <1>11. ASSUME NEW w \in Pulls, PullStep(w) PROVE InHand'
    <2>1. CASE PullOrphaned(w) \/ PullEnd(w)
      BY <1>3, <2>1 DEF PullOrphaned, PullEnd
    <2>2. ASSUME NEW e \in Events, \/ Skip(w, e) \/ Mark(w, e) \/ MarkOrphaned(w, e)
                                   \/ ApplyConflict(w, e)
          PROVE  InHand'
      BY <1>6, <2>2 DEF Skip, Mark, MarkOrphaned, ApplyConflict, Known, Working
    <2>3. CASE ApplyRead(w)
      BY <1>10, <2>3 DEF ApplyRead, syncVars
    <2> QED
      BY <1>4, <1>5, <1>7, <1>8, <1>9, <1>11, <2>1, <2>2, <2>3 DEF PullStep
  <1>12. ASSUME NEW w \in Pulls, PullTrouble(w) PROVE InHand'
    <2>1. CASE PullFailed(w)
      BY <1>3, <2>1 DEF PullFailed
    <2>2. CASE ApplyAgain(w)
      BY <1>10, <2>2 DEF ApplyAgain
    <2>3. ASSUME NEW e \in Events, ApplyFailed(w, e) \/ MarkFailed(w, e) PROVE InHand'
      BY <1>6, <2>3 DEF ApplyFailed, MarkFailed, Working
    <2> QED
      BY <1>12, <2>1, <2>2, <2>3 DEF PullTrouble
  <1>13. CASE Restart
    BY <1>13 DEF Restart, HandOf, Idle
  <1>14. CASE \/ Desk \/ (\E u \in Users : Hire(u)) \/ UNCHANGED vars
              \/ \E d \in Devices : Register(d) \/ UpdateDevice(d) \/ DeleteDevice(d)
    BY <1>10, <1>14 DEF Desk, Hire, Register, UpdateDevice, DeleteDevice, vars, syncVars
  <1> QED
    BY <1>2, <1>11, <1>12, <1>13, <1>14 DEF Next

-----------------------------------------------------------------------------
(* The poller's Set                                                        *)

\* A pull goes on with the terminal it has.
GoesOn(w) ==
  /\ pull[w] # Idle /\ pull'[w] # Idle
  /\ pull'[w].dev = pull[w].dev /\ pull'[w].polled = pull[w].polled
  /\ \A v \in Pulls \ {w} : pull'[v] = pull[v]
  /\ UNCHANGED running

\* A step of a pull goes on with it, ends it, or leaves the pulls alone.
LEMMA StepsGoOn ==
  ASSUME TypeOK, NEW w \in Pulls, PullStep(w) \/ PullTrouble(w)
  PROVE  GoesOn(w) \/ (pull[w] # Idle /\ Stop(w)) \/ UNCHANGED <<pull, running>>
  <1>0. pull \in [Pulls -> Pull]
    BY DEF TypeOK
  <1>1. CASE PullLogs(w) \/ Snapshot(w)
    <2>1. pull[w].pc # "idle" /\ pull'[w].pc # "idle"
      BY <1>0, <1>1 DEF PullLogs, Snapshot
    <2>2. /\ pull'[w].dev = pull[w].dev /\ pull'[w].polled = pull[w].polled
          /\ \A v \in Pulls \ {w} : pull'[v] = pull[v]
          /\ UNCHANGED running
      BY <1>0, <1>1 DEF PullLogs, Snapshot
    <2> QED
      BY <2>1, <2>2 DEF GoesOn, Idle
  <1>2. CASE PullOrphaned(w) \/ PullEnd(w) \/ PullFailed(w)
    BY <1>2 DEF PullOrphaned, PullEnd, PullFailed, Idle
  <1>3. CASE ApplyRead(w) \/ ApplyAgain(w)
    BY <1>3 DEF ApplyRead, ApplyAgain, syncVars
  <1>4. ASSUME NEW e \in Events, Past(w), Advance(w, e), UNCHANGED running PROVE GoesOn(w)
    <2>1. pull[w] \in InBatch
      BY <1>4, Batched
    <2>2. /\ pull'[w].dev = pull[w].dev /\ pull'[w].polled = pull[w].polled
          /\ \A v \in Pulls \ {w} : pull'[v] = pull[v]
      BY <1>0, <1>4, <2>1 DEF Advance, InBatch
    <2>3. pull'[w].pc = "log" /\ pull[w].pc # "idle"
      BY <1>4, <2>1, AdvanceTyped DEF InBatch
    <2> QED
      BY <1>4, <2>2, <2>3 DEF GoesOn, Idle
  <1>5. ASSUME NEW e \in Events, \/ Skip(w, e) \/ Mark(w, e) \/ MarkOrphaned(w, e) \/ MarkFailed(w, e)
                                 \/ ApplyConflict(w, e) \/ ApplyFailed(w, e)
        PROVE  GoesOn(w)
    BY <1>4, <1>5 DEF Skip, Mark, MarkOrphaned, MarkFailed, ApplyConflict, ApplyFailed, Known, Working
  <1>6. ASSUME NEW e \in Events, Lookup(w, e) \/ Apply(w, e) \/ Applied(w, e)
        PROVE  GoesOn(w)
    <2>1. pull[w] \in InBatch
      BY <1>6, Batched DEF Lookup, Apply, Applied, Known, Working
    <2> QED
      BY <1>0, <1>6, <2>1 DEF Lookup, Apply, Applied, InBatch, GoesOn, Idle
  <1>7. ASSUME NEW e \in Events, Record(w, e) PROVE GoesOn(w) \/ (pull[w] # Idle /\ Stop(w))
    <2>1. pull[w] \in InBatch /\ pull[w] # Idle
      BY <1>7, Batched DEF Record, Known, Working, Idle, InBatch
    <2>2. CASE ~Stop(w)
      <3>1. pull' = [pull EXCEPT ![w].have = @ \cup {e}] /\ UNCHANGED running
        BY <1>7, <2>2 DEF Record
      <3> QED
        BY <1>0, <2>1, <3>1 DEF InBatch, GoesOn, Idle
    <2> QED
      BY <2>1, <2>2
  <1> QED
    BY <1>1, <1>2, <1>3, <1>5, <1>6, <1>7 DEF PullStep, PullTrouble

Polls == {w \in Pulls : pull[w] # Idle /\ pull[w].polled}

\* Every step keeps one poll of a terminal at most.
LEMMA OnePollKeeps ==
  ASSUME TypeOK, OnePollPerDevice, [Next]_vars
  PROVE  OnePollPerDevice'
  <1>0. pull \in [Pulls -> Pull]
    BY DEF TypeOK
  <1>1. /\ \A v, w \in Polls : pull[v].dev = pull[w].dev => v = w
        /\ running = {pull[w].dev : w \in Polls}
    BY DEF OnePollPerDevice, Polls
  <1>2. SUFFICES /\ \A v, w \in Polls' : pull'[v].dev = pull'[w].dev => v = w
                 /\ running' = {pull'[w].dev : w \in Polls'}
    BY DEF OnePollPerDevice, Polls
  <1>3. CASE UNCHANGED <<pull, running>>
    BY <1>1, <1>3 DEF Polls
  <1>4. ASSUME NEW w \in Pulls, GoesOn(w)
        PROVE  /\ \A u, v \in Polls' : pull'[u].dev = pull'[v].dev => u = v
               /\ running' = {pull'[v].dev : v \in Polls'}
    <2>1. Polls' = Polls /\ \A v \in Polls : pull'[v].dev = pull[v].dev
      BY <1>4 DEF GoesOn, Polls
    <2> QED
      BY <1>1, <1>4, <2>1 DEF GoesOn
  <1>5. ASSUME NEW w \in Pulls, pull[w] # Idle, Stop(w)
        PROVE  /\ \A u, v \in Polls' : pull'[u].dev = pull'[v].dev => u = v
               /\ running' = {pull'[v].dev : v \in Polls'}
    <2>1. Polls' = Polls \ {w} /\ \A v \in Polls' : pull'[v].dev = pull[v].dev
      BY <1>0, <1>5 DEF Stop, Polls
    <2>2. CASE pull[w].polled
      <3>1. w \in Polls /\ running' = running \ {pull[w].dev}
        BY <1>5, <2>2 DEF Stop, Released, Polls
      <3> QED
        BY <1>1, <2>1, <3>1
    <2>3. CASE ~pull[w].polled
      <3>1. w \notin Polls /\ running' = running
        BY <1>5, <2>3 DEF Stop, Released, Polls
      <3> QED
        BY <1>1, <2>1, <3>1
    <2> QED
      BY <2>2, <2>3
  <1>6. ASSUME NEW w \in Pulls, NEW d \in Devices, PollStart(w, d)
        PROVE  /\ \A u, v \in Polls' : pull'[u].dev = pull'[v].dev => u = v
               /\ running' = {pull'[v].dev : v \in Polls'}
    <2>1. /\ pull'[w] # Idle /\ pull'[w].polled /\ pull'[w].dev = d /\ pull[w] = Idle
          /\ \A v \in Pulls \ {w} : pull'[v] = pull[v]
      <3>1. pull'[w].pc = "pull"
        BY <1>0, <1>6 DEF PollStart, Start
      <3> QED
        BY <1>0, <1>6, <3>1 DEF PollStart, Start, Idle
    <2>2. Polls' = Polls \cup {w} /\ w \notin Polls /\ \A v \in Polls : pull'[v].dev = pull[v].dev
      BY <2>1 DEF Polls
    <2>3. d \notin running /\ running' = running \cup {d}
      BY <1>6 DEF PollStart
    <2> QED
      BY <1>1, <2>1, <2>2, <2>3
  <1>7. ASSUME NEW w \in Pulls, NEW d \in Devices, ManualStart(w, d)
        PROVE  /\ \A u, v \in Polls' : pull'[u].dev = pull'[v].dev => u = v
               /\ running' = {pull'[v].dev : v \in Polls'}
    <2>1. /\ ~pull'[w].polled /\ pull[w] = Idle /\ UNCHANGED running
          /\ \A v \in Pulls \ {w} : pull'[v] = pull[v]
      BY <1>0, <1>7 DEF ManualStart, Start
    <2>2. Polls' = Polls /\ \A v \in Polls : pull'[v].dev = pull[v].dev
      BY <2>1 DEF Polls
    <2> QED
      BY <1>1, <2>1, <2>2
  <1>8. CASE Restart
    <2>1. Polls' = {} /\ running' = {}
      BY <1>8 DEF Restart, Polls
    <2> QED
      BY <2>1
  <1>9. \/ UNCHANGED <<pull, running>> \/ Restart
        \/ \E w \in Pulls : \/ PullStep(w) \/ PullTrouble(w)
                            \/ \E d \in Devices : PollStart(w, d) \/ ManualStart(w, d)
    BY DEF Next, Desk, Hire, Register, UpdateDevice, DeleteDevice, vars, syncVars
  <1> QED
    BY <1>3, <1>4, <1>5, <1>6, <1>7, <1>8, <1>9, StepsGoOn

-----------------------------------------------------------------------------
(* Who has an event in hand                                                *)

Owns(w, e) == Past(w) /\ e \in pull[w].todo /\ e \in pull[w].have
Marking(w, e) == pull[w].pc = "mark" /\ Working(w, e)
IsApplied(e) == log[e] # None /\ log[e].applied
Removed(e) == terminal[e.dev] = "gone"

\* Of an event out of the two windows: one pull at most has it, recorded and not applied; and
\* it was punched only if it is marked, about to be, or gone with its terminal and in no hand.
Custody(e) ==
  /\ \A v, w \in Pulls : Owns(v, e) /\ Owns(w, e) => v = w
  /\ (\E w \in Pulls : Owns(w, e)) => ~IsApplied(e) /\ (log[e] = None => Removed(e))
  /\ Removed(e) => log[e] = None
  /\ applications[e] # 0 => \/ IsApplied(e)
                            \/ \E w \in Pulls : Marking(w, e)
                            \/ Removed(e) /\ \A w \in Pulls : ~Owns(w, e)
  /\ applications[e] <= 1

\* What is marked, or about to be, was punched.
PunchedFirst(e) ==
  /\ IsApplied(e) => applications[e] >= 1
  /\ \A w \in Pulls : Marking(w, e) => applications[e] >= 1

\* A step that puts an event into no hand and neither punches nor marks it.
Quiet(e) ==
  /\ log'[e] = log[e] /\ applications'[e] = applications[e]
  /\ Removed(e)' <=> Removed(e)
  /\ \A v \in Pulls : (Owns(v, e)' => Owns(v, e)) /\ (Marking(v, e)' <=> Marking(v, e))

\* What does not touch an event keeps what is known of it.
LEMMA QuietKeeps ==
  ASSUME NEW e \in Events, Quiet(e)
  PROVE  (Custody(e) => Custody(e)') /\ (PunchedFirst(e) => PunchedFirst(e)')
  <1>1. IsApplied(e)' <=> IsApplied(e)
    BY DEF Quiet, IsApplied
  <1>2. Custody(e) => Custody(e)'
    BY <1>1 DEF Quiet, Custody
  <1>3. PunchedFirst(e) => PunchedFirst(e)'
    BY <1>1 DEF Quiet, PunchedFirst
  <1> QED
    BY <1>2, <1>3

\* A pull that marks an event has it, and has no other in hand.
LEMMA MarkingOwns ==
  ASSUME TypeOK, InHand, NEW w \in Pulls, NEW e \in Events, Working(w, e),
         pull[w].pc \in {"punch", "mark"}
  PROVE  /\ Owns(w, e)
         /\ \A f \in Events : Working(w, f) => f = e
  <1>1. pull[w] \in InBatch /\ HandOf(pull[w]) /\ e \in NextUp(pull[w].todo)
    BY Batched DEF InHand, Working
  <1>2. e \in pull[w].todo /\ e \in pull[w].have
    BY <1>1 DEF HandOf, NextUp
  <1> QED
    BY <1>1, <1>2, OneNext DEF Owns, Working

\* What the other pulls have does not change with this one's record.
LEMMA OthersHand ==
  ASSUME NEW w \in Pulls, NEW e \in Events, \A v \in Pulls \ {w} : pull'[v] = pull[v],
         NEW v \in Pulls, v # w
  PROVE  (Owns(v, e)' <=> Owns(v, e)) /\ (Marking(v, e)' <=> Marking(v, e))
  BY DEF Owns, Marking, Working, Past

\* A step of one pull is quiet if it is so for that pull.
LEMMA QuietHere ==
  ASSUME NEW w \in Pulls, NEW e \in Events, \A v \in Pulls \ {w} : pull'[v] = pull[v],
         log'[e] = log[e], applications'[e] = applications[e], UNCHANGED registry,
         Owns(w, e)' => Owns(w, e), Marking(w, e)' <=> Marking(w, e)
  PROVE  Quiet(e)
  BY OthersHand DEF Quiet, Removed, registry

\* Going on to the next log lets go of this one.
LEMMA AdvanceHand ==
  ASSUME TypeOK, NEW w \in Pulls, NEW e \in Events, NEW f \in Events, Past(w), Advance(w, e)
  PROVE  /\ \A v \in Pulls \ {w} : pull'[v] = pull[v]
         /\ Owns(w, f)' => Owns(w, f) /\ f # e
         /\ ~Marking(w, f)'
  <1>1. pull[w] \in InBatch /\ pull \in [Pulls -> Pull]
    BY Batched DEF TypeOK
  <1>2. /\ pull'[w].todo = pull[w].todo \ {e} /\ pull'[w].have = pull[w].have
        /\ \A v \in Pulls \ {w} : pull'[v] = pull[v]
    BY <1>1 DEF Advance, InBatch
  <1>3. pull'[w].pc = "log"
    BY AdvanceTyped
  <1> QED
    BY <1>2, <1>3 DEF Owns, Marking

\* A pull that is not in a batch, before or after, has nothing in hand.
LEMMA OutOfBatch ==
  ASSUME NEW w \in Pulls, NEW f \in Events
  PROVE  /\ pull[w].pc \in {"idle", "pull", "snapshot"} => ~Owns(w, f) /\ ~Marking(w, f)
         /\ pull'[w].pc \in {"idle", "pull", "snapshot"} => ~Owns(w, f)' /\ ~Marking(w, f)'
  BY DEF Owns, Marking, Past

\* Steps that are quiet for every event.
LEMMA EdgesQuiet ==
  ASSUME TypeOK, NEW w \in Pulls, NEW f \in Events,
         \/ \E d \in Devices : PollStart(w, d) \/ ManualStart(w, d)
         \/ PullLogs(w) \/ PullOrphaned(w) \/ PullEnd(w) \/ PullFailed(w)
  PROVE  Quiet(f)
  <1>0. pull \in [Pulls -> Pull]
    BY DEF TypeOK
  <1>1. UNCHANGED <<log, applications, registry>>
    BY DEF PollStart, ManualStart, Start, PullLogs, PullOrphaned, PullEnd, PullFailed
  <1>2. CASE \E d \in Devices : PollStart(w, d) \/ ManualStart(w, d)
    <2>1. /\ pull[w].pc = "idle" /\ pull'[w].pc = "pull"
          /\ \A v \in Pulls \ {w} : pull'[v] = pull[v]
      BY <1>0, <1>2 DEF PollStart, ManualStart, Start, Idle
    <2> QED
      BY <1>1, <2>1, OutOfBatch, QuietHere
  <1>3. CASE PullLogs(w)
    <2>1. /\ pull[w].pc = "pull" /\ pull'[w].pc = "snapshot"
          /\ \A v \in Pulls \ {w} : pull'[v] = pull[v]
      BY <1>0, <1>3 DEF PullLogs
    <2> QED
      BY <1>1, <2>1, OutOfBatch, QuietHere
  <1>4. CASE PullOrphaned(w) \/ PullEnd(w) \/ PullFailed(w)
    <2>1. /\ pull[w].pc \in {"pull", "snapshot", "log"} /\ pull'[w].pc = "idle"
          /\ \A v \in Pulls \ {w} : pull'[v] = pull[v]
      BY <1>0, <1>4 DEF PullOrphaned, PullEnd, PullFailed, Stop, Idle
    <2>2. ~Marking(w, f)
      BY <2>1 DEF Marking
    <2> QED
      BY <1>1, <2>1, <2>2, OutOfBatch, QuietHere
  <1> QED
    BY <1>2, <1>3, <1>4

\* The steps of a pull that touch no event.
LEMMA LogsQuiet ==
  ASSUME TypeOK, NEW w \in Pulls, NEW e \in Events, NEW f \in Events,
         \/ Lookup(w, e) \/ Skip(w, e) \/ ApplyConflict(w, e) \/ ApplyFailed(w, e)
         \/ Apply(w, e) \/ ApplyRead(w) \/ ApplyAgain(w)
         \/ Record(w, e) /\ Stop(w) /\ UNCHANGED log
  PROVE  Quiet(f)
  <1>0. pull \in [Pulls -> Pull]
    BY DEF TypeOK
  <1>1. UNCHANGED <<log, applications, registry>>
    BY DEF Lookup, Skip, ApplyConflict, ApplyFailed, Apply, ApplyRead, ApplyAgain, Record, syncVars
  <1>2. CASE Skip(w, e) \/ ApplyConflict(w, e) \/ ApplyFailed(w, e)
    <2>1. Past(w) /\ Advance(w, e) /\ pull[w].pc # "mark"
      BY <1>2 DEF Skip, ApplyConflict, ApplyFailed, Known, Working
    <2> QED
      BY <1>1, <2>1, AdvanceHand, QuietHere DEF Marking
  <1>3. CASE Lookup(w, e) \/ Apply(w, e)
    <2>1. pull[w] \in InBatch /\ pull[w].pc = "log" /\ Past(w)
      BY <1>3, Batched DEF Lookup, Apply, Known, Working
    <2>2. /\ pull'[w].todo = pull[w].todo /\ pull'[w].have = pull[w].have
          /\ pull'[w].pc \in {"log", "punch"} /\ \A v \in Pulls \ {w} : pull'[v] = pull[v]
      BY <1>0, <1>3, <2>1 DEF Lookup, Apply, InBatch
    <2>3. (Owns(w, f)' => Owns(w, f)) /\ ~Marking(w, f) /\ ~Marking(w, f)'
      BY <2>1, <2>2 DEF Owns, Marking
    <2> QED
      BY <1>1, <2>2, <2>3, QuietHere
  <1>4. CASE ApplyRead(w) \/ ApplyAgain(w)
    <2>1. UNCHANGED pull
      BY <1>4 DEF ApplyRead, ApplyAgain, syncVars
    <2> QED
      BY <1>1, <2>1, QuietHere DEF Owns, Marking, Working, Past
  <1>5. CASE Record(w, e) /\ Stop(w) /\ UNCHANGED log
    <2>1. pull[w].pc = "log" /\ pull'[w].pc = "idle" /\ \A v \in Pulls \ {w} : pull'[v] = pull[v]
      BY <1>0, <1>5 DEF Record, Known, Stop, Idle
    <2> QED
      BY <1>1, <2>1, OutOfBatch, QuietHere DEF Marking
  <1> QED
    BY <1>2, <1>3, <1>4, <1>5

\* Steps about one event are quiet for the others.
LEMMA OthersQuiet ==
  ASSUME TypeOK, InHand, NEW w \in Pulls, NEW e \in Events, NEW f \in Events, f # e,
         Record(w, e) \/ Applied(w, e) \/ Mark(w, e) \/ MarkOrphaned(w, e) \/ MarkFailed(w, e)
  PROVE  Quiet(f)
  <1>0. /\ pull \in [Pulls -> Pull] /\ log \in [Events -> Log \cup {None}]
        /\ applications \in [Events -> Nat]
    BY DEF TypeOK
  <1>1. /\ log'[f] = log[f] /\ applications'[f] = applications[f] /\ UNCHANGED registry
        /\ Past(w) /\ pull[w] \in InBatch /\ Working(w, e)
    BY <1>0, Batched DEF Record, Applied, Mark, MarkOrphaned, MarkFailed, Known, Working
  <1>2. CASE Record(w, e) /\ ~(Stop(w) /\ UNCHANGED log)
    <2>1. pull[w].pc = "log" /\ pull' = [pull EXCEPT ![w].have = @ \cup {e}]
      BY <1>2 DEF Record, Known
    <2>2. /\ pull'[w].pc = "log" /\ pull'[w].todo = pull[w].todo
          /\ pull'[w].have = pull[w].have \cup {e} /\ \A v \in Pulls \ {w} : pull'[v] = pull[v]
      BY <1>0, <1>1, <2>1 DEF InBatch
    <2>3. (Owns(w, f)' => Owns(w, f)) /\ ~Marking(w, f) /\ ~Marking(w, f)'
      BY <1>1, <2>1, <2>2 DEF Owns, Marking
    <2> QED
      BY <1>1, <2>2, <2>3, QuietHere
  <1>3. CASE Applied(w, e)
    <2>1. pull[w].pc = "punch" /\ pull' = [pull EXCEPT ![w].pc = "mark"]
      BY <1>3 DEF Applied
    <2>2. /\ pull'[w].pc = "mark" /\ pull'[w].todo = pull[w].todo
          /\ pull'[w].have = pull[w].have /\ \A v \in Pulls \ {w} : pull'[v] = pull[v]
      BY <1>0, <1>1, <2>1 DEF InBatch
    <2>3. ~Working(w, f)
      BY <1>1, <2>1, MarkingOwns
    <2>4. (Owns(w, f)' => Owns(w, f)) /\ ~Marking(w, f) /\ ~Marking(w, f)'
      BY <1>1, <2>1, <2>2, <2>3 DEF Owns, Marking, Working
    <2> QED
      BY <1>1, <2>2, <2>4, QuietHere
  <1>4. CASE Mark(w, e) \/ MarkOrphaned(w, e) \/ MarkFailed(w, e)
    <2>1. pull[w].pc = "mark" /\ Advance(w, e)
      BY <1>4 DEF Mark, MarkOrphaned, MarkFailed
    <2>2. ~Marking(w, f)
      BY <1>1, <2>1, MarkingOwns DEF Marking
    <2> QED
      BY <1>1, <2>1, <2>2, AdvanceHand, QuietHere
  <1> QED
    BY <1>2, <1>3, <1>4, LogsQuiet

\* A snapshot takes an event that was recorded and is not applied; in other hands as well
\* only if it is then exposed.
LEMMA SnapshotHand ==
  ASSUME TypeOK, NEW w \in Pulls, NEW e \in Events, Snapshot(w)
  PROVE  /\ ~Owns(w, e) /\ ~Marking(w, e) /\ ~Marking(w, e)'
         /\ \A v \in Pulls \ {w} : pull'[v] = pull[v]
         /\ Owns(w, e)' => /\ log[e] # None /\ ~log[e].applied
                           /\ e \notin exposed' => \A v \in Pulls : ~Owns(v, e)
  <1> DEFINE have == {f \in pull[w].todo : log[f] # None}
             todo == {f \in pull[w].todo : f \in have => Pending(log[f])}
  <1>0. pull \in [Pulls -> Pull]
    BY DEF TypeOK
  <1>1. /\ pull[w].pc = "snapshot" /\ pull'[w].pc = "log"
        /\ pull'[w].todo = todo /\ pull'[w].have = have
        /\ \A v \in Pulls \ {w} : pull'[v] = pull[v]
    BY <1>0 DEF Snapshot
  <1>2. ~Owns(w, e) /\ ~Marking(w, e) /\ ~Marking(w, e)'
    BY <1>1, OutOfBatch DEF Marking
  <1>3. ASSUME Owns(w, e)'
        PROVE  /\ log[e] # None /\ ~log[e].applied
               /\ e \notin exposed' => \A v \in Pulls : ~Owns(v, e)
    <2>1. e \in have /\ e \in todo
      BY <1>1, <1>3 DEF Owns
    <2>2. log[e] # None /\ ~log[e].applied
      BY <2>1 DEF Pending
    <2>3. exposed' = exposed \cup {f \in have \cap todo : \E v \in Pulls \ {w} : Past(v) /\ f \in pull[v].todo}
      BY DEF Snapshot
    <2> HIDE DEF have, todo
    <2>4. e \notin exposed' => \A v \in Pulls \ {w} : ~Owns(v, e)
      BY <2>1, <2>3 DEF Owns
    <2> QED
      BY <1>2, <2>2, <2>4
  <1> QED
    BY <1>1, <1>2, <1>3

\* A snapshot takes an event in hand only where nobody else has it, or exposes it.
LEMMA SnapshotKeeps ==
  ASSUME TypeOK, NEW w \in Pulls, NEW e \in Events, Snapshot(w)
  PROVE  /\ e \notin exposed' /\ Custody(e) => Custody(e)'
         /\ PunchedFirst(e) => PunchedFirst(e)'
  <1>1. UNCHANGED <<log, applications, registry>>
    BY DEF Snapshot
  <1>2. CASE ~Owns(w, e)'
    <2>1. Quiet(e)
      BY <1>1, <1>2, SnapshotHand, QuietHere
    <2> QED
      BY <2>1, QuietKeeps
  <1>3. CASE Owns(w, e)'
    <2>1. \A v \in Pulls : Marking(v, e)' <=> Marking(v, e)
      BY OthersHand, SnapshotHand
    <2>2. PunchedFirst(e) => PunchedFirst(e)'
      BY <1>1, <2>1 DEF PunchedFirst, IsApplied
    <2>3. ASSUME e \notin exposed', Custody(e) PROVE Custody(e)'
      <3>1. log[e] # None /\ ~log[e].applied /\ \A v \in Pulls : ~Owns(v, e)
        BY <1>3, <2>3, SnapshotHand
      <3>2. \A v \in Pulls : Owns(v, e)' => v = w
        BY <3>1, OthersHand, SnapshotHand
      <3>3. ~IsApplied(e)' /\ ~Removed(e)' /\ ~Removed(e) /\ log'[e] # None
        BY <1>1, <2>3, <3>1 DEF Custody, IsApplied, Removed, registry
      <3>4. ~IsApplied(e)
        BY <3>1 DEF IsApplied
      <3> QED
        BY <1>1, <2>1, <2>3, <3>2, <3>3, <3>4 DEF Custody
    <2> QED
      BY <2>2, <2>3
  <1> QED
    BY <1>2, <1>3

\* A row written for an event is the first one, and this pull's.
LEMMA RecordKeeps ==
  ASSUME TypeOK, NEW w \in Pulls, NEW e \in Events, Record(w, e)
  PROVE  (Custody(e) => Custody(e)') /\ (PunchedFirst(e) => PunchedFirst(e)')
  <1>0. pull \in [Pulls -> Pull] /\ log \in [Events -> Log \cup {None}]
    BY DEF TypeOK
  <1>1. CASE Stop(w) /\ UNCHANGED log
    BY <1>1, LogsQuiet, QuietKeeps
  <1>2. CASE /\ log[e] = None /\ terminal[e.dev] # "gone"
             /\ log' = [log EXCEPT ![e] = [emp |-> Who(w, e), applied |-> FALSE]]
             /\ pull' = [pull EXCEPT ![w].have = @ \cup {e}]
    <2>1. pull[w] \in InBatch /\ pull[w].pc = "log" /\ UNCHANGED <<applications, registry>>
      BY Batched DEF Record, Known, Working
    <2>2. pull'[w].pc = "log" /\ \A v \in Pulls \ {w} : pull'[v] = pull[v]
      BY <1>0, <1>2, <2>1 DEF InBatch
    <2>3. \A v \in Pulls : Marking(v, e)' <=> Marking(v, e)
      <3>1. ~Marking(w, e) /\ ~Marking(w, e)'
        BY <2>1, <2>2 DEF Marking
      <3> QED
        BY <2>2, <3>1, OthersHand
    <2>4. ~IsApplied(e)' /\ ~IsApplied(e) /\ ~Removed(e) /\ ~Removed(e)'
      BY <1>0, <1>2, <2>1 DEF IsApplied, Removed, registry
    <2>5. PunchedFirst(e) => PunchedFirst(e)'
      BY <2>1, <2>3, <2>4 DEF PunchedFirst
    <2>6. ASSUME Custody(e) PROVE Custody(e)'
      <3>1. \A v \in Pulls : ~Owns(v, e)
        BY <1>2, <2>4, <2>6 DEF Custody
      <3>2. \A v \in Pulls : Owns(v, e)' => v = w
        BY <2>2, <3>1, OthersHand
      <3>3. [emp |-> Who(w, e), applied |-> FALSE] # None
        <4>1. Who(w, e) \in Answers
          BY <2>1, WhoTyped DEF Record, Known
        <4>2. [emp |-> Who(w, e), applied |-> FALSE] \in Log
          BY <4>1 DEF Log
        <4> QED
          BY <4>2, DeviceSyncAssumption
      <3>4. log'[e] # None
        BY <1>0, <1>2, <3>3
      <3> QED
        BY <2>1, <2>3, <2>4, <2>6, <3>2, <3>4 DEF Custody
    <2> QED
      BY <2>5, <2>6
  <1> QED
    BY <1>1, <1>2 DEF Record

\* Only the pull that has an event punches it, and only once.
LEMMA AppliedKeeps ==
  ASSUME TypeOK, InHand, NEW w \in Pulls, NEW e \in Events, Applied(w, e)
  PROVE  (Custody(e) => Custody(e)') /\ (PunchedFirst(e) => PunchedFirst(e)')
  <1>0. pull \in [Pulls -> Pull] /\ applications \in [Events -> Nat]
    BY DEF TypeOK
  <1>1. /\ pull[w] \in InBatch /\ pull[w].pc = "punch" /\ Working(w, e)
        /\ applications' = [applications EXCEPT ![e] = @ + 1]
        /\ UNCHANGED <<log, registry>> /\ pull' = [pull EXCEPT ![w].pc = "mark"]
    BY Batched DEF Applied, Working
  <1>2. /\ pull'[w].pc = "mark" /\ pull'[w].todo = pull[w].todo
        /\ pull'[w].have = pull[w].have /\ \A v \in Pulls \ {w} : pull'[v] = pull[v]
    BY <1>0, <1>1 DEF InBatch
  <1>3. Owns(w, e) /\ Owns(w, e)' /\ Marking(w, e)'
    BY <1>1, <1>2, MarkingOwns DEF Owns, Marking, Working, Past
  <1>4. /\ applications'[e] = applications[e] + 1 /\ log'[e] = log[e]
        /\ IsApplied(e)' <=> IsApplied(e)
        /\ Removed(e)' <=> Removed(e)
    BY <1>0, <1>1 DEF IsApplied, Removed, registry
  <1>5. PunchedFirst(e)'
    BY <1>0, <1>4 DEF PunchedFirst
  <1>6. ASSUME Custody(e) PROVE Custody(e)'
    <2>1. \A v \in Pulls : Owns(v, e)' => Owns(v, e)
      BY <1>2, <1>3, OthersHand
    <2>2. \A v \in Pulls : ~Marking(v, e)
      <3>1. \A v \in Pulls : Marking(v, e) => Owns(v, e)
        BY MarkingOwns DEF Marking
      <3>2. ~Marking(w, e)
        BY <1>1 DEF Marking
      <3> QED
        BY <1>3, <1>6, <3>1, <3>2 DEF Custody
    <2>3. applications[e] = 0
      BY <1>3, <1>6, <2>2 DEF Custody
    <2> QED
      BY <1>3, <1>4, <1>6, <2>1, <2>3 DEF Custody
  <1> QED
    BY <1>5, <1>6

\* The mark, or its failure on a row that is gone, lets go of what was punched.
LEMMA MarkKeeps ==
  ASSUME TypeOK, InHand, NEW w \in Pulls, NEW e \in Events,
         Mark(w, e) \/ MarkOrphaned(w, e) \/ MarkFailed(w, e)
  PROVE  /\ e \notin exposed' /\ Custody(e) => Custody(e)'
         /\ PunchedFirst(e) => PunchedFirst(e)'
  <1>0. log \in [Events -> Log \cup {None}] /\ applications \in [Events -> Nat]
    BY DEF TypeOK
  <1>1. /\ Past(w) /\ Working(w, e) /\ pull[w].pc = "mark" /\ Advance(w, e)
        /\ UNCHANGED <<applications, registry>>
    BY DEF Mark, MarkOrphaned, MarkFailed, Working
  <1>2. Owns(w, e) /\ Marking(w, e)
    BY <1>1, MarkingOwns DEF Marking
  <1>3. /\ \A v \in Pulls : Owns(v, e)' => Owns(v, e) /\ v # w
        /\ \A v \in Pulls : Marking(v, e)' => Marking(v, e)
    BY <1>1, AdvanceHand, OthersHand
  <1>4. PunchedFirst(e) => applications'[e] >= 1
    BY <1>1, <1>2 DEF PunchedFirst
  <1>5. PunchedFirst(e) => PunchedFirst(e)'
    BY <1>4 DEF PunchedFirst
  <1>6. ASSUME e \notin exposed', Custody(e) PROVE Custody(e)'
    <2>1. \A v \in Pulls : ~Owns(v, e)'
      BY <1>2, <1>3, <1>6 DEF Custody
    <2>2. Removed(e)' <=> Removed(e)
      BY <1>1 DEF Removed, registry
    <2>3. CASE Mark(w, e)
      <3>1. log'[e] = [emp |-> Who(w, e), applied |-> TRUE] /\ log[e] # None
        BY <1>0, <2>3 DEF Mark
      <3>2. [emp |-> Who(w, e), applied |-> TRUE] # None
        <4>1. Who(w, e) \in Answers
          <5>1. pull[w] \in InBatch /\ e \in NextUp(pull[w].todo) /\ HandOf(pull[w])
            BY <1>1, Batched DEF Working, InHand
          <5> QED
            BY <1>1, <5>1, WhoTyped DEF HandOf
        <4>2. [emp |-> Who(w, e), applied |-> TRUE] \in Log
          BY <4>1 DEF Log
        <4> QED
          BY <4>2, DeviceSyncAssumption
      <3>3. IsApplied(e)' /\ log'[e] # None /\ ~Removed(e)'
        BY <1>6, <2>2, <3>1, <3>2 DEF IsApplied, Custody
      <3> QED
        BY <1>1, <1>6, <2>1, <3>3 DEF Custody
    <2>4. CASE MarkOrphaned(w, e)
      <3>1. log[e] = None /\ log' = log
        BY <2>4 DEF MarkOrphaned
      <3>2. Removed(e)' /\ ~IsApplied(e)' /\ log'[e] = None
        BY <1>2, <1>6, <2>2, <3>1 DEF Custody, IsApplied
      <3> QED
        BY <1>1, <1>6, <2>1, <3>2 DEF Custody
    <2>5. CASE MarkFailed(w, e)
      BY <1>6, <2>5 DEF MarkFailed
    <2> QED
      BY <2>3, <2>4, <2>5, <1>6
  <1> QED
    BY <1>5, <1>6

\* Deleting a terminal takes what was applied out of the log, and nothing in hand.
LEMMA DeleteKeeps ==
  ASSUME TypeOK, NEW d \in Devices, DeleteDevice(d), NEW e \in Events
  PROVE  (Custody(e) => Custody(e)') /\ (PunchedFirst(e) => PunchedFirst(e)')
  <1>0. terminal \in [Devices -> {"new", "active", "inactive", "gone"}] /\ e.dev \in Devices
    BY DeviceSyncAssumption DEF TypeOK, Event
  <1>1. /\ UNCHANGED <<pull, applications>> /\ terminal' = [terminal EXCEPT ![d] = "gone"]
        /\ log' = [f \in Events |-> IF f.dev = d THEN None ELSE log[f]]
        /\ terminal[d] # "gone"
    BY DEF DeleteDevice
  <1>2. \A v \in Pulls : (Owns(v, e)' <=> Owns(v, e)) /\ (Marking(v, e)' <=> Marking(v, e))
    BY <1>1 DEF Owns, Marking, Working, Past
  <1>3. CASE e.dev # d
    <2>1. Quiet(e)
      BY <1>0, <1>1, <1>2, <1>3 DEF Quiet, Removed
    <2> QED
      BY <2>1, QuietKeeps
  <1>4. CASE e.dev = d
    <2>1. log'[e] = None /\ ~IsApplied(e)' /\ Removed(e)' /\ ~Removed(e)
      BY <1>0, <1>1, <1>4 DEF IsApplied, Removed
    <2>2. PunchedFirst(e) => PunchedFirst(e)'
      BY <1>1, <1>2, <2>1 DEF PunchedFirst
    <2>3. Custody(e) => Custody(e)'
      BY <1>1, <1>2, <2>1 DEF Custody
    <2> QED
      BY <2>2, <2>3
  <1> QED
    BY <1>3, <1>4

\* A restart empties every hand; what was about to be marked is exposed.
LEMMA RestartKeeps ==
  ASSUME TypeOK, Restart, NEW e \in Events
  PROVE  /\ e \notin exposed' /\ Custody(e) => Custody(e)'
         /\ PunchedFirst(e) => PunchedFirst(e)'
  <1>1. /\ UNCHANGED <<registry, log, applications>> /\ pull' = [w \in Pulls |-> Idle]
        /\ exposed' = exposed \cup {f \in Events : \E w \in Pulls : pull[w].pc = "mark" /\ Working(w, f)}
    BY DEF Restart
  <1>2. \A w \in Pulls : ~Owns(w, e)' /\ ~Marking(w, e)'
    BY <1>1, OutOfBatch DEF Idle
  <1>3. (IsApplied(e)' <=> IsApplied(e)) /\ (Removed(e)' <=> Removed(e))
    BY <1>1 DEF IsApplied, Removed, registry
  <1>4. PunchedFirst(e) => PunchedFirst(e)'
    BY <1>1, <1>2, <1>3 DEF PunchedFirst
  <1>5. ASSUME e \notin exposed', Custody(e) PROVE Custody(e)'
    <2>1. \A w \in Pulls : ~Marking(w, e)
      BY <1>1, <1>5 DEF Marking
    <2> QED
      BY <1>1, <1>2, <1>3, <1>5, <2>1 DEF Custody
  <1> QED
    BY <1>4, <1>5

\* Every step keeps who has an unexposed event in hand, and that it was punched first.
LEMMA CustodyKeeps ==
  ASSUME TypeOK, InHand, [Next]_vars, NEW e \in Events
  PROVE  /\ e \notin exposed' /\ Custody(e) => Custody(e)'
         /\ PunchedFirst(e) => PunchedFirst(e)'
  <1> DEFINE Keeps == /\ e \notin exposed' /\ Custody(e) => Custody(e)'
                      /\ PunchedFirst(e) => PunchedFirst(e)'
  <1>0. SUFFICES Keeps
    OBVIOUS
  <1>1. ASSUME Quiet(e) PROVE Keeps
    BY <1>1, QuietKeeps
  <1>2. ASSUME NEW w \in Pulls, NEW d \in Devices, PollStart(w, d) \/ ManualStart(w, d)
        PROVE  Keeps
    <2>1. Quiet(e)
      BY <1>2, EdgesQuiet
    <2> QED
      BY <1>1, <2>1
  <1>3. ASSUME NEW w \in Pulls, NEW f \in Events,
               \/ Record(w, f) \/ Applied(w, f) \/ Mark(w, f) \/ MarkOrphaned(w, f)
               \/ MarkFailed(w, f)
        PROVE  Keeps
    <2>1. CASE f # e
      <3>1. Quiet(e)
        BY <1>3, <2>1, OthersQuiet
      <3> QED
        BY <1>1, <3>1
    <2>2. CASE f = e
      BY <1>3, <2>2, RecordKeeps, AppliedKeeps, MarkKeeps
    <2> QED
      BY <2>1, <2>2
  <1>4. ASSUME NEW w \in Pulls, NEW f \in Events,
               \/ Lookup(w, f) \/ Skip(w, f) \/ ApplyConflict(w, f) \/ ApplyFailed(w, f)
               \/ Apply(w, f)
        PROVE  Keeps
    <2>1. Quiet(e)
      BY <1>4, LogsQuiet
    <2> QED
      BY <1>1, <2>1
  <1>5. ASSUME NEW w \in Pulls, ApplyRead(w) \/ ApplyAgain(w) PROVE Keeps
    <2>1. Quiet(e)
      BY <1>5, LogsQuiet
    <2> QED
      BY <1>1, <2>1
  <1>6. ASSUME NEW w \in Pulls, PullLogs(w) \/ PullOrphaned(w) \/ PullEnd(w) \/ PullFailed(w)
        PROVE  Keeps
    <2>1. Quiet(e)
      BY <1>6, EdgesQuiet
    <2> QED
      BY <1>1, <2>1
  <1>7. ASSUME NEW w \in Pulls, Snapshot(w) PROVE Keeps
    BY <1>7, SnapshotKeeps
  <1>8. CASE \/ Desk \/ (\E u \in Users : Hire(u)) \/ UNCHANGED vars
             \/ \E d \in Devices : Register(d) \/ UpdateDevice(d)
    <2>1. UNCHANGED <<log, pull, applications>>
      BY <1>8 DEF Desk, Hire, Register, UpdateDevice, vars, syncVars
    <2>2. Removed(e)' <=> Removed(e)
      <3>1. CASE \E d \in Devices : Register(d) \/ UpdateDevice(d)
        <4>1. PICK d \in Devices, state \in {"active", "inactive"} :
                terminal[d] # "gone" /\ terminal' = [terminal EXCEPT ![d] = state]
          BY <3>1 DEF Register, UpdateDevice
        <4>2. e.dev \in Devices /\ DOMAIN terminal = Devices
          BY DeviceSyncAssumption DEF TypeOK, Event
        <4> QED
          BY <4>1, <4>2 DEF Removed
      <3>2. CASE Desk \/ (\E u \in Users : Hire(u)) \/ UNCHANGED vars
        BY <3>2 DEF Desk, Hire, vars, syncVars, registry, Removed
      <3> QED
        BY <1>8, <3>1, <3>2
    <2>3. Quiet(e)
      BY <2>1, <2>2 DEF Quiet, Owns, Marking, Working, Past
    <2> QED
      BY <1>1, <2>3
  <1>9. ASSUME NEW d \in Devices, DeleteDevice(d) PROVE Keeps
    BY <1>9, DeleteKeeps
  <1>10. CASE Restart
    BY <1>10, RestartKeeps
  <1> HIDE DEF Keeps
  <1>11. ASSUME NEW w \in Pulls, PullStep(w) PROVE Keeps
    BY <1>3, <1>4, <1>5, <1>6, <1>7, <1>11 DEF PullStep
  <1>12. ASSUME NEW w \in Pulls, PullTrouble(w) PROVE Keeps
    BY <1>3, <1>4, <1>5, <1>6, <1>12 DEF PullTrouble
  <1> QED
    BY <1>2, <1>8, <1>9, <1>10, <1>11, <1>12 DEF Next

\* Nothing gets out of the windows again.
LEMMA ExposedGrows == ASSUME [Next]_vars PROVE exposed \subseteq exposed'
  <1>1. ASSUME NEW w \in Pulls, PullStep(w) \/ PullTrouble(w) PROVE exposed \subseteq exposed'
    BY <1>1 DEF PullStep, PullTrouble, PullLogs, PullOrphaned, Snapshot, Lookup, Record, Skip,
                Apply, ApplyRead, Applied, ApplyConflict, Mark, MarkOrphaned, PullEnd, PullFailed,
                ApplyAgain, ApplyFailed, MarkFailed, syncVars
  <1>2. ASSUME NEW w \in Pulls, NEW d \in Devices, PollStart(w, d) \/ ManualStart(w, d)
        PROVE  exposed \subseteq exposed'
    BY <1>2 DEF PollStart, ManualStart, Start
  <1>3. CASE \/ Desk \/ Restart \/ (\E u \in Users : Hire(u)) \/ UNCHANGED vars
             \/ \E d \in Devices : Register(d) \/ UpdateDevice(d) \/ DeleteDevice(d)
    BY <1>3 DEF Desk, Restart, Hire, Register, UpdateDevice, DeleteDevice, vars, syncVars
  <1> QED
    BY <1>1, <1>2, <1>3 DEF Next

\* The inductive invariant of the syncs.
SyncInv ==
  /\ AttInv /\ TypeOK /\ InHand /\ OnePollPerDevice
  /\ \A e \in Events : PunchedFirst(e) /\ (e \notin exposed => Custody(e))

\* The invariant of the syncs holds always.
LEMMA SyncInvHolds == Spec => []SyncInv
  <1>1. Init => SyncInv
    <2> SUFFICES ASSUME Init PROVE SyncInv
      OBVIOUS
    <2> USE DEF Init
    <2>1. AttInv /\ AttTypeOK
      BY AttInvStart DEF AttInv
    <2>2. TypeOK
      BY <2>1, DeviceSyncAssumption DEF TypeOK, AttInit, Pull, Idle
    <2>3. InHand
      BY DEF InHand, HandOf, Idle
    <2>4. OnePollPerDevice
      BY DEF OnePollPerDevice
    <2>5. \A e \in Events : \A w \in Pulls : ~Owns(w, e) /\ ~Marking(w, e)
      BY OutOfBatch DEF Idle
    <2>6. \A e \in Events : PunchedFirst(e) /\ Custody(e)
      BY <2>5 DEF PunchedFirst, Custody, IsApplied, Removed
    <2> QED
      BY <2>1, <2>2, <2>3, <2>4, <2>6 DEF SyncInv
  <1>2. SyncInv /\ [Next]_vars => SyncInv'
    <2> SUFFICES ASSUME SyncInv, [Next]_vars PROVE SyncInv'
      OBVIOUS
    <2>1. AttInv /\ TypeOK /\ InHand /\ OnePollPerDevice
      BY DEF SyncInv
    <2>2. AttInv'
      BY <2>1, AttNextKeeps
    <2>3. TypeOK' /\ InHand' /\ OnePollPerDevice'
      BY <2>1, <2>2, NextTyped, InHandKeeps, OnePollKeeps
    <2>4. ASSUME NEW e \in Events PROVE PunchedFirst(e)' /\ (e \notin exposed' => Custody(e)')
      BY <2>1, <2>4, CustodyKeeps, ExposedGrows DEF SyncInv
    <2> QED
      BY <2>2, <2>3, <2>4 DEF SyncInv
  <1> QED
    BY <1>1, <1>2, PTL DEF Spec

-----------------------------------------------------------------------------
(* Theorems                                                                *)

\* Pulls that repeat, overlap, fail and restart beside the clients never open two sessions
\* of a day that nobody wrote by hand.
THEOREM SyncedOneOpenRow == Spec => []OneOpenRow
  <1>1. AttInv => OneOpenRow
    BY DEF AttInv, OneOpenRow, Untouched, DaySound
  <1> QED
    BY <1>1, SyncedAttInv, PTL

\* Nor do they lose a time or write one twice: what a pull applies is on the day's rows.
THEOREM SyncedPunchesKept == Spec => []PunchesKept
  <1>1. AttInv => PunchesKept
    BY DEF AttInv, PunchesKept, Untouched, DaySound, Ins, Outs
  <1> QED
    BY <1>1, SyncedAttInv, PTL

\* So is the time clock kept under syncs: a restart, a conflict or a failed mark leaves the
\* sessions as they are, and an event becomes an arrival, a departure or nothing.
LEMMA ClockUnderSync ==
  ASSUME AttInv, AttTypeOK', [Next]_vars
  PROVE  ClockStep
  <1> USE DeviceSyncAssumption
  <1>1. ASSUME NEW w \in Pulls, NEW d \in Devices, PollStart(w, d) \/ ManualStart(w, d)
        PROVE  ClockStep
    BY <1>1, ClockStutters DEF PollStart, ManualStart, Start, attVars
  <1>2. ASSUME NEW w \in Pulls, PullStep(w) PROVE ClockStep
    <2>1. CASE PullLogs(w) \/ PullOrphaned(w) \/ Snapshot(w) \/ PullEnd(w)
      BY <2>1, ClockStutters DEF PullLogs, PullOrphaned, Snapshot, PullEnd, attVars
    <2>2. ASSUME NEW e \in Events,
                 Lookup(w, e) \/ Record(w, e) \/ Skip(w, e) \/ Mark(w, e) \/ MarkOrphaned(w, e)
          PROVE  ClockStep
      BY <2>2, ClockStutters DEF Lookup, Record, Skip, Mark, MarkOrphaned, attVars
    <2>3. ASSUME NEW e \in Events, Apply(w, e) PROVE ClockStep
      <3>1. UNCHANGED <<att, clock, import, kept, touched>>
        BY <2>3 DEF Apply
      <3> QED
        BY <3>1, ClockStutters
    <2>4. ASSUME NEW e \in Events, Applied(w, e) PROVE ClockStep
      BY <2>4, ClockIn, ClockOut DEF Applied
    <2>5. ASSUME NEW e \in Events, ApplyConflict(w, e) PROVE ClockStep
      BY <2>5, ClockStutters DEF ApplyConflict, PunchConflict, PunchEnd
    <2>6. CASE ApplyRead(w)
      BY <2>6, ClockStutters DEF ApplyRead, PunchRead
    <2> QED
      BY <1>2, <2>1, <2>2, <2>3, <2>4, <2>5, <2>6 DEF PullStep
  <1>3. ASSUME NEW w \in Pulls, PullTrouble(w) PROVE ClockStep
    <2>1. CASE PullFailed(w)
      BY <2>1, ClockStutters DEF PullFailed, attVars
    <2>2. CASE ApplyAgain(w)
      BY <2>2, ClockStutters DEF ApplyAgain, PunchAgain
    <2>3. ASSUME NEW e \in Events, ApplyFailed(w, e) \/ MarkFailed(w, e) PROVE ClockStep
      BY <2>3, ClockStutters DEF ApplyFailed, PunchAbort, PunchEnd, MarkFailed, attVars
    <2> QED
      BY <1>3, <2>1, <2>2, <2>3 DEF PullTrouble
  <1>4. CASE Desk
    <2>1. ASSUME NEW w \in Clients, ClientStep(w) PROVE ClockStep
      BY <2>1, ClockStutters, ClockPunching, ClockByHand DEF ClientStep, ClientPunch, Clients
    <2>2. CASE Tick
      BY <2>2, ClockStutters DEF Tick
    <2> QED
      BY <1>4, <2>1, <2>2 DEF Desk
  <1>5. CASE Restart \/ UNCHANGED vars \/ \E u \in Users : Hire(u)
    BY <1>5, ClockStutters DEF Restart, vars, Hire, attVars
  <1>6. ASSUME NEW d \in Devices, Register(d) \/ UpdateDevice(d) \/ DeleteDevice(d) PROVE ClockStep
    BY <1>6, ClockStutters DEF Register, UpdateDevice, DeleteDevice, attVars
  <1> QED
    BY <1>1, <1>2, <1>3, <1>4, <1>5, <1>6 DEF Next

\* Attendance with terminals implements TimeClock, as it does without.
THEOREM SyncedKeepsTime == Spec => KeepsTime
  <1>1. AttInv /\ AttInv' /\ [Next]_vars => [Clock!Next]_<<Book, touched>>
    BY ClockUnderSync DEF AttInv, ClockStep
  <1>2. Init => Clock!Init
    BY ClockStart DEF Init
  <1>3. Spec => Clock!Init /\ [][Clock!Next]_<<Book, touched>>
    BY <1>1, <1>2, SyncedAttInv, PTL DEF Spec
  <1> QED
    BY <1>3 DEF KeepsTime, Clock!Spec

\* Tables and pulls keep their types, and a pull is inside a punch exactly while it awaits one.
THEOREM SyncTypeCorrect == Spec => []TypeOK
  <1>1. SyncInv => TypeOK
    BY DEF SyncInv
  <1> QED
    BY <1>1, SyncInvHolds, PTL

\* The poller's Set holds the terminals it is pulling, each pulled once at a time, whatever
\* fails and whichever terminals come and go.
THEOREM PollsSingly == Spec => []OnePollPerDevice
  <1>1. SyncInv => OnePollPerDevice
    BY DEF SyncInv
  <1> QED
    BY <1>1, SyncInvHolds, PTL

\* A log that says applied is of an event that was punched.
THEOREM MarksOnlyPunched == Spec => []MarkedIsPunched
  <1>1. SyncInv => MarkedIsPunched
    BY DEF SyncInv, PunchedFirst, IsApplied, MarkedIsPunched
  <1> QED
    BY <1>1, SyncInvHolds, PTL

\* Outside the two windows no event is punched twice, however many pulls there are.
THEOREM AppliesOnce == Spec => []AppliedOnce
  <1>1. SyncInv => AppliedOnce
    BY DEF SyncInv, Custody, AppliedOnce
  <1> QED
    BY <1>1, SyncInvHolds, PTL

=============================================================================
