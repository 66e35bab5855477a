----------------------------- MODULE Attendance -----------------------------
(***************************************************************************)
(* Daily time records: backend/src/services/attendanceService.js.          *)
(*                                                                         *)
(* A punch is a SERIALIZABLE transaction: it reads the rows of the day,    *)
(* decides from them whether it is an IN or an OUT, and writes.  What      *)
(* PostgreSQL promises of it is in Serialized.  The manual forms and the   *)
(* imports run outside such transactions, at READ COMMITTED.               *)
(*                                                                         *)
(* An instant is a natural number and DayLength of them make a day of the  *)
(* Manila calendar; the label of a day is its number.                      *)
(***************************************************************************)
EXTENDS Integers, FiniteSets, FiniteSetsExt

CONSTANTS
  Employees,
  Rows,         \* ids an attendance row can be given (bounds the rows)
  Workers,      \* handlers that can be in flight at the same time
  Sheets,       \* what the manual form and the imports may carry for a day
  Amendments,   \* what a PATCH may carry: functions from a set of time fields
  Told,         \* the instants integrations put on the punches they send
  DayLength,
  LastTime,     \* bounds the clock
  None,
  Gone          \* what is left of a deleted row: its id is never given again

VARIABLES
  att,        \* Attendance rows
  clock,
  punch,      \* the punch transaction each worker is in
  import,     \* the import record each worker is in the middle of
  kept,       \* history: the punches recorded, by employee and day, until it is touched
  touched     \* history: the employees and days that were written by hand

attVars == <<att, clock, punch, import, kept, touched>>

Times == 0 .. LastTime
Day(t) == t \div DayLength
Days == 0 .. Day(LastTime)

Row == [emp: Employees, day: Days, in: Times \cup {None}, out: Times \cup {None}]
Sheet == [day: Days, in: Times \cup {None}, out: Times \cup {None}]

ASSUME AttendanceAssumption ==
  /\ DayLength \in Nat \ {0} /\ LastTime \in Nat
  /\ Sheets \subseteq Sheet /\ Told \subseteq Times
  /\ \A a \in Amendments : DOMAIN a \subseteq {"in", "out"}
                          /\ \A x \in DOMAIN a : a[x] \in Times \cup {None}
  /\ None \notin Rows \cup Times \cup Employees \cup Row
  /\ Gone # None /\ Gone \notin Row
  /\ IsFiniteSet(Rows)

Taken == {r \in Rows : att[r] \notin {None, Gone}}
DayRows(e, d) == {r \in Taken : att[r].emp = e /\ att[r].day = d}
OpenRowsEver(e, d) == {r \in DayRows(e, d) : att[r].in # None}
OpenRows(e, d) == {r \in DayRows(e, d) : att[r].in # None /\ att[r].out = None}

\* todays.find over the rows in the order of their timeIn; None when no row is open.
FirstOpen(e, d) ==
  IF OpenRows(e, d) = {}
    THEN {None}
    ELSE {r \in OpenRows(e, d) : \A s \in OpenRows(e, d) : att[r].in <= att[s].in}

Fresh == {r \in Rows : att[r] = None}
Insert(row) == \E r \in Fresh : att' = [att EXCEPT ![r] = row]

-----------------------------------------------------------------------------
(* punchTransition                                                         *)

\* type is None for a punch whose sense is inferred from the rows (device pulls, ingestPunch).
PunchBegin(w, e, type, at) ==
  /\ punch[w] = None
  /\ punch' = [punch EXCEPT ![w] =
       [pc |-> "read", emp |-> e, type |-> type, at |-> at, again |-> FALSE,
        open |-> None, row |-> None, stale |-> FALSE]]

PunchRead(w) ==
  /\ punch[w] # None /\ punch[w].pc = "read"
  /\ \E o \in FirstOpen(punch[w].emp, Day(punch[w].at)) :
       punch' = [punch EXCEPT ![w].pc = "write",
                              ![w].open = o,
                              ![w].row = IF o = None THEN None ELSE att[o]]
  /\ UNCHANGED <<att, clock, import, kept, touched>>

Sense(p) == IF p.type # None THEN p.type ELSE IF p.open # None THEN "OUT" ELSE "IN"

Ready(w, sense) ==
  /\ punch[w] # None /\ punch[w].pc = "write"
  /\ Sense(punch[w]) = sense

\* Without { isolationLevel: 'Serializable' } only the timeOut: null of the update protects the row.
SerializedNever(p) ==
  p.open # None => p.open \in Taken /\ att[p.open].out = None
\* A serializable transaction that writes commits only if no other one has written the rows
\* it read since it read them, and only if nobody at all has written the row it updates.
Serialized(p) ==
  /\ ~p.stale
  /\ p.open # None => att[p.open] = p.row

Rival(v, w) ==
  /\ v # w /\ punch[v] # None /\ punch[v].pc = "write"
  /\ punch[v].emp = punch[w].emp
  /\ Day(punch[v].at) = Day(punch[w].at)

PunchCommit(w) ==
  /\ punch' = [v \in Workers |-> IF v = w THEN None
                                 ELSE IF Rival(v, w) THEN [punch[v] EXCEPT !.stale = TRUE]
                                 ELSE punch[v]]
  /\ LET x == <<punch[w].emp, Day(punch[w].at)>>
     IN  kept' = IF x \in touched THEN kept ELSE [kept EXCEPT ![x] = @ + 1]
  /\ UNCHANGED <<clock, import, touched>>

PunchIn(w) ==
  /\ Ready(w, "IN") /\ punch[w].open = None
  /\ Serialized(punch[w])
  /\ Insert([emp |-> punch[w].emp, day |-> Day(punch[w].at), in |-> punch[w].at, out |-> None])
  /\ PunchCommit(w)

PunchOut(w) ==
  /\ Ready(w, "OUT") /\ punch[w].open # None
  /\ Serialized(punch[w])
  /\ att' = [att EXCEPT ![punch[w].open].out = punch[w].at]
  /\ PunchCommit(w)

PunchEnd(w) ==
  /\ punch' = [punch EXCEPT ![w] = None]
  /\ UNCHANGED <<att, clock, import, kept, touched>>

\* An IN while a row is open writes nothing; an OUT without one is refused.
PunchIdle(w) ==
  /\ \/ Ready(w, "IN") /\ punch[w].open # None
     \/ Ready(w, "OUT") /\ punch[w].open = None
  /\ PunchEnd(w)

\* A write conflict is reported as P2034, which is not retried: the punch fails.
PunchConflict(w) ==
  /\ punch[w] # None /\ punch[w].pc = "write"
  /\ ~Serialized(punch[w])
  /\ PunchEnd(w)

\* Any other error ends the punch without a write.
PunchAbort(w) ==
  /\ punch[w] # None
  /\ PunchEnd(w)

\* P2028, the transaction timed out: it is rolled back and tried once more.
PunchAgain(w) ==
  /\ punch[w] # None /\ ~punch[w].again
  /\ punch' = [punch EXCEPT ![w] = [@ EXCEPT !.pc = "read", !.again = TRUE, !.open = None,
                                             !.row = None, !.stale = FALSE]]
  /\ UNCHANGED <<att, clock, import, kept, touched>>

\* biometricPunch (portal, kiosk, WebAuthn) punches now, IN or OUT; ingestPunch now or at the
\* time the other system names, IN, OUT or what the rows make of it.
ClientPunch(w, e, type, at) ==
  /\ at = clock \/ at \in Told
  /\ import[w] = None
  /\ PunchBegin(w, e, type, at)
  /\ UNCHANGED <<att, clock, import, kept, touched>>

-----------------------------------------------------------------------------
(* Written by hand                                                         *)

Touch(e, d) ==
  /\ touched' = touched \cup {<<e, d>>}
  /\ kept' = [kept EXCEPT ![<<e, d>>] = 0]
  /\ UNCHANGED <<clock, punch>>

\* POST /attendance
HandCreate(e, s) ==
  /\ s.day <= Day(clock)
  /\ Insert([emp |-> e, day |-> s.day, in |-> s.in, out |-> s.out])
  /\ Touch(e, s.day)
  /\ UNCHANGED import

AmendedWhole(row, a) == a
Amended(row, a) == [x \in DOMAIN row |-> IF x \in DOMAIN a THEN a[x] ELSE row[x]]

\* PATCH /attendance/:id: a null time is accepted, and reopens the row
HandUpdate(r, a) ==
  /\ \A x \in {"in", "out"} \cap DOMAIN a : a[x] # None => Day(a[x]) <= Day(clock)
  /\ att' = [att EXCEPT ![r] = Amended(@, a)]
  /\ Touch(att[r].emp, att[r].day)
  /\ UNCHANGED import

\* DELETE /attendance/:id
HandRemove(r) ==
  /\ att' = [att EXCEPT ![r] = Gone]
  /\ Touch(att[r].emp, att[r].day)
  /\ UNCHANGED import

\* bulkImport and bulkIngest, one record: look for a row of that day, then write from what
\* was found.  Any of the day's rows may be the one found.
ImportRead(w, e, s) ==
  /\ import[w] = None /\ punch[w] = None
  /\ s.day <= Day(clock)
  /\ \E r \in IF DayRows(e, s.day) = {} THEN {None} ELSE DayRows(e, s.day) :
       import' = [import EXCEPT ![w] =
         [emp |-> e, sheet |-> s, found |-> r, row |-> IF r = None THEN None ELSE att[r]]]
  /\ UNCHANGED <<att, clock, punch, kept, touched>>

ImportWrite(w) ==
  LET i == import[w]
      Given(x) == IF i.sheet[x] # None THEN i.sheet[x] ELSE i.row[x]
  IN
  /\ i # None
  /\ import' = [import EXCEPT ![w] = None]
  /\ \/ /\ i.found = None
        /\ Insert([emp |-> i.emp, day |-> i.sheet.day, in |-> i.sheet.in, out |-> i.sheet.out])
        /\ Touch(i.emp, i.sheet.day)
     \/ /\ i.found \in Taken
        /\ att' = [att EXCEPT ![i.found].in = Given("in"), ![i.found].out = Given("out")]
        /\ Touch(i.emp, i.sheet.day)
     \/ /\ i.found # None /\ i.found \notin Taken
        /\ UNCHANGED <<att, clock, punch, kept, touched>>

ImportAbort(w) ==
  /\ import[w] # None
  /\ import' = [import EXCEPT ![w] = None]
  /\ UNCHANGED <<att, clock, punch, kept, touched>>

-----------------------------------------------------------------------------

Tick ==
  /\ clock < LastTime
  /\ clock' = clock + 1
  /\ UNCHANGED <<att, punch, import, kept, touched>>

AttInit ==
  /\ att = [r \in Rows |-> None]
  /\ clock = 0
  /\ punch = [w \in Workers |-> None]
  /\ import = [w \in Workers |-> None]
  /\ kept = [x \in Employees \X Days |-> 0]
  /\ touched = {}

Punching(w) ==
  \/ PunchRead(w)
  \/ PunchIn(w)
  \/ PunchOut(w)
  \/ PunchIdle(w)
  \/ PunchConflict(w)
  \/ PunchAbort(w)
  \/ PunchAgain(w)

ByHand(w) ==
  \/ \E e \in Employees, s \in Sheets : HandCreate(e, s) \/ ImportRead(w, e, s)
  \/ \E r \in Taken : HandRemove(r) \/ \E a \in Amendments : HandUpdate(r, a)
  \/ ImportWrite(w)
  \/ ImportAbort(w)

ClientStep(w) ==
  \/ \E e \in Employees, type \in {"IN", "OUT", None}, at \in Times : ClientPunch(w, e, type, at)
  \/ Punching(w)
  \/ ByHand(w)

AttNext == Tick \/ \E w \in Workers : ClientStep(w)

AttSpec == AttInit /\ [][AttNext]_attVars

-----------------------------------------------------------------------------
(* Properties                                                              *)

Punch == [pc: {"read", "write"}, emp: Employees, type: {"IN", "OUT", None}, at: Times,
          again: BOOLEAN, open: Rows \cup {None}, row: Row \cup {None}, stale: BOOLEAN]
Import == [emp: Employees, sheet: Sheets, found: Rows \cup {None}, row: Row \cup {None}]

\* The rows and the transactions have the shapes the schema and the code give them, and what
\* a transaction found is a row of the day it looked at.
AttTypeOK ==
  /\ att \in [Rows -> Row \cup {None, Gone}]
  /\ clock \in Times
  /\ punch \in [Workers -> Punch \cup {None}]
  /\ import \in [Workers -> Import \cup {None}]
  /\ kept \in [Employees \X Days -> Nat]
  /\ touched \subseteq Employees \X Days
  /\ \A w \in Workers :
       /\ punch[w] # None => (punch[w].open = None <=> punch[w].row = None)
       /\ import[w] # None => (import[w].found = None <=> import[w].row = None)

Untouched == Employees \X Days \ touched

\* An employee has at most one running session a day: however punches of the portal, the
\* kiosks and the terminals race, two INs never both open a row (the claim of the comment
\* over punchTransition), as long as nobody writes that day by hand.
OneOpenRow ==
  \A x \in Untouched : \A r, s \in OpenRows(x[1], x[2]) : r = s

\* No punch is lost and none is recorded twice: the times on the rows of a day nobody wrote
\* by hand are as many as the punches that were accepted for it.
PunchesKept ==
  \A x \in Untouched :
    kept[x] = Cardinality({r \in DayRows(x[1], x[2]) : att[r].in # None})
              + Cardinality({r \in DayRows(x[1], x[2]) : att[r].out # None})

\* The rows of the days nobody wrote by hand.
Book == [r \in Rows |-> IF r \in Taken /\ <<att[r].emp, att[r].day>> \in Untouched THEN att[r] ELSE None]

Clock == INSTANCE TimeClock WITH Sessions <- Rows, book <- Book, corrected <- touched

\* Racing punches, retries, conflicts and terminals notwithstanding, such a day goes by as a
\* time clock would have it: a session opens when none is running, a running one is closed
\* once, and no punch changes what another one entered.
KeepsTime == Clock!Spec

=============================================================================
