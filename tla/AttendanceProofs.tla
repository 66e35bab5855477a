-------------------------- MODULE AttendanceProofs --------------------------
(***************************************************************************)
(* Proofs about Attendance, for any number of employees, rows and workers. *)
(* Each step of a worker keeps the invariant by a lemma of its own, so     *)
(* that a specification that takes these steps among others can cite it.   *)
(***************************************************************************)
EXTENDS Attendance, FiniteSetTheorems, TLAPS

\* The rows of a day that hold a time in, and a time out.
Ins(e, d) == {r \in DayRows(e, d) : att[r].in # None}
Outs(e, d) == {r \in DayRows(e, d) : att[r].out # None}

\* Worker w found no open row on this day, and nothing written since forbids its commit.
Looking(w, e, d) ==
  /\ punch[w] # None /\ punch[w].pc = "write"
  /\ punch[w].open = None /\ ~punch[w].stale
  /\ punch[w].emp = e /\ Day(punch[w].at) = d

DaySound(e, d) ==
  /\ \A r \in DayRows(e, d) : att[r].in # None
  /\ \A r, s \in OpenRows(e, d) : r = s
  /\ kept[<<e, d>>] = Cardinality(Ins(e, d)) + Cardinality(Outs(e, d))
  /\ \A w \in Workers : Looking(w, e, d) => OpenRows(e, d) = {}

\* What a punch found was an open row of its day.
FoundOpen ==
  \A w \in Workers : punch[w] # None /\ punch[w].open # None =>
    /\ punch[w].row.emp = punch[w].emp /\ punch[w].row.day = Day(punch[w].at)
    /\ punch[w].row.in # None /\ punch[w].row.out = None

\* What an import found is a row of its day, unless it was deleted since.
FoundOfDay ==
  \A w \in Workers : import[w] # None /\ import[w].found # None =>
    /\ att[import[w].found] # None
    /\ att[import[w].found] # Gone =>
         /\ att[import[w].found].emp = import[w].emp
         /\ att[import[w].found].day = import[w].sheet.day

AttInv ==
  /\ AttTypeOK /\ FoundOpen /\ FoundOfDay
  /\ \A e \in Employees, d \in Days : <<e, d>> \notin touched => DaySound(e, d)

\* The rows of a day are what they were.
SameDay(e, d) ==
  /\ DayRows(e, d)' = DayRows(e, d)
  /\ \A r \in DayRows(e, d) : att'[r] = att[r]

\* They are what they were, and a new one; or one of them is written anew.
NewRow(e, d, r, row) ==
  /\ DayRows(e, d)' = DayRows(e, d) \cup {r} /\ r \notin DayRows(e, d)
  /\ att'[r] = row /\ \A s \in DayRows(e, d) : att'[s] = att[s]

OtherRow(e, d, r, row) ==
  /\ DayRows(e, d)' = DayRows(e, d)
  /\ att'[r] = row /\ \A s \in DayRows(e, d) \ {r} : att'[s] = att[s]

-----------------------------------------------------------------------------

\* An instant of the clock lies in a day of the calendar.
LEMMA DayTyped == ASSUME NEW t \in Times PROVE Day(t) \in Days
  BY AttendanceAssumption DEF Times, Days, Day

\* A row of a day is a row of the table.
LEMMA DayRowsTyped ==
  ASSUME AttTypeOK, NEW e, NEW d
  PROVE  /\ DayRows(e, d) \subseteq Rows /\ IsFiniteSet(DayRows(e, d))
         /\ \A r \in DayRows(e, d) : att[r] \in Row /\ att[r].emp = e /\ att[r].day = d
  <1>1. DayRows(e, d) \subseteq Rows
    BY DEF DayRows, Taken
  <1>2. IsFiniteSet(DayRows(e, d))
    BY <1>1, AttendanceAssumption, FS_Subset
  <1> QED
    BY <1>1, <1>2 DEF DayRows, Taken, AttTypeOK

\* The counts of PunchesKept are natural numbers.
LEMMA CountsTyped ==
  ASSUME AttTypeOK, NEW e, NEW d
  PROVE  /\ IsFiniteSet(Ins(e, d)) /\ Cardinality(Ins(e, d)) \in Nat
         /\ IsFiniteSet(Outs(e, d)) /\ Cardinality(Outs(e, d)) \in Nat
  <1>1. IsFiniteSet(Ins(e, d)) /\ IsFiniteSet(Outs(e, d))
    BY DayRowsTyped, FS_Subset DEF Ins, Outs
  <1> QED
    BY <1>1, FS_CardinalityType

\* A row nobody had changes nothing but its own day.
LEMMA Inserted ==
  ASSUME AttTypeOK, NEW r \in Fresh, NEW row \in Row, att' = [att EXCEPT ![r] = row],
         NEW e, NEW d
  PROVE  /\ <<e, d>> # <<row.emp, row.day>> => SameDay(e, d)
         /\ <<e, d>> = <<row.emp, row.day>> => NewRow(e, d, r, row)
  BY AttendanceAssumption DEF Fresh, SameDay, NewRow, DayRows, Taken, AttTypeOK

\* A row written anew stays where it was, and the other days are as before.
LEMMA Rewritten ==
  ASSUME AttTypeOK, NEW r \in Taken, NEW row \in Row,
         row.emp = att[r].emp, row.day = att[r].day, att' = [att EXCEPT ![r] = row],
         NEW e, NEW d
  PROVE  /\ OtherRow(e, d, r, row)
         /\ <<e, d>> # <<row.emp, row.day>> => SameDay(e, d)
  BY AttendanceAssumption DEF SameDay, OtherRow, DayRows, Taken, AttTypeOK

\* A day whose rows and count are left alone stays sound, if no punch joins those looking.
LEMMA QuietDay ==
  ASSUME NEW e \in Employees, NEW d \in Days, DaySound(e, d), SameDay(e, d),
         kept'[<<e, d>>] = kept[<<e, d>>],
         \A w \in Workers : Looking(w, e, d)' => Looking(w, e, d) \/ OpenRows(e, d) = {}
  PROVE  DaySound(e, d)'
  <1>1. /\ OpenRows(e, d)' = OpenRows(e, d)
        /\ Ins(e, d)' = Ins(e, d) /\ Outs(e, d)' = Outs(e, d)
    BY DEF SameDay, OpenRows, Ins, Outs
  <1>2. \A r \in DayRows(e, d)' : att'[r].in # None
    BY DEF SameDay, DaySound
  <1> QED
    BY <1>1, <1>2 DEF DaySound

-----------------------------------------------------------------------------
(* Types                                                                   *)

\* A punch that begins, or is tried again, has read nothing yet.
LEMMA BeginTyped ==
  ASSUME AttTypeOK, NEW w \in Workers, NEW e \in Employees, NEW type \in {"IN", "OUT", None},
         NEW at \in Times, PunchBegin(w, e, type, at),
         UNCHANGED <<att, clock, import, kept, touched>>
  PROVE  AttTypeOK'
  BY AttendanceAssumption DEF PunchBegin, AttTypeOK, Punch

\* What a punch reads is a row of the table, or nothing.
LEMMA ReadTyped ==
  ASSUME AttTypeOK, NEW w \in Workers, PunchRead(w)
  PROVE  AttTypeOK'
  <1>1. PICK o \in FirstOpen(punch[w].emp, Day(punch[w].at)) :
          punch' = [punch EXCEPT ![w].pc = "write", ![w].open = o,
                                 ![w].row = IF o = None THEN None ELSE att[o]]
    BY DEF PunchRead
  <1>2. o = None \/ (o \in Rows /\ att[o] \in Row)
    BY <1>1, DayRowsTyped DEF FirstOpen, OpenRows
  <1>3. punch[w] \in Punch
    BY DEF PunchRead, AttTypeOK
  <1>4. (o = None) <=> (IF o = None THEN None ELSE att[o]) = None
    BY <1>2, AttendanceAssumption
  <1>5. punch' \in [Workers -> Punch \cup {None}]
    BY <1>1, <1>2, <1>3 DEF AttTypeOK, Punch
  <1> QED
    BY <1>1, <1>3, <1>4, <1>5 DEF PunchRead, AttTypeOK, Punch

\* The commit of a punch marks its rivals and counts it.
LEMMA CommitTyped ==
  ASSUME AttTypeOK, NEW w \in Workers, punch[w] # None, PunchCommit(w),
         att' \in [Rows -> Row \cup {None, Gone}]
  PROVE  AttTypeOK'
  <1>1. ASSUME NEW v \in Workers
        PROVE  \/ punch'[v] = None
               \/ punch'[v] = punch[v]
               \/ punch[v] # None /\ punch'[v] = [punch[v] EXCEPT !.stale = TRUE]
    <2>1. punch'[v] = IF v = w THEN None
                      ELSE IF Rival(v, w) THEN [punch[v] EXCEPT !.stale = TRUE] ELSE punch[v]
      BY DEF PunchCommit
    <2> QED
      BY <2>1 DEF Rival
  <1>2. ASSUME NEW v \in Workers, punch'[v] # None
        PROVE  /\ punch'[v] \in Punch /\ punch[v] # None
               /\ punch'[v].open = punch[v].open /\ punch'[v].row = punch[v].row
    <2>1. CASE punch'[v] = punch[v]
      BY <1>2, <2>1 DEF AttTypeOK
    <2>2. CASE punch[v] # None /\ punch'[v] = [punch[v] EXCEPT !.stale = TRUE]
      <3>1. punch[v] \in Punch
        BY <2>2 DEF AttTypeOK
      <3> QED
        BY <2>2, <3>1 DEF Punch
    <2> QED
      BY <1>1, <1>2, <2>1, <2>2
  <1>3. punch' \in [Workers -> Punch \cup {None}]
    BY <1>2 DEF PunchCommit
  <1>4. /\ punch[w].emp \in Employees /\ Day(punch[w].at) \in Days
    BY DayTyped DEF AttTypeOK, Punch
  <1>5. kept' \in [Employees \X Days -> Nat]
    BY <1>4 DEF PunchCommit, AttTypeOK
  <1> QED
    BY <1>2, <1>3, <1>5 DEF PunchCommit, AttTypeOK

\* The two writes of a punch write rows.
LEMMA PunchTyped ==
  ASSUME AttTypeOK, NEW w \in Workers, PunchIn(w) \/ PunchOut(w)
  PROVE  AttTypeOK'
  <1>1. punch[w] \in Punch /\ punch[w] # None /\ PunchCommit(w)
    BY DEF PunchIn, PunchOut, Ready, AttTypeOK
  <1>2. Day(punch[w].at) \in Days
    BY <1>1, DayTyped DEF Punch
  <1>3. CASE PunchIn(w)
    BY <1>1, <1>2, <1>3, CommitTyped DEF PunchIn, Insert, Fresh, Punch, Row, AttTypeOK
  <1>4. CASE PunchOut(w)
    <2>1. /\ punch[w].open \in Rows /\ punch[w].row \in Row /\ att[punch[w].open] = punch[w].row
      BY <1>1, <1>4 DEF PunchOut, Serialized, AttTypeOK, Punch
    <2>2. [punch[w].row EXCEPT !.out = punch[w].at] \in Row
      BY <1>1, <2>1 DEF Row, Punch
    <2>3. att' \in [Rows -> Row \cup {None, Gone}]
      BY <1>4, <2>1, <2>2 DEF PunchOut, AttTypeOK
    <2> QED
      BY <1>1, <2>3, CommitTyped
  <1> QED
    BY <1>3, <1>4

\* The steps of a punch that write nothing.
LEMMA PunchIdleTyped ==
  ASSUME AttTypeOK, NEW w \in Workers, PunchEnd(w) \/ PunchAgain(w)
  PROVE  AttTypeOK'
  <1>1. CASE PunchEnd(w)
    BY <1>1 DEF PunchEnd, AttTypeOK
  <1>2. CASE PunchAgain(w)
    <2>1. punch[w] \in Punch
      BY <1>2 DEF PunchAgain, AttTypeOK
    <2> QED
      BY <1>2, <2>1 DEF PunchAgain, AttTypeOK, Punch
  <1> QED
    BY <1>1, <1>2

\* Writing a day by hand, whatever row it writes.
LEMMA TouchTyped ==
  ASSUME AttTypeOK, NEW e \in Employees, NEW d \in Days, Touch(e, d),
         att' \in [Rows -> Row \cup {None, Gone}], UNCHANGED import
  PROVE  AttTypeOK'
  BY DEF Touch, AttTypeOK

\* The forms and the imports write rows.
LEMMA ByHandTyped ==
  ASSUME AttTypeOK, NEW w \in Workers, ByHand(w)
  PROVE  AttTypeOK'
  <1> USE AttendanceAssumption
  <1>1. ASSUME NEW e \in Employees, NEW s \in Sheets, HandCreate(e, s) PROVE AttTypeOK'
    <2>1. att' \in [Rows -> Row \cup {None, Gone}] /\ s.day \in Days
      BY <1>1 DEF HandCreate, Insert, Fresh, Row, Sheet, AttTypeOK
    <2> QED
      BY <1>1, <2>1, TouchTyped DEF HandCreate
  <1>2. ASSUME NEW e \in Employees, NEW s \in Sheets, ImportRead(w, e, s) PROVE AttTypeOK'
    <2>1. PICK r \in IF DayRows(e, s.day) = {} THEN {None} ELSE DayRows(e, s.day) :
            import' = [import EXCEPT ![w] =
              [emp |-> e, sheet |-> s, found |-> r, row |-> IF r = None THEN None ELSE att[r]]]
      BY <1>2 DEF ImportRead
    <2>2. r = None \/ (r \in Rows /\ att[r] \in Row)
      BY <2>1, DayRowsTyped
    <2> QED
      BY <1>2, <2>1, <2>2 DEF ImportRead, AttTypeOK, Import
  <1>3. ASSUME NEW r \in Taken, HandRemove(r) PROVE AttTypeOK'
    <2>1. att' \in [Rows -> Row \cup {None, Gone}] /\ att[r] \in Row
      BY <1>3 DEF HandRemove, Taken, AttTypeOK
    <2> QED
      BY <1>3, <2>1, TouchTyped DEF HandRemove, Row
  <1>4. ASSUME NEW r \in Taken, NEW a \in Amendments, HandUpdate(r, a) PROVE AttTypeOK'
    <2>1. att[r] \in Row
      BY DEF Taken, AttTypeOK
    <2>2. Amended(att[r], a) \in Row
      BY <2>1 DEF Amended, Row
    <2>3. att' \in [Rows -> Row \cup {None, Gone}]
      BY <1>4, <2>2 DEF HandUpdate, Taken, AttTypeOK
    <2> QED
      BY <1>4, <2>1, <2>3, TouchTyped DEF HandUpdate, Row
  <1>5. CASE ImportWrite(w)
    <2> DEFINE i == import[w]
               Given(x) == IF i.sheet[x] # None THEN i.sheet[x] ELSE i.row[x]
    <2>1. i \in Import /\ i.sheet \in Sheet /\ i.sheet.day \in Days
      BY <1>5 DEF ImportWrite, AttTypeOK, Import, Sheet
    <2>2. import' \in [Workers -> Import \cup {None}] /\ import' = [import EXCEPT ![w] = None]
      BY <1>5 DEF ImportWrite, AttTypeOK
    <2>3. ASSUME att' \in [Rows -> Row \cup {None, Gone}], Touch(i.emp, i.sheet.day)
          PROVE  AttTypeOK'
      BY <2>1, <2>2, <2>3 DEF Touch, AttTypeOK, Import
    <2>4. CASE i.found = None /\ Touch(i.emp, i.sheet.day)
               /\ Insert([emp |-> i.emp, day |-> i.sheet.day, in |-> i.sheet.in, out |-> i.sheet.out])
      BY <2>1, <2>3, <2>4 DEF Insert, Fresh, Row, Sheet, Import, AttTypeOK
    <2>5. CASE i.found \in Taken /\ Touch(i.emp, i.sheet.day)
               /\ att' = [att EXCEPT ![i.found].in = Given("in"), ![i.found].out = Given("out")]
      <3>1. i.row \in Row /\ att[i.found] \in Row
        BY <1>5, <2>1, <2>5 DEF ImportWrite, Taken, AttTypeOK, Import
      <3>2. Given("in") \in Times \cup {None} /\ Given("out") \in Times \cup {None}
        BY <2>1, <3>1 DEF Row, Sheet
      <3>3. att' = [att EXCEPT ![i.found] = [@ EXCEPT !.in = Given("in"), !.out = Given("out")]]
        BY <2>5 DEF AttTypeOK, Taken
      <3>4. [att[i.found] EXCEPT !.in = Given("in"), !.out = Given("out")] \in Row
        BY <3>1, <3>2 DEF Row
      <3> QED
        BY <2>3, <2>5, <3>3, <3>4 DEF Taken, AttTypeOK
    <2>6. CASE UNCHANGED <<att, clock, punch, kept, touched>>
      BY <2>2, <2>6 DEF AttTypeOK
    <2> QED
      BY <1>5, <2>4, <2>5, <2>6 DEF ImportWrite
  <1>6. CASE ImportAbort(w)
    BY <1>6 DEF ImportAbort, AttTypeOK
  <1> QED
    BY <1>1, <1>2, <1>3, <1>4, <1>5, <1>6 DEF ByHand

-----------------------------------------------------------------------------
(* Days                                                                    *)

\* A punch in of its own transaction keeps its day sound: it read a day without an open row,
\* nobody opened one since, and every rival that looked at the day may no longer commit.
LEMMA PunchInDay ==
  ASSUME AttInv, NEW w \in Workers, PunchIn(w),
         NEW e \in Employees, NEW d \in Days, <<e, d>> \notin touched
  PROVE  DaySound(e, d)'
  <1> DEFINE p == punch[w]
             row == [emp |-> p.emp, day |-> Day(p.at), in |-> p.at, out |-> None]
  <1> USE AttendanceAssumption
  <1>1. p \in Punch /\ Day(p.at) \in Days /\ row \in Row
    BY DayTyped DEF PunchIn, Ready, AttInv, AttTypeOK, Punch, Row
  <1>2. PICK r \in Fresh : att' = [att EXCEPT ![r] = row]
    BY DEF PunchIn, Insert
  <1>3. DaySound(e, d) /\ AttTypeOK
    BY DEF AttInv
  <1>7. row.emp = p.emp /\ row.day = Day(p.at) /\ row.in = p.at /\ row.out = None
    OBVIOUS
  <1> HIDE DEF row
  <1>4. ASSUME NEW v \in Workers, Looking(v, e, d)'
        PROVE  v # w /\ Looking(v, e, d) /\ ~Rival(v, w)
    <2>1. punch'[v] = IF v = w THEN None
                      ELSE IF Rival(v, w) THEN [punch[v] EXCEPT !.stale = TRUE] ELSE punch[v]
      BY DEF PunchIn, PunchCommit
    <2>2. CASE Rival(v, w)
      <3>1. punch[v] \in Punch
        BY <1>3, <2>2 DEF Rival, AttTypeOK
      <3> QED
        BY <1>4, <2>1, <2>2, <3>1 DEF Looking, Punch
    <2> QED
      BY <1>4, <2>1, <2>2 DEF Looking
  <1>5. CASE <<e, d>> # <<p.emp, Day(p.at)>>
    <2> <<e, d>> # <<row.emp, row.day>>
      BY <1>5, <1>7
    <2>1. SameDay(e, d)
      BY <1>1, <1>2, <1>3, Inserted
    <2>2. kept'[<<e, d>>] = kept[<<e, d>>]
      BY <1>1, <1>3, <1>5 DEF PunchIn, PunchCommit, AttTypeOK, Punch
    <2> QED
      BY <1>3, <1>4, <2>1, <2>2, QuietDay
  <1>6. CASE <<e, d>> = <<p.emp, Day(p.at)>>
    <2> <<e, d>> = <<row.emp, row.day>>
      BY <1>6, <1>7
    <2>0. NewRow(e, d, r, row)
      BY <1>1, <1>2, <1>3, Inserted
    <2>1. /\ DayRows(e, d)' = DayRows(e, d) \cup {r} /\ r \notin DayRows(e, d)
          /\ att'[r] = row /\ \A s \in DayRows(e, d) : att'[s] = att[s]
      BY <2>0 DEF NewRow
    <2>2. OpenRows(e, d) = {}
      BY <1>3, <1>6 DEF DaySound, Looking, PunchIn, Ready, Serialized
    <2>3. OpenRows(e, d)' = {r}
      BY <1>1, <1>7, <2>1, <2>2 DEF OpenRows, Punch
    <2>4. Ins(e, d)' = Ins(e, d) \cup {r} /\ r \notin Ins(e, d)
      BY <1>1, <1>7, <2>1 DEF Ins, Punch
    <2>5. Outs(e, d)' = Outs(e, d)
      BY <1>7, <2>1 DEF Outs
    <2>6. Cardinality(Ins(e, d)') = Cardinality(Ins(e, d)) + 1
      BY <1>3, <2>4, CountsTyped, FS_AddElement
    <2>7. kept'[<<e, d>>] = kept[<<e, d>>] + 1
      BY <1>3, <1>6 DEF PunchIn, PunchCommit, AttTypeOK
    <2>8. ASSUME NEW v \in Workers PROVE ~Looking(v, e, d)'
      BY <1>4, <1>6, <2>8 DEF Looking, Rival
    <2>9. kept'[<<e, d>>] = Cardinality(Ins(e, d)') + Cardinality(Outs(e, d)')
      BY <1>3, <2>5, <2>6, <2>7, CountsTyped DEF DaySound
    <2>10. \A s \in DayRows(e, d)' : att'[s].in # None
      BY <1>1, <1>3, <1>7, <2>1 DEF DaySound, Punch
    <2> QED
      BY <2>3, <2>8, <2>9, <2>10 DEF DaySound
  <1> QED
    BY <1>5, <1>6

\* A punch out closes the row it found open, which nobody wrote since.
LEMMA PunchOutDay ==
  ASSUME AttInv, NEW w \in Workers, PunchOut(w),
         NEW e \in Employees, NEW d \in Days, <<e, d>> \notin touched
  PROVE  DaySound(e, d)'
  <1> DEFINE p == punch[w]
             r == p.open
             row == [att[r] EXCEPT !.out = p.at]
  <1> USE AttendanceAssumption
  <1>1. /\ p \in Punch /\ Day(p.at) \in Days
        /\ r \in Taken /\ att[r] \in Row /\ att[r] = p.row /\ row \in Row
    <2>1. p \in Punch /\ r \in Rows /\ p.row \in Row /\ att[r] = p.row
      BY DEF PunchOut, Ready, Serialized, AttInv, AttTypeOK, Punch
    <2> QED
      BY <2>1, DayTyped DEF Taken, Punch, Row
  <1>2. att[r].emp = p.emp /\ att[r].day = Day(p.at) /\ att[r].in # None /\ att[r].out = None
    BY <1>1 DEF AttInv, FoundOpen, PunchOut, Ready
  <1>3. att' = [att EXCEPT ![r] = row]
    BY DEF PunchOut
  <1>4. DaySound(e, d) /\ AttTypeOK
    BY DEF AttInv
  <1>5. row.emp = att[r].emp /\ row.day = att[r].day /\ row.in = att[r].in /\ row.out = p.at
    BY <1>1 DEF Row
  <1> HIDE DEF row, r
  <1>6. ASSUME NEW v \in Workers, Looking(v, e, d)'
        PROVE  v # w /\ Looking(v, e, d) /\ ~Rival(v, w)
    <2>1. punch'[v] = IF v = w THEN None
                      ELSE IF Rival(v, w) THEN [punch[v] EXCEPT !.stale = TRUE] ELSE punch[v]
      BY DEF PunchOut, PunchCommit
    <2>2. CASE Rival(v, w)
      <3>1. punch[v] \in Punch
        BY <1>4, <2>2 DEF Rival, AttTypeOK
      <3> QED
        BY <1>6, <2>1, <2>2, <3>1 DEF Looking, Punch
    <2> QED
      BY <1>6, <2>1, <2>2 DEF Looking
  <1>7. CASE <<e, d>> # <<p.emp, Day(p.at)>>
    <2> <<e, d>> # <<row.emp, row.day>>
      BY <1>2, <1>5, <1>7
    <2>1. SameDay(e, d)
      BY <1>1, <1>3, <1>4, <1>5, Rewritten
    <2>2. kept'[<<e, d>>] = kept[<<e, d>>]
      BY <1>1, <1>4, <1>7 DEF PunchOut, PunchCommit, AttTypeOK, Punch
    <2> QED
      BY <1>4, <1>6, <2>1, <2>2, QuietDay
  <1>8. CASE <<e, d>> = <<p.emp, Day(p.at)>>
    <2>0. OtherRow(e, d, r, row)
      BY <1>1, <1>3, <1>4, <1>5, Rewritten
    <2>1. /\ DayRows(e, d)' = DayRows(e, d) /\ att'[r] = row
          /\ \A s \in DayRows(e, d) \ {r} : att'[s] = att[s]
      BY <2>0 DEF OtherRow
    <2>2. r \in DayRows(e, d)
      BY <1>1, <1>2, <1>8 DEF DayRows
    <2>3. OpenRows(e, d)' \subseteq OpenRows(e, d)
      BY <1>1, <1>5, <2>1 DEF OpenRows, Punch
    <2>4. Ins(e, d)' = Ins(e, d)
      BY <1>5, <2>1 DEF Ins
    <2>5. Outs(e, d)' = Outs(e, d) \cup {r} /\ r \notin Outs(e, d)
      BY <1>1, <1>2, <1>5, <2>1, <2>2 DEF Outs, Punch
    <2>6. Cardinality(Outs(e, d)') = Cardinality(Outs(e, d)) + 1
      BY <1>4, <2>5, CountsTyped, FS_AddElement
    <2>7. kept'[<<e, d>>] = kept[<<e, d>>] + 1
      BY <1>4, <1>8 DEF PunchOut, PunchCommit, AttTypeOK
    <2>8. ASSUME NEW v \in Workers PROVE ~Looking(v, e, d)'
      BY <1>6, <1>8, <2>8 DEF Looking, Rival
    <2>9. kept'[<<e, d>>] = Cardinality(Ins(e, d)') + Cardinality(Outs(e, d)')
      BY <1>4, <2>4, <2>6, <2>7, CountsTyped DEF DaySound
    <2>10. \A s \in DayRows(e, d)' : att'[s].in # None
      BY <1>2, <1>4, <1>5, <2>1 DEF DaySound
    <2> QED
      BY <1>4, <2>3, <2>8, <2>9, <2>10 DEF DaySound
  <1> QED
    BY <1>7, <1>8

\* A step that leaves the rows, the counts and the touched days alone keeps every day sound.
LEMMA StillDays ==
  ASSUME AttInv, UNCHANGED <<att, kept, touched>>,
         \A w \in Workers, e \in Employees, d \in Days :
           Looking(w, e, d)' => Looking(w, e, d) \/ OpenRows(e, d) = {}
  PROVE  \A e \in Employees, d \in Days : <<e, d>> \notin touched' => DaySound(e, d)'
  <1> SUFFICES ASSUME NEW e \in Employees, NEW d \in Days, <<e, d>> \notin touched'
               PROVE  DaySound(e, d)'
    OBVIOUS
  <1>1. SameDay(e, d)
    BY DEF SameDay, DayRows, Taken
  <1>2. DaySound(e, d) /\ kept'[<<e, d>>] = kept[<<e, d>>]
    BY DEF AttInv
  <1> QED
    BY <1>1, <1>2, QuietDay

-----------------------------------------------------------------------------
(* What was found                                                          *)

\* An id is given once, and a row keeps its employee and its day as long as it is there.
RowsStay ==
  \A r \in Rows : att[r] # None =>
    /\ att'[r] # None
    /\ att'[r] # Gone => att[r] # Gone /\ att'[r].emp = att[r].emp /\ att'[r].day = att[r].day

\* The imports under way keep what they know of the row they found.
LEMMA FoundStays ==
  ASSUME AttInv, RowsStay, \A w \in Workers : import'[w] # None => import'[w] = import[w]
  PROVE  FoundOfDay'
  <1> SUFFICES ASSUME NEW w \in Workers, import'[w] # None, import'[w].found # None
               PROVE  /\ att'[import'[w].found] # None
                      /\ att'[import'[w].found] # Gone =>
                           /\ att'[import'[w].found].emp = import'[w].emp
                           /\ att'[import'[w].found].day = import'[w].sheet.day
    BY DEF FoundOfDay
  <1>1. import'[w] = import[w] /\ import[w] \in Import
    BY DEF AttInv, AttTypeOK
  <1> DEFINE r == import[w].found
  <1>2. /\ r \in Rows /\ att[r] # None
        /\ att[r] # Gone => att[r].emp = import[w].emp /\ att[r].day = import[w].sheet.day
    BY <1>1 DEF AttInv, FoundOfDay, Import
  <1> QED
    BY <1>1, <1>2 DEF RowsStay

\* So do the punches, which a commit of another does not rewrite but for its mark.
LEMMA CommitFound ==
  ASSUME AttInv, NEW w \in Workers, PunchCommit(w)
  PROVE  FoundOpen'
  <1> SUFFICES ASSUME NEW v \in Workers, punch'[v] # None, punch'[v].open # None
               PROVE  /\ punch'[v].row.emp = punch'[v].emp
                      /\ punch'[v].row.day = Day(punch'[v].at)
                      /\ punch'[v].row.in # None /\ punch'[v].row.out = None
    BY DEF FoundOpen
  <1>1. punch'[v] = IF v = w THEN None
                    ELSE IF Rival(v, w) THEN [punch[v] EXCEPT !.stale = TRUE] ELSE punch[v]
    BY DEF PunchCommit
  <1>2. punch[v] # None /\ punch[v] \in Punch
    BY <1>1 DEF Rival, AttInv, AttTypeOK
  <1>3. /\ punch'[v].row = punch[v].row /\ punch'[v].emp = punch[v].emp
        /\ punch'[v].at = punch[v].at /\ punch'[v].open = punch[v].open
    BY <1>1, <1>2 DEF Punch
  <1> QED
    BY <1>2, <1>3 DEF AttInv, FoundOpen

-----------------------------------------------------------------------------
(* Every step keeps the invariant                                          *)

\* An empty table, with nothing under way, satisfies it.
LEMMA AttInvStart == AttInit => AttInv
  <1> SUFFICES ASSUME AttInit PROVE AttInv
    OBVIOUS
  <1> USE AttendanceAssumption
  <1>1. AttTypeOK
    BY DEF AttInit, AttTypeOK, Times
  <1>2. FoundOpen /\ FoundOfDay
    BY DEF AttInit, FoundOpen, FoundOfDay
  <1>3. ASSUME NEW e \in Employees, NEW d \in Days PROVE DaySound(e, d)
    <2>1. DayRows(e, d) = {}
      BY DEF AttInit, DayRows, Taken
    <2>2. OpenRows(e, d) = {} /\ Ins(e, d) = {} /\ Outs(e, d) = {}
      BY <2>1 DEF OpenRows, Ins, Outs
    <2>3. \A w \in Workers : ~Looking(w, e, d)
      BY DEF AttInit, Looking
    <2>4. kept[<<e, d>>] = 0
      BY DEF AttInit
    <2> QED
      BY <2>1, <2>2, <2>3, <2>4, FS_EmptySet DEF DaySound
  <1> QED
    BY <1>1, <1>2, <1>3 DEF AttInv

\* A punch begins: it has found nothing.
LEMMA BeginKeeps ==
  ASSUME AttInv, NEW w \in Workers, NEW e \in Employees, NEW type \in {"IN", "OUT", None},
         NEW at \in Times, PunchBegin(w, e, type, at),
         UNCHANGED <<att, clock, import, kept, touched>>
  PROVE  AttInv'
  <1>1. AttTypeOK'
    BY BeginTyped DEF AttInv
  <1>2. ASSUME NEW v \in Workers, v # w PROVE punch'[v] = punch[v]
    BY <1>2 DEF PunchBegin, AttInv, AttTypeOK
  <1>3. punch'[w].pc = "read" /\ punch'[w].open = None
    BY DEF PunchBegin, AttInv, AttTypeOK
  <1>4. FoundOpen'
    BY <1>2, <1>3 DEF AttInv, FoundOpen
  <1>5. FoundOfDay'
    BY DEF AttInv, FoundOfDay
  <1>6. \A v \in Workers, f \in Employees, d \in Days : Looking(v, f, d)' => Looking(v, f, d)
    BY <1>2, <1>3 DEF Looking
  <1>7. \A f \in Employees, d \in Days : <<f, d>> \notin touched' => DaySound(f, d)'
    BY <1>6, StillDays
  <1> QED
    BY <1>1, <1>4, <1>5, <1>7 DEF AttInv

\* A punch reads: if it finds no open row there is none.
LEMMA ReadKeeps ==
  ASSUME AttInv, NEW w \in Workers, PunchRead(w)
  PROVE  AttInv'
  <1> DEFINE p == punch[w]
  <1> USE AttendanceAssumption
  <1>1. p # None /\ p \in Punch /\ AttTypeOK
    BY DEF PunchRead, AttInv, AttTypeOK
  <1>2. PICK o \in FirstOpen(p.emp, Day(p.at)) :
          punch' = [punch EXCEPT ![w].pc = "write", ![w].open = o,
                                 ![w].row = IF o = None THEN None ELSE att[o]]
    BY DEF PunchRead
  <1>3. /\ punch'[w].emp = p.emp /\ punch'[w].at = p.at /\ punch'[w].open = o
        /\ o # None => punch'[w].row = att[o]
    BY <1>1, <1>2 DEF AttTypeOK, Punch
  <1>4. ASSUME NEW v \in Workers, v # w PROVE punch'[v] = punch[v]
    BY <1>1, <1>2, <1>4 DEF AttTypeOK
  <1>5. o # None => o \in OpenRows(p.emp, Day(p.at))
    BY <1>2 DEF FirstOpen
  <1>6. o = None => OpenRows(p.emp, Day(p.at)) = {}
    <2>1. None \notin OpenRows(p.emp, Day(p.at))
      BY DEF OpenRows, DayRows, Taken
    <2> QED
      BY <1>2, <2>1 DEF FirstOpen
  <1>7. AttTypeOK'
    BY <1>1, ReadTyped
  <1>8. FoundOpen'
    <2>1. o # None => /\ att[o].emp = p.emp /\ att[o].day = Day(p.at)
                      /\ att[o].in # None /\ att[o].out = None
      BY <1>5 DEF OpenRows, DayRows
    <2> QED
      BY <1>3, <1>4, <2>1 DEF AttInv, FoundOpen
  <1>9. FoundOfDay'
    BY DEF PunchRead, AttInv, FoundOfDay
  <1>10. \A v \in Workers, e \in Employees, d \in Days :
           Looking(v, e, d)' => Looking(v, e, d) \/ OpenRows(e, d) = {}
    BY <1>3, <1>4, <1>6 DEF Looking
  <1>11. \A e \in Employees, d \in Days : <<e, d>> \notin touched' => DaySound(e, d)'
    BY <1>10, StillDays DEF PunchRead
  <1> QED
    BY <1>7, <1>8, <1>9, <1>11 DEF AttInv

\* A punch that ends without a write, or is tried again, is looking at nothing any more.
LEMMA IdleKeeps ==
  ASSUME AttInv, NEW w \in Workers, PunchEnd(w) \/ PunchAgain(w)
  PROVE  AttInv'
  <1>1. AttTypeOK'
    BY PunchIdleTyped DEF AttInv
  <1>2. ASSUME NEW v \in Workers, v # w PROVE punch'[v] = punch[v]
    BY <1>2 DEF PunchEnd, PunchAgain, AttInv, AttTypeOK
  <1>3. punch'[w] = None \/ (punch'[w].pc = "read" /\ punch'[w].open = None)
    <2>1. CASE PunchEnd(w)
      BY <2>1 DEF PunchEnd, AttInv, AttTypeOK
    <2>2. CASE PunchAgain(w)
      <3>1. punch[w] \in Punch
        BY <2>2 DEF PunchAgain, AttInv, AttTypeOK
      <3> QED
        BY <2>2, <3>1 DEF PunchAgain, AttInv, AttTypeOK, Punch
    <2> QED
      BY <2>1, <2>2
  <1>4. UNCHANGED <<att, clock, import, kept, touched>>
    BY DEF PunchEnd, PunchAgain
  <1>5. FoundOpen' /\ FoundOfDay'
    BY <1>2, <1>3, <1>4 DEF AttInv, FoundOpen, FoundOfDay
  <1>6. \A v \in Workers, e \in Employees, d \in Days : Looking(v, e, d)' => Looking(v, e, d)
    BY <1>2, <1>3 DEF Looking
  <1>7. \A e \in Employees, d \in Days : <<e, d>> \notin touched' => DaySound(e, d)'
    BY <1>4, <1>6, StillDays
  <1> QED
    BY <1>1, <1>5, <1>7 DEF AttInv

\* A punch that writes keeps what every other found, and the day it writes is sound.
LEMMA WriteKeeps ==
  ASSUME AttInv, NEW w \in Workers, PunchIn(w) \/ PunchOut(w)
  PROVE  AttInv'
  <1> USE AttendanceAssumption
  <1>1. /\ AttTypeOK /\ PunchCommit(w)
        /\ punch[w] \in Punch /\ Day(punch[w].at) \in Days
    BY DayTyped DEF PunchIn, PunchOut, Ready, AttInv, AttTypeOK, Punch
  <1>2. RowsStay
    <2>1. CASE PunchIn(w)
      BY <1>1, <2>1 DEF PunchIn, Insert, Fresh, RowsStay, AttTypeOK
    <2>2. CASE PunchOut(w)
      <3>1. punch[w].open \in Rows /\ punch[w].row \in Row /\ att[punch[w].open] = punch[w].row
        BY <1>1, <2>2 DEF PunchOut, Ready, Serialized, AttTypeOK, Punch
      <3>2. LET r == punch[w].open
            IN  /\ att'[r] = [att[r] EXCEPT !.out = punch[w].at]
                /\ att[r] \in Row /\ \A s \in Rows \ {r} : att'[s] = att[s]
        BY <1>1, <2>2, <3>1 DEF PunchOut, AttTypeOK
      <3>3. /\ [att[punch[w].open] EXCEPT !.out = punch[w].at] \in Row
            /\ [att[punch[w].open] EXCEPT !.out = punch[w].at].emp = att[punch[w].open].emp
            /\ [att[punch[w].open] EXCEPT !.out = punch[w].at].day = att[punch[w].open].day
        BY <1>1, <3>2 DEF Row, Punch
      <3> QED
        BY <3>1, <3>2, <3>3 DEF RowsStay
    <2> QED
      BY <2>1, <2>2
  <1>3. FoundOfDay'
    <2>1. import' = import
      BY <1>1 DEF PunchCommit
    <2> QED
      BY <1>2, <2>1, FoundStays
  <1>4. AttTypeOK' /\ FoundOpen'
    BY <1>1, PunchTyped, CommitFound
  <1>5. ASSUME NEW e \in Employees, NEW d \in Days, <<e, d>> \notin touched' PROVE DaySound(e, d)'
    <2>1. <<e, d>> \notin touched
      BY <1>1, <1>5 DEF PunchCommit
    <2> QED
      BY <2>1, PunchInDay, PunchOutDay
  <1> QED
    BY <1>3, <1>4, <1>5 DEF AttInv

\* Every step of a punch under way keeps it.
LEMMA PunchingKeeps ==
  ASSUME AttInv, NEW w \in Workers, Punching(w)
  PROVE  AttInv'
  BY ReadKeeps, WriteKeeps, IdleKeeps
  DEF Punching, PunchIdle, PunchConflict, PunchAbort

\* The writes by hand give up the day they write, and leave the others alone.
LEMMA TouchDays ==
  ASSUME AttInv, NEW f \in Employees, NEW c \in Days, Touch(f, c),
         \A e \in Employees, d \in Days : <<e, d>> # <<f, c>> => SameDay(e, d)
  PROVE  \A e \in Employees, d \in Days : <<e, d>> \notin touched' => DaySound(e, d)'
  <1> SUFFICES ASSUME NEW e \in Employees, NEW d \in Days, <<e, d>> \notin touched'
               PROVE  DaySound(e, d)'
    OBVIOUS
  <1>1. <<e, d>> # <<f, c>> /\ <<e, d>> \notin touched
    BY DEF Touch
  <1>2. SameDay(e, d) /\ DaySound(e, d)
    BY <1>1 DEF AttInv
  <1>3. kept'[<<e, d>>] = kept[<<e, d>>]
    BY <1>1 DEF Touch, AttInv, AttTypeOK
  <1>4. \A v \in Workers : Looking(v, e, d)' => Looking(v, e, d)
    BY DEF Touch, Looking
  <1> QED
    BY <1>2, <1>3, <1>4, QuietDay

\* A new row, written by hand.
LEMMA HandInserts ==
  ASSUME AttInv, NEW row \in Row, Insert(row), Touch(row.emp, row.day), AttTypeOK',
         \A w \in Workers : import'[w] # None => import'[w] = import[w]
  PROVE  AttInv'
  <1> USE AttendanceAssumption
  <1>1. PICK r \in Fresh : att' = [att EXCEPT ![r] = row]
    BY DEF Insert
  <1>2. RowsStay
    BY <1>1 DEF Fresh, RowsStay, AttInv, AttTypeOK
  <1>3. row.emp \in Employees /\ row.day \in Days
    BY DEF Row
  <1>4. ASSUME NEW e \in Employees, NEW d \in Days, <<e, d>> # <<row.emp, row.day>>
        PROVE  SameDay(e, d)
    BY <1>1, <1>4, Inserted DEF AttInv
  <1>5. FoundOpen'
    BY DEF Touch, AttInv, FoundOpen
  <1>6. \A e \in Employees, d \in Days : <<e, d>> \notin touched' => DaySound(e, d)'
    BY <1>3, <1>4, TouchDays
  <1> QED
    BY <1>2, <1>5, <1>6, FoundStays DEF AttInv

\* A row written anew by hand, which stays where it was.
LEMMA HandRewrites ==
  ASSUME AttInv, NEW r \in Taken, NEW row \in Row,
         row.emp = att[r].emp, row.day = att[r].day, att' = [att EXCEPT ![r] = row],
         Touch(row.emp, row.day), AttTypeOK',
         \A w \in Workers : import'[w] # None => import'[w] = import[w]
  PROVE  AttInv'
  <1> USE AttendanceAssumption
  <1>1. RowsStay
    BY DEF Taken, RowsStay, AttInv, AttTypeOK
  <1>2. row.emp \in Employees /\ row.day \in Days
    BY DEF Row
  <1>3. ASSUME NEW e \in Employees, NEW d \in Days, <<e, d>> # <<row.emp, row.day>>
        PROVE  SameDay(e, d)
    BY <1>3, Rewritten DEF AttInv
  <1>4. FoundOpen'
    BY DEF Touch, AttInv, FoundOpen
  <1>5. \A e \in Employees, d \in Days : <<e, d>> \notin touched' => DaySound(e, d)'
    BY <1>2, <1>3, TouchDays
  <1> QED
    BY <1>1, <1>4, <1>5, FoundStays DEF AttInv

\* A row deleted by hand.
LEMMA HandRemoves ==
  ASSUME AttInv, NEW r \in Taken, HandRemove(r), AttTypeOK'
  PROVE  AttInv'
  <1> USE AttendanceAssumption
  <1>1. r \in Rows /\ att[r] \in Row /\ att' = [att EXCEPT ![r] = Gone] /\ att \in [Rows -> Row \cup {None, Gone}]
    BY DEF HandRemove, Taken, AttInv, AttTypeOK
  <1>2. RowsStay
    BY <1>1 DEF RowsStay
  <1>3. att[r].emp \in Employees /\ att[r].day \in Days
    BY <1>1 DEF Row
  <1>4. ASSUME NEW e \in Employees, NEW d \in Days, <<e, d>> # <<att[r].emp, att[r].day>>
        PROVE  SameDay(e, d)
    BY <1>1, <1>4 DEF SameDay, DayRows, Taken
  <1>5. FoundOpen' /\ import' = import
    BY DEF HandRemove, Touch, AttInv, FoundOpen
  <1>6. \A e \in Employees, d \in Days : <<e, d>> \notin touched' => DaySound(e, d)'
    BY <1>3, <1>4, TouchDays DEF HandRemove
  <1> QED
    BY <1>2, <1>5, <1>6, FoundStays DEF AttInv

\* The second half of an import writes the day it looked at in the first half, even if the
\* row it found has been rewritten, or deleted, in between.
LEMMA ImportKeeps ==
  ASSUME AttInv, NEW w \in Workers, ImportWrite(w), AttTypeOK'
  PROVE  AttInv'
  <1> DEFINE i == import[w]
             Given(x) == IF i.sheet[x] # None THEN i.sheet[x] ELSE i.row[x]
             new == [emp |-> i.emp, day |-> i.sheet.day, in |-> i.sheet.in, out |-> i.sheet.out]
             row == [att[i.found] EXCEPT !.in = Given("in"), !.out = Given("out")]
  <1> USE AttendanceAssumption
  <1>1. i # None /\ i \in Import /\ i.sheet \in Sheet
    BY DEF ImportWrite, AttInv, AttTypeOK, Import
  <1>2. \A v \in Workers : import'[v] # None => import'[v] = import[v]
    BY DEF ImportWrite, AttInv, AttTypeOK
  <1>3. CASE i.found = None /\ Insert(new) /\ Touch(i.emp, i.sheet.day)
    <2>1. new \in Row /\ new.emp = i.emp /\ new.day = i.sheet.day
      BY <1>1 DEF Import, Sheet, Row
    <2> HIDE DEF new
    <2>2. Touch(new.emp, new.day)
      BY <1>3, <2>1
    <2> QED
      BY <1>2, <1>3, <2>1, <2>2, HandInserts
  <1>4. CASE /\ i.found \in Taken /\ Touch(i.emp, i.sheet.day)
             /\ att' = [att EXCEPT ![i.found].in = Given("in"), ![i.found].out = Given("out")]
    <2>1. /\ i.row \in Row /\ att[i.found] \in Row
          /\ att[i.found].emp = i.emp /\ att[i.found].day = i.sheet.day
      BY <1>1, <1>4 DEF Taken, AttInv, AttTypeOK, FoundOfDay, Import
    <2>2. Given("in") \in Times \cup {None} /\ Given("out") \in Times \cup {None}
      BY <1>1, <2>1 DEF Row, Sheet
    <2>3. row \in Row /\ row.emp = att[i.found].emp /\ row.day = att[i.found].day
      BY <2>1, <2>2 DEF Row
    <2>4. att' = [att EXCEPT ![i.found] = row]
      BY <1>4 DEF AttInv, AttTypeOK, Taken
    <2> HIDE DEF row
    <2>5. Touch(row.emp, row.day)
      BY <1>4, <2>1, <2>3
    <2> QED
      BY <1>2, <1>4, <2>3, <2>4, <2>5, HandRewrites
  <1>5. CASE UNCHANGED <<att, clock, punch, kept, touched>>
    <2>1. RowsStay
      BY <1>5 DEF RowsStay, AttInv, AttTypeOK
    <2>2. FoundOpen' /\ FoundOfDay'
      BY <1>2, <1>5, <2>1, FoundStays DEF AttInv, FoundOpen
    <2>3. \A v \in Workers, e \in Employees, d \in Days : Looking(v, e, d)' => Looking(v, e, d)
      BY <1>5 DEF Looking
    <2> QED
      BY <1>5, <2>2, <2>3, StillDays DEF AttInv
  <1> QED
    BY <1>3, <1>4, <1>5 DEF ImportWrite

\* Every step of the forms and of the imports keeps it.
LEMMA ByHandKeeps ==
  ASSUME AttInv, NEW w \in Workers, ByHand(w)
  PROVE  AttInv'
  <1> USE AttendanceAssumption
  <1>1. AttTypeOK'
    BY ByHandTyped DEF AttInv
  <1>2. ASSUME NEW e \in Employees, NEW s \in Sheets, HandCreate(e, s) PROVE AttInv'
    <2> DEFINE row == [emp |-> e, day |-> s.day, in |-> s.in, out |-> s.out]
    <2>1. row \in Row /\ row.emp = e /\ row.day = s.day
      BY DEF Row, Sheet
    <2>2. Insert(row) /\ Touch(e, s.day) /\ import' = import
      BY <1>2 DEF HandCreate
    <2> HIDE DEF row
    <2>3. Touch(row.emp, row.day)
      BY <2>1, <2>2
    <2> QED
      BY <1>1, <2>1, <2>2, <2>3, HandInserts
  <1>3. ASSUME NEW e \in Employees, NEW s \in Sheets, ImportRead(w, e, s) PROVE AttInv'
    <2>1. PICK r \in IF DayRows(e, s.day) = {} THEN {None} ELSE DayRows(e, s.day) :
            import' = [import EXCEPT ![w] =
              [emp |-> e, sheet |-> s, found |-> r, row |-> IF r = None THEN None ELSE att[r]]]
      BY <1>3 DEF ImportRead
    <2>2. r # None => /\ att[r] # None /\ att[r] # Gone
                      /\ att[r].emp = e /\ att[r].day = s.day
      BY <2>1 DEF DayRows, Taken
    <2>3. \A v \in Workers \ {w} : import'[v] = import[v]
      BY <2>1 DEF AttInv, AttTypeOK
    <2>4. /\ import'[w].found = r /\ import'[w].emp = e /\ import'[w].sheet.day = s.day
      BY <2>1 DEF AttInv, AttTypeOK
    <2>5. att' = att /\ punch' = punch
      BY <1>3 DEF ImportRead
    <2>6. FoundOfDay' /\ FoundOpen'
      BY <2>2, <2>3, <2>4, <2>5 DEF AttInv, FoundOfDay, FoundOpen
    <2>7. \A v \in Workers, f \in Employees, d \in Days : Looking(v, f, d)' => Looking(v, f, d)
      BY <2>5 DEF Looking
    <2>8. \A f \in Employees, d \in Days : <<f, d>> \notin touched' => DaySound(f, d)'
      BY <1>3, <2>7, StillDays DEF ImportRead
    <2> QED
      BY <1>1, <2>6, <2>8 DEF AttInv
  <1>4. ASSUME NEW r \in Taken, HandRemove(r) PROVE AttInv'
    BY <1>1, <1>4, HandRemoves
  <1>5. ASSUME NEW r \in Taken, NEW a \in Amendments, HandUpdate(r, a) PROVE AttInv'
    <2> DEFINE row == Amended(att[r], a)
    <2>1. att[r] \in Row
      BY DEF Taken, AttInv, AttTypeOK
    <2>2. row \in Row /\ row.emp = att[r].emp /\ row.day = att[r].day
      BY <2>1 DEF Amended, Row
    <2>3. /\ att' = [att EXCEPT ![r] = row] /\ import' = import
          /\ Touch(att[r].emp, att[r].day)
      BY <1>5 DEF HandUpdate
    <2> HIDE DEF row
    <2>4. Touch(row.emp, row.day)
      BY <2>2, <2>3
    <2> QED
      BY <1>1, <2>2, <2>3, <2>4, HandRewrites
  <1>6. CASE ImportWrite(w)
    BY <1>1, <1>6, ImportKeeps
  <1>7. CASE ImportAbort(w)
    <2>1. UNCHANGED <<att, clock, punch, kept, touched>>
      BY <1>7 DEF ImportAbort
    <2>2. FoundOpen' /\ FoundOfDay'
      BY <1>7, <2>1 DEF ImportAbort, AttInv, AttTypeOK, FoundOpen, FoundOfDay
    <2>3. \A v \in Workers, e \in Employees, d \in Days : Looking(v, e, d)' => Looking(v, e, d)
      BY <2>1 DEF Looking
    <2> QED
      BY <1>1, <2>1, <2>2, <2>3, StillDays DEF AttInv
  <1> QED
    BY <1>2, <1>3, <1>4, <1>5, <1>6, <1>7 DEF ByHand

\* The passing of time keeps it.
LEMMA TickKeeps ==
  ASSUME AttInv, Tick
  PROVE  AttInv'
  <1>1. clock' \in Times
    BY AttendanceAssumption DEF Tick, Times, AttInv, AttTypeOK
  <1>2. UNCHANGED <<att, punch, import, kept, touched>>
    BY DEF Tick
  <1>3. AttTypeOK' /\ FoundOpen' /\ FoundOfDay'
    BY <1>1, <1>2 DEF AttInv, AttTypeOK, FoundOpen, FoundOfDay
  <1>4. \A v \in Workers, e \in Employees, d \in Days : Looking(v, e, d)' => Looking(v, e, d)
    BY <1>2 DEF Looking
  <1> QED
    BY <1>2, <1>3, <1>4, StillDays DEF AttInv

\* Nothing but these steps happens, so the invariant always holds.
THEOREM AttInvCorrect == AttSpec => []AttInv
  <1>1. AttInv /\ [AttNext]_attVars => AttInv'
    <2> SUFFICES ASSUME AttInv, [AttNext]_attVars PROVE AttInv'
      OBVIOUS
    <2>1. ASSUME NEW w \in Workers, NEW e \in Employees, NEW type \in {"IN", "OUT", None},
                 NEW at \in Times, ClientPunch(w, e, type, at)
          PROVE  AttInv'
      BY <2>1, BeginKeeps DEF ClientPunch
    <2>2. CASE UNCHANGED attVars
      <3>1. UNCHANGED <<att, clock, punch, import, kept, touched>>
        BY <2>2 DEF attVars
      <3>2. AttTypeOK' /\ FoundOpen' /\ FoundOfDay'
        BY <3>1 DEF AttInv, AttTypeOK, FoundOpen, FoundOfDay
      <3>3. \A v \in Workers, e \in Employees, d \in Days : Looking(v, e, d)' => Looking(v, e, d)
        BY <3>1 DEF Looking
      <3> QED
        BY <3>1, <3>2, <3>3, StillDays DEF AttInv
    <2> QED
      BY <2>1, <2>2, PunchingKeeps, ByHandKeeps, TickKeeps DEF AttNext, ClientStep
  <1> QED
    BY <1>1, AttInvStart, PTL DEF AttSpec

-----------------------------------------------------------------------------
(* The time clock                                                          *)

\* A row is booked while it is there and nobody has written its day by hand.
Booked(r) == r \in Taken /\ <<att[r].emp, att[r].day>> \in Untouched

\* Only rows of this day are written, and none comes from another day or moves to one.
OffDay(e, d) ==
  \A r \in Rows : \/ att'[r] = att[r]
                  \/ /\ r \in Taken => att[r].emp = e /\ att[r].day = d
                     /\ r \in Taken' => att'[r].emp = e /\ att'[r].day = d

ClockStep == Clock!Next \/ UNCHANGED <<Book, touched>>

\* What is booked is what the row holds.
LEMMA BookTyped ==
  ASSUME AttTypeOK, NEW r \in Rows
  PROVE  /\ Booked(r) => Book[r] = att[r] /\ att[r] \in Row /\ Book[r] # None
         /\ ~Booked(r) => Book[r] = None
  BY AttendanceAssumption DEF Booked, Book, Taken, AttTypeOK

\* The sessions running on a day are its open rows.
LEMMA RunningIsOpen ==
  ASSUME AttInv, NEW e \in Employees, NEW d \in Days, <<e, d>> \notin touched
  PROVE  Clock!Running(e, d) = OpenRows(e, d)
  <1>1. AttTypeOK /\ DaySound(e, d)
    BY DEF AttInv
  <1>2. ASSUME NEW r \in Clock!Running(e, d) PROVE r \in OpenRows(e, d)
    <2>1. r \in Rows /\ Book[r] # None /\ Book[r].emp = e /\ Book[r].day = d /\ Book[r].out = None
      BY <1>2 DEF Clock!Running, Clock!Of
    <2>2. Booked(r) /\ Book[r] = att[r]
      BY <1>1, <2>1, BookTyped
    <2>3. r \in DayRows(e, d)
      BY <2>1, <2>2 DEF Booked, DayRows
    <2> QED
      BY <1>1, <2>1, <2>2, <2>3 DEF OpenRows, DaySound
  <1>3. ASSUME NEW r \in OpenRows(e, d) PROVE r \in Clock!Running(e, d)
    <2>1. r \in Taken /\ r \in Rows /\ att[r].emp = e /\ att[r].day = d /\ att[r].out = None
      BY <1>3 DEF OpenRows, DayRows, Taken
    <2>2. Booked(r)
      BY <2>1 DEF Booked, Untouched
    <2> QED
      BY <1>1, <2>1, <2>2, BookTyped DEF Clock!Running, Clock!Of
  <1> QED
    BY <1>2, <1>3

\* A step that writes neither rows nor the days touched is none of the clock.
LEMMA ClockStutters == ASSUME UNCHANGED <<att, touched>> PROVE ClockStep
  BY DEF ClockStep, Book, Taken, Untouched

\* A punch in is an arrival on a day nobody wrote by hand, and nothing on another one.
LEMMA ClockIn ==
  ASSUME AttInv, AttTypeOK', NEW w \in Workers, PunchIn(w)
  PROVE  ClockStep
  <1> DEFINE p == punch[w]
             row == [emp |-> p.emp, day |-> Day(p.at), in |-> p.at, out |-> None]
  <1> USE AttendanceAssumption
  <1>1. /\ AttTypeOK /\ p \in Punch /\ touched' = touched
        /\ p.emp \in Employees /\ p.at \in Times /\ Day(p.at) \in Days
    BY DayTyped DEF PunchIn, PunchCommit, Ready, AttInv, AttTypeOK, Punch
  <1>2. PICK r \in Fresh : att' = [att EXCEPT ![r] = row]
    BY DEF PunchIn, Insert
  <1>3. row \in Row /\ row.emp = p.emp /\ row.day = Day(p.at)
    BY <1>1 DEF Row
  <1>4. r \in Rows /\ r \notin Taken /\ att'[r] = row /\ \A s \in Rows \ {r} : att'[s] = att[s]
    BY <1>1, <1>2 DEF Fresh, Taken, AttTypeOK
  <1>5. /\ Book'[r] = IF <<p.emp, Day(p.at)>> \in Untouched THEN row ELSE None
        /\ Book[r] = None /\ \A s \in Rows \ {r} : Book'[s] = Book[s]
    <2> HIDE DEF row
    <2>1. r \in Taken'
      BY <1>3, <1>4 DEF Taken
    <2> QED
      BY <1>1, <1>3, <1>4, <2>1 DEF Book, Taken, Untouched
  <1>6. CASE <<p.emp, Day(p.at)>> \in touched
    <2>1. \A s \in Rows : Book'[s] = Book[s]
      BY <1>5, <1>6 DEF Untouched
    <2>2. Book' = Book
      BY <2>1 DEF Book
    <2> QED
      BY <1>1, <2>2 DEF ClockStep
  <1>7. CASE <<p.emp, Day(p.at)>> \notin touched
    <2>1. Book' = [Book EXCEPT ![r] = row]
      BY <1>1, <1>4, <1>5, <1>7 DEF Book, Untouched
    <2>2. OpenRows(p.emp, Day(p.at)) = {}
      <3>1. DaySound(p.emp, Day(p.at))
        BY <1>1, <1>7 DEF AttInv
      <3> QED
        BY <3>1 DEF DaySound, Looking, PunchIn, Ready, Serialized
    <2>3. Clock!Arrive(p.emp, Day(p.at), p.at)
      BY <1>1, <1>4, <1>5, <1>7, <2>1, <2>2, RunningIsOpen DEF Clock!Arrive
    <2> QED
      BY <1>1, <2>3 DEF ClockStep, Clock!Next
  <1> QED
    BY <1>6, <1>7

\* A punch out is the departure from the session that was running.
LEMMA ClockOut ==
  ASSUME AttInv, AttTypeOK', NEW w \in Workers, PunchOut(w)
  PROVE  ClockStep
  <1> DEFINE p == punch[w]
             r == p.open
             row == [emp |-> p.emp, day |-> Day(p.at), in |-> att[r].in, out |-> p.at]
  <1> USE AttendanceAssumption
  <1>1. /\ AttTypeOK /\ p \in Punch /\ touched' = touched
        /\ p.emp \in Employees /\ p.at \in Times /\ Day(p.at) \in Days
    BY DayTyped DEF PunchOut, PunchCommit, Ready, AttInv, AttTypeOK, Punch
  <1>2. /\ r \in Rows /\ att[r] \in Row /\ att[r] = p.row
        /\ att[r].emp = p.emp /\ att[r].day = Day(p.at) /\ att[r].in # None /\ att[r].out = None
    <2>1. r \in Rows /\ p.row \in Row /\ att[r] = p.row
      BY <1>1 DEF PunchOut, Ready, Serialized, AttTypeOK, Punch
    <2> QED
      BY <1>1, <2>1 DEF AttInv, FoundOpen, PunchOut, Ready
  <1>3. att'[r] = row /\ \A s \in Rows \ {r} : att'[s] = att[s]
    <2>1. /\ att'[r] = [att[r] EXCEPT !.out = p.at]
          /\ \A s \in Rows \ {r} : att'[s] = att[s]
      BY <1>1, <1>2 DEF PunchOut, AttTypeOK
    <2> QED
      BY <1>2, <2>1 DEF Row
  <1>4. row \in Row /\ row.emp = p.emp /\ row.day = Day(p.at)
    BY <1>1, <1>2 DEF Row
  <1>5. r \in Taken
    BY <1>2 DEF Taken
  <1>6. /\ Book'[r] = IF <<p.emp, Day(p.at)>> \in Untouched THEN row ELSE None
        /\ Book[r] = IF <<p.emp, Day(p.at)>> \in Untouched THEN att[r] ELSE None
        /\ \A s \in Rows \ {r} : Book'[s] = Book[s]
    <2> HIDE DEF row, r
    <2>1. r \in Taken'
      BY <1>2, <1>3, <1>4 DEF Taken
    <2> QED
      BY <1>1, <1>2, <1>3, <1>4, <1>5, <2>1 DEF Book, Taken, Untouched
  <1>7. CASE <<p.emp, Day(p.at)>> \in touched
    <2>1. \A s \in Rows : Book'[s] = Book[s]
      BY <1>6, <1>7 DEF Untouched
    <2>2. Book' = Book
      BY <2>1 DEF Book
    <2> QED
      BY <1>1, <2>2 DEF ClockStep
  <1>8. CASE <<p.emp, Day(p.at)>> \notin touched
    <2>1. /\ Book[r] = att[r] /\ Book'[r] = row
          /\ \A s \in Rows \ {r} : Book'[s] = Book[s]
      BY <1>1, <1>6, <1>8 DEF Untouched
    <2>2. Book' = [Book EXCEPT ![r] = row]
      <3> HIDE DEF row, r
      <3> QED
        BY <1>2, <2>1 DEF Book
    <2>3. r \in Clock!Running(p.emp, Day(p.at))
      <3>1. r \in OpenRows(p.emp, Day(p.at))
        BY <1>2, <1>5 DEF OpenRows, DayRows
      <3> QED
        BY <1>1, <1>8, <3>1, RunningIsOpen
    <2>4. Clock!Depart(p.emp, Day(p.at), p.at)
      BY <1>1, <2>1, <2>2, <2>3 DEF Clock!Depart
    <2> QED
      BY <1>1, <2>4 DEF ClockStep, Clock!Next
  <1> QED
    BY <1>7, <1>8

\* What is written by hand is a correction of the day it is written for.
LEMMA ClockCorrected ==
  ASSUME AttInv, NEW e \in Employees, NEW d \in Days, Touch(e, d), OffDay(e, d)
  PROVE  ClockStep
  <1>1. touched' = touched \cup {<<e, d>>}
    BY DEF Touch
  <1>2. ASSUME NEW r \in Rows
        PROVE  Book'[r] = IF r \in Clock!Of(e, d) THEN None ELSE Book[r]
    <2>1. r \in Clock!Of(e, d) <=> Booked(r) /\ att[r].emp = e /\ att[r].day = d
      BY BookTyped DEF Clock!Of, AttInv
    <2>2. Book'[r] = IF Booked(r)' THEN att'[r] ELSE None
      BY DEF Book, Booked
    <2>3. Book[r] = IF Booked(r) THEN att[r] ELSE None
      BY DEF Book, Booked
    <2>4. CASE r \in Taken /\ att[r].emp = e /\ att[r].day = d
      BY <1>1, <2>1, <2>2, <2>3, <2>4 DEF OffDay, Booked, Untouched, Taken
    <2>5. CASE ~(r \in Taken /\ att[r].emp = e /\ att[r].day = d)
      <3>1. CASE att'[r] = att[r]
        BY <1>1, <2>1, <2>2, <2>3, <2>5, <3>1 DEF Booked, Untouched, Taken, AttInv, AttTypeOK
      <3>2. CASE r \notin Taken /\ (r \in Taken' => att'[r].emp = e /\ att'[r].day = d)
        BY <1>1, <2>1, <2>2, <2>3, <3>2 DEF Booked, Untouched
      <3> QED
        BY <2>5, <3>1, <3>2 DEF OffDay
    <2> QED
      BY <2>4, <2>5
  <1>3. Book' = [r \in Rows |-> IF r \in Clock!Of(e, d) THEN None ELSE Book[r]]
    BY <1>2 DEF Book
  <1>4. Clock!Correct(e, d)
    BY <1>1, <1>3 DEF Clock!Correct
  <1> QED
    BY <1>4 DEF ClockStep, Clock!Next

\* So is every step of the forms and of the imports, or it writes nothing.
LEMMA ClockByHand ==
  ASSUME AttInv, NEW w \in Workers, ByHand(w)
  PROVE  ClockStep
  <1> USE AttendanceAssumption
  <1>1. AttTypeOK
    BY DEF AttInv
  <1>2. ASSUME NEW row \in Row, Insert(row), Touch(row.emp, row.day) PROVE ClockStep
    <2>1. PICK r \in Fresh : att' = [att EXCEPT ![r] = row]
      BY <1>2 DEF Insert
    <2>2. OffDay(row.emp, row.day)
      BY <1>1, <2>1 DEF OffDay, Fresh, Taken, AttTypeOK
    <2> QED
      BY <1>2, <2>2, ClockCorrected DEF Row
  <1>3. ASSUME NEW r \in Taken, NEW row \in Row, att' = [att EXCEPT ![r] = row],
               row.emp = att[r].emp, row.day = att[r].day, Touch(row.emp, row.day)
        PROVE  ClockStep
    <2>1. OffDay(row.emp, row.day)
      BY <1>1, <1>3 DEF OffDay, Taken, AttTypeOK
    <2> QED
      BY <1>3, <2>1, ClockCorrected DEF Row
  <1>4. ASSUME NEW e \in Employees, NEW s \in Sheets, HandCreate(e, s) PROVE ClockStep
    <2> DEFINE row == [emp |-> e, day |-> s.day, in |-> s.in, out |-> s.out]
    <2>1. row \in Row /\ row.emp = e /\ row.day = s.day
      BY DEF Row, Sheet
    <2>2. Insert(row) /\ Touch(e, s.day)
      BY <1>4 DEF HandCreate
    <2> HIDE DEF row
    <2> QED
      BY <1>2, <2>1, <2>2
  <1>5. ASSUME NEW r \in Taken, HandRemove(r) PROVE ClockStep
    <2>1. att[r] \in Row /\ Touch(att[r].emp, att[r].day)
      BY <1>1, <1>5 DEF HandRemove, Taken, AttTypeOK
    <2>2. OffDay(att[r].emp, att[r].day)
      BY <1>1, <1>5 DEF HandRemove, OffDay, Taken, AttTypeOK
    <2> QED
      BY <2>1, <2>2, ClockCorrected DEF Row
  <1>6. ASSUME NEW r \in Taken, NEW a \in Amendments, HandUpdate(r, a) PROVE ClockStep
    <2> DEFINE row == Amended(att[r], a)
    <2>1. att[r] \in Row
      BY <1>1 DEF Taken, AttTypeOK
    <2>2. row \in Row /\ row.emp = att[r].emp /\ row.day = att[r].day
      BY <2>1 DEF Amended, Row
    <2>3. att' = [att EXCEPT ![r] = row] /\ Touch(att[r].emp, att[r].day)
      BY <1>6 DEF HandUpdate
    <2> HIDE DEF row
    <2> QED
      BY <1>3, <2>2, <2>3
  <1>7. CASE ImportWrite(w)
    <2> DEFINE i == import[w]
               Given(x) == IF i.sheet[x] # None THEN i.sheet[x] ELSE i.row[x]
               new == [emp |-> i.emp, day |-> i.sheet.day, in |-> i.sheet.in, out |-> i.sheet.out]
               row == [att[i.found] EXCEPT !.in = Given("in"), !.out = Given("out")]
    <2>1. i # None /\ i \in Import /\ i.sheet \in Sheet
      BY <1>1, <1>7 DEF ImportWrite, AttTypeOK, Import
    <2>2. CASE i.found = None /\ Insert(new) /\ Touch(i.emp, i.sheet.day)
      <3>1. new \in Row /\ new.emp = i.emp /\ new.day = i.sheet.day
        BY <2>1 DEF Import, Sheet, Row
      <3> HIDE DEF new
      <3> QED
        BY <1>2, <2>2, <3>1
    <2>3. CASE /\ i.found \in Taken /\ Touch(i.emp, i.sheet.day)
               /\ att' = [att EXCEPT ![i.found].in = Given("in"), ![i.found].out = Given("out")]
      <3>1. /\ i.row \in Row /\ att[i.found] \in Row
            /\ att[i.found].emp = i.emp /\ att[i.found].day = i.sheet.day
        BY <2>1, <2>3 DEF Taken, AttInv, AttTypeOK, FoundOfDay, Import
      <3>2. Given("in") \in Times \cup {None} /\ Given("out") \in Times \cup {None}
        BY <2>1, <3>1 DEF Row, Sheet
      <3>3. row \in Row /\ row.emp = att[i.found].emp /\ row.day = att[i.found].day
        BY <3>1, <3>2 DEF Row
      <3>4. att' = [att EXCEPT ![i.found] = row]
        BY <1>1, <2>3 DEF AttTypeOK, Taken
      <3> HIDE DEF row
      <3> QED
        BY <1>3, <2>3, <3>1, <3>3, <3>4
    <2>4. CASE UNCHANGED <<att, clock, punch, kept, touched>>
      BY <2>4, ClockStutters
    <2> QED
      BY <1>7, <2>2, <2>3, <2>4 DEF ImportWrite
  <1>8. ASSUME NEW e \in Employees, NEW s \in Sheets, ImportRead(w, e, s) PROVE ClockStep
    BY <1>8, ClockStutters DEF ImportRead
  <1>9. CASE ImportAbort(w)
    BY <1>9, ClockStutters DEF ImportAbort
  <1> QED
    BY <1>4, <1>5, <1>6, <1>7, <1>8, <1>9 DEF ByHand

\* A punch under way steps the clock when it commits.
LEMMA ClockPunching ==
  ASSUME AttInv, AttTypeOK', NEW w \in Workers, Punching(w)
  PROVE  ClockStep
  BY ClockIn, ClockOut, ClockStutters
  DEF Punching, PunchRead, PunchIdle, PunchConflict, PunchAbort, PunchEnd, PunchAgain

\* An empty table is an empty book.
LEMMA ClockStart == AttInit => Clock!Init
  BY DEF AttInit, Clock!Init, Book, Taken

\* Every step of Attendance is one of the clock, or none.
LEMMA ClockSteps ==
  ASSUME AttInv, AttTypeOK', [AttNext]_attVars
  PROVE  ClockStep
  <1>1. ASSUME NEW w \in Workers, NEW e \in Employees, NEW type \in {"IN", "OUT", None},
               NEW at \in Times, ClientPunch(w, e, type, at)
        PROVE  ClockStep
    BY <1>1, ClockStutters DEF ClientPunch
  <1>2. CASE Tick \/ UNCHANGED attVars
    BY <1>2, ClockStutters DEF Tick, attVars
  <1> QED
    BY <1>1, <1>2, ClockPunching, ClockByHand DEF AttNext, ClientStep

-----------------------------------------------------------------------------
(* Theorems                                                                *)

\* The rows, the transactions and the imports always have their types.
THEOREM AttTypeCorrect == AttSpec => []AttTypeOK
  <1>1. AttInv => AttTypeOK
    BY DEF AttInv
  <1> QED
    BY <1>1, AttInvCorrect, PTL

\* However the punches of any number of workers race, a day nobody wrote by hand never has
\* two running sessions: punchTransition opens a row only when the day has none open.
THEOREM OneOpenRowCorrect == AttSpec => []OneOpenRow
  <1>1. AttInv => OneOpenRow
    BY DEF AttInv, OneOpenRow, Untouched, DaySound
  <1> QED
    BY <1>1, AttInvCorrect, PTL

\* Nor is a punch of such a day lost or recorded twice: its rows hold as many times as
\* punchTransition committed.
THEOREM PunchesKeptCorrect == AttSpec => []PunchesKept
  <1>1. AttInv => PunchesKept
    BY DEF AttInv, PunchesKept, Untouched, DaySound, Ins, Outs
  <1> QED
    BY <1>1, AttInvCorrect, PTL

\* Attendance implements TimeClock: of a day nobody wrote by hand, its rows are the sessions
\* of an employee who arrives and departs in turn, through every race of the punches.
THEOREM KeepsTimeCorrect == AttSpec => KeepsTime
  <1>1. AttInv /\ AttInv' /\ [AttNext]_attVars => [Clock!Next]_<<Book, touched>>
    BY ClockSteps DEF AttInv, ClockStep
  <1>2. AttSpec => Clock!Init /\ [][Clock!Next]_<<Book, touched>>
    BY <1>1, ClockStart, AttInvCorrect, PTL DEF AttSpec
  <1> QED
    BY <1>2 DEF KeepsTime, Clock!Spec

=============================================================================
