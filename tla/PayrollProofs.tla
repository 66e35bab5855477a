---------------------------- MODULE PayrollProofs ----------------------------
(***************************************************************************)
(* Proofs about Payroll, for any number of periods, runs, records, loans   *)
(* and syncs, and for any number of failures and overlaps.                 *)
(***************************************************************************)
EXTENDS Payroll, TLAPS, FiniteSetTheorems, SequenceTheorems

\* What a sync was told of a run or a period is a status that one may have; a run it was told
\* is completed is.
TodoFits(todo) ==
  \A n \in 1 .. Len(todo) :
    LET e == todo[n] IN
    /\ e.id \in Runs => e.status \in TheirRun
    /\ e.id \in Runs /\ e.status = "COMPLETED" => their[e.id] = "COMPLETED"

\* The same, told of the next state, for a list of this one.
TodoWillFit(todo) ==
  \A n \in 1 .. Len(todo) :
    LET e == todo[n] IN
    /\ e.id \in Runs => e.status \in TheirRun
    /\ e.id \in Runs /\ e.status = "COMPLETED" => their'[e.id] = "COMPLETED"

\* Each statement has an entry of its kind at hand, and the rows it works on are that entry's.
StageFits(w) ==
  LET j == job[w]
      e == Head(j.todo)
  IN
  /\ j.pc # "idle" => j.todo # <<>>
  /\ j.pc = "period" => e.id \in Periods /\ j.prev \in TheirPeriod \cup {None}
  /\ j.pc \in {"run", "posted", "settle"} => e.id \in Runs
  /\ j.pc \in {"posted", "settle"} => e.status = "COMPLETED"
  /\ j.pc \in {"run", "posted"} => j.row = 0 \/ (j.row \in DOMAIN run /\ run[j.row].ext = e.id)
  /\ j.pc = "settle" => \A b \in j.emps : \E x \in Records : RunOf[x] = e.id /\ EmployeeOf[x] = b
  /\ j.pc \in {"create", "clear", "lines", "payslip"} => e.id \in Records
  /\ j.pc = "create" => j.row \in DOMAIN run /\ run[j.row].ext = RunOf[e.id]
  /\ j.pc \in {"clear", "lines", "payslip"} => j.row \in DOMAIN item

Fits(w) == TodoFits(job[w].todo) /\ StageFits(w)

ItemsPlaced ==
  \A m \in DOMAIN item : /\ item[m].run \in DOMAIN run
                         /\ run[item[m].run].ext = RunOf[item[m].ext]

TheirTyped ==
  /\ \A r \in Runs : their[r] \in TheirRun
  /\ \A p \in Periods : their[p] \in TheirPeriod

\* The strengthening of TypeOK that every step keeps.
TypeInv ==
  /\ TypeOK
  /\ TheirTyped
  /\ ItemsPlaced
  /\ \A w \in Syncs : Fits(w)

\* No step takes a row away or moves it, and lgu-payroll reopens nothing it completed.
RunsKept == \A k \in DOMAIN run : k \in DOMAIN run' /\ run'[k].ext = run[k].ext
ItemsKept == \A m \in DOMAIN item : m \in DOMAIN item'
TheirKept == \A r \in Runs : their[r] = "COMPLETED" => their'[r] = "COMPLETED"

-----------------------------------------------------------------------------
(* Local states                                                            *)

\* A sync that does nothing has its type.
LEMMA IdleTyped == Idle \in Job
  <1>1. <<>> \in Seq(Entry)
    BY EmptySeq
  <1> QED
    BY <1>1 DEF Idle, Job

\* So has one that takes up the next entry of a list.
LEMMA TakingTyped ==
  ASSUME NEW todo \in Seq(Entry)
  PROVE  Taking(todo) \in Job
  BY IdleTyped DEF Taking, Idle, Job

\* A sync that does not move still fits after any step.
LEMMA FitStays ==
  ASSUME TypeInv, NEW v \in Syncs, job'[v] = job[v], RunsKept, ItemsKept, TheirKept
  PROVE  Fits(v)'
  <1>1. Fits(v) /\ job[v] \in Job
    BY DEF TypeInv, TypeOK
  <1>2. TodoFits(job[v].todo)'
    <2> SUFFICES ASSUME NEW n \in 1 .. Len(job[v].todo)
                 PROVE  LET e == job[v].todo[n] IN
                        /\ e.id \in Runs => e.status \in TheirRun
                        /\ e.id \in Runs /\ e.status = "COMPLETED" => their'[e.id] = "COMPLETED"
      BY DEF TodoFits
    <2> QED
      BY <1>1 DEF Fits, TodoFits, TheirKept
  <1>3. StageFits(v)'
    BY <1>1 DEF Fits, StageFits, RunsKept, ItemsKept
  <1> QED
    BY <1>2, <1>3 DEF Fits

\* A sync that goes on to its next entry, if there is one.
LEMMA SkipFits ==
  ASSUME TypeInv, NEW w \in Syncs, Skip(w), job[w].pc # "idle", RunsKept, ItemsKept, TheirKept
  PROVE  /\ job' \in [Syncs -> Job]
         /\ \A v \in Syncs : Fits(v)'
  <1>1. Fits(w) /\ job \in [Syncs -> Job] /\ job[w].todo \in Seq(Entry) /\ job[w].todo # <<>>
    BY DEF TypeInv, TypeOK, Job, Fits, StageFits
  <1> DEFINE todo == Tail(job[w].todo)
  <1>2. /\ todo \in Seq(Entry) /\ Len(todo) = Len(job[w].todo) - 1
        /\ \A n \in 1 .. Len(todo) : todo[n] = job[w].todo[n + 1]
    BY <1>1, HeadTailProperties
  <1>3. job' = [job EXCEPT ![w] = Taking(todo)]
    BY DEF Skip
  <1>4. TodoWillFit(todo)
    <2> SUFFICES ASSUME NEW n \in 1 .. Len(todo)
                 PROVE  LET e == todo[n] IN
                        /\ e.id \in Runs => e.status \in TheirRun
                        /\ e.id \in Runs /\ e.status = "COMPLETED" => their'[e.id] = "COMPLETED"
      BY DEF TodoWillFit
    <2>1. n + 1 \in 1 .. Len(job[w].todo) /\ todo[n] = job[w].todo[n + 1]
      BY <1>1, <1>2, LenProperties
    <2> QED
      BY <1>1, <2>1 DEF Fits, TodoFits, TheirKept
  <1> HIDE DEF todo
  <1>5. Taking(todo) \in Job
    BY <1>2, TakingTyped
  <1>6. job' \in [Syncs -> Job]
    BY <1>1, <1>3, <1>5
  <1>7. job'[w] = Taking(todo)
    BY <1>1, <1>3
  <1>8. Fits(w)'
    <2>1. CASE todo = <<>>
      <3>1. job'[w] = Idle
        BY <1>7, <2>1 DEF Taking
      <3>2. job'[w].pc = "idle" /\ job'[w].todo = <<>>
        BY <3>1 DEF Idle
      <3>3. TodoFits(job[w].todo)'
        BY <3>2, EmptySeq DEF TodoFits
      <3> QED
        BY <3>2, <3>3 DEF Fits, StageFits
    <2>2. CASE todo # <<>>
      <3>1. job'[w].pc = "next" /\ job'[w].todo = todo
        BY <1>7, <2>2 DEF Taking, Idle
      <3>2. TodoFits(job[w].todo)'
        BY <1>4, <3>1 DEF TodoFits, TodoWillFit
      <3> QED
        BY <2>2, <3>1, <3>2 DEF Fits, StageFits
    <2> QED
      BY <2>1, <2>2
  <1>9. ASSUME NEW v \in Syncs, v # w PROVE Fits(v)'
    <2>1. job'[v] = job[v]
      BY <1>1, <1>3, <1>9
    <2> QED
      BY <2>1, FitStays
  <1> QED
    BY <1>6, <1>8, <1>9

\* A sync that goes on with the entry it has: the new stage has to fit.
LEMMA GotoFits ==
  ASSUME TypeInv, NEW w \in Syncs, job[w].pc # "idle",
         NEW pc, NEW row \in Nat, NEW prev, NEW emps \in SUBSET Employees,
         Goto(w, pc, row, prev, emps),
         pc \in {"period", "run", "posted", "settle", "create", "clear", "lines", "payslip"},
         prev \in RunStatus \cup TheirPeriod \cup {None},
         StageFits(w)', RunsKept, ItemsKept, TheirKept
  PROVE  /\ job' \in [Syncs -> Job]
         /\ \A v \in Syncs : Fits(v)'
  <1>1. Fits(w) /\ job \in [Syncs -> Job] /\ job[w].todo \in Seq(Entry)
    BY DEF TypeInv, TypeOK, Job
  <1> DEFINE new == [pc |-> pc, todo |-> job[w].todo, row |-> row, prev |-> prev, emps |-> emps]
  <1>2. job' = [job EXCEPT ![w] = new]
    BY <1>1 DEF Goto
  <1>3. new \in Job /\ new.todo = job[w].todo
    BY <1>1 DEF Job
  <1> HIDE DEF new
  <1>4. job' \in [Syncs -> Job]
    BY <1>1, <1>2, <1>3
  <1>5. Fits(w)'
    <2>1. job'[w].todo = job[w].todo
      BY <1>1, <1>2, <1>3
    <2>2. TodoFits(job[w].todo)'
      <3> SUFFICES ASSUME NEW n \in 1 .. Len(job[w].todo)
                   PROVE  LET e == job[w].todo[n] IN
                          /\ e.id \in Runs => e.status \in TheirRun
                          /\ e.id \in Runs /\ e.status = "COMPLETED" => their'[e.id] = "COMPLETED"
        BY <2>1 DEF TodoFits
      <3> QED
        BY <1>1 DEF Fits, TodoFits, TheirKept
    <2> QED
      BY <2>2 DEF Fits
  <1>6. ASSUME NEW v \in Syncs, v # w PROVE Fits(v)'
    <2>1. job'[v] = job[v]
      BY <1>1, <1>2, <1>6
    <2> QED
      BY <2>1, FitStays
  <1> QED
    BY <1>4, <1>5, <1>6


-----------------------------------------------------------------------------
(* Types                                                                   *)

\* What lgu-payroll answers with is a list of entries that fit.
LEMMA ChangesTyped ==
  ASSUME TypeInv, NEW ids \in SUBSET Ids, IsFiniteSet(ids), NEW todo \in Changes(ids)
  PROVE  todo \in Seq(Entry) /\ TodoFits(todo)
  <1> DEFINE entry(e) == [id |-> e, status |-> IF e \in Records THEN their[RunOf[e]] ELSE their[e]]
  <1>1. PICK s \in [1 .. Cardinality(ids) -> ids] : todo = [n \in DOMAIN s |-> entry(s[n])]
    BY DEF Changes
  <1>2. Cardinality(ids) \in Nat /\ DOMAIN s = 1 .. Cardinality(ids)
    BY <1>1, FS_CardinalityType
  <1>3. ASSUME NEW e \in Ids
        PROVE  /\ entry(e) \in Entry
               /\ e \in Runs => entry(e).status \in TheirRun
               /\ e \in Runs => entry(e).status = their[e]
    BY PayrollAssumption DEF Entry, Ids, TypeInv, TheirTyped
  <1> HIDE DEF entry
  <1>4. \A n \in 1 .. Cardinality(ids) : todo[n] = entry(s[n]) /\ s[n] \in Ids
    BY <1>1, <1>2
  <1>5. todo \in [1 .. Cardinality(ids) -> Entry]
    BY <1>1, <1>2, <1>3, <1>4
  <1>6. todo \in Seq(Entry) /\ Len(todo) = Cardinality(ids)
    BY <1>2, <1>5
  <1>7. \A e \in Ids : entry(e).id = e
    BY DEF entry
  <1>8. ASSUME NEW n \in 1 .. Len(todo)
        PROVE  /\ todo[n].id \in Runs => todo[n].status \in TheirRun
               /\ todo[n].id \in Runs /\ todo[n].status = "COMPLETED" => their[todo[n].id] = "COMPLETED"
    <2>1. todo[n] = entry(s[n]) /\ s[n] \in Ids /\ todo[n].id = s[n]
      BY <1>4, <1>6, <1>7
    <2> QED
      BY <1>3, <2>1
  <1> QED
    BY <1>6, <1>8 DEF TodoFits

\* A sync starts with such a list.
LEMMA FetchTyped ==
  ASSUME TypeInv, NEW w \in Syncs, Fetch(w)
  PROVE  TypeInv'
  <1>1. PICK asked \in Answers :
          /\ \E todo \in Changes({e \in asked : e \in Records => Computed(e)}) :
               job' = [job EXCEPT ![w] = Taking(todo)]
          /\ crossed' = crossed \cup ((asked \ Periods) \cap UNION {InHand(v) : v \in Syncs \ {w}})
    BY DEF Fetch
  <1> DEFINE ids == {e \in asked : e \in Records => Computed(e)}
  <1>2. asked \in SUBSET Ids /\ IsFiniteSet(asked)
    BY PayrollAssumption
  <1>3. ids \in SUBSET Ids /\ IsFiniteSet(ids)
    BY <1>2, FS_Subset
  <1> HIDE DEF ids
  <1>4. PICK todo \in Changes(ids) : job' = [job EXCEPT ![w] = Taking(todo)]
    BY <1>1 DEF ids
  <1>5. todo \in Seq(Entry) /\ TodoFits(todo)
    BY <1>3, ChangesTyped
  <1>6. Taking(todo) \in Job
    BY <1>5, TakingTyped
  <1>7. job' \in [Syncs -> Job] /\ job'[w] = Taking(todo)
    BY <1>4, <1>6 DEF TypeInv, TypeOK
  <1>8. crossed' \subseteq Runs \cup Records
    BY <1>1, <1>2 DEF Ids, TypeInv, TypeOK
  <1>9. overlaps' \in 0 .. MaxOverlaps
    BY PayrollAssumption DEF Fetch, TypeInv, TypeOK
  <1>10. TypeOK'
    BY <1>7, <1>8, <1>9 DEF Fetch, mirror, TypeInv, TypeOK
  <1>11. Fits(w)'
    <2>1. CASE todo = <<>>
      <3>1. job'[w].pc = "idle" /\ job'[w].todo = <<>>
        BY <1>7, <2>1 DEF Taking, Idle
      <3>2. TodoFits(job[w].todo)'
        BY <3>1, EmptySeq DEF TodoFits
      <3> QED
        BY <3>1, <3>2 DEF Fits, StageFits
    <2>2. CASE todo # <<>>
      <3>1. job'[w].pc = "next" /\ job'[w].todo = todo
        BY <1>7, <2>2 DEF Taking, Idle
      <3>2. their' = their
        BY DEF Fetch
      <3>3. TodoFits(job[w].todo)'
        BY <1>5, <3>1, <3>2 DEF TodoFits
      <3> QED
        BY <2>2, <3>1, <3>3 DEF Fits, StageFits
    <2> QED
      BY <2>1, <2>2
  <1>12. RunsKept /\ ItemsKept /\ TheirKept
    BY DEF Fetch, mirror, RunsKept, ItemsKept, TheirKept
  <1>13. ASSUME NEW v \in Syncs, v # w PROVE Fits(v)'
    <2>1. job'[v] = job[v]
      BY <1>4, <1>13 DEF TypeInv, TypeOK
    <2> QED
      BY <1>12, <2>1, FitStays
  <1> QED
    BY <1>10, <1>11, <1>13 DEF Fetch, mirror, TypeInv, TheirTyped, ItemsPlaced

\* An entry at hand is an entry.
LEMMA CurrentTyped ==
  ASSUME TypeInv, NEW w \in Syncs, job[w].pc # "idle"
  PROVE  /\ job[w] \in Job /\ Current(w) \in Entry
         /\ Current(w).id \in Runs => Current(w).status \in TheirRun
         /\ Current(w).id \in Runs /\ Current(w).status = "COMPLETED"
              => their[Current(w).id] = "COMPLETED"
  <1>1. job[w] \in Job /\ job[w].todo \in Seq(Entry) /\ job[w].todo # <<>> /\ TodoFits(job[w].todo)
    BY DEF TypeInv, TypeOK, Job, Fits, StageFits
  <1>2. Current(w) = job[w].todo[1] /\ 1 \in 1 .. Len(job[w].todo)
    BY <1>1, EmptySeq DEF Current
  <1> QED
    BY <1>1, <1>2, ElementOfSeq DEF TodoFits

\* A statement that writes no table goes on with its entry or gives it up.
LEMMA ReadTyped ==
  ASSUME TypeInv, NEW w \in Syncs,
         Refuse(w) \/ FindPeriod(w) \/ FindRun(w) \/ ReadItems(w) \/ FindItem(w)
  PROVE  TypeInv'
  <1> USE PayrollAssumption
  <1>0. RunsKept /\ ItemsKept /\ TheirKept
    BY DEF Refuse, FindPeriod, FindRun, ReadItems, FindItem, mirror, RunsKept, ItemsKept, TheirKept
  <1>1. job[w].pc # "idle"
    BY DEF Refuse, FindPeriod, FindRun, ReadItems, FindItem, Entered
  <1>2. job[w] \in Job /\ Current(w) \in Entry /\ job \in [Syncs -> Job] /\ job[w].row \in Nat
    BY <1>1, CurrentTyped DEF Job, TypeInv, TypeOK
  <1>3. SUFFICES job' \in [Syncs -> Job] /\ \A v \in Syncs : Fits(v)'
    BY DEF Refuse, FindPeriod, FindRun, ReadItems, FindItem, mirror, history, TypeInv, TypeOK,
           TheirTyped, ItemsPlaced
  <1>4. CASE Refuse(w)
    BY <1>0, <1>1, <1>4, SkipFits DEF Refuse
  <1>5. CASE FindPeriod(w)
    <2> DEFINE rows == period[Current(w).id]
    <2>1. Current(w).id \in Periods /\ rows \in Seq(TheirPeriod)
      BY <1>5 DEF FindPeriod, Entered, Current, TypeInv, TypeOK
    <2>2. \E k \in Nat, prev \in TheirPeriod \cup {None} : Goto(w, "period", k, prev, {})
      <3>1. CASE Goto(w, "period", 0, None, {})
        BY <3>1
      <3>2. ASSUME NEW k \in DOMAIN rows, Goto(w, "period", k, rows[k], {})
            PROVE  \E n \in Nat, prev \in TheirPeriod \cup {None} : Goto(w, "period", n, prev, {})
        <4>1. k \in Nat /\ rows[k] \in TheirPeriod
          BY <2>1, <3>2, LenProperties, ElementOfSeq
        <4> QED
          BY <3>2, <4>1
      <3> QED
        BY <1>5, <3>1, <3>2 DEF FindPeriod
    <2>3. PICK k \in Nat, prev \in TheirPeriod \cup {None} : Goto(w, "period", k, prev, {})
      BY <2>2
    <2>4. /\ job'[w].pc = "period" /\ job'[w].todo = job[w].todo
          /\ job'[w].prev = prev
      BY <1>2, <2>3 DEF Goto
    <2>5. StageFits(w)'
      BY <1>1, <2>1, <2>3, <2>4 DEF StageFits, Current, Fits, TypeInv
    <2> QED
      BY <1>0, <1>1, <2>3, <2>5, GotoFits
  <1>6. CASE FindRun(w)
    <2>1. Current(w).id \in Runs /\ run' = run /\ run \in Seq(RunRow)
      BY <1>6 DEF FindRun, Entered, Current, mirror, TypeInv, TypeOK
    <2>2. CASE Goto(w, "run", 0, None, {})
      <3>1. StageFits(w)'
        BY <1>1, <1>2, <2>1, <2>2 DEF StageFits, Goto, Current, Fits, TypeInv, Job
      <3> QED
        BY <1>0, <1>1, <2>2, <3>1, GotoFits
    <2>3. ASSUME NEW k \in RunsOf(Current(w).id), Goto(w, "run", k, run[k].status, {})
          PROVE  job' \in [Syncs -> Job] /\ \A v \in Syncs : Fits(v)'
      <3>1. k \in DOMAIN run /\ run[k].ext = Current(w).id /\ k \in Nat /\ run[k] \in RunRow
        BY <2>1, <2>3, LenProperties DEF RunsOf
      <3>2. run[k].status \in RunStatus
        BY <3>1 DEF RunRow
      <3>3. StageFits(w)'
        BY <1>1, <1>2, <2>1, <2>3, <3>1 DEF StageFits, Goto, Current, Fits, TypeInv, Job
      <3> QED
        BY <1>0, <1>1, <2>3, <3>1, <3>2, <3>3, GotoFits
    <2> QED
      BY <1>6, <2>2, <2>3 DEF FindRun
  <1>7. CASE ReadItems(w)
    <2>1. PICK k \in IF job[w].row = 0 THEN RunsOf(Current(w).id) ELSE {job[w].row} :
            Goto(w, "settle", k, None,
                 {EmployeeOf[item[m].ext] : m \in {m \in DOMAIN item : item[m].run = k}})
      BY <1>7 DEF ReadItems
    <2> DEFINE emps == {EmployeeOf[item[m].ext] : m \in {m \in DOMAIN item : item[m].run = k}}
    <2>2. /\ Current(w).id \in Runs /\ Current(w).status = "COMPLETED"
          /\ k \in DOMAIN run /\ run[k].ext = Current(w).id
      BY <1>7, <2>1 DEF ReadItems, RunsOf, Current, TypeInv, Fits, StageFits
    <2>3. k \in Nat
      BY <2>2, LenProperties DEF TypeInv, TypeOK
    <2>4. ASSUME NEW m \in DOMAIN item, item[m].run = k
          PROVE  item[m].ext \in Records /\ RunOf[item[m].ext] = Current(w).id
      <3>1. item[m] \in ItemRow
        BY LenProperties DEF TypeInv, TypeOK
      <3> QED
        BY <2>2, <2>4, <3>1 DEF TypeInv, ItemsPlaced, ItemRow
    <2>5. /\ emps \in SUBSET Employees
          /\ \A b \in emps : \E x \in Records : RunOf[x] = Current(w).id /\ EmployeeOf[x] = b
      BY <2>4
    <2>6. Goto(w, "settle", k, None, emps)
      BY <2>1
    <2> HIDE DEF emps
    <2>7. StageFits(w)'
      BY <1>1, <1>2, <2>2, <2>5, <2>6 DEF StageFits, Goto, Current, Fits, TypeInv, Job
    <2> QED
      BY <1>0, <1>1, <2>3, <2>5, <2>6, <2>7, GotoFits
  <1>8. CASE FindItem(w)
    <2>1. Current(w).id \in Records /\ run' = run /\ item' = item /\ run \in Seq(RunRow) /\ item \in Seq(ItemRow)
      BY <1>8 DEF FindItem, Entered, Current, mirror, TypeInv, TypeOK
    <2>2. ASSUME NEW k \in RunsOf(RunOf[Current(w).id]), Goto(w, "create", k, None, {})
          PROVE  job' \in [Syncs -> Job] /\ \A v \in Syncs : Fits(v)'
      <3>1. k \in DOMAIN run /\ run[k].ext = RunOf[Current(w).id] /\ k \in Nat
        BY <2>1, <2>2, LenProperties DEF RunsOf
      <3>2. StageFits(w)'
        BY <1>1, <1>2, <2>1, <2>2, <3>1 DEF StageFits, Goto, Current, Fits, TypeInv, Job
      <3> QED
        BY <1>0, <1>1, <2>2, <3>1, <3>2, GotoFits
    <2>3. ASSUME NEW m \in ItemsOf(Current(w).id), Goto(w, "clear", m, None, {})
          PROVE  job' \in [Syncs -> Job] /\ \A v \in Syncs : Fits(v)'
      <3>1. m \in DOMAIN item /\ m \in Nat
        BY <2>1, <2>3, LenProperties DEF ItemsOf
      <3>2. StageFits(w)'
        BY <1>1, <1>2, <2>1, <2>3, <3>1 DEF StageFits, Goto, Current, Fits, TypeInv, Job
      <3> QED
        BY <1>0, <1>1, <2>3, <3>1, <3>2, GotoFits
    <2> QED
      BY <1>8, <2>2, <2>3 DEF FindItem
  <1> QED
    BY <1>4, <1>5, <1>6, <1>7, <1>8

\* A changed element leaves a sequence of its set.
LEMMA ChangedSeq ==
  ASSUME NEW S, NEW s \in Seq(S), NEW x \in S, NEW k
  PROVE  [s EXCEPT ![k] = x] \in Seq(S)
  <1>1. Len(s) \in Nat /\ s \in [1 .. Len(s) -> S]
    BY LenProperties
  <1>2. [s EXCEPT ![k] = x] \in [1 .. Len(s) -> S]
    BY <1>1
  <1> QED
    BY <1>1, <1>2, SeqDef

\* A statement that writes a table leaves rows in it.
LEMMA WriteTyped ==
  ASSUME TypeInv, NEW w \in Syncs, WritePeriod(w) \/ WriteRun(w) \/ Settle(w)
  PROVE  TypeInv'
  <1> USE PayrollAssumption
  <1>1. job[w].pc # "idle"
    BY DEF WritePeriod, WriteRun, Settle
  <1>2. job[w] \in Job /\ Current(w) \in Entry /\ job \in [Syncs -> Job] /\ job[w].row \in Nat
        /\ StageFits(w)
    BY <1>1, CurrentTyped DEF Job, TypeInv, TypeOK, Fits
  <1>3. CASE WritePeriod(w)
    <2>1. RunsKept /\ ItemsKept /\ TheirKept
      BY <1>3 DEF WritePeriod, RunsKept, ItemsKept, TheirKept
    <2>2. Skip(w)
      BY <1>3 DEF WritePeriod
    <2>3. job[w].prev \in TheirPeriod \cup {None} /\ Current(w).id \in Periods
      BY <1>2, <1>3 DEF WritePeriod, StageFits, Current
    <2>4. period' \in [Periods -> Seq(TheirPeriod)]
      <3> DEFINE p == Current(w).id
                 new == IF Current(w).status = "CLOSED" THEN "CLOSED" ELSE job[w].prev
      <3>1. period \in [Periods -> Seq(TheirPeriod)] /\ p \in Periods
        BY <2>3 DEF TypeInv, TypeOK
      <3>2. CASE job[w].prev # None
        <4>1. new \in TheirPeriod
          BY <2>3, <3>2 DEF TheirPeriod
        <4>2. period' = [period EXCEPT ![p] = [@ EXCEPT ![job[w].row] = new]]
          BY <1>3, <3>2 DEF WritePeriod
        <4>3. [period[p] EXCEPT ![job[w].row] = new] \in Seq(TheirPeriod)
          <5> HIDE DEF new, p
          <5> QED
            BY <3>1, <4>1, ChangedSeq
        <4> QED
          BY <3>1, <4>2, <4>3
      <3>3. CASE job[w].prev = None
        <4>1. Append(period[p], "OPEN") \in Seq(TheirPeriod)
          BY <3>1, AppendProperties DEF TheirPeriod
        <4> QED
          BY <1>3, <3>1, <3>3, <4>1 DEF WritePeriod
      <3> QED
        BY <3>2, <3>3
    <2>5. job' \in [Syncs -> Job] /\ \A v \in Syncs : Fits(v)'
      BY <1>1, <2>1, <2>2, SkipFits
    <2> QED
      BY <1>3, <2>4, <2>5 DEF WritePeriod, history, TypeInv, TypeOK, TheirTyped, ItemsPlaced
  <1>4. CASE Settle(w)
    <2>1. RunsKept /\ ItemsKept /\ TheirKept
      BY <1>4 DEF Settle, RunsKept, ItemsKept, TheirKept
    <2>2. Skip(w)
      BY <1>4 DEF Settle
    <2>3. inst' \in [Installments -> Life]
      BY <1>4 DEF Settle, Life, TypeInv, TypeOK
    <2>4. posted' \in [Runs -> 0 .. 2]
      <3>1. \A n \in 0 .. 2 : (IF n = 2 THEN 2 ELSE n + 1) \in 0 .. 2
        OBVIOUS
      <3> QED
        BY <1>4, <3>1 DEF Settle, TypeInv, TypeOK
    <2>5. job' \in [Syncs -> Job] /\ \A v \in Syncs : Fits(v)'
      BY <1>1, <2>1, <2>2, SkipFits
    <2> QED
      BY <1>4, <2>3, <2>4, <2>5 DEF Settle, TypeInv, TypeOK, TheirTyped, ItemsPlaced
  <1>5. CASE WriteRun(w)
    <2> DEFINE mapped == mapLguPayrollStatus(Current(w).status)
    <2>1. Current(w).id \in Runs /\ Current(w).status \in TheirRun
      BY <1>1, <1>2, <1>5, CurrentTyped DEF WriteRun, StageFits, Current
    <2>2. mapped \in RunStatus /\ (mapped = "POSTED" => Current(w).status = "COMPLETED")
      BY <2>1 DEF mapLguPayrollStatus, TheirRun, RunStatus
    <2> HIDE DEF mapped
    <2>3. run' = IF job[w].row = 0 THEN Append(run, [ext |-> Current(w).id, status |-> mapped])
                 ELSE [run EXCEPT ![job[w].row].status = mapped]
      BY <1>5 DEF WriteRun, mapped
    <2>4. run \in Seq(RunRow)
      BY DEF TypeInv, TypeOK
    <2>5. run' \in Seq(RunRow) /\ RunsKept
      <3>1. CASE job[w].row = 0
        <4> DEFINE new == [ext |-> Current(w).id, status |-> mapped]
        <4>1. new \in RunRow
          BY <2>1, <2>2 DEF RunRow
        <4>2. run' = Append(run, new)
          BY <2>3, <3>1
        <4> HIDE DEF new
        <4> QED
          BY <2>4, <4>1, <4>2, AppendProperties, LenProperties DEF RunsKept
      <3>2. CASE job[w].row # 0
        <4> DEFINE k == job[w].row
                   new == [run[k] EXCEPT !.status = mapped]
        <4>1. k \in 1 .. Len(run) /\ run[k] \in RunRow
          BY <1>2, <1>5, <2>4, <3>2, LenProperties DEF WriteRun, StageFits
        <4>2. new \in RunRow /\ new.ext = run[k].ext
          BY <2>2, <4>1 DEF RunRow
        <4>3. run' = [run EXCEPT ![k] = new]
          BY <2>3, <3>2, <4>1
        <4> HIDE DEF new, k
        <4>4. /\ run' \in Seq(RunRow) /\ Len(run') = Len(run)
              /\ \A n \in 1 .. Len(run) : run'[n] = IF n = k THEN new ELSE run[n]
          BY <2>4, <4>1, <4>2, <4>3, ExceptSeq
        <4> QED
          BY <2>4, <4>1, <4>2, <4>4, LenProperties DEF RunsKept
      <3> QED
        BY <3>1, <3>2
    <2>6. ItemsKept /\ TheirKept
      BY <1>5 DEF WriteRun, ItemsKept, TheirKept
    <2>7. job' \in [Syncs -> Job] /\ \A v \in Syncs : Fits(v)'
      <3>1. CASE Skip(w)
        BY <1>1, <2>5, <2>6, <3>1, SkipFits
      <3>2. CASE Goto(w, "posted", job[w].row, None, {}) /\ mapped = "POSTED"
        <4>1. /\ job'[w].pc = "posted" /\ job'[w].todo = job[w].todo /\ job'[w].row = job[w].row
          BY <1>2, <3>2 DEF Goto
        <4>2. job[w].row = 0 \/ (job[w].row \in DOMAIN run' /\ run'[job[w].row].ext = Current(w).id)
          BY <1>2, <1>5, <2>5 DEF WriteRun, StageFits, Current, RunsKept
        <4>3. StageFits(w)'
          BY <1>1, <1>2, <2>1, <2>2, <3>2, <4>1, <4>2 DEF StageFits, Current
        <4> QED
          BY <1>1, <1>2, <2>5, <2>6, <3>2, <4>3, GotoFits
      <3> QED
        BY <1>5, <3>1, <3>2 DEF WriteRun, mapped
    <2>8. ItemsPlaced'
      BY <1>5, <2>5 DEF WriteRun, RunsKept, ItemsPlaced, TypeInv
    <2> QED
      BY <1>5, <2>5, <2>7, <2>8 DEF WriteRun, history, TypeInv, TypeOK, TheirTyped
  <1> QED
    BY <1>3, <1>4, <1>5

\* So does one that writes an item, its lines or its payslip.
LEMMA RecordTyped ==
  ASSUME TypeInv, NEW w \in Syncs,
         CreateItem(w) \/ ClearLines(w) \/ WriteLines(w) \/ WritePayslip(w)
  PROVE  TypeInv'
  <1> USE PayrollAssumption
  <1> DEFINE x == Current(w).id
             m == job[w].row
  <1>1. job[w].pc # "idle"
    BY DEF CreateItem, ClearLines, WriteLines, WritePayslip
  <1>2. job[w] \in Job /\ job \in [Syncs -> Job] /\ m \in Nat /\ StageFits(w) /\ x \in Records
    BY <1>1, CurrentTyped DEF Job, TypeInv, TypeOK, Fits, StageFits, Current,
                              CreateItem, ClearLines, WriteLines, WritePayslip
  <1>3. item \in Seq(ItemRow) /\ run \in Seq(RunRow)
    BY DEF TypeInv, TypeOK
  <1>4. RunsKept /\ TheirKept
    BY DEF CreateItem, ClearLines, WriteLines, WritePayslip, RunsKept, TheirKept
  <1>5. CASE CreateItem(w)
    <2> DEFINE new == [ext |-> x, run |-> m, lines |-> 0, payslip |-> FALSE]
    <2>1. m \in DOMAIN run /\ run[m].ext = RunOf[x]
      BY <1>2, <1>5 DEF CreateItem, StageFits, Current
    <2>2. new \in ItemRow /\ new.run = m /\ new.ext = x
      BY <1>2, <1>3, <2>1, LenProperties DEF ItemRow
    <2>3. item' = Append(item, new)
      BY <1>5 DEF CreateItem
    <2> HIDE DEF new
    <2>4. /\ item' \in Seq(ItemRow) /\ Len(item') = Len(item) + 1
          /\ \A n \in 1 .. Len(item) : item'[n] = item[n]
          /\ item'[Len(item) + 1] = new
      BY <1>3, <2>2, <2>3, AppendProperties
    <2>5. ItemsKept /\ Len(item) + 1 \in DOMAIN item' /\ Len(item) + 1 \in Nat
      BY <1>3, <2>4, LenProperties DEF ItemsKept
    <2>6. ItemsPlaced'
      <3>1. run' = run
        BY <1>5 DEF CreateItem
      <3>2. ASSUME NEW n \in DOMAIN item'
            PROVE  item'[n].run \in DOMAIN run /\ run[item'[n].run].ext = RunOf[item'[n].ext]
        <4>1. CASE n = Len(item) + 1
          BY <2>1, <2>2, <2>4, <4>1
        <4>2. CASE n # Len(item) + 1
          <5>0. n \in 1 .. Len(item) + 1 /\ Len(item) \in Nat /\ DOMAIN item = 1 .. Len(item)
            BY <1>3, <2>4, LenProperties
          <5>1. n \in DOMAIN item /\ item'[n] = item[n]
            BY <2>4, <4>2, <5>0
          <5> QED
            BY <5>1 DEF TypeInv, ItemsPlaced
        <4> QED
          BY <4>1, <4>2
      <3> QED
        BY <3>1, <3>2 DEF ItemsPlaced
    <2>7. Goto(w, "lines", Len(item) + 1, None, {})
      BY <1>5 DEF CreateItem
    <2>8. StageFits(w)'
      <3>1. job'[w].pc = "lines" /\ job'[w].todo = job[w].todo /\ job'[w].row = Len(item) + 1
        BY <1>2, <2>7 DEF Goto
      <3> QED
        BY <1>1, <1>2, <2>5, <3>1 DEF StageFits, Current
    <2>9. job' \in [Syncs -> Job] /\ \A v \in Syncs : Fits(v)'
      BY <1>1, <1>4, <2>5, <2>7, <2>8, GotoFits
    <2>10. late' \subseteq Records \cup Installments
      BY <1>2, <1>5 DEF CreateItem, TypeInv, TypeOK
    <2> QED
      BY <1>5, <2>4, <2>6, <2>9, <2>10 DEF CreateItem, TypeInv, TypeOK, TheirTyped
  <1>6. ASSUME ClearLines(w) \/ WriteLines(w) \/ WritePayslip(w)
        PROVE  TypeInv'
    <2>1. m \in DOMAIN item /\ m \in 1 .. Len(item) /\ item[m] \in ItemRow
      BY <1>2, <1>3, <1>6, LenProperties DEF ClearLines, WriteLines, WritePayslip, StageFits
    <2>2. PICK new \in ItemRow : /\ item' = [item EXCEPT ![m] = new]
                                 /\ new.run = item[m].run /\ new.ext = item[m].ext
      <3>1. CASE ClearLines(w)
        <4> DEFINE row == [item[m] EXCEPT !.lines = 0]
        <4>1. row \in ItemRow /\ row.run = item[m].run /\ row.ext = item[m].ext
          BY <2>1 DEF ItemRow
        <4>2. item' = [item EXCEPT ![m] = row]
          BY <2>1, <3>1 DEF ClearLines, Cleared
        <4> HIDE DEF row
        <4> QED
          BY <4>1, <4>2
      <3>2. CASE WriteLines(w)
        <4> DEFINE row == [item[m] EXCEPT !.lines = item[m].lines + 1]
        <4>0. item[m].lines + 1 \in Nat
          BY <2>1 DEF ItemRow
        <4>1. row \in ItemRow /\ row.run = item[m].run /\ row.ext = item[m].ext
          BY <2>1, <4>0 DEF ItemRow
        <4>2. item' = [item EXCEPT ![m] = row]
          BY <2>1, <3>2 DEF WriteLines
        <4> HIDE DEF row
        <4> QED
          BY <4>1, <4>2
      <3>3. CASE WritePayslip(w)
        <4> DEFINE row == [item[m] EXCEPT !.payslip = TRUE]
        <4>1. row \in ItemRow /\ row.run = item[m].run /\ row.ext = item[m].ext
          BY <2>1 DEF ItemRow
        <4>2. item' = [item EXCEPT ![m] = row]
          BY <2>1, <3>3 DEF WritePayslip
        <4> HIDE DEF row
        <4> QED
          BY <4>1, <4>2
      <3> QED
        BY <1>6, <3>1, <3>2, <3>3
    <2>3. /\ item' \in Seq(ItemRow) /\ Len(item') = Len(item)
          /\ \A n \in 1 .. Len(item) : item'[n] = IF n = m THEN new ELSE item[n]
      BY <1>3, <2>1, <2>2, ExceptSeq
    <2>4. ItemsKept /\ DOMAIN item' = DOMAIN item
      BY <1>3, <2>3, LenProperties DEF ItemsKept
    <2>5. ItemsPlaced'
      <3>1. run' = run
        BY <1>6 DEF ClearLines, WriteLines, WritePayslip
      <3>2. ASSUME NEW n \in DOMAIN item'
            PROVE  item'[n].run = item[n].run /\ item'[n].ext = item[n].ext
        BY <1>3, <2>2, <2>3, <2>4, LenProperties
      <3> QED
        BY <2>4, <3>1, <3>2 DEF TypeInv, ItemsPlaced
    <2>6. job' \in [Syncs -> Job] /\ \A v \in Syncs : Fits(v)'
      <3>1. CASE Skip(w)
        BY <1>1, <1>4, <2>4, <3>1, SkipFits
      <3>2. ASSUME NEW pc \in {"lines", "payslip"}, Goto(w, pc, m, None, {})
            PROVE  job' \in [Syncs -> Job] /\ \A v \in Syncs : Fits(v)'
        <4>1. job'[w].pc = pc /\ job'[w].todo = job[w].todo /\ job'[w].row = m
          BY <1>2, <3>2 DEF Goto
        <4>2. StageFits(w)'
          BY <1>1, <1>2, <2>1, <2>4, <3>2, <4>1 DEF StageFits, Current
        <4> QED
          BY <1>1, <1>2, <1>4, <2>4, <3>2, <4>2, GotoFits
      <3> QED
        BY <1>6, <3>1, <3>2 DEF ClearLines, WriteLines, WritePayslip
    <2> QED
      BY <1>6, <2>3, <2>5, <2>6
      DEF ClearLines, WriteLines, WritePayslip, history, TypeInv, TypeOK, TheirTyped
  <1> QED
    BY <1>5, <1>6

\* A failure ends an entry or every sync, and leaves the tables.
LEMMA FailureTyped ==
  ASSUME TypeInv, Crash \/ \E w \in Syncs : Throw(w)
  PROVE  TypeInv'
  <1> USE PayrollAssumption
  <1>1. RunsKept /\ ItemsKept /\ TheirKept
    BY DEF Crash, Throw, mirror, RunsKept, ItemsKept, TheirKept
  <1>2. ASSUME NEW w \in Syncs, Owing(w)
        PROVE  Current(w).id \in Runs \cup Records
    BY <1>2 DEF Owing, TypeInv, Fits, StageFits, Current
  <1>3. cut' \subseteq Runs \cup Records
    <2>1. cut \subseteq Runs \cup Records
      BY DEF TypeInv, TypeOK
    <2>2. CASE Crash
      <3>1. cut' = cut \cup {Current(w).id : w \in {w \in Syncs : Owing(w)}}
        BY <2>2 DEF Crash
      <3> QED
        BY <1>2, <2>1, <3>1
    <2>3. ASSUME NEW w \in Syncs, Throw(w) PROVE cut' \subseteq Runs \cup Records
      <3>1. cut' = IF Owing(w) THEN cut \cup {Current(w).id} ELSE cut
        BY <2>3 DEF Throw
      <3> QED
        BY <1>2, <2>1, <3>1
    <2> QED
      BY <2>2, <2>3
  <1>4. faults' \in 0 .. MaxFaults
    BY DEF Crash, Throw, TypeInv, TypeOK
  <1>5. CASE Crash
    <2>1. job' \in [Syncs -> Job] /\ \A w \in Syncs : job'[w].pc = "idle" /\ job'[w].todo = <<>>
      BY <1>5, IdleTyped DEF Crash, Idle
    <2>2. ASSUME NEW w \in Syncs PROVE Fits(w)'
      <3>1. TodoFits(job[w].todo)'
        BY <2>1, EmptySeq DEF TodoFits
      <3> QED
        BY <2>1, <3>1 DEF Fits, StageFits
    <2> QED
      BY <1>3, <1>4, <1>5, <2>1, <2>2 DEF Crash, mirror, TypeInv, TypeOK, TheirTyped, ItemsPlaced
  <1>6. ASSUME NEW w \in Syncs, Throw(w) PROVE TypeInv'
    <2>1. job' \in [Syncs -> Job] /\ \A v \in Syncs : Fits(v)'
      BY <1>1, <1>6, SkipFits DEF Throw
    <2> QED
      BY <1>3, <1>4, <1>6, <2>1 DEF Throw, mirror, TypeInv, TypeOK, TheirTyped, ItemsPlaced
  <1> QED
    BY <1>5, <1>6

\* What others do beside the syncs.
LEMMA OutsideTyped ==
  ASSUME TypeInv,
         \/ \E l \in Loans : FileLoan(l) \/ DeleteLoan(l)
         \/ \E e \in Employees : Hire(e)
         \/ \E e \in Periods \cup Runs : LguPayroll(e)
  PROVE  TypeInv'
  <1> USE PayrollAssumption
  <1>1. RunsKept /\ ItemsKept /\ UNCHANGED job
    BY DEF FileLoan, DeleteLoan, Hire, LguPayroll, mirror, RunsKept, ItemsKept
  <1>2. TheirKept
    BY DEF FileLoan, DeleteLoan, Hire, LguPayroll, Following, TheirKept, TypeInv, TypeOK
  <1>3. \A v \in Syncs : Fits(v)'
    BY <1>1, <1>2, FitStays
  <1>4. ASSUME NEW l \in Loans, FileLoan(l) \/ DeleteLoan(l) PROVE TypeInv'
    <2>1. inst' \in [Installments -> Life]
      BY <1>4 DEF FileLoan, DeleteLoan, Life, TypeInv, TypeOK
    <2>2. late' \subseteq Records \cup Installments
      BY <1>4 DEF FileLoan, DeleteLoan, TypeInv, TypeOK
    <2> QED
      BY <1>3, <1>4, <2>1, <2>2 DEF FileLoan, DeleteLoan, TypeInv, TypeOK, TheirTyped, ItemsPlaced
  <1>5. ASSUME NEW e \in Employees, Hire(e) PROVE TypeInv'
    BY <1>3, <1>5 DEF Hire, mirror, history, TypeInv, TypeOK, TheirTyped, ItemsPlaced
  <1>6. ASSUME NEW e \in Periods \cup Runs, LguPayroll(e) PROVE TypeInv'
    <2>1. PICK s \in Following(their[e]) : their' = [their EXCEPT ![e] = s]
      BY <1>6 DEF LguPayroll
    <2>2. their \in [Periods \cup Runs -> TheirRun \cup TheirPeriod]
      BY DEF TypeInv, TypeOK
    <2>3. /\ e \in Runs => their[e] \in TheirRun
          /\ e \in Periods => their[e] \in TheirPeriod
      BY DEF TypeInv, TheirTyped
    <2>4. (e \in Runs => s \in TheirRun) /\ (e \in Periods => s \in TheirPeriod)
      BY <2>1, <2>3 DEF Following, TheirRun, TheirPeriod
    <2>5. TheirTyped' /\ their' \in [Periods \cup Runs -> TheirRun \cup TheirPeriod]
      BY <2>1, <2>2, <2>4 DEF TheirTyped, TypeInv
    <2> QED
      BY <1>3, <1>6, <2>5 DEF LguPayroll, mirror, history, TypeInv, TypeOK, ItemsPlaced
  <1> QED
    BY <1>4, <1>5, <1>6

\* The initial state has the types.
LEMMA TypeInit == Init => TypeInv
  <1> SUFFICES ASSUME Init PROVE TypeInv
    OBVIOUS
  <1> USE PayrollAssumption
  <1>1. TheirTyped /\ their \in [Periods \cup Runs -> TheirRun \cup TheirPeriod]
    BY DEF Init, TheirTyped, TheirRun, TheirPeriod
  <1>2. run \in Seq(RunRow) /\ item \in Seq(ItemRow) /\ DOMAIN item = {}
    BY EmptySeq DEF Init
  <1>3. job \in [Syncs -> Job] /\ \A w \in Syncs : job[w].pc = "idle" /\ job[w].todo = <<>>
    BY IdleTyped DEF Init, Idle
  <1>4. ASSUME NEW w \in Syncs PROVE Fits(w)
    BY <1>3, EmptySeq DEF Fits, TodoFits, StageFits
  <1>5. TypeOK
    BY <1>1, <1>2, <1>3 DEF Init, TypeOK, Life
  <1> QED
    BY <1>1, <1>2, <1>4, <1>5 DEF TypeInv, ItemsPlaced

\* Every step keeps them.
LEMMA TypeStep == TypeInv /\ [Next]_vars => TypeInv'
  <1> SUFFICES ASSUME TypeInv, [Next]_vars PROVE TypeInv'
    OBVIOUS
  <1>1. ASSUME NEW w \in Syncs, SyncStep(w) PROVE TypeInv'
    BY <1>1, FetchTyped, ReadTyped, WriteTyped, RecordTyped, FailureTyped DEF SyncStep
  <1>2. CASE UNCHANGED vars
    BY <1>2 DEF vars, mirror, history, TypeInv, TypeOK, TheirTyped, ItemsPlaced, Fits, TodoFits, StageFits
  <1> QED
    BY <1>1, <1>2, FailureTyped, OutsideTyped DEF Next

\* TypeOK: rows, counters and the local states of the syncs have the shapes the code gives
\* them, and a sync works on rows that are there.
THEOREM PayrollTypeCorrect == Spec => []TypeOK
  <1>1. TypeInv => TypeOK
    BY DEF TypeInv
  <1> QED
    BY <1>1, TypeInit, TypeStep, PTL DEF Spec

\* What a sync has in hand is of the kind its stage works on, and a run it was told is completed
\* is completed.
THEOREM TypeInvCorrect == Spec => []TypeInv
  BY TypeInit, TypeStep, PTL DEF Spec

-----------------------------------------------------------------------------
(* The refinement                                                          *)

\* The settlement pays installments of a completed run that it covers.
LEMMA SettlePromised ==
  ASSUME TypeInv, NEW w \in Syncs, Settle(w)
  PROVE  Promise!Next
  <1> USE PayrollAssumption
  <1> DEFINE r == Current(w).id
             I == {i \in Installments : /\ inst[i] = "unpaid" /\ Visible /\ Due(i, r)
                                        /\ OfEmployees(i, job[w].emps)}
  <1>1. job[w].pc = "settle" /\ StageFits(w)
    BY DEF Settle, TypeInv, Fits
  <1>2. /\ r \in Runs /\ Current(w).status = "COMPLETED"
        /\ \A b \in job[w].emps : \E x \in Records : RunOf[x] = r /\ EmployeeOf[x] = b
    BY <1>1 DEF StageFits, Current
  <1>3. r \in Completed
    BY <1>1, <1>2, CurrentTyped DEF Completed
  <1>4. I \subseteq Covers[r]
    BY <1>2 DEF Covers, Due, OfEmployees
  <1>5. inst' = [i \in Installments |-> IF i \in I THEN "paid" ELSE inst[i]]
    BY DEF Settle
  <1>6. UNCHANGED Completed
    BY DEF Settle, Completed
  <1>7. \A i \in I : inst[i] = "unpaid"
    OBVIOUS
  <1>8. I \in SUBSET Installments
    OBVIOUS
  <1> HIDE DEF I, r
  <1>9. Promise!Settle(r, I)
    BY <1>3, <1>4, <1>5, <1>6, <1>7 DEF Promise!Settle
  <1> QED
    BY <1>2, <1>8, <1>9 DEF Promise!Next

\* Every step is one of Settlement or leaves its variables alone.
LEMMA PromiseStep == TypeInv /\ [Next]_vars => [Promise!Next]_<<Completed, inst>>
  <1> SUFFICES ASSUME TypeInv, [Next]_vars PROVE Promise!Next \/ UNCHANGED <<Completed, inst>>
    OBVIOUS
  <1> USE PayrollAssumption
  <1>1. ASSUME NEW w \in Syncs, SyncStep(w) PROVE Promise!Next \/ UNCHANGED <<Completed, inst>>
    <2>1. CASE Settle(w)
      BY <2>1, SettlePromised
    <2>2. CASE ~Settle(w)
      BY <1>1, <2>2 DEF SyncStep, Fetch, Refuse, FindPeriod, WritePeriod, FindRun, WriteRun, ReadItems,
                        FindItem, CreateItem, ClearLines, WriteLines, WritePayslip, Throw, mirror, Completed
    <2> QED
      BY <2>1, <2>2
  <1>2. CASE Crash
    BY <1>2 DEF Crash, mirror, Completed
  <1>3. ASSUME NEW l \in Loans, FileLoan(l) PROVE Promise!Next
    <2>1. \A i \in Promise!Of(l) : inst[i] = "none"
      BY <1>3 DEF FileLoan, Filed, Promise!Of
    <2>2. inst' = [i \in Installments |-> IF i \in Promise!Of(l) THEN "unpaid" ELSE inst[i]]
      BY <1>3 DEF FileLoan, Promise!Of
    <2>3. UNCHANGED Completed
      BY <1>3 DEF FileLoan, Completed
    <2> QED
      BY <2>1, <2>2, <2>3 DEF Promise!Next, Promise!File
  <1>4. ASSUME NEW l \in Loans, DeleteLoan(l) PROVE Promise!Next
    <2>1. inst' = [i \in Installments |-> IF i \in Promise!Of(l) THEN "none" ELSE inst[i]]
      BY <1>4 DEF DeleteLoan, Promise!Of
    <2>2. UNCHANGED Completed
      BY <1>4 DEF DeleteLoan, Completed
    <2> QED
      BY <2>1, <2>2 DEF Promise!Next, Promise!Withdraw
  <1>5. ASSUME NEW e \in Employees, Hire(e) PROVE UNCHANGED <<Completed, inst>>
    BY <1>5 DEF Hire, mirror, Completed
  <1>6. ASSUME NEW e \in Periods \cup Runs, LguPayroll(e)
        PROVE  Promise!Next \/ UNCHANGED <<Completed, inst>>
    <2>1. PICK s \in Following(their[e]) : their' = [their EXCEPT ![e] = s]
      BY <1>6 DEF LguPayroll
    <2>2. inst' = inst /\ their \in [Periods \cup Runs -> TheirRun \cup TheirPeriod]
      BY <1>6 DEF LguPayroll, mirror, TypeInv, TypeOK
    <2>3. their[e] # "COMPLETED"
      BY <2>1 DEF Following
    <2>4. CASE e \in Runs /\ s = "COMPLETED"
      <3>1. Completed' = Completed \cup {e}
        BY <2>1, <2>2, <2>4 DEF Completed
      <3> QED
        BY <2>2, <2>4, <3>1 DEF Promise!Next, Promise!Complete
    <2>5. CASE ~(e \in Runs /\ s = "COMPLETED")
      BY <2>1, <2>2, <2>3, <2>5 DEF Completed
    <2> QED
      BY <2>4, <2>5
  <1>7. CASE UNCHANGED vars
    BY <1>7 DEF vars, mirror, Completed
  <1> QED
    BY <1>1, <1>2, <1>3, <1>4, <1>5, <1>6, <1>7 DEF Next

\* The initial state is one of Settlement.
LEMMA PromiseInit == Init => Promise!Init
  BY DEF Init, Promise!Init, Completed

\* SettlesAsPromised: the mirror implements Settlement, with whatever runs lgu-payroll
\* completes and whatever it pays, however the syncs overlap, repeat, fail and are cut.
THEOREM SettlesCorrect == Spec => SettlesAsPromised
  <1>1. Spec => Promise!Init /\ [][Promise!Next]_<<Completed, inst>>
    BY TypeInvCorrect, PromiseInit, PromiseStep, PTL DEF Spec
  <1> QED
    BY <1>1 DEF SettlesAsPromised, Promise!Spec

-----------------------------------------------------------------------------
(***************************************************************************)
(* What Payroll does once: rows, events, lines, settlements.  The proofs   *)
(* turn on who has an id in hand.  Outside crossed, one sync at most has   *)
(* it, so what that sync found of the id still holds when it writes.       *)
(***************************************************************************)

\* Sync w is at one of these stages with this id as its current entry.
On(w, e, stages) == job[w].pc \in stages /\ Current(w).id = e

\* No answer lists an id twice, and no id is in two hands, periods and crossed ids apart.
EntriesOnce ==
  \A w \in Syncs : \A a, b \in DOMAIN job[w].todo :
    job[w].todo[a].id = job[w].todo[b].id => a = b
Apart == \A v, w \in Syncs : v # w => InHand(v) \cap InHand(w) \subseteq Periods \cup crossed

\* All that sync w was told of run r is that it is completed.
Told(w, r) ==
  \A n \in DOMAIN job[w].todo : job[w].todo[n].id = r => job[w].todo[n].status = "COMPLETED"

Posted(r) == \E k \in RunsOf(r) : run[k].status = "POSTED"

\* What findRunByExternalId found is what there still is.
RunKnown(w, r) ==
  /\ job[w].row = 0 => RunsOf(r) = {} /\ job[w].prev = None
  /\ job[w].row # 0 => job[w].prev = run[job[w].row].status

\* Every employee on an item of the run is on the list of the settlement, if not too late.
Listed(w, r) ==
  \A m \in DOMAIN item : item[m].run \in RunsOf(r) =>
    item[m].ext \in late \/ EmployeeOf[item[m].ext] \in job[w].emps

\* A run outside crossed.
RunCare(r) ==
  /\ \A j, k \in RunsOf(r) : j = k
  /\ Posted(r) => their[r] = "COMPLETED" /\ \A w \in Syncs : Told(w, r)
  /\ \A w \in Syncs : On(w, r, {"run"}) => RunKnown(w, r)
  /\ \A w \in Syncs : On(w, r, {"posted", "settle"}) => Posted(r) /\ posted[r] = 0
  /\ posted[r] \in {0, 1} /\ (posted[r] = 1 => Posted(r))
  /\ Posted(r) /\ r \notin cut /\ ~Settling(r) => posted[r] = 1
  /\ \A w \in Syncs : On(w, r, {"settle"}) => Listed(w, r)

\* A run that is posted has settled what it covers.
PaidCare(r) ==
  Posted(r) /\ r \notin cut /\ ~Settling(r) =>
    \A m \in DOMAIN item : \A i \in Covers[r] :
      (/\ item[m].run \in RunsOf(r) /\ item[m].ext \notin late
       /\ Borrower[LoanOf[i]] = EmployeeOf[item[m].ext]
       /\ inst[i] # "none" /\ i \notin late)
      => inst[i] = "paid"

\* A record outside crossed.
RecordCare(x) ==
  /\ \A m, n \in ItemsOf(x) : m = n
  /\ \A w \in Syncs : On(w, x, {"create"}) => ItemsOf(x) = {}
  /\ \A w \in Syncs : On(w, x, {"lines"}) => item[job[w].row].lines = 0
  /\ \A m \in ItemsOf(x) :
       item[m].lines = 1 \/ x \in cut \/ \E w \in Syncs : On(w, x, {"lines"}) /\ job[w].row = m

\* A sync writes the item of its record.
RowsTheirs ==
  \A w \in Syncs : job[w].pc \in {"clear", "lines", "payslip"} =>
    job[w].row \in ItemsOf(Current(w).id)

MirrorInv ==
  /\ TypeInv /\ EntriesOnce /\ Apart /\ RowsTheirs
  /\ \A r \in Runs \ crossed : RunCare(r) /\ (tenantId = None => PaidCare(r))
  /\ \A x \in Records \ crossed : RecordCare(x)

-----------------------------------------------------------------------------
(* Hands                                                                   *)

\* The list of a sync lost its first entries, or none.
Shrinks(v) ==
  \E off \in Nat : \A n \in DOMAIN job'[v].todo :
    n + off \in DOMAIN job[v].todo /\ job'[v].todo[n] = job[v].todo[n + off]

\* Sync w goes on with its entry or gives it up; the others stay where they are.
Moves(w) ==
  /\ \A v \in Syncs \ {w} : job'[v] = job[v]
  /\ \/ job'[w].todo = job[w].todo
     \/ job'[w].todo = Tail(job[w].todo) /\ job'[w].pc \in {"idle", "next"}

\* What a sync has to do, taken apart.
LEMMA TodoTyped ==
  ASSUME TypeInv, NEW w \in Syncs
  PROVE  /\ job[w] \in Job /\ job[w].todo \in Seq(Entry)
         /\ DOMAIN job[w].todo = 1 .. Len(job[w].todo) /\ Len(job[w].todo) \in Nat
         /\ job[w].pc # "idle" => job[w].todo # <<>> /\ 1 \in DOMAIN job[w].todo
                                  /\ Current(w) = job[w].todo[1] /\ Current(w).id \in InHand(w)
  <1>1. job[w] \in Job /\ job[w].todo \in Seq(Entry) /\ (job[w].pc # "idle" => job[w].todo # <<>>)
    BY DEF TypeInv, TypeOK, Job, Fits, StageFits
  <1>2. DOMAIN job[w].todo = 1 .. Len(job[w].todo) /\ Len(job[w].todo) \in Nat
    BY <1>1, LenProperties
  <1>3. job[w].pc # "idle" => 1 \in DOMAIN job[w].todo /\ Current(w) = job[w].todo[1]
    BY <1>1, <1>2, EmptySeq DEF Current
  <1> QED
    BY <1>1, <1>2, <1>3 DEF InHand

\* Of an id neither crossed nor a period's there is one sync that works on it.
LEMMA Alone ==
  ASSUME MirrorInv, NEW v \in Syncs, NEW w \in Syncs, NEW e \in Runs \cup Records, e \notin crossed,
         job[w].pc # "idle", Current(w).id = e, e \in InHand(v)
  PROVE  v = w
  <1>1. e \in InHand(w)
    BY TodoTyped DEF MirrorInv
  <1>2. e \notin Periods
    BY PayrollAssumption
  <1> QED
    BY <1>1, <1>2 DEF MirrorInv, Apart

\* A sync that moves only shortens its list.
LEMMA MovesShrinks ==
  ASSUME TypeInv, NEW w \in Syncs, job[w].pc # "idle", Moves(w), NEW v \in Syncs
  PROVE  Shrinks(v)
  <1>1. CASE job'[v].todo = job[v].todo
    <2>1. \A n \in DOMAIN job[v].todo : n + 0 = n
      BY TodoTyped
    <2>2. \A n \in DOMAIN job'[v].todo :
            n + 0 \in DOMAIN job[v].todo /\ job'[v].todo[n] = job[v].todo[n + 0]
      BY <1>1, <2>1
    <2> QED
      BY <2>2 DEF Shrinks
  <1>2. CASE v = w /\ job'[w].todo = Tail(job[w].todo)
    <2> DEFINE s == job[w].todo
    <2>1. s \in Seq(Entry) /\ s # <<>> /\ DOMAIN s = 1 .. Len(s) /\ Len(s) \in Nat
      BY TodoTyped
    <2>2. /\ Tail(s) \in Seq(Entry) /\ Len(Tail(s)) = Len(s) - 1
          /\ \A n \in 1 .. Len(Tail(s)) : Tail(s)[n] = s[n + 1]
      BY <2>1, HeadTailProperties
    <2>3. DOMAIN Tail(s) = 1 .. Len(Tail(s))
      BY <2>2, LenProperties
    <2>4. \A n \in DOMAIN Tail(s) : n + 1 \in DOMAIN s /\ Tail(s)[n] = s[n + 1]
      BY <2>1, <2>2, <2>3
    <2>5. \A n \in DOMAIN job'[v].todo :
            n + 1 \in DOMAIN job[v].todo /\ job'[v].todo[n] = job[v].todo[n + 1]
      BY <1>2, <2>4
    <2> QED
      BY <2>5 DEF Shrinks
  <1> QED
    BY <1>1, <1>2 DEF Moves

\* A list that shrinks tells nothing new.
LEMMA Thinner ==
  ASSUME NEW v \in Syncs, Shrinks(v)
  PROVE  /\ InHand(v)' \subseteq InHand(v)
         /\ \A r \in Runs : Told(v, r) => Told(v, r)'
  BY DEF Shrinks, InHand, Told

\* With lists that shrink the ids stay apart.
LEMMA HandsStay ==
  ASSUME TypeInv, TypeInv', EntriesOnce, Apart, \A v \in Syncs : Shrinks(v), crossed \subseteq crossed'
  PROVE  EntriesOnce' /\ Apart'
  <1>1. EntriesOnce'
    <2> SUFFICES ASSUME NEW w \in Syncs, NEW a \in DOMAIN job'[w].todo, NEW b \in DOMAIN job'[w].todo,
                        job'[w].todo[a].id = job'[w].todo[b].id
                 PROVE  a = b
      BY DEF EntriesOnce
    <2>1. PICK off \in Nat : \A n \in DOMAIN job'[w].todo :
            n + off \in DOMAIN job[w].todo /\ job'[w].todo[n] = job[w].todo[n + off]
      BY DEF Shrinks
    <2>2. a + off = b + off
      BY <2>1 DEF EntriesOnce
    <2>3. a \in Nat /\ b \in Nat
      <3>1. job'[w].todo \in Seq(Entry)
        BY DEF TypeInv, TypeOK, Job
      <3> QED
        BY <3>1, LenProperties
    <2> QED
      BY <2>2, <2>3
  <1>2. Apart'
    BY Thinner DEF Apart
  <1> QED
    BY <1>1, <1>2

-----------------------------------------------------------------------------
(* Steps                                                                   *)

\* Skip and Goto touch the job of their sync alone.
LEMMA SkipMoves ==
  ASSUME TypeInv, NEW w \in Syncs, Skip(w)
  PROVE  Moves(w) /\ job'[w].pc \in {"idle", "next"}
  <1>1. job \in [Syncs -> Job]
    BY DEF TypeInv, TypeOK
  <1>2. job'[w] = Taking(Tail(job[w].todo)) /\ \A v \in Syncs \ {w} : job'[v] = job[v]
    BY <1>1 DEF Skip
  <1> DEFINE todo == Tail(job[w].todo)
  <1>3. Taking(todo).todo = todo /\ Taking(todo).pc \in {"idle", "next"}
    <2> HIDE DEF todo
    <2> QED
      BY DEF Taking, Idle
  <1>4. job'[w].todo = Tail(job[w].todo) /\ job'[w].pc \in {"idle", "next"}
    BY <1>2, <1>3
  <1> QED
    BY <1>2, <1>4 DEF Moves

\* Going to another stage of an entry is such a move, and keeps the entry.
LEMMA GotoMoves ==
  ASSUME TypeInv, NEW w \in Syncs, NEW pc, NEW row, NEW prev, NEW emps, Goto(w, pc, row, prev, emps)
  PROVE  /\ Moves(w) /\ job'[w].todo = job[w].todo /\ job'[w].pc = pc
         /\ job'[w].row = row /\ job'[w].prev = prev /\ job'[w].emps = emps
         /\ Current(w)' = Current(w)
  <1>1. job \in [Syncs -> Job]
    BY DEF TypeInv, TypeOK
  <1>2. /\ job'[w] = [pc |-> pc, todo |-> job[w].todo, row |-> row, prev |-> prev, emps |-> emps]
        /\ \A v \in Syncs \ {w} : job'[v] = job[v]
    BY <1>1 DEF Goto
  <1> QED
    BY <1>2 DEF Moves, Current

\* A sync at work takes one statement.
Works(w) ==
  \/ Refuse(w) \/ FindPeriod(w) \/ WritePeriod(w)
  \/ FindRun(w) \/ WriteRun(w) \/ ReadItems(w) \/ Settle(w)
  \/ FindItem(w) \/ CreateItem(w) \/ ClearLines(w) \/ WriteLines(w) \/ WritePayslip(w)
  \/ Throw(w)

\* Every step of a sync on an entry is one.
LEMMA WorksMoves ==
  ASSUME TypeInv, NEW w \in Syncs, Works(w)
  PROVE  /\ job[w].pc # "idle" /\ Moves(w)
         /\ crossed' = crossed /\ their' = their /\ cut \subseteq cut' /\ late \subseteq late'
  <1>1. job[w].pc # "idle"
    BY DEF Works, Refuse, FindPeriod, WritePeriod, FindRun, WriteRun, ReadItems, Settle, FindItem,
           CreateItem, ClearLines, WriteLines, WritePayslip, Throw, Entered
  <1>2. /\ crossed' = crossed /\ their' = their /\ cut \subseteq cut' /\ late \subseteq late'
    BY DEF Works, Refuse, FindPeriod, WritePeriod, FindRun, WriteRun, ReadItems, Settle, FindItem,
           CreateItem, ClearLines, WriteLines, WritePayslip, Throw, history
  <1>3. Skip(w) \/ \E pc, row, prev, emps : Goto(w, pc, row, prev, emps)
    <2>1. CASE FindPeriod(w)
      BY <2>1 DEF FindPeriod
    <2>2. CASE FindRun(w)
      BY <2>2 DEF FindRun
    <2>3. CASE ReadItems(w)
      BY <2>3 DEF ReadItems
    <2>4. CASE FindItem(w)
      BY <2>4 DEF FindItem
    <2>5. CASE WriteRun(w) \/ WriteLines(w)
      BY <2>5 DEF WriteRun, WriteLines
    <2>6. CASE CreateItem(w) \/ ClearLines(w)
      BY <2>6 DEF CreateItem, ClearLines
    <2>7. CASE Refuse(w) \/ WritePeriod(w) \/ Settle(w) \/ WritePayslip(w) \/ Throw(w)
      BY <2>7 DEF Refuse, WritePeriod, Settle, WritePayslip, Throw
    <2> QED
      BY <2>1, <2>2, <2>3, <2>4, <2>5, <2>6, <2>7 DEF Works
  <1>4. Moves(w)
    BY <1>3, SkipMoves, GotoMoves
  <1> QED
    BY <1>1, <1>2, <1>4

\* Who is at a stage of an id after a move was there before it, but for the sync that moved.
LEMMA WasOn ==
  ASSUME TypeInv, NEW w \in Syncs, Moves(w), NEW v \in Syncs, NEW e, NEW stages,
         "idle" \notin stages, "next" \notin stages, On(v, e, stages)'
  PROVE  /\ v # w => job'[v] = job[v] /\ On(v, e, stages)
         /\ v = w => job'[w].todo = job[w].todo /\ Current(w).id = e
  BY DEF Moves, On, Current

\* Row k of the runs is the one that sync w wrote.
RunPut(w, k) ==
  /\ k \in DOMAIN run'
  /\ run'[k] = [ext |-> Current(w).id, status |-> mapLguPayrollStatus(Current(w).status)]
  /\ \A j \in DOMAIN run' : j # k => j \in DOMAIN run /\ run'[j] = run[j]
  /\ DOMAIN run \subseteq DOMAIN run'
  /\ job[w].row = 0 => k \notin DOMAIN run
  /\ job[w].row # 0 => k = job[w].row /\ k \in DOMAIN run /\ run[k].ext = Current(w).id

\* The run that a sync writes has a row afterwards.
LEMMA RunWritten ==
  ASSUME TypeInv, NEW w \in Syncs, WriteRun(w)
  PROVE  \E k : RunPut(w, k)
  <1> DEFINE mapped == mapLguPayrollStatus(Current(w).status)
             old == job[w].row
  <1>0. job[w].pc = "run" /\ job[w] \in Job /\ StageFits(w)
    BY DEF WriteRun, TypeInv, TypeOK, Fits
  <1>1. Current(w).id \in Runs /\ Current(w).status \in TheirRun
    BY <1>0, CurrentTyped DEF StageFits, Current
  <1>2. mapped \in RunStatus
    BY <1>1 DEF mapLguPayrollStatus, TheirRun, RunStatus
  <1> HIDE DEF mapped
  <1>3. run' = IF old = 0 THEN Append(run, [ext |-> Current(w).id, status |-> mapped])
               ELSE [run EXCEPT ![old].status = mapped]
    BY DEF WriteRun, mapped
  <1>4. run \in Seq(RunRow) /\ DOMAIN run = 1 .. Len(run) /\ Len(run) \in Nat
    BY LenProperties DEF TypeInv, TypeOK
  <1> DEFINE new == [ext |-> Current(w).id, status |-> mapped]
  <1>5. new \in RunRow
    BY <1>1, <1>2 DEF RunRow
  <1>6. CASE old = 0
    <2>1. run' = Append(run, new)
      BY <1>3, <1>6
    <2> HIDE DEF new
    <2>2. /\ run' \in Seq(RunRow) /\ Len(run') = Len(run) + 1
          /\ \A n \in 1 .. Len(run) : run'[n] = run[n]
          /\ run'[Len(run) + 1] = new
      BY <1>4, <1>5, <2>1, AppendProperties
    <2>3. DOMAIN run' = 1 .. Len(run) + 1
      BY <2>2, LenProperties
    <2>4. \A j \in DOMAIN run' : j # Len(run) + 1 => j \in DOMAIN run
      BY <1>4, <2>3
    <2>5. /\ Len(run) + 1 \in DOMAIN run' /\ Len(run) + 1 \notin DOMAIN run
          /\ DOMAIN run \subseteq DOMAIN run'
      BY <1>4, <2>3
    <2>6. \A j \in DOMAIN run' : j # Len(run) + 1 => run'[j] = run[j]
      BY <1>4, <2>2, <2>4
    <2>7. RunPut(w, Len(run) + 1)
      BY <1>6, <2>2, <2>4, <2>5, <2>6 DEF RunPut, new, mapped
    <2> QED
      BY <2>7
  <1>7. CASE old # 0
    <2>1. old \in DOMAIN run /\ run[old].ext = Current(w).id
      BY <1>0, <1>7 DEF StageFits, Current
    <2>2. run[old] \in RunRow
      BY <1>4, <2>1
    <2>3. [run[old] EXCEPT !.status = mapped] = new
      BY <2>1, <2>2 DEF RunRow
    <2>4. run' = [run EXCEPT ![old] = new]
      BY <1>3, <1>7, <2>1, <2>3
    <2> HIDE DEF new
    <2>5. DOMAIN run' = DOMAIN run /\ run'[old] = new /\ \A j \in DOMAIN run : j # old => run'[j] = run[j]
      BY <1>4, <2>1, <2>4
    <2>6. RunPut(w, old)
      BY <1>7, <2>1, <2>5 DEF RunPut, new, mapped
    <2> QED
      BY <2>6
  <1> QED
    BY <1>6, <1>7

\* Row k of the items is the one that sync w wrote.
ItemPut(w, k) ==
  /\ k \in DOMAIN item' /\ item'[k].ext = Current(w).id
  /\ \A j \in DOMAIN item' : j # k => j \in DOMAIN item /\ item'[j] = item[j]
  /\ DOMAIN item \subseteq DOMAIN item'
  /\ k \in DOMAIN item => item'[k].run = item[k].run /\ item'[k].ext = item[k].ext

\* What the later steps of a record write to its item.
LEMMA ItemChanged ==
  ASSUME TypeInv, RowsTheirs, NEW w \in Syncs, ClearLines(w) \/ WriteLines(w) \/ WritePayslip(w)
  PROVE  /\ ItemPut(w, job[w].row) /\ DOMAIN item' = DOMAIN item
         /\ job[w].row \in ItemsOf(Current(w).id)
         /\ ClearLines(w) => item'[job[w].row].lines = 0
         /\ WriteLines(w) => item'[job[w].row].lines = item[job[w].row].lines + 1
         /\ WritePayslip(w) => item'[job[w].row].lines = item[job[w].row].lines
  <1> DEFINE k == job[w].row
  <1>1. k \in ItemsOf(Current(w).id)
    BY DEF RowsTheirs, ClearLines, WriteLines, WritePayslip
  <1>2. k \in DOMAIN item /\ item[k].ext = Current(w).id /\ item \in Seq(ItemRow)
    BY <1>1 DEF ItemsOf, TypeInv, TypeOK
  <1>3. k \in 1 .. Len(item) /\ item[k] \in ItemRow
    BY <1>2, LenProperties
  <1> DEFINE cleared == [item[k] EXCEPT !.lines = 0]
             written == [item[k] EXCEPT !.lines = item[k].lines + 1]
             slipped == [item[k] EXCEPT !.payslip = TRUE]
  <1>4. /\ cleared.ext = item[k].ext /\ cleared.run = item[k].run /\ cleared.lines = 0
        /\ written.ext = item[k].ext /\ written.run = item[k].run /\ written.lines = item[k].lines + 1
        /\ slipped.ext = item[k].ext /\ slipped.run = item[k].run /\ slipped.lines = item[k].lines
    BY <1>3 DEF ItemRow
  <1>5. /\ ClearLines(w) => item' = [item EXCEPT ![k] = cleared]
        /\ WriteLines(w) => item' = [item EXCEPT ![k] = written]
        /\ WritePayslip(w) => item' = [item EXCEPT ![k] = slipped]
    BY DEF ClearLines, WriteLines, WritePayslip, Cleared
  <1> HIDE DEF cleared, written, slipped, k
  <1>6. DOMAIN item' = DOMAIN item /\ \A j \in DOMAIN item : j # k => item'[j] = item[j]
    BY <1>2, <1>5
  <1>7. item'[k].ext = item[k].ext /\ item'[k].run = item[k].run
    BY <1>2, <1>4, <1>5
  <1>8. /\ ClearLines(w) => item'[k].lines = 0
        /\ WriteLines(w) => item'[k].lines = item[k].lines + 1
        /\ WritePayslip(w) => item'[k].lines = item[k].lines
    BY <1>2, <1>4, <1>5
  <1>9. ItemPut(w, k)
    BY <1>2, <1>6, <1>7 DEF ItemPut
  <1> QED
    BY <1>1, <1>6, <1>8, <1>9 DEF k

\* The item that a record without one gets.
LEMMA ItemCreated ==
  ASSUME TypeInv, NEW w \in Syncs, CreateItem(w)
  PROVE  \E k \in Nat : /\ ItemPut(w, k) /\ k \notin DOMAIN item
                        /\ item'[k].lines = 0 /\ item'[k].run = job[w].row
                        /\ job'[w].row = k /\ job'[w].pc = "lines" /\ Current(w)' = Current(w)
  <1> DEFINE new == [ext |-> Current(w).id, run |-> job[w].row, lines |-> 0, payslip |-> FALSE]
  <1>1. job[w].pc = "create" /\ item' = Append(item, new) /\ Goto(w, "lines", Len(item) + 1, None, {})
    BY DEF CreateItem
  <1>2. /\ item \in Seq(ItemRow) /\ run \in Seq(RunRow)
        /\ Current(w).id \in Records /\ job[w].row \in DOMAIN run
    BY <1>1 DEF TypeInv, TypeOK, Fits, StageFits, Current
  <1>3. new \in ItemRow
    BY <1>2, LenProperties DEF ItemRow
  <1>4. new.ext = Current(w).id /\ new.run = job[w].row /\ new.lines = 0
    OBVIOUS
  <1> HIDE DEF new
  <1>5. /\ item' \in Seq(ItemRow) /\ Len(item') = Len(item) + 1
        /\ \A n \in 1 .. Len(item) : item'[n] = item[n]
        /\ item'[Len(item) + 1] = new
    BY <1>1, <1>2, <1>3, AppendProperties
  <1>6. DOMAIN item' = 1 .. Len(item) + 1 /\ DOMAIN item = 1 .. Len(item) /\ Len(item) \in Nat
    BY <1>2, <1>5, LenProperties
  <1>7. \A j \in DOMAIN item' : j # Len(item) + 1 => j \in DOMAIN item
    BY <1>6
  <1>8. /\ Len(item) + 1 \in DOMAIN item' /\ Len(item) + 1 \notin DOMAIN item
        /\ DOMAIN item \subseteq DOMAIN item' /\ Len(item) + 1 \in Nat
    BY <1>6
  <1>9. ItemPut(w, Len(item) + 1)
    BY <1>4, <1>5, <1>6, <1>7, <1>8 DEF ItemPut
  <1> QED
    BY <1>1, <1>4, <1>5, <1>8, <1>9, GotoMoves

-----------------------------------------------------------------------------
(* Runs                                                                    *)

\* A step that leaves the rows of a run, and its event, as they are, and brings no sync to its
\* settlement.
SameRows(r) ==
  /\ RunsOf(r)' = RunsOf(r)
  /\ \A k \in RunsOf(r) : run'[k].status = run[k].status
RunQuiet(r) ==
  /\ SameRows(r) /\ posted'[r] = posted[r] /\ cut \subseteq cut' /\ late \cap Records \subseteq late'
  /\ Posted(r) => their'[r] = "COMPLETED" /\ \A v \in Syncs : Told(v, r)'
  /\ \A v \in Syncs : On(v, r, {"run"})' => RunKnown(v, r)'
  /\ \A v \in Syncs : On(v, r, {"posted", "settle"})' => On(v, r, {"posted", "settle"})
  /\ \A v \in Syncs : On(v, r, {"settle"})' => Listed(v, r)'
  /\ \A v \in Syncs : On(v, r, {"posted", "settle"}) => On(v, r, {"posted", "settle"})' \/ r \in cut'

\* A run whose rows stay the same is posted or not as before.
LEMMA SamePosted ==
  ASSUME NEW r \in Runs, SameRows(r)
  PROVE  Posted(r)' <=> Posted(r)
  BY DEF SameRows, Posted, RunsOf

\* What does not touch a run keeps what is known of it.
LEMMA RunStays ==
  ASSUME NEW r \in Runs, RunCare(r), RunQuiet(r)
  PROVE  RunCare(r)'
  <1>1. Posted(r)' <=> Posted(r)
    BY SamePosted DEF RunQuiet
  <1>2. \A j, k \in RunsOf(r)' : j = k
    BY DEF RunCare, RunQuiet, SameRows
  <1>3. Posted(r)' => their'[r] = "COMPLETED" /\ \A v \in Syncs : Told(v, r)'
    BY <1>1 DEF RunQuiet
  <1>4. \A v \in Syncs : On(v, r, {"posted", "settle"})' => Posted(r)' /\ posted'[r] = 0
    BY <1>1 DEF RunQuiet, RunCare
  <1>5. posted'[r] \in {0, 1} /\ (posted'[r] = 1 => Posted(r)')
    BY <1>1 DEF RunQuiet, RunCare
  <1>6. Posted(r)' /\ r \notin cut' /\ ~Settling(r)' => posted'[r] = 1
    BY <1>1 DEF RunQuiet, RunCare, Settling, On
  <1> QED
    BY <1>2, <1>3, <1>4, <1>5, <1>6 DEF RunCare, RunQuiet

\* Installments of a run keep their state, are paid or withdrawn, or come too late; so do items.
Fresh(r) ==
  \A m \in DOMAIN item' : item'[m].run \in RunsOf(r) =>
    \/ item'[m].ext \in late'
    \/ m \in DOMAIN item /\ item'[m].ext = item[m].ext /\ item'[m].run = item[m].run
Duly(r) ==
  \A i \in Covers[r] :
    \/ i \in late' \/ inst'[i] \in {"none", "paid"}
    \/ inst'[i] = inst[i] /\ i \notin late

\* It keeps what a posted run has settled too, unless it comes after it.
LEMMA PaidStays ==
  ASSUME NEW r \in Runs, TypeInv, TypeInv', PaidCare(r), RunQuiet(r),
         Posted(r) => Fresh(r) /\ Duly(r)
  PROVE  PaidCare(r)'
  <1>1. Posted(r)' <=> Posted(r)
    BY SamePosted DEF RunQuiet
  <1> SUFFICES ASSUME Posted(r), r \notin cut', ~Settling(r)',
                      NEW m \in DOMAIN item', NEW i \in Covers[r],
                      item'[m].run \in RunsOf(r)', item'[m].ext \notin late',
                      Borrower[LoanOf[i]] = EmployeeOf[item'[m].ext],
                      inst'[i] # "none", i \notin late'
               PROVE  inst'[i] = "paid"
    BY <1>1 DEF PaidCare
  <1>2. r \notin cut /\ ~Settling(r)
    BY DEF RunQuiet, Settling, On
  <1>3. m \in DOMAIN item /\ item'[m].ext = item[m].ext /\ item'[m].run = item[m].run
    BY DEF RunQuiet, SameRows, Fresh
  <1>4. item[m].ext \in Records /\ item[m].ext \notin late
    <2>1. item[m] \in ItemRow
      BY <1>3, LenProperties, ElementOfSeq DEF TypeInv, TypeOK
    <2> QED
      BY <1>3, <2>1 DEF RunQuiet, ItemRow
  <1>5. item[m].run \in RunsOf(r)
    BY <1>3 DEF RunQuiet, SameRows
  <1>6. CASE inst'[i] = inst[i] /\ i \notin late
    BY <1>2, <1>3, <1>4, <1>5, <1>6 DEF PaidCare
  <1> QED
    BY <1>6 DEF Duly

\* The items of a posted run are the old ones and those that come too late.
LEMMA WorksFresh ==
  ASSUME MirrorInv, NEW w \in Syncs, Works(w), NEW r \in Runs \ crossed, Posted(r)
  PROVE  Fresh(r)
  <1>1. CASE CreateItem(w)
    <2>1. PICK k \in Nat : ItemPut(w, k) /\ item'[k].run = job[w].row /\ k \notin DOMAIN item
      BY <1>1, ItemCreated DEF MirrorInv
    <2>2. ASSUME item'[k].run \in RunsOf(r) PROVE item'[k].ext \in late'
      <3>1. RunCare(r)
        BY DEF MirrorInv
      <3>2. run[job[w].row].status = "POSTED"
        BY <2>1, <2>2, <3>1 DEF RunCare, Posted
      <3> QED
        BY <1>1, <2>1, <3>2 DEF CreateItem, ItemPut
    <2> QED
      BY <2>1, <2>2 DEF Fresh, ItemPut
  <1>2. CASE ClearLines(w) \/ WriteLines(w) \/ WritePayslip(w)
    <2>1. ItemPut(w, job[w].row) /\ DOMAIN item' = DOMAIN item
      BY <1>2, ItemChanged DEF MirrorInv
    <2> QED
      BY <2>1 DEF Fresh, ItemPut
  <1>3. CASE item' = item
    BY <1>3 DEF Fresh
  <1> QED
    BY <1>1, <1>2, <1>3 DEF Works, Refuse, FindPeriod, WritePeriod, FindRun, WriteRun, ReadItems, Settle,
                            FindItem, Throw, mirror

\* A statement takes nothing from an installment but its being unpaid.
LEMMA WorksDuly ==
  ASSUME MirrorInv, NEW w \in Syncs, Works(w), NEW r \in Runs
  PROVE  Duly(r)
  <1>1. CASE Settle(w)
    BY <1>1 DEF Settle, Duly, Covers
  <1>2. CASE inst' = inst
    <2>1. late \subseteq late'
      BY WorksMoves DEF MirrorInv
    <2> QED
      BY <1>2, <2>1 DEF Duly
  <1> QED
    BY <1>1, <1>2 DEF Works, Refuse, FindPeriod, WritePeriod, FindRun, WriteRun, ReadItems,
                      FindItem, CreateItem, ClearLines, WriteLines, WritePayslip, Throw, mirror

\* A mirrored run, taken apart.
LEMMA RunRowTyped ==
  ASSUME TypeInv, NEW k \in DOMAIN run
  PROVE  k \in Nat /\ k # 0 /\ run[k] \in RunRow /\ run[k].ext \in Runs /\ run[k].status \in RunStatus
  <1>1. run \in Seq(RunRow) /\ k \in 1 .. Len(run) /\ Len(run) \in Nat
    BY LenProperties DEF TypeInv, TypeOK
  <1>2. run[k] \in RunRow
    BY <1>1
  <1> QED
    BY <1>1, <1>2 DEF RunRow

\* Work on another entry is quiet for a run.
LEMMA ElsewhereQuiet ==
  ASSUME MirrorInv, NEW w \in Syncs, Works(w), NEW r \in Runs \ crossed, Current(w).id # r
  PROVE  RunQuiet(r)
  <1>0. TypeInv /\ RunCare(r) /\ r \in Runs
    BY DEF MirrorInv
  <1>1. /\ job[w].pc # "idle" /\ Moves(w)
        /\ their' = their /\ cut \subseteq cut' /\ late \subseteq late'
    BY <1>0, WorksMoves
  <1>2. SameRows(r)
    <2>1. CASE WriteRun(w)
      <3>1. PICK k : RunPut(w, k)
        BY <1>0, <2>1, RunWritten
      <3> QED
        BY <1>0, <3>1 DEF RunPut, SameRows, RunsOf
    <2>2. CASE run' = run
      BY <2>2 DEF SameRows, RunsOf
    <2> QED
      BY <2>1, <2>2 DEF Works, Refuse, FindPeriod, WritePeriod, FindRun, ReadItems, Settle,
                        FindItem, CreateItem, ClearLines, WriteLines, WritePayslip, Throw, mirror
  <1>3. posted'[r] = posted[r]
    <2>1. posted \in [Runs -> 0 .. 2]
      BY <1>0 DEF TypeInv, TypeOK
    <2> QED
      BY <1>0, <2>1 DEF Works, Refuse, FindPeriod, WritePeriod, FindRun, WriteRun, ReadItems, Settle,
                   FindItem, CreateItem, ClearLines, WriteLines, WritePayslip, Throw, history
  <1>4. Posted(r) => their'[r] = "COMPLETED" /\ \A v \in Syncs : Told(v, r)'
    BY <1>0, <1>1, MovesShrinks, Thinner DEF RunCare
  <1>5. ASSUME NEW v \in Syncs, NEW stages, "idle" \notin stages, "next" \notin stages
        PROVE  /\ On(v, r, stages)' => job'[v] = job[v] /\ On(v, r, stages)
               /\ On(v, r, stages) => On(v, r, stages)'
    <2>1. On(v, r, stages)' => job'[v] = job[v] /\ On(v, r, stages)
      BY <1>0, <1>1, <1>5, WasOn
    <2>2. On(v, r, stages) => On(v, r, stages)'
      BY <1>1 DEF On, Moves, Current
    <2> QED
      BY <2>1, <2>2
  <1>6. ASSUME NEW v \in Syncs, On(v, r, {"run"})' PROVE RunKnown(v, r)'
    <2>1. job'[v] = job[v] /\ On(v, r, {"run"})
      BY <1>5, <1>6
    <2>2. RunKnown(v, r)
      BY <1>0, <2>1 DEF RunCare
    <2>3. job[v].row # 0 => job[v].row \in RunsOf(r)
      BY <1>0, <2>1 DEF On, Current, TypeInv, Fits, StageFits, RunsOf
    <2> QED
      BY <1>2, <2>1, <2>2, <2>3 DEF RunKnown, SameRows
  <1>7. ASSUME NEW v \in Syncs, On(v, r, {"settle"})' PROVE Listed(v, r)'
    <2>1. job'[v] = job[v] /\ On(v, r, {"settle"})
      BY <1>5, <1>7
    <2>2. On(v, r, {"posted", "settle"})
      BY <2>1 DEF On
    <2>3. Listed(v, r) /\ Posted(r)
      BY <1>0, <2>1, <2>2 DEF RunCare
    <2>4. Fresh(r)
      BY <2>3, WorksFresh
    <2> QED
      BY <1>1, <1>2, <2>1, <2>3, <2>4 DEF Listed, Fresh, SameRows
  <1> QED
    BY <1>1, <1>2, <1>3, <1>4, <1>5, <1>6, <1>7 DEF RunQuiet

\* Of a run in hand nobody else is at any stage.
LEMMA NobodyElse ==
  ASSUME MirrorInv, NEW w \in Syncs, job[w].pc # "idle", NEW e \in Runs \cup Records, e \notin crossed,
         Current(w).id = e, NEW v \in Syncs, v # w
  PROVE  /\ e \notin InHand(v)
         /\ \A stages : "idle" \notin stages => ~On(v, e, stages)
  <1>1. e \notin InHand(v)
    BY Alone
  <1>2. ASSUME NEW stages, "idle" \notin stages, On(v, e, stages) PROVE FALSE
    <2>1. job[v].pc # "idle" /\ Current(v).id = e
      BY <1>2 DEF On
    <2> QED
      BY <1>1, <2>1, TodoTyped DEF MirrorInv
  <1> QED
    BY <1>1, <1>2

\* Beside a sync that works on an uncrossed id nobody works on it, before the step or after it.
LEMMA NobodyElseNext ==
  ASSUME MirrorInv, NEW w \in Syncs, Works(w), NEW e \in Runs \cup Records, e \notin crossed,
         Current(w).id = e, NEW v \in Syncs, v # w
  PROVE  \A stages : "idle" \notin stages => ~On(v, e, stages)'
  <1>1. job[w].pc # "idle" /\ Moves(w)
    BY WorksMoves DEF MirrorInv
  <1>2. job'[v] = job[v]
    BY <1>1 DEF Moves
  <1>3. \A stages : "idle" \notin stages => ~On(v, e, stages)
    BY <1>1, NobodyElse
  <1> QED
    BY <1>2, <1>3 DEF On, Current

\* A statement on the run itself that finds or tells, or that fails.
LEMMA HereQuiet ==
  ASSUME MirrorInv, NEW w \in Syncs, NEW r \in Runs \ crossed, Current(w).id = r,
         Refuse(w) \/ FindRun(w) \/ ReadItems(w) \/ Throw(w)
  PROVE  RunQuiet(r)
  <1>0. TypeInv /\ RunCare(r) /\ r \in Runs /\ Works(w)
    BY DEF MirrorInv, Works
  <1>1. /\ job[w].pc # "idle" /\ Moves(w)
        /\ their' = their /\ cut \subseteq cut' /\ late \subseteq late'
    BY <1>0, WorksMoves
  <1>2. run' = run /\ item' = item /\ posted' = posted
    BY DEF Refuse, FindRun, ReadItems, Throw, mirror, history
  <1>3. SameRows(r) /\ posted'[r] = posted[r]
    BY <1>2 DEF SameRows, RunsOf
  <1>4. Posted(r) => their'[r] = "COMPLETED" /\ \A v \in Syncs : Told(v, r)'
    BY <1>0, <1>1, MovesShrinks, Thinner DEF RunCare
  <1>5. \A v \in Syncs : v # w => /\ ~On(v, r, {"run"})' /\ ~On(v, r, {"posted", "settle"})'
                                  /\ ~On(v, r, {"settle"})' /\ ~On(v, r, {"posted", "settle"})
    BY <1>0, <1>1, NobodyElse, NobodyElseNext
  <1>6. \A k \in RunsOf(r) : RunsOf(r) = {k}
    BY <1>0 DEF RunCare
  <1>7. CASE Refuse(w)
    <2>1. job[w].pc = "next" /\ job'[w].pc \in {"idle", "next"}
      BY <1>0, <1>7, SkipMoves DEF Refuse, Entered
    <2> QED
      BY <1>1, <1>3, <1>4, <1>5, <2>1 DEF RunQuiet, On
  <1>8. CASE FindRun(w)
    <2>1. job[w].pc = "next"
      BY <1>8 DEF FindRun, Entered
    <2>2. CASE RunsOf(r) = {} /\ Goto(w, "run", 0, None, {})
      <3>1. job'[w].pc = "run" /\ job'[w].row = 0 /\ job'[w].prev = None
        BY <1>0, <2>2, GotoMoves
      <3>2. RunKnown(w, r)'
        BY <1>3, <2>2, <3>1 DEF RunKnown, SameRows
      <3> QED
        BY <1>1, <1>3, <1>4, <1>5, <2>1, <3>1, <3>2 DEF RunQuiet, On
    <2>3. ASSUME NEW k \in RunsOf(r), Goto(w, "run", k, run[k].status, {})
          PROVE  RunQuiet(r)
      <3>1. job'[w].pc = "run" /\ job'[w].row = k /\ job'[w].prev = run[k].status
        BY <1>0, <2>3, GotoMoves
      <3>2. k # 0
        BY <1>0, RunRowTyped DEF RunsOf
      <3>3. RunKnown(w, r)'
        BY <1>2, <3>1, <3>2 DEF RunKnown
      <3> QED
        BY <1>1, <1>3, <1>4, <1>5, <2>1, <3>1, <3>3 DEF RunQuiet, On
    <2> QED
      BY <1>8, <2>2, <2>3 DEF FindRun
  <1>9. CASE ReadItems(w)
    <2>1. job[w].pc = "posted"
      BY <1>9 DEF ReadItems
    <2>2. PICK k \in IF job[w].row = 0 THEN RunsOf(r) ELSE {job[w].row} :
            Goto(w, "settle", k, None,
                 {EmployeeOf[item[m].ext] : m \in {m \in DOMAIN item : item[m].run = k}})
      BY <1>9 DEF ReadItems
    <2>3. k \in RunsOf(r)
      BY <1>0, <2>1, <2>2 DEF RunsOf, TypeInv, Fits, StageFits, Current
    <2>4. /\ job'[w].pc = "settle" /\ Current(w)' = Current(w)
          /\ job'[w].emps = {EmployeeOf[item[m].ext] : m \in {m \in DOMAIN item : item[m].run = k}}
      BY <1>0, <2>2, GotoMoves
    <2>5. Listed(w, r)'
      BY <1>2, <1>3, <1>6, <2>3, <2>4 DEF Listed, SameRows
    <2> QED
      BY <1>1, <1>3, <1>4, <1>5, <2>1, <2>4, <2>5 DEF RunQuiet, On
  <1>10. CASE Throw(w)
    <2>1. job'[w].pc \in {"idle", "next"}
      BY <1>0, <1>10, SkipMoves DEF Throw
    <2>2. On(w, r, {"posted", "settle"}) => r \in cut'
      BY <1>10 DEF Throw, Owing, On
    <2> QED
      BY <1>1, <1>3, <1>4, <1>5, <2>1, <2>2 DEF RunQuiet, On
  <1> QED
    BY <1>7, <1>8, <1>9, <1>10

\* Writing the run: a status that stays is quiet, and one that moves to POSTED owes an event.
LEMMA WriteRunCare ==
  ASSUME MirrorInv, TypeInv', NEW w \in Syncs, NEW r \in Runs \ crossed, Current(w).id = r, WriteRun(w)
  PROVE  RunCare(r)' /\ (PaidCare(r) => PaidCare(r)')
  <1> DEFINE mapped == mapLguPayrollStatus(Current(w).status)
  <1>0. TypeInv /\ RunCare(r) /\ r \in Runs /\ Works(w) /\ job[w].pc = "run"
    BY DEF MirrorInv, Works, WriteRun
  <1>1. /\ job[w].pc # "idle" /\ Moves(w)
        /\ their' = their /\ cut = cut' /\ late = late' /\ posted' = posted /\ item' = item /\ inst' = inst
    BY <1>0, WorksMoves DEF WriteRun, history
  <1>2. RunKnown(w, r)
    BY <1>0 DEF RunCare, On
  <1>3. PICK k : RunPut(w, k)
    BY <1>0, RunWritten
  <1>4. job[w].row # 0 => RunsOf(r) = {k} /\ run[k].status = job[w].prev
    <2>1. job[w].row # 0 => k \in RunsOf(r) /\ k = job[w].row
      BY <1>3 DEF RunPut, RunsOf
    <2> QED
      BY <1>0, <1>2, <2>1 DEF RunCare, RunKnown
  <1>5. RunsOf(r)' = {k}
    <2>1. k \in RunsOf(r)'
      BY <1>3 DEF RunPut, RunsOf
    <2>2. ASSUME NEW j \in RunsOf(r)', j # k PROVE FALSE
      <3>1. j \in RunsOf(r)
        BY <1>3, <2>2 DEF RunPut, RunsOf
      <3> QED
        BY <1>2, <1>4, <2>2, <3>1 DEF RunKnown
    <2> QED
      BY <2>1, <2>2
  <1>6. run'[k].status = mapped
    BY <1>3 DEF RunPut
  <1>7. Current(w).status \in TheirRun /\ (Current(w).status = "COMPLETED" => their[r] = "COMPLETED")
    BY <1>0, CurrentTyped
  <1>8. mapped \in RunStatus /\ (mapped = "POSTED" <=> Current(w).status = "COMPLETED")
    BY <1>7 DEF mapLguPayrollStatus, TheirRun, RunStatus
  <1> HIDE DEF mapped
  <1>9. Posted(r)' <=> mapped = "POSTED"
    BY <1>5, <1>6 DEF Posted
  <1>10. Posted(r) => mapped = "POSTED" /\ job[w].prev = "POSTED" /\ job[w].row # 0
    <2> SUFFICES ASSUME Posted(r)
                 PROVE  mapped = "POSTED" /\ job[w].prev = "POSTED" /\ job[w].row # 0
      OBVIOUS
    <2>1. job[w].row # 0
      BY <1>2 DEF RunKnown, Posted
    <2>2. job[w].prev = "POSTED"
      BY <1>4, <2>1 DEF Posted
    <2>3. Told(w, r) /\ 1 \in DOMAIN job[w].todo /\ Current(w) = job[w].todo[1]
      BY <1>0, TodoTyped DEF RunCare
    <2>4. Current(w).status = "COMPLETED"
      BY <2>3 DEF Told
    <2> QED
      BY <1>8, <2>1, <2>2, <2>4
  <1>11. \A v \in Syncs : v # w => /\ r \notin InHand(v) /\ ~On(v, r, {"run"})' /\ ~On(v, r, {"posted", "settle"})'
                                   /\ ~On(v, r, {"settle"})' /\ ~On(v, r, {"posted", "settle"})
    BY <1>0, NobodyElse, NobodyElseNext
  <1>12. mapped = "POSTED" => \A v \in Syncs : Told(v, r)'
    <2> SUFFICES ASSUME mapped = "POSTED", NEW v \in Syncs PROVE Told(v, r)'
      OBVIOUS
    <2>1. Told(v, r)
      <3>1. CASE v = w
        <4>1. 1 \in DOMAIN job[w].todo /\ Current(w) = job[w].todo[1]
          BY <1>0, TodoTyped
        <4>2. \A n \in DOMAIN job[w].todo : job[w].todo[n].id = r => n = 1
          BY <4>1 DEF MirrorInv, EntriesOnce
        <4> QED
          BY <1>8, <3>1, <4>1, <4>2 DEF Told
      <3>2. CASE v # w
        BY <1>11, <3>2 DEF Told, InHand
      <3> QED
        BY <3>1, <3>2
    <2> QED
      BY <1>0, <1>1, <2>1, MovesShrinks, Thinner
  <1>13. CASE job[w].prev = "POSTED" /\ mapped = "POSTED"
    <2>1. job[w].row # 0
      BY <1>2, <1>13, PayrollAssumption DEF RunKnown, RunStatus
    <2>2. SameRows(r)
      BY <1>4, <1>5, <1>6, <1>13, <2>1 DEF SameRows
    <2>3. Skip(w)
      BY <1>13 DEF WriteRun, Moved, mapped
    <2>4. job'[w].pc \in {"idle", "next"}
      BY <1>0, <2>3, SkipMoves
    <2>5. RunQuiet(r)
      BY <1>0, <1>1, <1>7, <1>8, <1>11, <1>12, <1>13, <2>2, <2>4 DEF RunQuiet, On
    <2>6. Fresh(r) /\ Duly(r)
      BY <1>1 DEF Fresh, Duly
    <2> QED
      BY <1>0, <2>5, <2>6, RunStays, PaidStays
  <1>14. CASE ~(job[w].prev = "POSTED" /\ mapped = "POSTED")
    <2>1. ~Posted(r) /\ posted[r] = 0
      BY <1>0, <1>10, <1>14 DEF RunCare
    <2>2. mapped = "POSTED" => Goto(w, "posted", job[w].row, None, {})
      BY <1>14 DEF WriteRun, Moved, mapped
    <2>3. mapped # "POSTED" => Skip(w)
      BY DEF WriteRun, mapped
    <2>4. /\ mapped = "POSTED" => job'[w].pc = "posted" /\ Current(w)' = Current(w)
          /\ mapped # "POSTED" => job'[w].pc \in {"idle", "next"}
      BY <1>0, <2>2, <2>3, GotoMoves, SkipMoves
    <2>5. /\ mapped = "POSTED" => Settling(r)'
          /\ \A v \in Syncs : ~On(v, r, {"run"})' /\ ~On(v, r, {"settle"})'
          /\ \A v \in Syncs : On(v, r, {"posted", "settle"})' => mapped = "POSTED"
      BY <1>11, <2>4 DEF Settling, On
    <2>6. PaidCare(r)'
      BY <1>9, <2>5 DEF PaidCare
    <2>7. RunCare(r)'
      BY <1>1, <1>5, <1>7, <1>8, <1>9, <1>12, <2>1, <2>5 DEF RunCare
    <2> QED
      BY <2>6, <2>7
  <1> QED
    BY <1>13, <1>14

\* The settlement tells of the run, once, and pays what it covers of those on its list.
LEMMA SettleCare ==
  ASSUME MirrorInv, TypeInv', NEW w \in Syncs, NEW r \in Runs \ crossed, Current(w).id = r, Settle(w)
  PROVE  RunCare(r)' /\ (tenantId = None => PaidCare(r)')
  <1>0. TypeInv /\ RunCare(r) /\ r \in Runs /\ Works(w) /\ job[w].pc = "settle"
    BY DEF MirrorInv, Works, Settle
  <1>1. /\ job[w].pc # "idle" /\ Moves(w)
        /\ their' = their /\ cut = cut' /\ late = late' /\ run' = run /\ item' = item
    BY <1>0, WorksMoves DEF Settle
  <1>2. On(w, r, {"posted", "settle"}) /\ On(w, r, {"settle"})
    BY <1>0 DEF On
  <1>3. Posted(r) /\ posted[r] = 0 /\ Listed(w, r)
    BY <1>0, <1>2 DEF RunCare
  <1>4. posted'[r] = 1
    <2>1. posted \in [Runs -> 0 .. 2]
      BY <1>0 DEF TypeInv, TypeOK
    <2> QED
      BY <1>0, <1>3, <2>1 DEF Settle
  <1>5. RunsOf(r)' = RunsOf(r) /\ Posted(r)'
    BY <1>1, <1>3 DEF RunsOf, Posted
  <1>6. job'[w].pc \in {"idle", "next"}
    BY <1>0, SkipMoves DEF Settle
  <1>7. \A v \in Syncs : ~On(v, r, {"run"})' /\ ~On(v, r, {"posted", "settle"})' /\ ~On(v, r, {"settle"})'
    <2>1. \A v \in Syncs : v # w => ~On(v, r, {"run"})' /\ ~On(v, r, {"posted", "settle"})'
                                    /\ ~On(v, r, {"settle"})'
      BY <1>0, NobodyElseNext
    <2> QED
      BY <1>6, <2>1 DEF On
  <1>8. their'[r] = "COMPLETED" /\ \A v \in Syncs : Told(v, r)'
    BY <1>0, <1>1, <1>3, MovesShrinks, Thinner DEF RunCare
  <1>9. \A j, k \in RunsOf(r)' : j = k
    BY <1>0, <1>5 DEF RunCare
  <1>10. RunCare(r)'
    BY <1>4, <1>5, <1>7, <1>8, <1>9 DEF RunCare
  <1>11. ASSUME tenantId = None PROVE PaidCare(r)'
    <2> SUFFICES ASSUME NEW m \in DOMAIN item, NEW i \in Covers[r],
                        item[m].run \in RunsOf(r), item[m].ext \notin late,
                        Borrower[LoanOf[i]] = EmployeeOf[item[m].ext],
                        inst'[i] # "none"
                 PROVE  inst'[i] = "paid"
      BY <1>1, <1>5 DEF PaidCare
    <2>1. EmployeeOf[item[m].ext] \in job[w].emps
      BY <1>3 DEF Listed
    <2>2. i \in Installments /\ Due(i, r)
      BY <1>0 DEF Covers, Due
    <2>3. inst[i] \in Life
      BY <1>0, <2>2 DEF TypeInv, TypeOK
    <2> QED
      BY <1>11, <2>1, <2>2, <2>3 DEF Settle, Visible, OfEmployees, Life
  <1> QED
    BY <1>10, <1>11

\* Crashes, loans, staff and lgu-payroll leave the mirrored rows, and bring nobody further.
Outsiders ==
  \/ Crash
  \/ \E l \in Loans : FileLoan(l) \/ DeleteLoan(l)
  \/ \E e \in Employees : Hire(e)
  \/ \E e \in Periods \cup Runs : LguPayroll(e)

\* What lgu-payroll, the loans and a crash leave alone.
LEMMA OutsidersJobs ==
  ASSUME TypeInv, Outsiders
  PROVE  /\ run' = run /\ item' = item /\ posted' = posted /\ crossed' = crossed
         /\ cut \subseteq cut' /\ late \cap Records \subseteq late' /\ TheirKept
         /\ \A v \in Syncs : \/ job'[v] = job[v]
                             \/ Crash /\ job'[v].pc = "idle" /\ job'[v].todo = <<>>
  <1>1. CASE Crash
    BY <1>1 DEF Crash, mirror, TheirKept, Idle
  <1>2. ASSUME NEW l \in Loans, FileLoan(l) \/ DeleteLoan(l)
        PROVE  /\ run' = run /\ item' = item /\ posted' = posted /\ crossed' = crossed /\ job' = job
               /\ cut \subseteq cut' /\ late \cap Records \subseteq late' /\ TheirKept
    <2>1. late \cap Records \subseteq late'
      BY <1>2, PayrollAssumption DEF FileLoan, DeleteLoan
    <2> QED
      BY <1>2, <2>1 DEF FileLoan, DeleteLoan, TheirKept
  <1>3. ASSUME NEW e \in Employees, Hire(e)
        PROVE  /\ run' = run /\ item' = item /\ posted' = posted /\ crossed' = crossed /\ job' = job
               /\ cut \subseteq cut' /\ late \cap Records \subseteq late' /\ TheirKept
    BY <1>3 DEF Hire, mirror, history, TheirKept
  <1>4. ASSUME NEW e \in Periods \cup Runs, LguPayroll(e)
        PROVE  /\ run' = run /\ item' = item /\ posted' = posted /\ crossed' = crossed /\ job' = job
               /\ cut \subseteq cut' /\ late \cap Records \subseteq late' /\ TheirKept
    <2>1. TheirKept
      BY <1>4 DEF LguPayroll, Following, TheirKept, TypeInv, TypeOK
    <2> QED
      BY <1>4, <2>1 DEF LguPayroll, mirror, history
  <1> QED
    BY <1>1, <1>2, <1>3, <1>4 DEF Outsiders

\* They keep what is known of a run.
LEMMA OutsidersCare ==
  ASSUME MirrorInv, TypeInv', Outsiders, NEW r \in Runs \ crossed
  PROVE  RunCare(r)' /\ (PaidCare(r) => PaidCare(r)')
  <1>0. TypeInv /\ RunCare(r) /\ r \in Runs
    BY DEF MirrorInv
  <1>1. /\ run' = run /\ item' = item /\ posted' = posted /\ crossed' = crossed
        /\ cut \subseteq cut' /\ late \cap Records \subseteq late' /\ TheirKept
        /\ \A v \in Syncs : \/ job'[v] = job[v]
                            \/ Crash /\ job'[v].pc = "idle" /\ job'[v].todo = <<>>
    BY <1>0, OutsidersJobs
  <1>2. SameRows(r) /\ RunsOf(r)' = RunsOf(r)
    BY <1>1 DEF SameRows, RunsOf
  <1>3. ASSUME Posted(r) PROVE their'[r] = "COMPLETED" /\ \A v \in Syncs : Told(v, r)'
    BY <1>0, <1>1, <1>3 DEF RunCare, TheirKept, Told
  <1>4. ASSUME NEW v \in Syncs, On(v, r, {"run"})' PROVE RunKnown(v, r)'
    <2>1. job'[v] = job[v]
      BY <1>1, <1>4 DEF On
    <2>2. On(v, r, {"run"})
      BY <1>4, <2>1 DEF On, Current
    <2> QED
      BY <1>0, <1>1, <1>2, <2>1, <2>2 DEF RunCare, RunKnown
  <1>5. ASSUME NEW v \in Syncs, On(v, r, {"posted", "settle"})' PROVE On(v, r, {"posted", "settle"})
    <2>1. job'[v] = job[v]
      BY <1>1, <1>5 DEF On
    <2> QED
      BY <1>5, <2>1 DEF On, Current
  <1>6. ASSUME NEW v \in Syncs, On(v, r, {"settle"})' PROVE Listed(v, r)'
    <2>1. job'[v] = job[v]
      BY <1>1, <1>6 DEF On
    <2>2. On(v, r, {"settle"})
      BY <1>6, <2>1 DEF On, Current
    <2>3. Listed(v, r)
      BY <1>0, <2>2 DEF RunCare
    <2>4. \A m \in DOMAIN item : item[m].ext \in Records
      <3>1. \A m \in DOMAIN item : item[m] \in ItemRow
        BY <1>0, LenProperties, ElementOfSeq DEF TypeInv, TypeOK
      <3> QED
        BY <3>1 DEF ItemRow
    <2> QED
      BY <1>1, <1>2, <2>1, <2>3, <2>4 DEF Listed
  <1>7. ASSUME NEW v \in Syncs, On(v, r, {"posted", "settle"})
        PROVE  On(v, r, {"posted", "settle"})' \/ r \in cut'
    <2>1. CASE job'[v] = job[v]
      BY <1>7, <2>1 DEF On, Current
    <2>2. CASE Crash
      BY <1>7, <2>2 DEF Crash, Owing, On
    <2> QED
      BY <1>1, <2>1, <2>2
  <1>8. RunQuiet(r)
    BY <1>1, <1>2, <1>3, <1>4, <1>5, <1>6, <1>7 DEF RunQuiet
  <1>9. Fresh(r)
    BY <1>1 DEF Fresh
  <1>10. Posted(r) => Duly(r)
    <2> SUFFICES ASSUME Posted(r), NEW i \in Covers[r]
                 PROVE  \/ i \in late' \/ inst'[i] \in {"none", "paid"}
                        \/ inst'[i] = inst[i] /\ i \notin late
      BY DEF Duly
    <2>0. i \in Installments
      BY <1>0 DEF Covers
    <2>1. ASSUME NEW l \in Loans, FileLoan(l), LoanOf[i] = l PROVE i \in late'
      <3>1. PICK k \in RunsOf(r) : run[k].status = "POSTED"
        BY DEF Posted
      <3>2. k \in DOMAIN run /\ run[k].status = "POSTED" /\ i \in Covers[run[k].ext]
        BY <3>1 DEF RunsOf
      <3> QED
        BY <2>0, <2>1, <3>2 DEF FileLoan
    <2>2. ASSUME NEW l \in Loans, FileLoan(l), LoanOf[i] # l
          PROVE  inst'[i] = inst[i] /\ (i \in late => i \in late')
      BY <2>0, <2>2 DEF FileLoan
    <2>3. ASSUME NEW l \in Loans, DeleteLoan(l)
          PROVE  \/ inst'[i] = "none"
                 \/ inst'[i] = inst[i] /\ (i \in late => i \in late')
      BY <2>0, <2>3 DEF DeleteLoan
    <2>4. CASE inst' = inst /\ late' = late
      BY <2>4
    <2> QED
      BY <2>1, <2>2, <2>3, <2>4 DEF Outsiders, Crash, Hire, LguPayroll, mirror, history
  <1> QED
    BY <1>0, <1>8, <1>9, <1>10, RunStays, PaidStays

\* What lgu-payroll answers with tells each thing once, and what it is now.
LEMMA ChangesOnce ==
  ASSUME NEW ids \in SUBSET Ids, IsFiniteSet(ids), NEW todo \in Changes(ids)
  PROVE  /\ \A a, b \in DOMAIN todo : todo[a].id = todo[b].id => a = b
         /\ \A n \in DOMAIN todo : /\ todo[n].id \in ids
                                   /\ todo[n].id \in Runs => todo[n].status = their[todo[n].id]
  <1> DEFINE entry(e) == [id |-> e, status |-> IF e \in Records THEN their[RunOf[e]] ELSE their[e]]
  <1>1. PICK s \in [1 .. Cardinality(ids) -> ids] :
          /\ todo = [n \in DOMAIN s |-> entry(s[n])]
          /\ \A a, b \in DOMAIN s : a # b => s[a] # s[b]
    BY DEF Changes
  <1>2. \A e : entry(e).id = e
    OBVIOUS
  <1>3. \A e \in Runs : entry(e).status = their[e]
    BY PayrollAssumption
  <1> HIDE DEF entry
  <1>4. DOMAIN todo = DOMAIN s /\ \A n \in DOMAIN todo : todo[n].id = s[n] /\ todo[n] = entry(s[n]) /\ s[n] \in ids
    BY <1>1, <1>2
  <1> QED
    BY <1>1, <1>3, <1>4

\* A fetch hands its sync what it asked for; what others have in hand of it is crossed.
LEMMA FetchHands ==
  ASSUME MirrorInv, NEW w \in Syncs, Fetch(w)
  PROVE  /\ EntriesOnce' /\ Apart' /\ crossed \subseteq crossed'
         /\ job[w].pc = "idle" /\ job'[w].pc \in {"idle", "next"}
         /\ \A v \in Syncs \ {w} : job'[v] = job[v]
         /\ \A n \in DOMAIN job'[w].todo :
              job'[w].todo[n].id \in Runs => job'[w].todo[n].status = their[job'[w].todo[n].id]
  <1>1. PICK asked \in Answers :
          /\ \E todo \in Changes({e \in asked : e \in Records => Computed(e)}) :
               job' = [job EXCEPT ![w] = Taking(todo)]
          /\ crossed' = crossed \cup ((asked \ Periods) \cap UNION {InHand(v) : v \in Syncs \ {w}})
    BY DEF Fetch
  <1> DEFINE ids == {e \in asked : e \in Records => Computed(e)}
  <1>2. asked \in SUBSET Ids /\ IsFiniteSet(asked)
    BY PayrollAssumption
  <1>3. ids \in SUBSET Ids /\ IsFiniteSet(ids) /\ ids \subseteq asked
    BY <1>2, FS_Subset
  <1> HIDE DEF ids
  <1>4. PICK todo \in Changes(ids) : job' = [job EXCEPT ![w] = Taking(todo)]
    BY <1>1 DEF ids
  <1>5. /\ \A a, b \in DOMAIN todo : todo[a].id = todo[b].id => a = b
        /\ \A n \in DOMAIN todo : /\ todo[n].id \in asked
                                  /\ todo[n].id \in Runs => todo[n].status = their[todo[n].id]
    BY <1>3, ChangesOnce
  <1>6. Taking(todo).todo = todo /\ Taking(todo).pc \in {"idle", "next"}
    BY DEF Taking, Idle
  <1>7. job \in [Syncs -> Job]
    BY DEF MirrorInv, TypeInv, TypeOK
  <1>8. job'[w].todo = todo /\ job'[w].pc \in {"idle", "next"} /\ \A v \in Syncs \ {w} : job'[v] = job[v]
    BY <1>4, <1>6, <1>7
  <1>9. job[w].pc = "idle"
    BY DEF Fetch, Idle
  <1>10. EntriesOnce'
    BY <1>5, <1>8 DEF EntriesOnce, MirrorInv
  <1>11. Apart'
    <2>1. \A v \in Syncs \ {w} : InHand(v)' = InHand(v)
      BY <1>8 DEF InHand
    <2>2. InHand(w)' \subseteq asked
      BY <1>5, <1>8 DEF InHand
    <2>3. ASSUME NEW v \in Syncs \ {w}
          PROVE  InHand(v)' \cap InHand(w)' \subseteq Periods \cup crossed'
      BY <1>1, <2>1, <2>2
    <2>4. ASSUME NEW v \in Syncs \ {w}, NEW u \in Syncs \ {w}, u # v
          PROVE  InHand(v)' \cap InHand(u)' \subseteq Periods \cup crossed'
      BY <1>1, <2>1, <2>4 DEF Apart, MirrorInv
    <2> QED
      BY <2>3, <2>4 DEF Apart
  <1> QED
    BY <1>1, <1>5, <1>8, <1>9, <1>10, <1>11

\* A fetch keeps it: an id that is in another hand already is crossed by it.
LEMMA FetchCare ==
  ASSUME MirrorInv, TypeInv', NEW w \in Syncs, Fetch(w), NEW r \in Runs \ crossed
  PROVE  RunCare(r)' /\ (PaidCare(r) => PaidCare(r)')
  <1>0. TypeInv /\ RunCare(r) /\ r \in Runs
    BY DEF MirrorInv
  <1>1. /\ run' = run /\ item' = item /\ inst' = inst /\ posted' = posted /\ their' = their
        /\ cut' = cut /\ late' = late
    BY DEF Fetch, mirror
  <1>2. /\ job[w].pc = "idle" /\ job'[w].pc \in {"idle", "next"}
        /\ \A v \in Syncs \ {w} : job'[v] = job[v]
        /\ \A n \in DOMAIN job'[w].todo :
             job'[w].todo[n].id \in Runs => job'[w].todo[n].status = their[job'[w].todo[n].id]
    BY FetchHands
  <1>3. SameRows(r) /\ RunsOf(r)' = RunsOf(r)
    BY <1>1 DEF SameRows, RunsOf
  <1>4. ASSUME Posted(r) PROVE their'[r] = "COMPLETED" /\ \A v \in Syncs : Told(v, r)'
    <2>1. their[r] = "COMPLETED" /\ \A v \in Syncs : Told(v, r)
      BY <1>0, <1>4 DEF RunCare
    <2>2. Told(w, r)'
      BY <1>0, <1>2, <2>1 DEF Told
    <2> QED
      BY <1>1, <1>2, <2>1, <2>2 DEF Told
  <1>5. \A v \in Syncs : \A stages \in {{"run"}, {"settle"}, {"posted", "settle"}} :
           /\ On(v, r, stages)' => job'[v] = job[v]
           /\ On(v, r, stages)' <=> On(v, r, stages)
    BY <1>2 DEF On, Current
  <1>6. ASSUME NEW v \in Syncs, On(v, r, {"run"})' PROVE RunKnown(v, r)'
    BY <1>0, <1>1, <1>3, <1>5, <1>6 DEF RunCare, RunKnown
  <1>7. ASSUME NEW v \in Syncs, On(v, r, {"settle"})' PROVE Listed(v, r)'
    BY <1>0, <1>1, <1>3, <1>5, <1>7 DEF RunCare, Listed
  <1>8. RunQuiet(r)
    BY <1>1, <1>3, <1>4, <1>5, <1>6, <1>7 DEF RunQuiet
  <1>9. Fresh(r) /\ Duly(r)
    BY <1>1 DEF Fresh, Duly
  <1> QED
    BY <1>0, <1>8, <1>9, RunStays, PaidStays

\* Every step takes care of the runs it does not cross.
LEMMA RunStep ==
  ASSUME MirrorInv, TypeInv', Next, NEW r \in Runs \ crossed
  PROVE  RunCare(r)' /\ (tenantId = None => PaidCare(r)')
  <1>0. TypeInv /\ RunCare(r) /\ (tenantId = None => PaidCare(r)) /\ r \in Runs
    BY DEF MirrorInv
  <1>1. ASSUME NEW w \in Syncs, Works(w) PROVE RunCare(r)' /\ (tenantId = None => PaidCare(r)')
    <2>1. ASSUME RunQuiet(r) PROVE RunCare(r)' /\ (tenantId = None => PaidCare(r)')
      BY <1>0, <1>1, <2>1, RunStays, PaidStays, WorksFresh, WorksDuly
    <2>2. CASE Current(w).id # r
      BY <1>1, <2>1, <2>2, ElsewhereQuiet
    <2>3. CASE Current(w).id = r
      <3>1. CASE WriteRun(w)
        BY <1>0, <2>3, <3>1, WriteRunCare
      <3>2. CASE Settle(w)
        BY <2>3, <3>2, SettleCare
      <3>3. CASE Refuse(w) \/ FindRun(w) \/ ReadItems(w) \/ Throw(w)
        BY <2>1, <2>3, <3>3, HereQuiet
      <3>4. CASE \/ FindPeriod(w) \/ WritePeriod(w)
                 \/ FindItem(w) \/ CreateItem(w) \/ ClearLines(w) \/ WriteLines(w) \/ WritePayslip(w)
        <4>1. Current(w).id \in Periods \cup Records
          BY <1>0, <3>4 DEF FindPeriod, WritePeriod, FindItem, CreateItem, ClearLines, WriteLines,
                            WritePayslip, Entered, Current, TypeInv, Fits, StageFits
        <4> QED
          BY <1>0, <2>3, <4>1, PayrollAssumption
      <3> QED
        BY <1>1, <3>1, <3>2, <3>3, <3>4 DEF Works
    <2> QED
      BY <2>2, <2>3
  <1>2. ASSUME NEW w \in Syncs, Fetch(w) PROVE RunCare(r)' /\ (tenantId = None => PaidCare(r)')
    BY <1>0, <1>2, FetchCare
  <1>3. CASE Outsiders
    BY <1>0, <1>3, OutsidersCare
  <1> QED
    BY <1>1, <1>2, <1>3 DEF Next, SyncStep, Works, Outsiders

-----------------------------------------------------------------------------
(* Records                                                                 *)

\* A step that leaves the items of a record, their lines, and who writes them.
RecordQuiet(x) ==
  /\ ItemsOf(x)' = ItemsOf(x) /\ \A m \in ItemsOf(x) : item'[m].lines = item[m].lines
  /\ cut \subseteq cut'
  /\ \A v \in Syncs : On(v, x, {"create"})' => ItemsOf(x) = {}
  /\ \A v \in Syncs : On(v, x, {"lines"})' => On(v, x, {"lines"}) /\ job'[v].row = job[v].row
  /\ \A v \in Syncs : On(v, x, {"lines"}) =>
       x \in cut' \/ (On(v, x, {"lines"})' /\ job'[v].row = job[v].row)

\* What does not touch a record keeps what is known of it.
LEMMA RecordStays ==
  ASSUME NEW x \in Records, RowsTheirs, RecordCare(x), RecordQuiet(x)
  PROVE  RecordCare(x)'
  <1>1. \A m, n \in ItemsOf(x)' : m = n
    BY DEF RecordCare, RecordQuiet
  <1>2. \A v \in Syncs : On(v, x, {"create"})' => ItemsOf(x)' = {}
    BY DEF RecordQuiet
  <1>3. ASSUME NEW v \in Syncs, On(v, x, {"lines"})' PROVE item'[job'[v].row].lines = 0
    <2>1. On(v, x, {"lines"}) /\ job'[v].row = job[v].row
      BY <1>3 DEF RecordQuiet
    <2>2. job[v].row \in ItemsOf(x) /\ item[job[v].row].lines = 0
      BY <2>1 DEF RecordCare, RowsTheirs, On
    <2> QED
      BY <2>1, <2>2 DEF RecordQuiet
  <1>4. ASSUME NEW m \in ItemsOf(x)'
        PROVE  item'[m].lines = 1 \/ x \in cut' \/ \E v \in Syncs : On(v, x, {"lines"})' /\ job'[v].row = m
    <2>1. m \in ItemsOf(x) /\ item'[m].lines = item[m].lines
      BY DEF RecordQuiet
    <2> QED
      BY <2>1 DEF RecordCare, RecordQuiet
  <1> QED
    BY <1>1, <1>2, <1>3, <1>4 DEF RecordCare

\* No statement takes an item away, or gives it to another record.
LEMMA ExtsKept ==
  ASSUME TypeInv, RowsTheirs, NEW w \in Syncs, Works(w)
  PROVE  \A m \in DOMAIN item : m \in DOMAIN item' /\ item'[m].ext = item[m].ext
  <1>1. CASE CreateItem(w)
    <2>1. PICK k \in Nat : ItemPut(w, k) /\ k \notin DOMAIN item
      BY <1>1, ItemCreated
    <2> QED
      BY <2>1 DEF ItemPut
  <1>2. CASE ClearLines(w) \/ WriteLines(w) \/ WritePayslip(w)
    BY <1>2, ItemChanged DEF ItemPut
  <1>3. CASE item' = item
    BY <1>3
  <1> QED
    BY <1>1, <1>2, <1>3 DEF Works, Refuse, FindPeriod, WritePeriod, FindRun, WriteRun, ReadItems, Settle,
                            FindItem, Throw, mirror

\* A sync goes on with the item of its record.
LEMMA WorksRows ==
  ASSUME TypeInv, RowsTheirs, NEW w \in Syncs, Works(w)
  PROVE  RowsTheirs'
  <1>1. /\ \A v \in Syncs \ {w} : job'[v] = job[v]
        /\ \A m \in DOMAIN item : m \in DOMAIN item' /\ item'[m].ext = item[m].ext
    BY WorksMoves, ExtsKept DEF Moves
  <1>2. ASSUME NEW v \in Syncs \ {w}, job'[v].pc \in {"clear", "lines", "payslip"}
        PROVE  job'[v].row \in DOMAIN item' /\ item'[job'[v].row].ext = Head(job'[v].todo).id
    BY <1>1, <1>2 DEF RowsTheirs, ItemsOf, Current
  <1>3. ASSUME job'[w].pc \in {"clear", "lines", "payslip"}
        PROVE  job'[w].row \in DOMAIN item' /\ item'[job'[w].row].ext = Head(job'[w].todo).id
    <2>1. CASE FindItem(w)
      <3>1. ASSUME NEW k, Goto(w, "create", k, None, {}) PROVE FALSE
        BY <1>3, <3>1, GotoMoves
      <3>2. PICK m \in ItemsOf(Current(w).id) : Goto(w, "clear", m, None, {})
        BY <2>1, <3>1 DEF FindItem
      <3>3. job'[w].row = m /\ Current(w)' = Current(w)
        BY <3>2, GotoMoves
      <3> QED
        BY <1>1, <3>3 DEF ItemsOf, Current
    <2>2. CASE CreateItem(w)
      <3>1. PICK k \in Nat : ItemPut(w, k) /\ job'[w].row = k /\ Current(w)' = Current(w)
        BY <2>2, ItemCreated
      <3> QED
        BY <3>1 DEF ItemPut, Current
    <2>3. CASE ClearLines(w) \/ WriteLines(w)
      <3>1. ItemPut(w, job[w].row)
        BY <2>3, ItemChanged
      <3>2. \/ Skip(w)
            \/ \E pc \in {"lines", "payslip"} : Goto(w, pc, job[w].row, None, {})
        BY <2>3 DEF ClearLines, WriteLines
      <3>3. job'[w].row = job[w].row /\ Current(w)' = Current(w)
        BY <1>3, <3>2, SkipMoves, GotoMoves
      <3> QED
        BY <3>1, <3>3 DEF ItemPut, Current
    <2>4. CASE Skip(w)
      BY <1>3, <2>4, SkipMoves
    <2>5. CASE FindPeriod(w) \/ FindRun(w) \/ WriteRun(w) \/ ReadItems(w)
      <3>1. \/ Skip(w)
            \/ \E pc \in {"period", "run", "posted", "settle"} : \E row, prev, emps : Goto(w, pc, row, prev, emps)
        BY <2>5 DEF FindPeriod, FindRun, WriteRun, ReadItems
      <3> QED
        BY <1>3, <3>1, SkipMoves, GotoMoves
    <2> QED
      BY <2>1, <2>2, <2>3, <2>4, <2>5 DEF Works, Refuse, WritePeriod, Settle, WritePayslip, Throw
  <1> QED
    BY <1>2, <1>3 DEF RowsTheirs, ItemsOf, Current

\* Work on another entry is quiet for a record.
LEMMA ElsewhereRecord ==
  ASSUME MirrorInv, NEW w \in Syncs, Works(w), NEW x \in Records \ crossed, Current(w).id # x
  PROVE  RecordQuiet(x)
  <1>0. TypeInv /\ RecordCare(x) /\ RowsTheirs
    BY DEF MirrorInv
  <1>1. job[w].pc # "idle" /\ Moves(w) /\ cut \subseteq cut'
    BY <1>0, WorksMoves
  <1>2. ItemsOf(x)' = ItemsOf(x) /\ \A m \in ItemsOf(x) : item'[m].lines = item[m].lines
    <2>1. CASE item' = item
      BY <2>1 DEF ItemsOf
    <2>2. ASSUME NEW k, ItemPut(w, k)
          PROVE  ItemsOf(x)' = ItemsOf(x) /\ \A m \in ItemsOf(x) : item'[m].lines = item[m].lines
      BY <2>2 DEF ItemPut, ItemsOf
    <2> QED
      BY <1>0, <2>1, <2>2, ItemChanged, ItemCreated
      DEF Works, Refuse, FindPeriod, WritePeriod, FindRun, WriteRun, ReadItems, Settle, FindItem, Throw, mirror
  <1>3. ASSUME NEW v \in Syncs, NEW stages, "idle" \notin stages, "next" \notin stages
        PROVE  /\ On(v, x, stages)' => job'[v] = job[v] /\ On(v, x, stages)
               /\ On(v, x, stages) => On(v, x, stages)' /\ job'[v] = job[v]
    <2>1. On(v, x, stages)' => job'[v] = job[v] /\ On(v, x, stages)
      BY <1>0, <1>1, <1>3, WasOn
    <2>2. On(v, x, stages) => On(v, x, stages)' /\ job'[v] = job[v]
      BY <1>1 DEF On, Moves, Current
    <2> QED
      BY <2>1, <2>2
  <1>4. \A v \in Syncs : On(v, x, {"create"})' => ItemsOf(x) = {}
    BY <1>0, <1>3 DEF RecordCare
  <1> QED
    BY <1>1, <1>2, <1>3, <1>4 DEF RecordQuiet

\* Work on the record itself.
LEMMA HereRecord ==
  ASSUME MirrorInv, NEW w \in Syncs, Works(w), NEW x \in Records \ crossed, Current(w).id = x
  PROVE  RecordCare(x)'
  <1>0. TypeInv /\ RecordCare(x) /\ RowsTheirs /\ x \in Records
    BY DEF MirrorInv
  <1>1. job[w].pc # "idle" /\ Moves(w) /\ cut \subseteq cut'
    BY <1>0, WorksMoves
  <1>2. \A v \in Syncs : v # w => /\ ~On(v, x, {"create"})' /\ ~On(v, x, {"lines"})'
                                  /\ ~On(v, x, {"create"}) /\ ~On(v, x, {"lines"})
    BY <1>0, <1>1, NobodyElse, NobodyElseNext
  <1>3. \A k \in ItemsOf(x) : ItemsOf(x) = {k}
    BY <1>0 DEF RecordCare
  <1>4. CASE Refuse(w) \/ FindItem(w) \/ Throw(w)
    <2>1. item' = item
      BY <1>4 DEF Refuse, FindItem, Throw, mirror
    <2>2. ItemsOf(x)' = ItemsOf(x)
      BY <2>1 DEF ItemsOf
    <2>3. CASE FindItem(w)
      <3>1. job[w].pc = "next" /\ \A k, prev, emps : Goto(w, "create", k, prev, emps) => job'[w].pc = "create"
        BY <1>0, <2>3, GotoMoves DEF FindItem, Entered
      <3>2. \A k, prev, emps : Goto(w, "clear", k, prev, emps) => job'[w].pc = "clear"
        BY <1>0, GotoMoves
      <3>3. ~On(w, x, {"lines"}) /\ ~On(w, x, {"lines"})' /\ (On(w, x, {"create"})' => ItemsOf(x) = {})
        BY <2>3, <3>1, <3>2 DEF FindItem, On
      <3> QED
        BY <1>0, <1>1, <1>2, <2>1, <2>2, <3>3, RecordStays DEF RecordQuiet
    <2>4. CASE Refuse(w) \/ Throw(w)
      <3>1. job'[w].pc \in {"idle", "next"}
        BY <1>0, <2>4, SkipMoves DEF Refuse, Throw
      <3>2. On(w, x, {"lines"}) => x \in cut'
        BY <2>4 DEF Refuse, Entered, Throw, Owing, On
      <3>3. RecordQuiet(x)
        BY <1>0, <1>1, <1>2, <2>1, <2>2, <3>1, <3>2 DEF RecordQuiet, On
      <3> QED
        BY <1>0, <3>3, RecordStays
    <2> QED
      BY <1>4, <2>3, <2>4
  <1>5. CASE CreateItem(w)
    <2>1. ItemsOf(x) = {}
      BY <1>0, <1>5 DEF CreateItem, RecordCare, On
    <2>2. PICK k \in Nat : /\ ItemPut(w, k) /\ k \notin DOMAIN item /\ item'[k].lines = 0
                           /\ job'[w].row = k /\ job'[w].pc = "lines" /\ Current(w)' = Current(w)
      BY <1>0, <1>5, ItemCreated
    <2>3. ItemsOf(x)' = {k}
      BY <2>1, <2>2 DEF ItemPut, ItemsOf
    <2>4. On(w, x, {"lines"})' /\ ~On(w, x, {"create"})'
      BY <2>2 DEF On
    <2> QED
      BY <1>2, <2>2, <2>3, <2>4 DEF RecordCare
  <1>6. CASE ClearLines(w)
    <2> DEFINE k == job[w].row
    <2>1. ItemPut(w, k) /\ DOMAIN item' = DOMAIN item /\ k \in ItemsOf(x) /\ item'[k].lines = 0
      BY <1>0, <1>6, ItemChanged
    <2>2. ItemsOf(x)' = {k}
      BY <1>3, <2>1 DEF ItemPut, ItemsOf
    <2>3. job'[w].row = k /\ job'[w].pc = "lines" /\ Current(w)' = Current(w)
      BY <1>0, <1>6, GotoMoves DEF ClearLines
    <2>4. On(w, x, {"lines"})' /\ ~On(w, x, {"create"})'
      BY <2>3 DEF On
    <2> QED
      BY <1>2, <2>1, <2>2, <2>3, <2>4 DEF RecordCare
  <1>7. CASE WriteLines(w)
    <2> DEFINE k == job[w].row
    <2>1. /\ ItemPut(w, k) /\ DOMAIN item' = DOMAIN item /\ k \in ItemsOf(x)
          /\ item'[k].lines = item[k].lines + 1
      BY <1>0, <1>7, ItemChanged
    <2>2. item[k].lines = 0
      BY <1>0, <1>7 DEF WriteLines, RecordCare, On
    <2>3. ItemsOf(x)' = {k} /\ item'[k].lines = 1
      BY <1>3, <2>1, <2>2 DEF ItemPut, ItemsOf
    <2>4. job'[w].pc \in {"idle", "next", "payslip"}
      BY <1>0, <1>7, SkipMoves, GotoMoves DEF WriteLines
    <2>5. ~On(w, x, {"lines"})' /\ ~On(w, x, {"create"})'
      BY <2>4 DEF On
    <2> QED
      BY <1>2, <2>3, <2>5 DEF RecordCare
  <1>8. CASE WritePayslip(w)
    <2> DEFINE k == job[w].row
    <2>1. /\ ItemPut(w, k) /\ DOMAIN item' = DOMAIN item /\ k \in ItemsOf(x)
          /\ item'[k].lines = item[k].lines
      BY <1>0, <1>8, ItemChanged
    <2>2. ItemsOf(x)' = ItemsOf(x) /\ \A m \in ItemsOf(x) : item'[m].lines = item[m].lines
      BY <1>3, <2>1 DEF ItemPut, ItemsOf
    <2>3. job[w].pc = "payslip" /\ job'[w].pc \in {"idle", "next"}
      BY <1>0, <1>8, SkipMoves DEF WritePayslip
    <2>4. RecordQuiet(x)
      BY <1>1, <1>2, <2>2, <2>3 DEF RecordQuiet, On
    <2> QED
      BY <1>0, <2>4, RecordStays
  <1>9. CASE \/ FindPeriod(w) \/ WritePeriod(w)
             \/ FindRun(w) \/ WriteRun(w) \/ ReadItems(w) \/ Settle(w)
    <2>1. Current(w).id \in Periods \cup Runs
      BY <1>0, <1>9 DEF FindPeriod, WritePeriod, FindRun, WriteRun, ReadItems, Settle,
                        Entered, Current, TypeInv, Fits, StageFits
    <2> QED
      BY <1>0, <2>1, PayrollAssumption
  <1> QED
    BY <1>4, <1>5, <1>6, <1>7, <1>8, <1>9 DEF Works

\* A step that starts, ends or leaves the syncs leaves the records.
LEMMA RestRecord ==
  ASSUME MirrorInv, Outsiders \/ \E w \in Syncs : Fetch(w), NEW x \in Records \ crossed
  PROVE  RecordCare(x)'
  <1>0. TypeInv /\ RecordCare(x) /\ RowsTheirs /\ x \in Records
    BY DEF MirrorInv
  <1>1. /\ item' = item /\ cut \subseteq cut'
        /\ \A v \in Syncs : \/ job'[v] = job[v]
                            \/ job'[v].pc = "idle" /\ Crash
                            \/ job[v].pc = "idle" /\ job'[v].pc \in {"idle", "next"}
    <2>1. CASE Outsiders
      BY <1>0, <2>1, OutsidersJobs
    <2>2. ASSUME NEW w \in Syncs, Fetch(w)
          PROVE  /\ item' = item /\ cut' = cut
                 /\ job[w].pc = "idle" /\ job'[w].pc \in {"idle", "next"}
                 /\ \A v \in Syncs \ {w} : job'[v] = job[v]
      BY <2>2, FetchHands DEF Fetch, mirror
    <2> QED
      BY <2>1, <2>2
  <1>2. ItemsOf(x)' = ItemsOf(x) /\ \A m \in ItemsOf(x) : item'[m].lines = item[m].lines
    BY <1>1 DEF ItemsOf
  <1>3. \A v \in Syncs : \A stages \in {{"create"}, {"lines"}} :
          On(v, x, stages)' => On(v, x, stages) /\ job'[v] = job[v]
    BY <1>1 DEF On, Current
  <1>4. ASSUME NEW v \in Syncs, On(v, x, {"lines"})
        PROVE  x \in cut' \/ (On(v, x, {"lines"})' /\ job'[v].row = job[v].row)
    <2>1. CASE job'[v] = job[v]
      BY <1>4, <2>1 DEF On, Current
    <2>2. CASE Crash
      BY <1>4, <2>2 DEF Crash, Owing, On
    <2> QED
      BY <1>1, <1>4, <2>1, <2>2 DEF On
  <1>5. \A v \in Syncs : On(v, x, {"create"})' => ItemsOf(x) = {}
    BY <1>0, <1>3 DEF RecordCare
  <1>6. RecordQuiet(x)
    BY <1>1, <1>2, <1>3, <1>4, <1>5 DEF RecordQuiet
  <1> QED
    BY <1>0, <1>6, RecordStays

-----------------------------------------------------------------------------
(* The invariant                                                           *)

\* The invariant of the mirror holds at the start.
LEMMA MirrorInit == Init => MirrorInv
  <1> SUFFICES ASSUME Init PROVE MirrorInv
    OBVIOUS
  <1>1. TypeInv
    BY TypeInit
  <1>2. \A w \in Syncs : job[w].pc = "idle" /\ job[w].todo = <<>> /\ DOMAIN job[w].todo = {}
    BY DEF Init, Idle
  <1>3. DOMAIN run = {} /\ DOMAIN item = {}
    BY DEF Init
  <1>4. EntriesOnce /\ Apart /\ RowsTheirs
    BY <1>2 DEF EntriesOnce, Apart, RowsTheirs, InHand
  <1>5. ASSUME NEW r \in Runs PROVE RunCare(r) /\ PaidCare(r)
    <2>1. RunsOf(r) = {} /\ ~Posted(r)
      BY <1>3 DEF RunsOf, Posted
    <2>2. posted[r] = 0
      BY DEF Init
    <2>3. \A w \in Syncs : \A stages : "idle" \notin stages => ~On(w, r, stages)
      BY <1>2 DEF On
    <2> QED
      BY <2>1, <2>2, <2>3 DEF RunCare, PaidCare
  <1>6. ASSUME NEW x \in Records PROVE RecordCare(x)
    BY <1>2, <1>3 DEF RecordCare, ItemsOf, On
  <1> QED
    BY <1>1, <1>4, <1>5, <1>6 DEF MirrorInv

\* Every step keeps it.
LEMMA MirrorStep == MirrorInv /\ [Next]_vars => MirrorInv'
  <1> SUFFICES ASSUME MirrorInv, [Next]_vars PROVE MirrorInv'
    OBVIOUS
  <1>0. TypeInv /\ TypeInv' /\ RowsTheirs
    BY TypeStep DEF MirrorInv
  <1>1. CASE UNCHANGED vars
    BY <1>0, <1>1 DEF vars, mirror, history, MirrorInv, EntriesOnce, Apart, RowsTheirs, InHand, ItemsOf, Current,
                      RunCare, PaidCare, RecordCare, On, Posted, RunsOf, Told, RunKnown, Listed, Settling
  <1>2. CASE Next
    <2>1. EntriesOnce' /\ Apart' /\ RowsTheirs' /\ crossed \subseteq crossed'
      <3>1. ASSUME NEW w \in Syncs, Works(w)
            PROVE  EntriesOnce' /\ Apart' /\ RowsTheirs' /\ crossed \subseteq crossed'
        <4>1. job[w].pc # "idle" /\ Moves(w) /\ crossed' = crossed
          BY <1>0, <3>1, WorksMoves
        <4>2. \A v \in Syncs : Shrinks(v)
          BY <1>0, <4>1, MovesShrinks
        <4>3. EntriesOnce' /\ Apart'
          BY <1>0, <4>1, <4>2, HandsStay DEF MirrorInv
        <4> QED
          BY <1>0, <3>1, <4>1, <4>3, WorksRows
      <3>2. ASSUME NEW w \in Syncs, Fetch(w)
            PROVE  EntriesOnce' /\ Apart' /\ RowsTheirs' /\ crossed \subseteq crossed'
        <4>1. /\ EntriesOnce' /\ Apart' /\ crossed \subseteq crossed'
              /\ job'[w].pc \in {"idle", "next"} /\ \A v \in Syncs \ {w} : job'[v] = job[v]
          BY <3>2, FetchHands
        <4>2. item' = item
          BY <3>2 DEF Fetch, mirror
        <4>3. RowsTheirs'
          BY <1>0, <4>1, <4>2 DEF RowsTheirs, ItemsOf, Current
        <4> QED
          BY <4>1, <4>3
      <3>3. CASE Outsiders
        <4>1. /\ item' = item /\ crossed' = crossed
              /\ \A v \in Syncs : job'[v] = job[v] \/ (job'[v].pc = "idle" /\ job'[v].todo = <<>>)
          BY <1>0, <3>3, OutsidersJobs
        <4>2. RowsTheirs'
          BY <1>0, <4>1 DEF RowsTheirs, ItemsOf, Current
        <4>3. ASSUME NEW v \in Syncs PROVE Shrinks(v)
          <5>1. CASE job'[v] = job[v]
            <6>1. \A n \in DOMAIN job[v].todo : n + 0 = n
              BY <1>0, TodoTyped
            <6>2. \A n \in DOMAIN job'[v].todo :
                    n + 0 \in DOMAIN job[v].todo /\ job'[v].todo[n] = job[v].todo[n + 0]
              BY <5>1, <6>1
            <6> QED
              BY <6>2 DEF Shrinks
          <5>2. CASE job'[v].todo = <<>>
            BY <5>2 DEF Shrinks
          <5> QED
            BY <4>1, <5>1, <5>2
        <4>4. EntriesOnce' /\ Apart'
          BY <1>0, <4>1, <4>3, HandsStay DEF MirrorInv
        <4> QED
          BY <4>1, <4>2, <4>4
      <3> QED
        BY <1>2, <3>1, <3>2, <3>3 DEF Next, SyncStep, Works, Outsiders
    <2>2. ASSUME NEW r \in Runs \ crossed' PROVE RunCare(r)' /\ (tenantId = None => PaidCare(r)')
      BY <1>0, <1>2, <2>1, RunStep
    <2>3. ASSUME NEW x \in Records \ crossed' PROVE RecordCare(x)'
      <3>0. x \in Records \ crossed
        BY <2>1
      <3>1. ASSUME NEW w \in Syncs, Works(w) PROVE RecordCare(x)'
        <4>1. CASE Current(w).id = x
          BY <3>0, <3>1, <4>1, HereRecord
        <4>2. CASE Current(w).id # x
          <5>1. RecordQuiet(x)
            BY <3>0, <3>1, <4>2, ElsewhereRecord
          <5>2. RecordCare(x)
            BY <3>0 DEF MirrorInv
          <5> QED
            BY <1>0, <3>0, <5>1, <5>2, RecordStays
        <4> QED
          BY <4>1, <4>2
      <3> QED
        BY <1>2, <3>0, <3>1, RestRecord DEF Next, SyncStep, Works, Outsiders
    <2> QED
      BY <1>0, <2>1, <2>2, <2>3 DEF MirrorInv
  <1> QED
    BY <1>1, <1>2

\* Where no two syncs had an id in hand at once, what a sync found of it still holds when it writes,
\* and what it wrote is complete or noted as cut.
THEOREM MirrorInvCorrect == Spec => []MirrorInv
  BY MirrorInit, MirrorStep, PTL DEF Spec

\* A mirrored item, taken apart.
LEMMA ItemRowTyped ==
  ASSUME TypeInv, NEW m \in DOMAIN item
  PROVE  item[m].ext \in Records /\ item[m].run \in DOMAIN run
  <1>1. item[m] \in ItemRow
    BY LenProperties, ElementOfSeq DEF TypeInv, TypeOK
  <1> QED
    BY <1>1 DEF ItemRow, TypeInv, ItemsPlaced

\* OneRowPerExternalId: a run has one mirrored row, and a record one item, unless two syncs had
\* it in hand at once, though no unique index says so.
THEOREM OneRowCorrect == Spec => []OneRowPerExternalId
  <1>1. MirrorInv => OneRowPerExternalId
    <2> SUFFICES ASSUME MirrorInv PROVE OneRowPerExternalId
      OBVIOUS
    <2>1. ASSUME NEW j \in DOMAIN run, NEW k \in DOMAIN run, run[j].ext = run[k].ext, run[j].ext \notin crossed
          PROVE  j = k
      <3>1. run[j].ext \in Runs \ crossed
        BY <2>1, RunRowTyped DEF MirrorInv
      <3>2. RunCare(run[j].ext)
        BY <3>1 DEF MirrorInv
      <3> QED
        BY <2>1, <3>2 DEF RunCare, RunsOf
    <2>2. ASSUME NEW m \in DOMAIN item, NEW n \in DOMAIN item, item[m].ext = item[n].ext, item[m].ext \notin crossed
          PROVE  m = n
      <3>1. item[m].ext \in Records \ crossed
        BY <2>2, ItemRowTyped DEF MirrorInv
      <3>2. RecordCare(item[m].ext)
        BY <3>1 DEF MirrorInv
      <3> QED
        BY <2>2, <3>2 DEF RecordCare, ItemsOf
    <2> QED
      BY <2>1, <2>2 DEF OneRowPerExternalId
  <1> QED
    BY <1>1, MirrorInvCorrect, PTL

\* AnnouncedOnce: a run mirrored as posted was announced, and once, unless the sync that posted
\* it was cut before it told of it or crossed another one.
THEOREM AnnouncedCorrect == Spec => []AnnouncedOnce
  <1>1. MirrorInv => AnnouncedOnce
    <2> SUFFICES ASSUME MirrorInv PROVE AnnouncedOnce
      OBVIOUS
    <2>1. ASSUME NEW r \in Runs \ crossed PROVE posted[r] <= 1
      <3>1. posted[r] \in {0, 1}
        BY DEF MirrorInv, RunCare
      <3> QED
        BY <3>1
    <2>2. ASSUME NEW k \in DOMAIN run, run[k].status = "POSTED",
                 run[k].ext \notin crossed \cup cut, ~Settling(run[k].ext)
          PROVE  posted[run[k].ext] = 1
      <3>1. run[k].ext \in Runs \ crossed
        BY <2>2, RunRowTyped DEF MirrorInv
      <3>2. RunCare(run[k].ext) /\ Posted(run[k].ext)
        BY <2>2, <3>1 DEF MirrorInv, Posted, RunsOf
      <3> QED
        BY <2>2, <3>2 DEF RunCare
    <2> QED
      BY <2>1, <2>2 DEF AnnouncedOnce
  <1> QED
    BY <1>1, MirrorInvCorrect, PTL

\* LinesMirrored: an item shows its deduction lines once, however often it was synced, but while
\* they are rewritten, or after a sync was cut or crossed there.
THEOREM LinesCorrect == Spec => []LinesMirrored
  <1>1. MirrorInv => LinesMirrored
    <2> SUFFICES ASSUME MirrorInv, NEW m \in DOMAIN item, item[m].ext \notin crossed \cup cut
                 PROVE  item[m].lines = 1 \/ \E w \in Syncs : job[w].pc = "lines" /\ job[w].row = m
      BY DEF LinesMirrored
    <2>1. item[m].ext \in Records \ crossed
      BY ItemRowTyped DEF MirrorInv
    <2>2. RecordCare(item[m].ext) /\ m \in ItemsOf(item[m].ext)
      BY <2>1 DEF MirrorInv, ItemsOf
    <2> QED
      BY <2>2 DEF RecordCare, On
  <1> QED
    BY <1>1, MirrorInvCorrect, PTL

\* PostedIsSettled: in the platform view a run mirrored as posted has settled what it covers, but
\* for items and loans that came after it was posted, and unless the sync that posted it was cut
\* before it settled or crossed another one.
THEOREM SettledCorrect == Spec => []PostedIsSettled
  <1>1. MirrorInv => PostedIsSettled
    <2> SUFFICES ASSUME MirrorInv, tenantId = None, NEW m \in DOMAIN item, NEW i \in Installments,
                        run[item[m].run].status = "POSTED",
                        run[item[m].run].ext \notin crossed \cup cut, ~Settling(run[item[m].run].ext),
                        i \in Covers[run[item[m].run].ext],
                        Borrower[LoanOf[i]] = EmployeeOf[item[m].ext], inst[i] # "none",
                        item[m].ext \notin late \cup crossed, i \notin late
                 PROVE  inst[i] = "paid"
      BY DEF PostedIsSettled, DueIsPaid
    <2> DEFINE r == run[item[m].run].ext
    <2>1. item[m].run \in DOMAIN run /\ r \in Runs \ crossed
      BY ItemRowTyped, RunRowTyped DEF MirrorInv
    <2>2. PaidCare(r) /\ Posted(r) /\ item[m].run \in RunsOf(r)
      BY <2>1 DEF MirrorInv, Posted, RunsOf
    <2> QED
      BY <2>2 DEF PaidCare
  <1> QED
    BY <1>1, MirrorInvCorrect, PTL

=============================================================================
