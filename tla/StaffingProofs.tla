---------------------------- MODULE StaffingProofs ----------------------------
(***************************************************************************)
(* Proofs about Staffing, for any number of handlers, applicants,          *)
(* vacancies and items.                                                    *)
(***************************************************************************)
EXTENDS Staffing, SequenceTheorems, TLAPS

-----------------------------------------------------------------------------
(* Types                                                                   *)

\* What a handler holds at each stage.
StageFits(j) ==
  /\ j.pc = "vacancy" => j.vacancy # None /\ j.item # None
  /\ j.pc = "check" => j.item # None
  /\ j.pc \in {"check", "commit"} => j.applicant # None /\ Created(j.applicant)

TypeInv == TypeOK /\ \A w \in Workers : StageFits(job[w])

\* None is no row and no id.
LEMMA NoneOutside ==
  /\ None \notin Applicants /\ None \notin Vacancies /\ None \notin Items
  /\ None \notin Nat /\ None \notin ApplicantRow
  BY StaffingAssumption

\* A worker that does nothing has its type.
LEMMA IdleTyped == Idle \in Job /\ StageFits(Idle)
  BY DEF Idle, Job, StageFits

\* Applicants are not deleted, so a handler may set out on one and end.
LEMMA StagesKept ==
  ASSUME TypeInv, job' \in [Workers -> Job], \A a \in Applicants : Created(a) => applicant'[a] # None,
         \A w \in Workers : job'[w] = job[w] \/ job'[w] = Idle
  PROVE  \A w \in Workers : StageFits(job[w])'
  <1> SUFFICES ASSUME NEW w \in Workers PROVE StageFits(job[w])'
    OBVIOUS
  <1>1. CASE job'[w] = Idle
    BY <1>1 DEF StageFits, Idle
  <1>2. CASE job'[w] = job[w]
    <2>1. StageFits(job[w]) /\ job[w] \in Job
      BY DEF TypeInv, TypeOK
    <2> QED
      BY <1>2, <2>1 DEF StageFits, Created, Job
  <1> QED
    BY <1>1, <1>2

\* A handler begins with a local state of its type.
LEMMA BeginTyped ==
  ASSUME TypeInv, NEW w \in Workers, NEW j \in Job, StageFits(j), Begin(w, j), UNCHANGED tables
  PROVE  /\ job' \in [Workers -> Job] /\ overlaps' \in 0 .. MaxOverlaps
         /\ \A v \in Workers : StageFits(job[v])'
  <1>1. job \in [Workers -> Job] /\ overlaps \in 0 .. MaxOverlaps /\ \A v \in Workers : StageFits(job[v])
    BY DEF TypeInv, TypeOK
  <1>2. /\ job' = [job EXCEPT ![w] = j]
        /\ overlaps' \in {overlaps, overlaps + 1} /\ overlaps' <= MaxOverlaps
    BY DEF Begin
  <1>3. overlaps' \in 0 .. MaxOverlaps
    BY <1>1, <1>2, StaffingAssumption
  <1>4. ASSUME NEW v \in Workers
        PROVE  StageFits(job[v])'
    <2>1. job'[v] = IF v = w THEN j ELSE job[v]
      BY <1>1, <1>2
    <2>2. applicant' = applicant
      BY DEF tables
    <2> QED
      BY <1>1, <2>1, <2>2 DEF StageFits, Created
  <1> QED
    BY <1>1, <1>2, <1>3, <1>4

\* A handler that ends leaves the others where they are.
LEMMA DoneTyped ==
  ASSUME TypeInv, NEW w \in Workers, Done(w)
  PROVE  job' \in [Workers -> Job] /\ \A v \in Workers : job'[v] = job[v] \/ job'[v] = Idle
  BY IdleTyped DEF TypeInv, TypeOK, Done

\* Only applicants and items are contested.
LEMMA ContestedTyped ==
  ASSUME NEW written \in SUBSET (Applicants \cup Items), NEW others, contested \subseteq Applicants \cup Items
  PROVE  Contested(written, others) \subseteq Applicants \cup Items
  BY DEF Contested

\* The rows of the two tables that only grow.
LEMMA RowsTyped ==
  ASSUME TypeInv
  PROVE  /\ Len(employee) \in Nat /\ DOMAIN employee = 1 .. Len(employee)
         /\ Len(appointment) \in Nat /\ DOMAIN appointment = 1 .. Len(appointment)
         /\ \A p \in DOMAIN appointment : appointment[p] \in AppointmentRow
         /\ \A e \in DOMAIN employee : employee[e] \in Applicants
  <1>1. employee \in Seq(Applicants) /\ appointment \in Seq(AppointmentRow)
    BY DEF TypeInv, TypeOK
  <1> QED
    BY <1>1, LenProperties, ElementOfSeq

-----------------------------------------------------------------------------
(* Each action keeps the types                                             *)

\* A written status keeps the items typed and refers to nothing.
LEMMA SeatsTyped ==
  ASSUME TypeInv, NEW i \in Items, NEW to \in PlantillaStatus, seat' = [seat EXCEPT ![i] = to],
         UNCHANGED <<applicant, vacancy, employee, appointment>>
  PROVE  seat' \in [Items -> PlantillaStatus \cup {"none", "gone"}] /\ References'
  <1>1. /\ seat \in [Items -> PlantillaStatus \cup {"none", "gone"}]
        /\ vacancy \in [Vacancies -> Items \cup {None}] /\ References
    BY DEF TypeInv, TypeOK
  <1>2. \A k \in Items : seat[k] \in PlantillaStatus => seat'[k] \in PlantillaStatus
    BY <1>1
  <1>3. \A v \in Vacancies : vacancy[v] # None => seat'[vacancy[v]] \in PlantillaStatus
    BY <1>1, <1>2 DEF References, OpenVacancies, Exists
  <1>4. \A p \in DOMAIN appointment :
          appointment[p].item = None \/ seat'[appointment[p].item] \in PlantillaStatus
    BY <1>1, <1>2, RowsTyped DEF References, Exists, AppointmentRow
  <1> QED
    BY <1>1, <1>3, <1>4 DEF References, OpenVacancies, Exists, Created

\* createPlantillaItem keeps the types.
LEMMA CreatePlantillaTyped ==
  ASSUME TypeInv, NEW i \in Items, NEW to \in SeatForms, createPlantillaItem(i, to)
  PROVE  TypeInv'
  <1>1. to \in PlantillaStatus
    BY StaffingAssumption
  <1>2. /\ seat' = [seat EXCEPT ![i] = to]
        /\ UNCHANGED <<applicant, vacancy, employee, appointment, job, history>>
    BY DEF createPlantillaItem
  <1>3. seat' \in [Items -> PlantillaStatus \cup {"none", "gone"}] /\ References'
    BY <1>1, <1>2, SeatsTyped
  <1> QED
    BY <1>2, <1>3 DEF TypeInv, TypeOK, history, StageFits, Created

\* updatePlantillaItem keeps the types.
LEMMA UpdatePlantillaTyped ==
  ASSUME TypeInv, NEW i \in Items, NEW to \in SeatForms, updatePlantillaItem(i, to)
  PROVE  TypeInv'
  <1>1. to \in PlantillaStatus
    BY StaffingAssumption
  <1>2. /\ seat' = [seat EXCEPT ![i] = to]
        /\ UNCHANGED <<applicant, vacancy, employee, appointment, job, reopened, overlaps>>
    BY DEF updatePlantillaItem
  <1>3. seat' \in [Items -> PlantillaStatus \cup {"none", "gone"}] /\ References'
    BY <1>1, <1>2, SeatsTyped
  <1>4. contested' \subseteq Applicants \cup Items /\ handled' \subseteq Items
    BY ContestedTyped DEF updatePlantillaItem, TypeInv, TypeOK
  <1> QED
    BY <1>2, <1>3, <1>4 DEF TypeInv, TypeOK, StageFits, Created

\* deletePlantillaItem keeps the types: no vacancy refers to the item, and its appointments let go of it.
LEMMA DeletePlantillaTyped ==
  ASSUME TypeInv, NEW i \in Items, deletePlantillaItem(i)
  PROVE  TypeInv'
  <1>1. /\ seat' = [seat EXCEPT ![i] = "gone"] /\ \A v \in Vacancies : vacancy[v] # i
        /\ appointment' = [p \in DOMAIN appointment |->
                             [appointment[p] EXCEPT !.item = IF @ = i THEN None ELSE @]]
        /\ UNCHANGED <<applicant, vacancy, employee, job, reopened, handled, overlaps>>
    BY DEF deletePlantillaItem, Referred
  <1>2. /\ seat \in [Items -> PlantillaStatus \cup {"none", "gone"}]
        /\ vacancy \in [Vacancies -> Items \cup {None}] /\ References
        /\ appointment \in Seq(AppointmentRow) /\ Len(appointment) <= MaxAppointments
    BY DEF TypeInv, TypeOK
  <1>3. /\ DOMAIN appointment' = DOMAIN appointment
        /\ \A p \in DOMAIN appointment :
             /\ appointment'[p] \in AppointmentRow
             /\ appointment'[p].employee = appointment[p].employee
             /\ appointment'[p].item = IF appointment[p].item = i THEN None ELSE appointment[p].item
    BY <1>1, RowsTyped DEF AppointmentRow
  <1>4. appointment' \in Seq(AppointmentRow) /\ Len(appointment') = Len(appointment)
    <2>1. appointment' \in [1 .. Len(appointment) -> AppointmentRow]
      BY <1>1, <1>3, RowsTyped
    <2> QED
      BY <2>1, RowsTyped, SeqDef, LenProperties
  <1>5. \A k \in Items : k # i => seat'[k] = seat[k]
    BY <1>1, <1>2
  <1>6. \A v \in Vacancies : vacancy[v] # None => seat'[vacancy[v]] \in PlantillaStatus
    BY <1>1, <1>2, <1>5 DEF References, OpenVacancies, Exists
  <1>7. \A p \in DOMAIN appointment :
          appointment'[p].item = None \/ seat'[appointment'[p].item] \in PlantillaStatus
    BY <1>2, <1>3, <1>5, RowsTyped DEF References, Exists, AppointmentRow
  <1>8. References'
    BY <1>1, <1>2, <1>3, <1>6, <1>7 DEF References, OpenVacancies, Exists, Created
  <1>9. contested' \subseteq Applicants \cup Items
    BY ContestedTyped DEF deletePlantillaItem, TypeInv, TypeOK
  <1>10. seat' \in [Items -> PlantillaStatus \cup {"none", "gone"}]
    BY <1>1, <1>2
  <1> QED
    BY <1>1, <1>2, <1>4, <1>8, <1>9, <1>10 DEF TypeInv, TypeOK, StageFits, Created

\* A vacancy's row and what its item is worth to it.
LEMMA VacanciesTyped ==
  ASSUME TypeInv, NEW v \in Vacancies, NEW i \in Items, Exists(i), vacancy' = [vacancy EXCEPT ![v] = i],
         UNCHANGED <<applicant, seat, employee, appointment>>
  PROVE  vacancy' \in [Vacancies -> Items \cup {None}] /\ References'
  <1>1. vacancy \in [Vacancies -> Items \cup {None}] /\ References
    BY DEF TypeInv, TypeOK
  <1>2. i # None
    BY NoneOutside
  <1>3. \A u \in Vacancies : vacancy'[u] = IF u = v THEN i ELSE vacancy[u]
    BY <1>1
  <1>4. \A u \in Vacancies : vacancy'[u] # None => seat[vacancy'[u]] \in PlantillaStatus
    BY <1>1, <1>3 DEF References, OpenVacancies, Exists
  <1>5. \A u \in Vacancies : vacancy[u] # None => vacancy'[u] # None
    BY <1>2, <1>3
  <1> QED
    BY <1>1, <1>4, <1>5 DEF References, OpenVacancies, Exists, Created

\* The check of createVacancy keeps the types.
LEMMA VacancyReadTyped ==
  ASSUME TypeInv, NEW w \in Workers, NEW v \in Vacancies, NEW i \in Items, createVacancyRead(w, v, i)
  PROVE  TypeInv'
  <1> DEFINE j == [Idle EXCEPT !.pc = "vacancy", !.vacancy = v, !.item = i]
  <1>1. Begin(w, j) /\ UNCHANGED tables /\ UNCHANGED <<contested, reopened, handled>>
    BY DEF createVacancyRead
  <1>2. j \in Job /\ StageFits(j)
    BY NoneOutside DEF Idle, Job, StageFits
  <1> HIDE DEF j
  <1>3. /\ job' \in [Workers -> Job] /\ overlaps' \in 0 .. MaxOverlaps
        /\ \A u \in Workers : StageFits(job[u])'
    BY <1>1, <1>2, BeginTyped
  <1> QED
    BY <1>1, <1>3 DEF TypeInv, TypeOK, tables, References, OpenVacancies, Exists, Created

\* Its insert keeps the types: it fails where the item is gone.
LEMMA VacancyWriteTyped ==
  ASSUME TypeInv, NEW w \in Workers, createVacancyWrite(w)
  PROVE  TypeInv'
  <1>1. /\ job[w] \in Job /\ StageFits(job[w]) /\ job[w].pc = "vacancy" /\ Exists(job[w].item)
        /\ vacancy' = [vacancy EXCEPT ![job[w].vacancy] = job[w].item] /\ Done(w)
        /\ UNCHANGED <<applicant, seat, employee, appointment, history>>
    BY DEF createVacancyWrite, TypeInv, TypeOK
  <1>2. job[w].vacancy \in Vacancies /\ job[w].item \in Items
    BY <1>1 DEF StageFits, Job
  <1>3. vacancy' \in [Vacancies -> Items \cup {None}] /\ References'
    BY <1>1, <1>2, VacanciesTyped
  <1>4. job' \in [Workers -> Job] /\ \A v \in Workers : job'[v] = job[v] \/ job'[v] = Idle
    BY <1>1, DoneTyped
  <1>5. \A v \in Workers : StageFits(job[v])'
    BY <1>1, <1>4, StagesKept DEF Created
  <1> QED
    BY <1>1, <1>3, <1>4, <1>5 DEF TypeInv, TypeOK, history

\* updateVacancy keeps the types.
LEMMA UpdateVacancyTyped ==
  ASSUME TypeInv, NEW v \in Vacancies, NEW i \in Items, updateVacancy(v, i)
  PROVE  TypeInv'
  <1>1. /\ Exists(i) /\ vacancy' = [vacancy EXCEPT ![v] = i]
        /\ UNCHANGED <<applicant, seat, employee, appointment, job, history>>
    BY DEF updateVacancy
  <1>2. vacancy' \in [Vacancies -> Items \cup {None}] /\ References'
    BY <1>1, VacanciesTyped
  <1> QED
    BY <1>1, <1>2 DEF TypeInv, TypeOK, history, StageFits, Created

\* deleteVacancy keeps the types: the applicants let go of the vacancy.
LEMMA DeleteVacancyTyped ==
  ASSUME TypeInv, NEW v \in Vacancies, deleteVacancy(v)
  PROVE  TypeInv'
  <1>1. /\ vacancy' = [vacancy EXCEPT ![v] = None]
        /\ applicant' = [a \in Applicants |-> IF Created(a) /\ applicant[a].vacancy = v
                                              THEN [applicant[a] EXCEPT !.vacancy = None]
                                              ELSE applicant[a]]
        /\ UNCHANGED <<seat, employee, appointment, job, history>>
    BY DEF deleteVacancy
  <1>2. /\ applicant \in [Applicants -> ApplicantRow \cup {None}]
        /\ vacancy \in [Vacancies -> Items \cup {None}] /\ References
    BY DEF TypeInv, TypeOK
  <1>3. /\ vacancy' \in [Vacancies -> Items \cup {None}]
        /\ \A u \in Vacancies : vacancy'[u] = IF u = v THEN None ELSE vacancy[u]
    BY <1>1, <1>2
  <1>4. ASSUME NEW a \in Applicants
        PROVE  /\ applicant'[a] \in ApplicantRow \cup {None}
               /\ applicant'[a] # None <=> applicant[a] # None
               /\ applicant[a] # None => /\ applicant'[a].hired = applicant[a].hired
                                         /\ applicant'[a].vacancy \in {applicant[a].vacancy, None} \ {v}
    <2>1. v # None
      BY NoneOutside
    <2>2. CASE applicant[a] # None
      <3>1. applicant[a] \in ApplicantRow
        BY <1>2, <2>2
      <3>2. applicant'[a] = IF applicant[a].vacancy = v THEN [applicant[a] EXCEPT !.vacancy = None]
                            ELSE applicant[a]
        BY <1>1, <2>2 DEF Created
      <3>3. applicant'[a] \in ApplicantRow
        BY <3>1, <3>2 DEF ApplicantRow
      <3>4. /\ applicant'[a].hired = applicant[a].hired
            /\ applicant'[a].vacancy = IF applicant[a].vacancy = v THEN None ELSE applicant[a].vacancy
        BY <3>1, <3>2 DEF ApplicantRow
      <3> QED
        BY <2>1, <2>2, <3>3, <3>4, NoneOutside
    <2>3. CASE applicant[a] = None
      BY <1>1, <2>3 DEF Created
    <2> QED
      BY <2>2, <2>3
  <1>5. References'
    <2>1. \A u \in Vacancies : vacancy'[u] # None => seat'[vacancy'[u]] \in PlantillaStatus
      BY <1>1, <1>2, <1>3 DEF References, OpenVacancies, Exists
    <2>2. ASSUME NEW a \in Applicants, applicant'[a] # None
          PROVE  /\ applicant'[a].vacancy \in {u \in Vacancies : vacancy'[u] # None} \cup {None}
                 /\ applicant'[a].hired \in DOMAIN employee \cup {None}
      <3>1. /\ applicant[a].vacancy \in {u \in Vacancies : vacancy[u] # None} \cup {None}
            /\ applicant[a].hired \in DOMAIN employee \cup {None}
        BY <1>2, <1>4, <2>2 DEF References, OpenVacancies, Created
      <3> QED
        BY <1>3, <1>4, <2>2, <3>1
    <2> QED
      BY <1>1, <1>2, <2>1, <2>2 DEF References, OpenVacancies, Exists, Created
  <1>6. applicant' \in [Applicants -> ApplicantRow \cup {None}]
    BY <1>1, <1>4
  <1>7. \A w \in Workers : StageFits(job[w])'
    BY <1>1, <1>4, StagesKept DEF Created, TypeInv, TypeOK
  <1> QED
    BY <1>1, <1>3, <1>5, <1>6, <1>7 DEF TypeInv, TypeOK, history

\* An applicant's row as it is written, with employees that are there.
LEMMA ApplicantTyped ==
  ASSUME TypeInv, NEW a \in Applicants, NEW row \in ApplicantRow, applicant' = [applicant EXCEPT ![a] = row],
         row.vacancy \in OpenVacancies \cup {None}, row.hired \in DOMAIN employee' \cup {None},
         DOMAIN employee \subseteq DOMAIN employee'
  PROVE  /\ applicant' \in [Applicants -> ApplicantRow \cup {None}]
         /\ \A b \in Applicants : Created(b) => applicant'[b] # None
         /\ \A b \in Applicants : applicant'[b] # None =>
              /\ applicant'[b].vacancy \in OpenVacancies \cup {None}
              /\ applicant'[b].hired \in DOMAIN employee' \cup {None}
  <1>1. applicant \in [Applicants -> ApplicantRow \cup {None}] /\ References
    BY DEF TypeInv, TypeOK
  <1>2. \A b \in Applicants : applicant'[b] = IF b = a THEN row ELSE applicant[b]
    BY <1>1
  <1> QED
    BY <1>1, <1>2, NoneOutside DEF References, Created

\* createApplicant keeps the types.
LEMMA CreateApplicantTyped ==
  ASSUME TypeInv, NEW a \in Applicants, NEW to \in Stages, NEW v \in OpenVacancies \cup {None},
         createApplicant(a, to, v)
  PROVE  TypeInv'
  <1> DEFINE row == [status |-> to, vacancy |-> v, hired |-> None]
  <1>1. /\ applicant' = [applicant EXCEPT ![a] = row]
        /\ UNCHANGED <<vacancy, seat, employee, appointment, job, history>>
    BY DEF createApplicant
  <1>2. row \in ApplicantRow /\ row.vacancy = v /\ row.hired = None
    BY StaffingAssumption DEF ApplicantRow, OpenVacancies
  <1> HIDE DEF row
  <1>3. /\ applicant' \in [Applicants -> ApplicantRow \cup {None}]
        /\ \A b \in Applicants : Created(b) => applicant'[b] # None
        /\ \A b \in Applicants : applicant'[b] # None =>
             /\ applicant'[b].vacancy \in OpenVacancies \cup {None}
             /\ applicant'[b].hired \in DOMAIN employee' \cup {None}
    BY <1>1, <1>2, ApplicantTyped
  <1>4. References'
    BY <1>1, <1>3 DEF TypeInv, TypeOK, References, OpenVacancies, Exists, Created
  <1>5. \A w \in Workers : StageFits(job[w])'
    BY <1>1, <1>3, StagesKept DEF TypeInv, TypeOK
  <1> QED
    BY <1>1, <1>3, <1>4, <1>5 DEF TypeInv, TypeOK, history

\* updateApplicant keeps the types.
LEMMA UpdateApplicantTyped ==
  ASSUME TypeInv, NEW a \in Applicants, NEW to \in ApplicantStatus, NEW v \in OpenVacancies \cup {None},
         updateApplicant(a, to, v)
  PROVE  TypeInv'
  <1> DEFINE row == [applicant[a] EXCEPT !.status = to, !.vacancy = v]
  <1>1. /\ applicant[a] \in ApplicantRow /\ applicant[a].hired \in DOMAIN employee \cup {None}
        /\ applicant \in [Applicants -> ApplicantRow \cup {None}]
        /\ UNCHANGED <<vacancy, seat, employee, appointment, job, contested, handled, overlaps>>
    BY DEF updateApplicant, Created, TypeInv, TypeOK, References
  <1>2. applicant' = [applicant EXCEPT ![a] = row]
    BY <1>1 DEF updateApplicant
  <1>3. v \in Vacancies \cup {None}
    BY DEF OpenVacancies
  <1>4. row \in ApplicantRow /\ row.vacancy = v /\ row.hired = applicant[a].hired
    <2> HIDE DEF row
    <2> DEFINE old == applicant[a]
    <2>1. old \in ApplicantRow /\ row = [old EXCEPT !.status = to, !.vacancy = v]
      BY <1>1 DEF row
    <2> HIDE DEF old
    <2>2. row \in ApplicantRow /\ row.vacancy = v /\ row.hired = old.hired
      BY <1>3, <2>1 DEF ApplicantRow
    <2> QED
      BY <2>2 DEF old
  <1> HIDE DEF row
  <1>5. /\ applicant' \in [Applicants -> ApplicantRow \cup {None}]
        /\ \A b \in Applicants : Created(b) => applicant'[b] # None
        /\ \A b \in Applicants : applicant'[b] # None =>
             /\ applicant'[b].vacancy \in OpenVacancies \cup {None}
             /\ applicant'[b].hired \in DOMAIN employee' \cup {None}
    BY <1>1, <1>2, <1>4, ApplicantTyped
  <1>6. References'
    BY <1>1, <1>5 DEF TypeInv, TypeOK, References, OpenVacancies, Exists, Created
  <1>7. \A w \in Workers : StageFits(job[w])'
    BY <1>1, <1>5, StagesKept DEF TypeInv, TypeOK
  <1>8. reopened' \subseteq Applicants
    BY DEF updateApplicant, TypeInv, TypeOK
  <1> QED
    BY <1>1, <1>5, <1>6, <1>7, <1>8 DEF TypeInv, TypeOK

\* The first read of a hire keeps the types.
LEMMA HireReadTyped ==
  ASSUME TypeInv, NEW w \in Workers, NEW a \in Applicants, hireRead(w, a)
  PROVE  TypeInv'
  <1> DEFINE v == applicant[a].vacancy
             i == IF v = None THEN None ELSE vacancy[v]
             j == [Idle EXCEPT !.pc = IF i = None THEN "commit" ELSE "check", !.applicant = a, !.item = i]
  <1>1. Begin(w, j) /\ Created(a) /\ UNCHANGED tables /\ UNCHANGED <<contested, reopened, handled>>
    BY DEF hireRead
  <1>2. i \in Items \cup {None}
    <2>1. v \in Vacancies \cup {None} /\ vacancy \in [Vacancies -> Items \cup {None}]
      BY <1>1 DEF TypeInv, TypeOK, References, OpenVacancies
    <2> QED
      BY <2>1
  <1> HIDE DEF i
  <1>3. j \in Job /\ StageFits(j)
    BY <1>1, <1>2, NoneOutside DEF Idle, Job, StageFits
  <1> HIDE DEF j
  <1>4. /\ job' \in [Workers -> Job] /\ overlaps' \in 0 .. MaxOverlaps
        /\ \A u \in Workers : StageFits(job[u])'
    BY <1>1, <1>3, BeginTyped
  <1> QED
    BY <1>1, <1>4 DEF TypeInv, TypeOK, tables, References, OpenVacancies, Exists, Created

\* Its check of the item keeps the types.
LEMMA HireCheckTyped ==
  ASSUME TypeInv, NEW w \in Workers, hireCheck(w)
  PROVE  TypeInv'
  <1>1. /\ job[w] \in Job /\ StageFits(job[w]) /\ job[w].pc = "check"
        /\ job \in [Workers -> Job] /\ \A v \in Workers : StageFits(job[v])
        /\ job' = [job EXCEPT ![w].pc = "commit"]
        /\ UNCHANGED <<tables, history>>
    BY DEF hireCheck, TypeInv, TypeOK
  <1>2. /\ job'[w] \in Job /\ job'[w].pc = "commit" /\ job'[w].applicant = job[w].applicant
        /\ \A v \in Workers \ {w} : job'[v] = job[v]
    BY <1>1 DEF Job
  <1>3. ASSUME NEW v \in Workers
        PROVE  StageFits(job[v])'
    <2>1. CASE v = w
      BY <1>1, <1>2, <2>1 DEF StageFits, Created, tables
    <2>2. CASE v # w
      BY <1>1, <1>2, <2>2 DEF StageFits, Created, tables
    <2> QED
      BY <2>1, <2>2
  <1>4. job' \in [Workers -> Job]
    BY <1>1, <1>2
  <1> QED
    BY <1>1, <1>3, <1>4
    DEF TypeInv, TypeOK, tables, history, References, OpenVacancies, Exists, Created

\* What the transaction of a hire writes.
LEMMA HireWrites ==
  ASSUME TypeInv, NEW w \in Workers, hireCommit(w)
  PROVE  LET a == job[w].applicant
             i == job[w].item
             e == Len(employee) + 1
         IN  /\ a \in Applicants /\ applicant[a] \in ApplicantRow /\ i \in Items \cup {None}
             /\ e \in 1 .. MaxEmployees
             /\ employee' = Append(employee, a)
             /\ DOMAIN employee' = 1 .. e /\ employee'[e] = a
             /\ \A d \in DOMAIN employee : d # e /\ d \in DOMAIN employee' /\ employee'[d] = employee[d]
             /\ applicant' = [applicant EXCEPT ![a] = [applicant[a] EXCEPT !.status = "HIRED", !.hired = e]]
             /\ seat' = IF i = None THEN seat ELSE [seat EXCEPT ![i] = "FILLED"]
             /\ i = None => appointment' = appointment
             /\ i # None =>
                  /\ Exists(i) /\ Len(appointment) < MaxAppointments
                  /\ appointment' = Append(appointment, [employee |-> e, item |-> i, status |-> "EFFECTIVE"])
  <1>1. /\ job[w] \in Job /\ StageFits(job[w]) /\ job[w].pc = "commit"
        /\ employee \in Seq(Applicants) /\ applicant \in [Applicants -> ApplicantRow \cup {None}]
    BY DEF hireCommit, TypeInv, TypeOK
  <1>2. /\ job[w].applicant \in Applicants /\ job[w].item \in Items \cup {None}
        /\ applicant[job[w].applicant] \in ApplicantRow
    BY <1>1 DEF StageFits, Job, Created
  <1>3. /\ Len(employee) + 1 \in 1 .. MaxEmployees
        /\ employee' = Append(employee, job[w].applicant)
    BY RowsTyped, StaffingAssumption DEF hireCommit
  <1>4. /\ DOMAIN employee' = 1 .. Len(employee) + 1
        /\ employee'[Len(employee) + 1] = job[w].applicant
        /\ \A d \in 1 .. Len(employee) : employee'[d] = employee[d]
    BY <1>1, <1>2, <1>3, AppendProperties, LenProperties
  <1>5. \A d \in DOMAIN employee :
          d # Len(employee) + 1 /\ d \in DOMAIN employee' /\ employee'[d] = employee[d]
    BY <1>4, RowsTyped
  <1>6. applicant' = [applicant EXCEPT ![job[w].applicant] =
                        [applicant[job[w].applicant] EXCEPT !.status = "HIRED", !.hired = Len(employee) + 1]]
    BY <1>1, <1>2 DEF hireCommit
  <1> QED
    BY <1>2, <1>3, <1>4, <1>5, <1>6 DEF hireCommit, Fill

\* Its transaction keeps the types: what it writes refers to rows that are there.
LEMMA HireCommitTyped ==
  ASSUME TypeInv, NEW w \in Workers, hireCommit(w)
  PROVE  TypeInv'
  <1> DEFINE a == job[w].applicant
             i == job[w].item
             e == Len(employee) + 1
             old == applicant[a]
             row == [old EXCEPT !.status = "HIRED", !.hired = e]
             made == [employee |-> e, item |-> i, status |-> "EFFECTIVE"]
  <1>1. /\ a \in Applicants /\ old \in ApplicantRow /\ i \in Items \cup {None} /\ e \in 1 .. MaxEmployees
        /\ employee' = Append(employee, a) /\ DOMAIN employee' = 1 .. e
        /\ DOMAIN employee \subseteq DOMAIN employee'
        /\ applicant' = [applicant EXCEPT ![a] = row]
        /\ seat' = IF i = None THEN seat ELSE [seat EXCEPT ![i] = "FILLED"]
        /\ i = None => appointment' = appointment
        /\ i # None => /\ Exists(i) /\ Len(appointment) < MaxAppointments
                       /\ appointment' = Append(appointment, made)
    BY HireWrites
  <1>2. old.vacancy \in OpenVacancies \cup {None}
    BY <1>1, NoneOutside DEF TypeInv, TypeOK, References, Created
  <1> HIDE DEF old
  <1>3. row \in ApplicantRow /\ row.vacancy = old.vacancy /\ row.hired = e
    BY <1>1 DEF ApplicantRow, ApplicantStatus
  <1>4. made \in AppointmentRow /\ made.employee = e /\ made.item = i
    BY <1>1 DEF AppointmentRow, AppointmentStatus
  <1> HIDE DEF row, made
  <1>5. UNCHANGED <<vacancy, reopened, handled, overlaps>> /\ Done(w)
    BY DEF hireCommit
  <1>6. employee' \in Seq(Applicants) /\ Len(employee') <= MaxEmployees
    BY <1>1, AppendProperties, LenProperties DEF TypeInv, TypeOK
  <1>7. /\ applicant' \in [Applicants -> ApplicantRow \cup {None}]
        /\ \A b \in Applicants : Created(b) => applicant'[b] # None
        /\ \A b \in Applicants : applicant'[b] # None =>
             /\ applicant'[b].vacancy \in OpenVacancies \cup {None}
             /\ applicant'[b].hired \in DOMAIN employee' \cup {None}
    <2>1. row.hired \in DOMAIN employee' \cup {None}
      BY <1>1, <1>3
    <2> QED
      BY <1>1, <1>2, <1>3, <2>1, ApplicantTyped
  <1>8. /\ seat' \in [Items -> PlantillaStatus \cup {"none", "gone"}]
        /\ \A k \in Items : Exists(k) => seat'[k] \in PlantillaStatus
    BY <1>1 DEF TypeInv, TypeOK, Exists, PlantillaStatus
  <1>9. /\ appointment' \in Seq(AppointmentRow) /\ Len(appointment') <= MaxAppointments
        /\ \A p \in DOMAIN appointment' :
             /\ appointment'[p].employee \in DOMAIN employee'
             /\ appointment'[p].item = None \/ seat'[appointment'[p].item] \in PlantillaStatus
    <2>1. \A p \in DOMAIN appointment :
            /\ appointment[p].employee \in DOMAIN employee'
            /\ appointment[p].item = None \/ seat'[appointment[p].item] \in PlantillaStatus
      BY <1>1, <1>8, RowsTyped DEF TypeInv, TypeOK, References, AppointmentRow
    <2>2. CASE i = None
      BY <1>1, <2>1, <2>2 DEF TypeInv, TypeOK
    <2>3. CASE i # None
      <3>1. /\ appointment' \in Seq(AppointmentRow) /\ Len(appointment') = Len(appointment) + 1
            /\ appointment'[Len(appointment) + 1] = made
            /\ \A p \in 1 .. Len(appointment) : appointment'[p] = appointment[p]
            /\ DOMAIN appointment' = 1 .. Len(appointment) + 1
        <4>1. appointment \in Seq(AppointmentRow) /\ appointment' = Append(appointment, made)
          BY <1>1, <2>3 DEF TypeInv, TypeOK
        <4> QED
          BY <1>4, <4>1, AppendProperties, LenProperties
      <3>2. Len(appointment') <= MaxAppointments
        BY <1>1, <2>3, <3>1, RowsTyped, StaffingAssumption
      <3>3. seat'[i] \in PlantillaStatus /\ e \in DOMAIN employee'
        BY <1>1, <1>8, <2>3
      <3>4. ASSUME NEW p \in DOMAIN appointment'
            PROVE  /\ appointment'[p].employee \in DOMAIN employee'
                   /\ appointment'[p].item = None \/ seat'[appointment'[p].item] \in PlantillaStatus
        <4>1. CASE p = Len(appointment) + 1
          BY <1>4, <3>1, <3>3, <4>1
        <4>2. CASE p \in 1 .. Len(appointment)
          BY <2>1, <3>1, <4>2, RowsTyped
        <4> QED
          BY <3>1, <4>1, <4>2, RowsTyped
      <3> QED
        BY <3>1, <3>2, <3>4
    <2> QED
      BY <2>2, <2>3
  <1>10. \A v \in Vacancies : vacancy[v] # None => seat'[vacancy[v]] \in PlantillaStatus
    BY <1>8 DEF TypeInv, TypeOK, References, OpenVacancies
  <1>11. References'
    <2>1. \A v \in OpenVacancies' : Exists(vacancy[v])'
      BY <1>5, <1>10 DEF OpenVacancies, Exists
    <2>2. \A b \in Applicants : Created(b)' =>
            /\ applicant'[b].vacancy \in OpenVacancies' \cup {None}
            /\ applicant'[b].hired \in DOMAIN employee' \cup {None}
      BY <1>5, <1>7 DEF OpenVacancies, Created
    <2>3. \A p \in DOMAIN appointment' :
            /\ appointment'[p].employee \in DOMAIN employee'
            /\ appointment'[p].item = None \/ Exists(appointment[p].item)'
      BY <1>9 DEF Exists
    <2> QED
      BY <2>1, <2>2, <2>3 DEF References
  <1>12. contested' \subseteq Applicants \cup Items
    <2>1. /\ {a, i} \ {None} \in SUBSET (Applicants \cup Items) /\ contested \subseteq Applicants \cup Items
          /\ contested' = Contested({a, i} \ {None}, Workers \ {w})
      BY <1>1 DEF hireCommit, TypeInv, TypeOK
    <2> QED
      BY <2>1, ContestedTyped
  <1>13. job' \in [Workers -> Job] /\ \A v \in Workers : job'[v] = job[v] \/ job'[v] = Idle
    BY <1>5, DoneTyped
  <1>14. \A v \in Workers : StageFits(job[v])'
    BY <1>7, <1>13, StagesKept
  <1> QED
    BY <1>5, <1>6, <1>7, <1>8, <1>9, <1>11, <1>12, <1>13, <1>14 DEF TypeInv, TypeOK

\* Appointments written by hand name no item, and keep the one they have.
LEMMA CreateAppointmentTyped ==
  ASSUME TypeInv, NEW e \in DOMAIN employee, NEW to \in AppointmentForms, createAppointment(e, to)
  PROVE  TypeInv'
  <1> DEFINE made == [employee |-> e, item |-> None, status |-> to]
  <1>1. /\ Len(appointment) < MaxAppointments /\ appointment' = Append(appointment, made)
        /\ UNCHANGED <<applicant, vacancy, seat, employee, job, history>>
    BY DEF createAppointment
  <1>2. e \in 1 .. MaxEmployees
    BY RowsTyped, StaffingAssumption DEF TypeInv, TypeOK
  <1>3. made \in AppointmentRow /\ made.employee = e /\ made.item = None
    BY <1>2, StaffingAssumption DEF AppointmentRow
  <1> HIDE DEF made
  <1>4. /\ appointment' \in Seq(AppointmentRow) /\ Len(appointment') = Len(appointment) + 1
        /\ appointment'[Len(appointment) + 1] = made
        /\ \A p \in 1 .. Len(appointment) : appointment'[p] = appointment[p]
        /\ DOMAIN appointment' = 1 .. Len(appointment) + 1
    BY <1>1, <1>3, AppendProperties, LenProperties DEF TypeInv, TypeOK
  <1>5. Len(appointment') <= MaxAppointments
    BY <1>1, <1>4, RowsTyped, StaffingAssumption
  <1>6. ASSUME NEW p \in DOMAIN appointment'
        PROVE  /\ appointment'[p].employee \in DOMAIN employee
               /\ appointment'[p].item = None \/ seat[appointment'[p].item] \in PlantillaStatus
    <2>1. CASE p = Len(appointment) + 1
      BY <1>3, <1>4, <2>1
    <2>2. CASE p \in 1 .. Len(appointment)
      BY <1>4, <2>2, RowsTyped DEF TypeInv, TypeOK, References, Exists
    <2> QED
      BY <1>4, <2>1, <2>2, RowsTyped
  <1>7. References'
    BY <1>1, <1>6 DEF TypeInv, TypeOK, References, OpenVacancies, Exists, Created
  <1> QED
    BY <1>1, <1>4, <1>5, <1>7 DEF TypeInv, TypeOK, history, StageFits, Created

SetsStatus(p, to) == appointment' = [appointment EXCEPT ![p].status = to]

\* Appointments keep what they refer to.
AimsKept ==
  /\ DOMAIN appointment' = DOMAIN appointment
  /\ \A q \in DOMAIN appointment : /\ appointment'[q].item = appointment[q].item
                                  /\ appointment'[q].employee = appointment[q].employee

\* A status of an appointment that is set keeps the appointments typed.
LEMMA SetAppointmentTyped ==
  ASSUME TypeInv, NEW p \in DOMAIN appointment, NEW to \in AppointmentStatus \cup {"REMOVED"},
         SetsStatus(p, to)
  PROVE  /\ appointment' \in Seq(AppointmentRow) /\ Len(appointment') = Len(appointment)
         /\ AimsKept
  <1> DEFINE old == appointment[p]
             row == [old EXCEPT !.status = to]
  <1>1. old \in AppointmentRow /\ appointment' = [appointment EXCEPT ![p] = row]
    BY RowsTyped DEF SetsStatus
  <1> HIDE DEF old
  <1>2. row \in AppointmentRow /\ row.item = old.item /\ row.employee = old.employee /\ row.status = to
    BY <1>1 DEF AppointmentRow
  <1> HIDE DEF row
  <1>3. appointment' \in Seq(AppointmentRow) /\ Len(appointment') = Len(appointment)
    <2>1. appointment \in Seq(AppointmentRow) /\ p \in 1 .. Len(appointment)
      BY RowsTyped DEF TypeInv, TypeOK
    <2> QED
      BY <1>1, <1>2, <2>1, ExceptSeq
  <1>4. /\ DOMAIN appointment' = DOMAIN appointment
        /\ \A q \in DOMAIN appointment : appointment'[q] = IF q = p THEN row ELSE appointment[q]
    BY <1>1
  <1> QED
    BY <1>2, <1>3, <1>4 DEF old, AimsKept

\* updateAppointment and removeAppointment keep the types.
LEMMA WriteAppointmentTyped ==
  ASSUME TypeInv, NEW p \in DOMAIN appointment,
         removeAppointment(p) \/ \E to \in AppointmentForms : updateAppointment(p, to)
  PROVE  TypeInv'
  <1>1. PICK to \in AppointmentStatus \cup {"REMOVED"} : SetsStatus(p, to)
    BY StaffingAssumption DEF removeAppointment, updateAppointment, SetsStatus
  <1>2. UNCHANGED <<applicant, vacancy, seat, employee, job, contested, reopened, overlaps>>
    BY DEF removeAppointment, updateAppointment, history
  <1>3. handled' \subseteq Items
    <2>1. appointment[p].item \in Items \cup {None}
      BY RowsTyped DEF AppointmentRow
    <2> QED
      BY <2>1 DEF removeAppointment, updateAppointment, history, TypeInv, TypeOK
  <1>4. appointment' \in Seq(AppointmentRow) /\ Len(appointment') = Len(appointment) /\ AimsKept
    BY <1>1, SetAppointmentTyped
  <1>5. References'
    BY <1>2, <1>4 DEF AimsKept, TypeInv, TypeOK, References, OpenVacancies, Exists, Created
  <1> QED
    BY <1>2, <1>3, <1>4, <1>5 DEF TypeInv, TypeOK, StageFits, Created

\* A handler that throws keeps the types.
LEMMA ThrowTyped ==
  ASSUME TypeInv, NEW w \in Workers, Throw(w)
  PROVE  TypeInv'
  <1>1. Done(w) /\ UNCHANGED <<tables, history>>
    BY DEF Throw
  <1>2. job' \in [Workers -> Job] /\ \A v \in Workers : job'[v] = job[v] \/ job'[v] = Idle
    BY <1>1, DoneTyped
  <1>3. \A v \in Workers : StageFits(job[v])'
    BY <1>1, <1>2, StagesKept DEF tables, Created
  <1> QED
    BY <1>1, <1>2, <1>3
    DEF TypeInv, TypeOK, tables, history, References, OpenVacancies, Exists, Created

\* The initial state has the types.
LEMMA TypeInit == Init => TypeInv
  <1> SUFFICES ASSUME Init PROVE TypeInv
    OBVIOUS
  <1>1. employee \in Seq(Applicants) /\ Len(employee) = 0
    BY EmptySeq DEF Init
  <1>2. appointment \in Seq(AppointmentRow) /\ Len(appointment) = 0
    BY EmptySeq DEF Init
  <1>3. DOMAIN appointment = {}
    BY <1>2, LenProperties
  <1>4. References
    BY <1>3 DEF Init, References, OpenVacancies, Created
  <1>5. job \in [Workers -> Job] /\ \A w \in Workers : StageFits(job[w])
    BY IdleTyped DEF Init
  <1> QED
    BY <1>1, <1>2, <1>4, <1>5, StaffingAssumption DEF Init, TypeInv, TypeOK

\* Every step keeps the types.
LEMMA TypeStep ==
  ASSUME TypeInv, [Next]_vars
  PROVE  TypeInv'
  <1>1. ASSUME NEW w \in Workers, Handler(w)
        PROVE  TypeInv'
    BY <1>1, VacancyReadTyped, HireReadTyped, VacancyWriteTyped, HireCheckTyped, HireCommitTyped,
       ThrowTyped DEF Handler
  <1>2. CASE Plantilla
    BY <1>2, CreatePlantillaTyped, UpdatePlantillaTyped, DeletePlantillaTyped DEF Plantilla
  <1>3. CASE Recruitment
    <2>1. ASSUME NEW a \in Applicants, NEW v \in OpenVacancies \cup {None},
                 NEW to \in ApplicantStatus, updateApplicant(a, to, v)
          PROVE  TypeInv'
      BY <2>1, UpdateApplicantTyped
    <2>2. \A a \in Applicants : Created(a) => applicant[a].status \in ApplicantStatus
      BY DEF TypeInv, TypeOK, Created, ApplicantRow
    <2> QED
      BY <1>3, <2>1, <2>2, DeleteVacancyTyped, UpdateVacancyTyped, CreateApplicantTyped, StaffingAssumption
      DEF Recruitment
  <1>4. CASE Appointments
    BY <1>4, CreateAppointmentTyped, WriteAppointmentTyped DEF Appointments
  <1>5. CASE UNCHANGED vars
    BY <1>5 DEF vars, tables, history, TypeInv, TypeOK, References, OpenVacancies, Exists, Created, StageFits
  <1> QED
    BY <1>1, <1>2, <1>3, <1>4, <1>5 DEF Next

\* Rows have their shapes and refer to rows that exist, whatever handlers do and wherever they
\* end: no vacancy, applicant or appointment is left with a row the database let go.
THEOREM StaffingTypeCorrect == Spec => []TypeOK
  <1>1. Init => TypeInv
    BY TypeInit
  <1>2. TypeInv /\ [Next]_vars => TypeInv'
    BY TypeStep
  <1>3. TypeInv => TypeOK
    BY DEF TypeInv
  <1> QED
    BY <1>1, <1>2, <1>3, PTL DEF Spec

-----------------------------------------------------------------------------
(* What a handler has in hand is still as it was checked                   *)

\* Unless somebody else wrote it since: no employee of the applicant it is about to hire, no
\* appointment in force for the item it is about to fill, and an item vacant that it opens.
HandFree(w) ==
  LET j == job[w] IN
  /\ j.pc \in {"check", "commit"} /\ j.applicant \notin contested \cup reopened =>
       \A e \in DOMAIN employee : employee[e] # j.applicant
  /\ j.pc = "commit" /\ j.item \in Items \ (contested \cup handled) =>
       \A p \in DOMAIN appointment : ~Holds(p, j.item)
  /\ j.pc = "vacancy" /\ j.item \notin contested => seat[j.item] = "VACANT"

Inv ==
  /\ TypeInv
  /\ \A e \in DOMAIN employee : Created(employee[e])
  /\ HiresAccounted /\ SeatHeldOnce
  /\ \A w \in Workers : HandFree(w)

\* What has happened to an applicant or an item stays noted.
Noted == contested \subseteq contested' /\ reopened \subseteq reopened' /\ handled \subseteq handled'

\* What is noted stays noted.
LEMMA HistoryGrows ==
  ASSUME [Next]_vars
  PROVE  Noted
  <1>1. ASSUME NEW w \in Workers, Handler(w)
        PROVE  Noted
    BY <1>1 DEF Handler, createVacancyRead, createVacancyWrite, hireRead, hireCheck, hireCommit, Throw,
         history, Contested, Noted
  <1>2. CASE Plantilla
    BY <1>2 DEF Plantilla, createPlantillaItem, updatePlantillaItem, deletePlantillaItem, history,
         Contested, Noted
  <1>3. CASE Recruitment
    BY <1>3 DEF Recruitment, updateVacancy, deleteVacancy, createApplicant, updateApplicant, history, Noted
  <1>4. CASE Appointments
    BY <1>4 DEF Appointments, createAppointment, updateAppointment, removeAppointment, history, Noted
  <1>5. CASE UNCHANGED vars
    BY <1>5 DEF vars, history, Noted
  <1> QED
    BY <1>1, <1>2, <1>3, <1>4, <1>5 DEF Next

\* A step that leaves a handler's job alone also leaves alone what it has in hand, or notes it.
Spared(v) ==
  /\ \A e \in DOMAIN employee' :
       job[v].applicant \notin contested' /\ employee'[e] = job[v].applicant =>
         e \in DOMAIN employee /\ employee[e] = job[v].applicant
  /\ \A p \in DOMAIN appointment' :
       /\ job[v].item \in Items \ (contested' \cup handled')
       /\ appointment'[p].item = job[v].item /\ appointment'[p].status = "EFFECTIVE"
       => p \in DOMAIN appointment /\ Holds(p, job[v].item)
  /\ job[v].item \notin contested' /\ job[v].item \in Items /\ seat[job[v].item] = "VACANT" =>
       seat'[job[v].item] = "VACANT"

\* A handler that stays where it is and is spared still knows what it knew.
LEMMA HandKept ==
  ASSUME TypeInv, NEW v \in Workers, HandFree(v), job'[v] = job[v], Spared(v), Noted
  PROVE  HandFree(v)'
  <1>1. job[v] \in Job /\ StageFits(job[v])
    BY DEF TypeInv, TypeOK
  <1>2. job[v].pc = "vacancy" => job[v].item \in Items
    BY <1>1 DEF StageFits, Job
  <1>3. ASSUME job'[v].pc \in {"check", "commit"}, job'[v].applicant \notin contested' \cup reopened'
        PROVE  \A e \in DOMAIN employee' : employee'[e] # job'[v].applicant
    BY <1>3 DEF HandFree, Spared, Noted
  <1>4. ASSUME job'[v].pc = "commit", job'[v].item \in Items \ (contested' \cup handled'),
               NEW p \in DOMAIN appointment', appointment'[p].item = job'[v].item,
               appointment'[p].status = "EFFECTIVE"
        PROVE  FALSE
    BY <1>4 DEF HandFree, Spared, Noted
  <1>5. job'[v].pc = "vacancy" /\ job'[v].item \notin contested' => seat'[job'[v].item] = "VACANT"
    BY <1>2 DEF HandFree, Spared, Noted
  <1> QED
    BY <1>3, <1>4, <1>5 DEF HandFree, Holds

\* Who does nothing has nothing to know.
LEMMA HandIdle ==
  ASSUME NEW v, job'[v] = Idle
  PROVE  HandFree(v)'
  BY DEF HandFree, Idle

\* Steps that touch none of the tables that matter to a hand.
LEMMA SparedUnchanged ==
  ASSUME UNCHANGED <<employee, appointment, seat>>, NEW v
  PROVE  Spared(v)
  BY DEF Spared, Holds

\* A status set by hand spares the handlers of other items, or is noted.
LEMMA SparedBySeat ==
  ASSUME TypeInv, NEW i \in Items, NEW to, seat' = [seat EXCEPT ![i] = to], UNCHANGED employee,
         \A p \in DOMAIN appointment' : p \in DOMAIN appointment /\ appointment'[p].status = appointment[p].status
           /\ appointment'[p].item \in {appointment[p].item, None},
         NEW v \in Workers, job[v].item = i => i \in contested' \/ seat[i] # "VACANT"
  PROVE  Spared(v)
  <1>1. seat \in [Items -> PlantillaStatus \cup {"none", "gone"}]
    BY DEF TypeInv, TypeOK
  <1>2. \A k \in Items : k # i => seat'[k] = seat[k]
    BY <1>1
  <1> QED
    BY <1>2, NoneOutside DEF Spared, Holds

\* So does a hire.
LEMMA SparedByHire ==
  ASSUME TypeInv, NEW w \in Workers, hireCommit(w), NEW v \in Workers \ {w}
  PROVE  Spared(v)
  <1> DEFINE a == job[w].applicant
             i == job[w].item
             e == Len(employee) + 1
             old == applicant[a]
             made == [employee |-> e, item |-> i, status |-> "EFFECTIVE"]
  <1>1. /\ a \in Applicants /\ i \in Items \cup {None} /\ DOMAIN employee' = 1 .. e /\ employee'[e] = a
        /\ \A d \in DOMAIN employee : d # e /\ d \in DOMAIN employee' /\ employee'[d] = employee[d]
        /\ seat' = IF i = None THEN seat ELSE [seat EXCEPT ![i] = "FILLED"]
        /\ i = None => appointment' = appointment
        /\ i # None => appointment' = Append(appointment, made)
    BY HireWrites
  <1>2. contested' = Contested({a, i} \ {None}, Workers \ {w})
    BY DEF hireCommit
  <1>3. a # None
    BY <1>1, NoneOutside
  <1>4. job[v].applicant = a => a \in contested'
    BY <1>2, <1>3 DEF Contested
  <1>5. i # None /\ job[v].item = i => i \in contested'
    BY <1>2 DEF Contested
  <1>6. /\ DOMAIN employee = 1 .. Len(employee) /\ Len(employee) \in Nat
        /\ DOMAIN appointment = 1 .. Len(appointment) /\ Len(appointment) \in Nat
    BY RowsTyped
  <1>7. ASSUME NEW d \in DOMAIN employee', job[v].applicant \notin contested', employee'[d] = job[v].applicant
        PROVE  d \in DOMAIN employee /\ employee[d] = job[v].applicant
    <2>1. d # e
      BY <1>1, <1>4, <1>7
    <2>2. d \in 1 .. Len(employee)
      BY <1>1, <1>6, <2>1
    <2> QED
      BY <1>1, <1>6, <1>7, <2>2
  <1>8. ASSUME NEW p \in DOMAIN appointment', job[v].item \in Items \ (contested' \cup handled'),
               appointment'[p].item = job[v].item, appointment'[p].status = "EFFECTIVE"
        PROVE  p \in DOMAIN appointment /\ Holds(p, job[v].item)
    <2>1. CASE i = None
      BY <1>1, <1>8, <2>1 DEF Holds
    <2>2. CASE i # None
      <3>1. appointment \in Seq(AppointmentRow) /\ appointment' = Append(appointment, made)
        BY <1>1, <2>2 DEF TypeInv, TypeOK
      <3>2. made \in AppointmentRow /\ made.item = i
        <4>1. e \in 1 .. MaxEmployees
          BY HireWrites
        <4> QED
          BY <1>1, <4>1 DEF AppointmentRow, AppointmentStatus
      <3> HIDE DEF made
      <3>3. /\ DOMAIN appointment' = 1 .. Len(appointment) + 1
            /\ appointment'[Len(appointment) + 1] = made
            /\ \A q \in 1 .. Len(appointment) : appointment'[q] = appointment[q]
        BY <3>1, <3>2, AppendProperties, LenProperties
      <3>4. p # Len(appointment) + 1
        BY <1>5, <1>8, <2>2, <3>2, <3>3
      <3>5. p \in 1 .. Len(appointment)
        BY <1>6, <3>3, <3>4
      <3> QED
        BY <1>6, <1>8, <3>3, <3>5 DEF Holds
    <2> QED
      BY <2>1, <2>2
  <1>9. job[v].item \notin contested' /\ job[v].item \in Items /\ seat[job[v].item] = "VACANT" =>
          seat'[job[v].item] = "VACANT"
    BY <1>1, <1>5 DEF TypeInv, TypeOK
  <1> QED
    BY <1>7, <1>8, <1>9 DEF Spared

\* So do the routes of the plantilla.
LEMMA SparedByPlantilla ==
  ASSUME TypeInv, Plantilla, NEW v \in Workers
  PROVE  Spared(v)
  <1>1. ASSUME NEW i \in Items, NEW to, createPlantillaItem(i, to)
        PROVE  Spared(v)
    <2>1. /\ seat' = [seat EXCEPT ![i] = to] /\ seat[i] = "none" /\ UNCHANGED <<employee, appointment>>
      BY <1>1 DEF createPlantillaItem
    <2> QED
      BY <2>1, SparedBySeat
  <1>2. ASSUME NEW i \in Items, NEW to, updatePlantillaItem(i, to)
        PROVE  Spared(v)
    <2>1. seat' = [seat EXCEPT ![i] = to] /\ UNCHANGED <<employee, appointment>>
      BY <1>2 DEF updatePlantillaItem
    <2>2. job[v].item = i => i \in contested'
      BY <1>2 DEF updatePlantillaItem, Contested
    <2> QED
      BY <2>1, <2>2, SparedBySeat
  <1>3. ASSUME NEW i \in Items, deletePlantillaItem(i)
        PROVE  Spared(v)
    <2>1. /\ seat' = [seat EXCEPT ![i] = "gone"] /\ UNCHANGED employee
          /\ appointment' = [p \in DOMAIN appointment |->
                               [appointment[p] EXCEPT !.item = IF @ = i THEN None ELSE @]]
      BY <1>3 DEF deletePlantillaItem
    <2>2. job[v].item = i => i \in contested'
      BY <1>3 DEF deletePlantillaItem, Contested
    <2>3. \A p \in DOMAIN appointment' : p \in DOMAIN appointment /\ appointment'[p].status = appointment[p].status
            /\ appointment'[p].item \in {appointment[p].item, None}
      BY <2>1, RowsTyped DEF AppointmentRow
    <2> QED
      BY <2>1, <2>2, <2>3, SparedBySeat
  <1> QED
    BY <1>1, <1>2, <1>3 DEF Plantilla

\* So do those of the appointments.
LEMMA SparedByAppointments ==
  ASSUME TypeInv, Appointments, NEW v \in Workers
  PROVE  Spared(v)
  <1>1. ASSUME NEW e \in DOMAIN employee, NEW to \in AppointmentForms, createAppointment(e, to)
        PROVE  Spared(v)
    <2> DEFINE made == [employee |-> e, item |-> None, status |-> to]
    <2>1. /\ appointment \in Seq(AppointmentRow) /\ appointment' = Append(appointment, made)
          /\ UNCHANGED <<employee, seat>>
      BY <1>1 DEF createAppointment, TypeInv, TypeOK
    <2>2. made \in AppointmentRow /\ made.item = None
      <3>1. e \in 1 .. MaxEmployees
        BY RowsTyped, StaffingAssumption DEF TypeInv, TypeOK
      <3> QED
        BY <3>1, StaffingAssumption DEF AppointmentRow
    <2> HIDE DEF made
    <2>3. /\ DOMAIN appointment' = 1 .. Len(appointment) + 1
          /\ appointment'[Len(appointment) + 1] = made
          /\ \A q \in 1 .. Len(appointment) : appointment'[q] = appointment[q]
      BY <2>1, <2>2, AppendProperties, LenProperties
    <2>4. ASSUME NEW p \in DOMAIN appointment', appointment'[p].item # None
          PROVE  p \in DOMAIN appointment /\ appointment'[p] = appointment[p]
      BY <2>2, <2>3, <2>4, RowsTyped
    <2> QED
      BY <2>1, <2>4, NoneOutside DEF Spared, Holds
  <1>2. ASSUME NEW p \in DOMAIN appointment, NEW to, SetsStatus(p, to), UNCHANGED <<employee, seat>>,
               to = "EFFECTIVE" /\ appointment[p].item \in Items => appointment[p].item \in handled'
        PROVE  Spared(v)
    <2>1. /\ DOMAIN appointment' = DOMAIN appointment
          /\ appointment'[p].item = appointment[p].item /\ appointment'[p].status = to
          /\ \A q \in DOMAIN appointment : q # p => appointment'[q] = appointment[q]
      BY <1>2, RowsTyped DEF SetsStatus, AppointmentRow
    <2> QED
      BY <1>2, <2>1 DEF Spared, Holds
  <1>3. ASSUME NEW p \in DOMAIN appointment, removeAppointment(p)
        PROVE  Spared(v)
    BY <1>2, <1>3 DEF removeAppointment, SetsStatus
  <1>4. ASSUME NEW p \in DOMAIN appointment, NEW to \in AppointmentForms, updateAppointment(p, to)
        PROVE  Spared(v)
    <2>1. SetsStatus(p, to) /\ UNCHANGED <<employee, seat>>
      BY <1>4 DEF updateAppointment, SetsStatus
    <2>2. to = "EFFECTIVE" /\ appointment[p].item \in Items => appointment[p].item \in handled'
      BY <1>4, NoneOutside DEF updateAppointment
    <2> QED
      BY <1>2, <2>1, <2>2
  <1> QED
    BY <1>1, <1>3, <1>4 DEF Appointments

\* Every step keeps what handlers know.
LEMMA HandStep ==
  ASSUME Inv, [Next]_vars
  PROVE  \A v \in Workers : HandFree(v)'
  <1> SUFFICES ASSUME NEW v \in Workers PROVE HandFree(v)'
    OBVIOUS
  <1>1. TypeInv /\ Noted /\ HandFree(v) /\ job \in [Workers -> Job] /\ StageFits(job[v])
    BY HistoryGrows DEF Inv, TypeInv, TypeOK
  <1>2. ASSUME UNCHANGED <<employee, appointment, seat>>, job'[v] = job[v]
        PROVE  HandFree(v)'
    BY <1>1, <1>2, SparedUnchanged, HandKept
  <1>3. ASSUME NEW w \in Workers, Handler(w)
        PROVE  HandFree(v)'
    <2>1. ASSUME NEW u \in Vacancies, NEW i \in Items, createVacancyRead(w, u, i)
          PROVE  HandFree(v)'
      <3>1. job' = [job EXCEPT ![w] = [Idle EXCEPT !.pc = "vacancy", !.vacancy = u, !.item = i]]
        BY <2>1 DEF createVacancyRead, Begin
      <3>2. seat[i] = "VACANT" /\ UNCHANGED <<employee, appointment, seat>>
        BY <2>1 DEF createVacancyRead, Vacant, tables
      <3>3. CASE v = w
        BY <1>1, <3>1, <3>2, <3>3 DEF HandFree, Idle
      <3> QED
        BY <1>1, <1>2, <3>1, <3>2, <3>3
    <2>2. ASSUME NEW a \in Applicants, hireRead(w, a)
          PROVE  HandFree(v)'
      <3> DEFINE i == IF applicant[a].vacancy = None THEN None ELSE vacancy[applicant[a].vacancy]
                 j == [Idle EXCEPT !.pc = IF i = None THEN "commit" ELSE "check", !.applicant = a, !.item = i]
      <3>1. /\ job' = [job EXCEPT ![w] = j] /\ Created(a) /\ applicant[a].status # "HIRED"
            /\ UNCHANGED <<employee, appointment, seat, contested, reopened, handled>>
        BY <2>2 DEF hireRead, Begin, MayHire, tables
      <3>2. /\ j.applicant = a /\ j.item = i /\ j.pc \in {"commit", "check"}
            /\ j.pc = "commit" => i = None
        BY DEF Idle
      <3> HIDE DEF j, i
      <3>3. CASE v = w
        <4>1. job'[v] = j
          BY <1>1, <3>1, <3>3
        <4>2. a \notin contested \cup reopened => \A e \in DOMAIN employee : employee[e] # a
          BY <3>1 DEF Inv, HiresAccounted
        <4> QED
          BY <3>1, <3>2, <4>1, <4>2, NoneOutside DEF HandFree
      <3> QED
        BY <1>1, <1>2, <3>1, <3>3
    <2>3. CASE hireCheck(w)
      <3>1. /\ job[w].pc = "check" /\ job' = [job EXCEPT ![w].pc = "commit"] /\ seat[job[w].item] = "VACANT"
            /\ UNCHANGED <<employee, appointment, seat, contested, reopened, handled>>
        BY <2>3 DEF hireCheck, Vacant, tables, history
      <3>2. CASE v = w
        <4>1. /\ job'[v].pc = "commit" /\ job'[v].applicant = job[v].applicant
              /\ job'[v].item = job[v].item
          BY <1>1, <3>1, <3>2 DEF Job
        <4>2. job[v].item \in Items \ (contested \cup handled) =>
                \A p \in DOMAIN appointment : ~Holds(p, job[v].item)
          BY <3>1, <3>2 DEF Inv, SeatHeldOnce
        <4>3. job[v].applicant \notin contested \cup reopened =>
                \A e \in DOMAIN employee : employee[e] # job[v].applicant
          BY <1>1, <3>1, <3>2 DEF HandFree
        <4> QED
          BY <3>1, <4>1, <4>2, <4>3 DEF HandFree, Holds
      <3> QED
        BY <1>1, <1>2, <3>1, <3>2
    <2>4. CASE createVacancyWrite(w) \/ Throw(w)
      <3>1. Done(w) /\ UNCHANGED <<employee, appointment, seat>>
        BY <2>4 DEF createVacancyWrite, Throw, tables
      <3>2. job'[v] = IF v = w THEN Idle ELSE job[v]
        BY <1>1, <3>1 DEF Done
      <3> QED
        BY <1>2, <3>1, <3>2, HandIdle
    <2>5. CASE hireCommit(w)
      <3>1. job'[v] = IF v = w THEN Idle ELSE job[v]
        BY <1>1, <2>5 DEF hireCommit, Done
      <3>2. CASE v # w
        BY <1>1, <2>5, <3>1, <3>2, SparedByHire, HandKept
      <3> QED
        BY <3>1, <3>2, HandIdle
    <2> QED
      BY <1>3, <2>1, <2>2, <2>3, <2>4, <2>5 DEF Handler
  <1>4. CASE Plantilla
    <2>1. job' = job
      BY <1>4 DEF Plantilla, createPlantillaItem, updatePlantillaItem, deletePlantillaItem
    <2> QED
      BY <1>1, <1>4, <2>1, SparedByPlantilla, HandKept
  <1>5. CASE Recruitment
    BY <1>2, <1>5 DEF Recruitment, updateVacancy, deleteVacancy, createApplicant, updateApplicant
  <1>6. CASE Appointments
    <2>1. job' = job
      BY <1>6 DEF Appointments, createAppointment, updateAppointment, removeAppointment
    <2> QED
      BY <1>1, <1>6, <2>1, SparedByAppointments, HandKept
  <1>7. CASE UNCHANGED vars
    BY <1>2, <1>7 DEF vars, tables
  <1> QED
    BY <1>3, <1>4, <1>5, <1>6, <1>7 DEF Next

-----------------------------------------------------------------------------
(* One employee of an applicant, one appointment in force for an item      *)

Hires == (\A e \in DOMAIN employee : Created(employee[e])) /\ HiresAccounted

\* An applicant's status and employee stay, or it is no longer HIRED and noted as reopened.
HiresSpared ==
  \A a \in Applicants :
    IF Created(a)
    THEN /\ applicant'[a] # None /\ applicant'[a].hired = applicant[a].hired
         /\ applicant'[a].status = applicant[a].status \/ applicant'[a].status # "HIRED"
         /\ applicant[a].status = "HIRED" => applicant'[a].status = "HIRED" \/ a \in reopened'
    ELSE applicant'[a] = None \/ applicant'[a].status # "HIRED"

\* A step that makes no employee keeps the hires accounted for, if it spares them.
LEMMA HiresKept ==
  ASSUME TypeInv, Hires, Noted, UNCHANGED employee, HiresSpared
  PROVE  Hires'
  <1>1. \A e \in DOMAIN employee : employee[e] \in Applicants
    BY RowsTyped
  <1>2. \A e \in DOMAIN employee : applicant'[employee[e]] # None
    BY <1>1 DEF Hires, Created, HiresSpared
  <1>3. ASSUME NEW a \in Applicants
        PROVE  /\ applicant'[a] # None /\ applicant'[a].status = "HIRED" =>
                    applicant'[a].hired \in DOMAIN employee /\ employee[applicant'[a].hired] = a
               /\ a \notin contested' \cup reopened' => \A e \in DOMAIN employee : employee[e] = a =>
                    applicant'[a].status = "HIRED" /\ applicant'[a].hired = e
    <2>1. CASE Created(a)
      BY <2>1 DEF Hires, HiresAccounted, Noted, HiresSpared
    <2>2. CASE ~Created(a)
      BY <2>2 DEF Hires, HiresAccounted, Noted, HiresSpared
    <2> QED
      BY <2>1, <2>2
  <1> QED
    BY <1>2, <1>3 DEF Hires, HiresAccounted, Created

\* Every step keeps them.
LEMMA HiresStep ==
  ASSUME Inv, [Next]_vars
  PROVE  Hires'
  <1>1. TypeInv /\ Noted /\ Hires /\ applicant \in [Applicants -> ApplicantRow \cup {None}]
    BY HistoryGrows DEF Inv, Hires, TypeInv, TypeOK
  <1>2. ASSUME UNCHANGED <<applicant, employee>>
        PROVE  Hires'
    <2>1. HiresSpared
      BY <1>1, <1>2 DEF HiresSpared, Created
    <2> QED
      BY <1>1, <1>2, <2>1, HiresKept
  <1>3. ASSUME NEW w \in Workers, hireCommit(w)
        PROVE  Hires'
    <2> DEFINE a == job[w].applicant
               e == Len(employee) + 1
               old == applicant[a]
               row == [old EXCEPT !.status = "HIRED", !.hired = e]
    <2>1. /\ a \in Applicants /\ old \in ApplicantRow
          /\ DOMAIN employee' = 1 .. e /\ employee'[e] = a /\ e \in 1 .. e
          /\ \A d \in DOMAIN employee : d # e /\ d \in DOMAIN employee' /\ employee'[d] = employee[d]
          /\ applicant' = [applicant EXCEPT ![a] = row]
      <3>1. e \in 1 .. e
        BY <1>1, RowsTyped
      <3> QED
        BY <1>1, <1>3, <3>1, HireWrites
    <2>2. \A d \in DOMAIN employee' : d = e \/ d \in DOMAIN employee
      BY <1>1, <2>1, RowsTyped
    <2>3. HandFree(w) /\ job[w].pc = "commit"
      BY <1>3 DEF Inv, hireCommit
    <2>4. a \notin contested' \cup reopened' => \A d \in DOMAIN employee : employee[d] # a
      BY <1>1, <2>3 DEF HandFree, Noted
    <2> HIDE DEF old
    <2>5. row.status = "HIRED" /\ row.hired = e /\ row \in ApplicantRow
      <3>1. e \in 1 .. MaxEmployees
        BY <1>1, <1>3, HireWrites
      <3> QED
        BY <2>1, <3>1 DEF ApplicantRow, ApplicantStatus
    <2> HIDE DEF row, a, e
    <2>6. \A b \in Applicants : applicant'[b] = IF b = a THEN row ELSE applicant[b]
      BY <1>1, <2>1
    <2>7. \A d \in DOMAIN employee' : applicant'[employee'[d]] # None
      <3> SUFFICES ASSUME NEW d \in DOMAIN employee' PROVE applicant'[employee'[d]] # None
        OBVIOUS
      <3>1. CASE d = e
        BY <2>1, <2>5, <2>6, <3>1, NoneOutside
      <3>2. CASE d \in DOMAIN employee
        BY <1>1, <2>1, <2>5, <2>6, <3>2, NoneOutside, RowsTyped DEF Hires, Created
      <3> QED
        BY <2>2, <3>1, <3>2
    <2>8. ASSUME NEW b \in Applicants
          PROVE  /\ applicant'[b] # None /\ applicant'[b].status = "HIRED" =>
                      applicant'[b].hired \in DOMAIN employee' /\ employee'[applicant'[b].hired] = b
                 /\ b \notin contested' \cup reopened' => \A d \in DOMAIN employee' : employee'[d] = b =>
                      applicant'[b].status = "HIRED" /\ applicant'[b].hired = d
      <3>1. CASE b = a
        BY <2>1, <2>2, <2>4, <2>5, <2>6, <3>1
      <3>2. CASE b # a
        BY <1>1, <2>1, <2>2, <2>6, <3>2 DEF Hires, HiresAccounted, Created, Noted
      <3> QED
        BY <3>1, <3>2
    <2> QED
      BY <2>7, <2>8 DEF Hires, HiresAccounted, Created
  <1>4. ASSUME NEW w \in Workers, Handler(w), ~hireCommit(w)
        PROVE  Hires'
    BY <1>2, <1>4 DEF Handler, createVacancyRead, createVacancyWrite, hireRead, hireCheck, Throw, tables
  <1>5. CASE Plantilla
    BY <1>2, <1>5 DEF Plantilla, createPlantillaItem, updatePlantillaItem, deletePlantillaItem
  <1>6. CASE Recruitment
    <2>1. ASSUME NEW v \in Vacancies, deleteVacancy(v)
          PROVE  Hires'
      <3>1. ASSUME NEW a \in Applicants, Created(a)
            PROVE  /\ applicant'[a] # None /\ applicant'[a].hired = applicant[a].hired
                   /\ applicant'[a].status = applicant[a].status
        <4> DEFINE old == applicant[a]
        <4>1. /\ old \in ApplicantRow
              /\ applicant'[a] = IF old.vacancy = v THEN [old EXCEPT !.vacancy = None] ELSE old
          BY <1>1, <2>1, <3>1 DEF deleteVacancy, Created
        <4> HIDE DEF old
        <4>2. /\ applicant'[a] \in ApplicantRow /\ applicant'[a].hired = old.hired
              /\ applicant'[a].status = old.status
          BY <4>1 DEF ApplicantRow
        <4> QED
          BY <4>2, NoneOutside DEF old
      <3>2. \A a \in Applicants : ~Created(a) => applicant'[a] = None
        BY <2>1 DEF deleteVacancy, Created
      <3>3. UNCHANGED employee
        BY <2>1 DEF deleteVacancy
      <3>4. HiresSpared
        BY <3>1, <3>2 DEF HiresSpared
      <3> QED
        BY <1>1, <3>3, <3>4, HiresKept
    <2>2. ASSUME NEW v \in Vacancies, NEW i \in Items, updateVacancy(v, i)
          PROVE  Hires'
      BY <1>2, <2>2 DEF updateVacancy
    <2>3. ASSUME NEW a \in Applicants, NEW to \in Stages, NEW v, createApplicant(a, to, v)
          PROVE  Hires'
      <3> DEFINE row == [status |-> to, vacancy |-> v, hired |-> None]
      <3>1. ~Created(a) /\ applicant' = [applicant EXCEPT ![a] = row] /\ UNCHANGED employee
        BY <2>3 DEF createApplicant
      <3>2. row.status # "HIRED"
        BY StaffingAssumption
      <3> HIDE DEF row
      <3>3. applicant'[a] = row /\ \A b \in Applicants : b # a => applicant'[b] = applicant[b]
        BY <1>1, <3>1
      <3>4. HiresSpared
        BY <1>1, <3>1, <3>2, <3>3 DEF HiresSpared, Created
      <3> QED
        BY <1>1, <3>1, <3>4, HiresKept
    <2>4. ASSUME NEW a \in Applicants, NEW to \in ApplicantStatus, NEW v \in OpenVacancies \cup {None},
                 updateApplicant(a, to, v),
                 to # "HIRED" \/ to = applicant[a].status
          PROVE  Hires'
      <3> DEFINE old == applicant[a]
                 row == [old EXCEPT !.status = to, !.vacancy = v]
      <3>1. /\ Created(a) /\ old \in ApplicantRow /\ applicant' = [applicant EXCEPT ![a] = row]
            /\ UNCHANGED employee
        BY <1>1, <2>4 DEF updateApplicant, Created
      <3>2. old.status = "HIRED" /\ to # "HIRED" => a \in reopened'
        BY <2>4 DEF updateApplicant
      <3> HIDE DEF old
      <3>3. v \in Vacancies \cup {None}
        BY DEF OpenVacancies
      <3>4. row.status = to /\ row.hired = old.hired /\ row # None
        <4>1. row \in ApplicantRow /\ row.status = to /\ row.hired = old.hired
          BY <3>1, <3>3 DEF ApplicantRow
        <4> QED
          BY <4>1, NoneOutside
      <3> HIDE DEF row
      <3>5. applicant'[a] = row /\ \A b \in Applicants : b # a => applicant'[b] = applicant[b]
        BY <1>1, <3>1
      <3>6. HiresSpared
        BY <1>1, <2>4, <3>1, <3>2, <3>4, <3>5 DEF HiresSpared, Created, old
      <3> QED
        BY <1>1, <3>1, <3>6, HiresKept
    <2>5. \A a \in Applicants : Created(a) => applicant[a].status \in ApplicantStatus
      BY <1>1 DEF Created, ApplicantRow
    <2> QED
      BY <1>6, <2>1, <2>2, <2>3, <2>4, <2>5, StaffingAssumption DEF Recruitment
  <1>7. CASE Appointments
    BY <1>2, <1>7 DEF Appointments, createAppointment, updateAppointment, removeAppointment
  <1>8. CASE UNCHANGED vars
    BY <1>2, <1>8 DEF vars, tables
  <1> QED
    BY <1>3, <1>4, <1>5, <1>6, <1>7, <1>8 DEF Next

\* No appointment of an item comes into force, and it stays FILLED while it has one.
SeatsSpared ==
  \A i \in Items \ (contested' \cup handled') :
    /\ \A p \in DOMAIN appointment' :
         appointment'[p].item = i /\ appointment'[p].status = "EFFECTIVE" =>
           p \in DOMAIN appointment /\ Holds(p, i)
    /\ Held(i) /\ seat[i] = "FILLED" => seat'[i] = "FILLED" \/ \A p \in DOMAIN appointment' : appointment'[p].item # i

\* A step that spares the items keeps their appointments single.
LEMMA SeatsKept ==
  ASSUME SeatHeldOnce, Noted, SeatsSpared
  PROVE  SeatHeldOnce'
  <1>1. ASSUME NEW i \in Items \ (contested' \cup handled'), NEW p \in DOMAIN appointment',
               appointment'[p].item = i, appointment'[p].status = "EFFECTIVE"
        PROVE  /\ seat'[i] = "FILLED"
               /\ \A q \in DOMAIN appointment' :
                    appointment'[q].item = i /\ appointment'[q].status = "EFFECTIVE" => q = p
    <2>1. i \in Items \ (contested \cup handled)
      BY DEF Noted
    <2>2. p \in DOMAIN appointment /\ Holds(p, i)
      BY <1>1 DEF SeatsSpared
    <2>3. seat[i] = "FILLED" /\ \A q \in DOMAIN appointment : Holds(q, i) => q = p
      BY <2>1, <2>2 DEF SeatHeldOnce
    <2>4. Held(i)
      BY <2>2 DEF Held
    <2> QED
      BY <1>1, <2>3, <2>4 DEF SeatsSpared
  <1> QED
    BY <1>1 DEF SeatHeldOnce, Holds

\* Every step keeps them single.
LEMMA SeatStep ==
  ASSUME Inv, [Next]_vars
  PROVE  SeatHeldOnce'
  <1>1. /\ TypeInv /\ Noted /\ SeatHeldOnce /\ seat \in [Items -> PlantillaStatus \cup {"none", "gone"}]
        /\ appointment \in Seq(AppointmentRow) /\ References
    BY HistoryGrows DEF Inv, TypeInv, TypeOK
  <1>2. ASSUME UNCHANGED <<appointment, seat>>
        PROVE  SeatHeldOnce'
    <2>1. SeatsSpared
      BY <1>2 DEF SeatsSpared, Holds
    <2> QED
      BY <1>1, <2>1, SeatsKept
  <1>3. ASSUME NEW w \in Workers, hireCommit(w)
        PROVE  SeatHeldOnce'
    <2> DEFINE i == job[w].item
               e == Len(employee) + 1
               made == [employee |-> e, item |-> i, status |-> "EFFECTIVE"]
               n == Len(appointment) + 1
    <2>1. /\ i \in Items \cup {None} /\ e \in 1 .. MaxEmployees
          /\ seat' = IF i = None THEN seat ELSE [seat EXCEPT ![i] = "FILLED"]
          /\ i = None => appointment' = appointment
          /\ i # None => appointment' = Append(appointment, made)
      BY <1>1, <1>3, HireWrites
    <2>2. CASE i = None
      BY <1>2, <2>1, <2>2
    <2>3. CASE i # None
      <3>1. made \in AppointmentRow /\ made.item = i
        BY <2>1 DEF AppointmentRow, AppointmentStatus
      <3> HIDE DEF made
      <3>2. appointment' = Append(appointment, made)
        BY <2>1, <2>3
      <3>3. /\ DOMAIN appointment' = 1 .. n /\ appointment'[n] = made
            /\ \A p \in 1 .. Len(appointment) : appointment'[p] = appointment[p]
            /\ DOMAIN appointment = 1 .. Len(appointment) /\ Len(appointment) \in Nat
        BY <1>1, <3>1, <3>2, AppendProperties, LenProperties
      <3>4. \A p \in DOMAIN appointment' : p = n \/ (p \in DOMAIN appointment /\ appointment'[p] = appointment[p])
        BY <3>3
      <3>5. i \in Items \ (contested' \cup handled') => \A p \in DOMAIN appointment : ~Holds(p, i)
        <4>1. HandFree(w) /\ job[w].pc = "commit"
          BY <1>3 DEF Inv, hireCommit
        <4> QED
          BY <1>1, <4>1 DEF HandFree, Noted
      <3>6. seat'[i] = "FILLED" /\ \A k \in Items : k # i => seat'[k] = seat[k]
        BY <1>1, <2>1, <2>3
      <3> HIDE DEF i, n
      <3>7. ASSUME NEW k \in Items \ (contested' \cup handled'), NEW p \in DOMAIN appointment',
                   appointment'[p].item = k, appointment'[p].status = "EFFECTIVE"
            PROVE  /\ seat'[k] = "FILLED"
                   /\ \A q \in DOMAIN appointment' :
                        appointment'[q].item = k /\ appointment'[q].status = "EFFECTIVE" => q = p
        <4>1. CASE k = i
          <5>1. \A q \in DOMAIN appointment' :
                  appointment'[q].item = i /\ appointment'[q].status = "EFFECTIVE" => q = n
            BY <3>4, <3>5, <3>7, <4>1 DEF Holds
          <5> QED
            BY <3>6, <3>7, <4>1, <5>1
        <4>2. CASE k # i
          <5>1. \A q \in DOMAIN appointment' : appointment'[q].item = k =>
                  q \in DOMAIN appointment /\ appointment'[q] = appointment[q]
            BY <3>1, <3>3, <3>4, <4>2
          <5>2. k \in Items \ (contested \cup handled)
            BY <1>1 DEF Noted
          <5>3. Holds(p, k)
            BY <3>7, <5>1 DEF Holds
          <5>4. seat[k] = "FILLED" /\ \A q \in DOMAIN appointment : Holds(q, k) => q = p
            BY <1>1, <3>7, <5>1, <5>2, <5>3 DEF SeatHeldOnce
          <5> QED
            BY <3>6, <3>7, <4>2, <5>1, <5>4 DEF Holds
        <4> QED
          BY <4>1, <4>2
      <3> QED
        BY <3>7 DEF SeatHeldOnce, Holds
    <2> QED
      BY <2>2, <2>3
  <1>4. ASSUME NEW w \in Workers, Handler(w), ~hireCommit(w)
        PROVE  SeatHeldOnce'
    BY <1>2, <1>4 DEF Handler, createVacancyRead, createVacancyWrite, hireRead, hireCheck, Throw, tables
  <1>5. ASSUME NEW i \in Items, NEW to, createPlantillaItem(i, to)
        PROVE  SeatHeldOnce'
    <2>1. seat' = [seat EXCEPT ![i] = to] /\ seat[i] = "none" /\ UNCHANGED appointment
      BY <1>5 DEF createPlantillaItem
    <2>2. SeatsSpared
      BY <1>1, <2>1 DEF SeatsSpared, Holds, Held
    <2> QED
      BY <1>1, <2>2, SeatsKept
  <1>6. ASSUME NEW i \in Items, NEW to, updatePlantillaItem(i, to)
        PROVE  SeatHeldOnce'
    <2>1. seat' = [seat EXCEPT ![i] = to] /\ (Held(i) => i \in handled') /\ UNCHANGED appointment
      BY <1>6 DEF updatePlantillaItem
    <2>2. SeatsSpared
      BY <1>1, <2>1 DEF SeatsSpared, Holds
    <2> QED
      BY <1>1, <2>2, SeatsKept
  <1>7. ASSUME NEW i \in Items, deletePlantillaItem(i)
        PROVE  SeatHeldOnce'
    <2>1. /\ seat' = [seat EXCEPT ![i] = "gone"]
          /\ appointment' = [p \in DOMAIN appointment |->
                               [appointment[p] EXCEPT !.item = IF @ = i THEN None ELSE @]]
      BY <1>7 DEF deletePlantillaItem
    <2>2. \A p \in DOMAIN appointment' : p \in DOMAIN appointment /\ appointment'[p].status = appointment[p].status
            /\ appointment'[p].item \in {appointment[p].item, None} \ {i}
      BY <1>1, <2>1, RowsTyped, NoneOutside DEF AppointmentRow
    <2>3. SeatsSpared
      BY <1>1, <2>1, <2>2, NoneOutside DEF SeatsSpared, Holds
    <2> QED
      BY <1>1, <2>3, SeatsKept
  <1>8. CASE Recruitment
    BY <1>2, <1>8 DEF Recruitment, updateVacancy, deleteVacancy, createApplicant, updateApplicant
  <1>9. ASSUME NEW e \in DOMAIN employee, NEW to \in AppointmentForms, createAppointment(e, to)
        PROVE  SeatHeldOnce'
    <2> DEFINE made == [employee |-> e, item |-> None, status |-> to]
    <2>1. appointment' = Append(appointment, made) /\ UNCHANGED seat
      BY <1>9 DEF createAppointment
    <2>2. made \in AppointmentRow /\ made.item = None
      <3>1. e \in 1 .. MaxEmployees
        BY <1>1, RowsTyped, StaffingAssumption DEF TypeInv, TypeOK
      <3> QED
        BY <3>1, StaffingAssumption DEF AppointmentRow
    <2> HIDE DEF made
    <2>3. /\ DOMAIN appointment' = 1 .. Len(appointment) + 1
          /\ appointment'[Len(appointment) + 1] = made
          /\ \A q \in 1 .. Len(appointment) : appointment'[q] = appointment[q]
      BY <1>1, <2>1, <2>2, AppendProperties, LenProperties
    <2>4. ASSUME NEW p \in DOMAIN appointment', appointment'[p].item # None
          PROVE  p \in DOMAIN appointment /\ appointment'[p] = appointment[p]
      BY <1>1, <2>2, <2>3, <2>4, RowsTyped
    <2>5. SeatsSpared
      BY <2>1, <2>4, NoneOutside DEF SeatsSpared, Holds
    <2> QED
      BY <1>1, <2>5, SeatsKept
  <1>10. ASSUME NEW p \in DOMAIN appointment, NEW to, SetsStatus(p, to), UNCHANGED seat,
                to = "EFFECTIVE" /\ appointment[p].item \in Items => appointment[p].item \in handled'
         PROVE  SeatHeldOnce'
    <2>1. /\ DOMAIN appointment' = DOMAIN appointment
          /\ appointment'[p].item = appointment[p].item /\ appointment'[p].status = to
          /\ \A q \in DOMAIN appointment : q # p => appointment'[q] = appointment[q]
      BY <1>1, <1>10, RowsTyped DEF SetsStatus, AppointmentRow
    <2>2. SeatsSpared
      BY <1>10, <2>1 DEF SeatsSpared, Holds
    <2> QED
      BY <1>1, <2>2, SeatsKept
  <1>11. ASSUME NEW p \in DOMAIN appointment, NEW to \in AppointmentForms, updateAppointment(p, to)
         PROVE  SeatHeldOnce'
    <2>1. SetsStatus(p, to) /\ UNCHANGED seat
      BY <1>11 DEF updateAppointment, SetsStatus
    <2>2. to = "EFFECTIVE" /\ appointment[p].item \in Items => appointment[p].item \in handled'
      BY <1>11, NoneOutside DEF updateAppointment
    <2> QED
      BY <1>10, <2>1, <2>2
  <1>12. ASSUME NEW p \in DOMAIN appointment, removeAppointment(p)
         PROVE  SeatHeldOnce'
    BY <1>10, <1>12 DEF removeAppointment, SetsStatus
  <1>13. CASE UNCHANGED vars
    BY <1>2, <1>13 DEF vars, tables
  <1> QED
    BY <1>3, <1>4, <1>5, <1>6, <1>7, <1>8, <1>9, <1>11, <1>12, <1>13 DEF Next, Plantilla, Appointments

-----------------------------------------------------------------------------

\* The invariant of hires and items holds at the start.
LEMMA InvInit == Init => Inv
  <1> SUFFICES ASSUME Init PROVE Inv
    OBVIOUS
  <1>1. TypeInv
    BY TypeInit
  <1>2. DOMAIN employee = {} /\ DOMAIN appointment = {}
    BY DEF Init
  <1>3. HiresAccounted
    BY <1>2 DEF Init, HiresAccounted, Created
  <1>4. \A w \in Workers : HandFree(w)
    BY DEF Init, HandFree, Idle
  <1> QED
    BY <1>1, <1>2, <1>3, <1>4 DEF Inv, SeatHeldOnce

\* Every step keeps it.
LEMMA InvStep ==
  ASSUME Inv, [Next]_vars
  PROVE  Inv'
  <1>1. TypeInv'
    BY TypeStep DEF Inv
  <1> QED
    BY <1>1, HandStep, HiresStep, SeatStep DEF Inv, Hires

\* It holds always.
LEMMA Invariant == Spec => []Inv
  BY InvInit, InvStep, PTL DEF Spec

\* However many handlers hire at once, an applicant is one employee unless two hires of it met
\* or it was given another status after one: a hire in hand knows of no employee of it.
THEOREM HiresCorrect == Spec => []HiresAccounted
  <1>1. Inv => HiresAccounted
    BY DEF Inv
  <1> QED
    BY <1>1, Invariant, PTL

\* An item has one appointment in force and is FILLED with it, unless what a hire had checked
\* was written before it wrote, or the item or an appointment was set by hand.
THEOREM SeatsCorrect == Spec => []SeatHeldOnce
  <1>1. Inv => SeatHeldOnce
    BY DEF Inv
  <1> QED
    BY <1>1, Invariant, PTL

\* A vacancy opened with createVacancy is for an item that is vacant, or was written since.
THEOREM VacanciesCorrect == Spec => OpenedForVacant
  <1>1. Inv /\ [Next]_vars =>
          [\A v \in Vacancies : vacancy[v] = None /\ vacancy'[v] # None =>
             seat[vacancy'[v]] = "VACANT" \/ vacancy'[v] \in contested]_vars
    <2> SUFFICES ASSUME Inv, Next, NEW v \in Vacancies, vacancy[v] = None, vacancy'[v] # None
                 PROVE  seat[vacancy'[v]] = "VACANT" \/ vacancy'[v] \in contested
      BY DEF vars, tables
    <2>1. vacancy \in [Vacancies -> Items \cup {None}]
      BY DEF Inv, TypeInv, TypeOK
    <2>2. PICK w \in Workers : createVacancyWrite(w)
      <3>1. ASSUME NEW u \in Vacancies, NEW i, updateVacancy(u, i)
            PROVE  FALSE
        BY <2>1, <3>1 DEF updateVacancy, OpenVacancies
      <3>2. ASSUME NEW u \in Vacancies, deleteVacancy(u)
            PROVE  FALSE
        BY <2>1, <3>2 DEF deleteVacancy
      <3> QED
        BY <3>1, <3>2
        DEF Next, Handler, Plantilla, Recruitment, Appointments, createVacancyRead, hireRead, hireCheck,
            hireCommit, Throw, tables, createPlantillaItem, updatePlantillaItem, deletePlantillaItem,
            createApplicant, updateApplicant, createAppointment, updateAppointment, removeAppointment
    <2>3. vacancy'[v] = job[w].item /\ job[w].pc = "vacancy"
      BY <2>1, <2>2 DEF createVacancyWrite
    <2> QED
      BY <2>3 DEF Inv, HandFree
  <1> QED
    BY <1>1, Invariant, PTL DEF Spec, OpenedForVacant

=============================================================================
