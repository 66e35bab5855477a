------------------------------- MODULE Staffing -------------------------------
(***************************************************************************)
(* Hiring: applicants, vacancies, plantilla items and appointments         *)
(* (recruitmentRepository.js, vacancyRepository.js, plantillaRepository.js *)
(* and appointmentsService.js under backend/src/).                         *)
(*                                                                         *)
(* A hire reads the applicant and the item of its vacancy, checks them,    *)
(* and only then opens the transaction that writes all four tables, with   *)
(* no condition on what it read.                                           *)
(***************************************************************************)
EXTENDS Naturals, Sequences

CONSTANTS
  Workers,          \* request handlers
  Applicants, Vacancies, Items,
  Stages,           \* statuses a request may give an applicant
  SeatForms,        \* statuses a request may give an item
  AppointmentForms, \* statuses a request may give an appointment
  None,
  MaxEmployees,     \* bounds the employees ever hired
  MaxAppointments,  \* bounds the appointments ever made
  MaxOverlaps       \* bounds the handlers that start while another one is under way

VARIABLES
  applicant,   \* Applicant rows: status, vacancyId and hiredEmployeeId; None before creation
  vacancy,     \* plantillaItemId of each Vacancy row; None without a row
  seat,        \* PlantillaItem.status; "none" before the row's creation, "gone" after its deletion
  employee,    \* the applicant each Employee row was made from, in the order they were made
  appointment, \* Appointment rows in the order they were made, "REMOVED" with a deletedAt
  job,         \* what each handler has read and not yet written
  contested,   \* history: applicants and items written while another handler had them in hand
  reopened,    \* history: applicants given another status after they were hired
  handled,     \* history: items set by hand while held, or with an appointment put in force by hand
  overlaps     \* history: the handlers so far that started while another one was under way

tables == <<applicant, vacancy, seat, employee, appointment>>
history == <<contested, reopened, handled, overlaps>>
vars == <<tables, job, history>>

PlantillaStatus == {"VACANT", "FILLED", "FROZEN", "ARCHIVED"}
ApplicantStatus == {"NEW", "APPLIED", "SCREENED", "SHORTLISTED", "INTERVIEWED", "OFFERED",
                    "HIRED", "REJECTED", "DISQUALIFIED"}
AppointmentStatus == {"PENDING", "APPROVED", "VERIFIED", "ISSUED", "EFFECTIVE", "ENDED", "SEPARATED"}
ApplicantRow == [status: ApplicantStatus, vacancy: Vacancies \cup {None},
                 hired: (1 .. MaxEmployees) \cup {None}]
AppointmentRow == [employee: 1 .. MaxEmployees, item: Items \cup {None},
                   status: AppointmentStatus \cup {"REMOVED"}]

ASSUME StaffingAssumption ==
  /\ Stages \subseteq ApplicantStatus \ {"HIRED"}
  /\ SeatForms \subseteq PlantillaStatus /\ AppointmentForms \subseteq AppointmentStatus
  /\ MaxEmployees \in Nat /\ MaxAppointments \in Nat /\ MaxOverlaps \in Nat
  /\ None \notin Applicants \cup Vacancies \cup Items \cup Nat \cup ApplicantRow

Created(a) == applicant[a] # None
OpenVacancies == {v \in Vacancies : vacancy[v] # None}
Exists(i) == seat[i] \in PlantillaStatus

Idle == [pc |-> "idle", applicant |-> None, item |-> None, vacancy |-> None]
Begin(w, j) ==
  /\ job[w] = Idle
  /\ job' = [job EXCEPT ![w] = j]
  /\ overlaps' = IF \A v \in Workers : job[v] = Idle THEN overlaps ELSE overlaps + 1
  /\ overlaps' <= MaxOverlaps
Done(w) == job' = [job EXCEPT ![w] = Idle]

\* Called with every write to an applicant's status by a hire or to an item's.
Contested(written, others) ==
  contested \cup {x \in written : \E v \in others : x \in {job[v].applicant, job[v].item}}

\* An appointment in force for the item.
Holds(p, i) == appointment[p].item = i /\ appointment[p].status = "EFFECTIVE"
Held(i) == \E p \in DOMAIN appointment : Holds(p, i)

-----------------------------------------------------------------------------
(* Plantilla items                                                         *)

createPlantillaItem(i, to) ==
  /\ seat[i] = "none"
  /\ seat' = [seat EXCEPT ![i] = to]
  /\ UNCHANGED <<applicant, vacancy, employee, appointment, job, history>>

\* The request's status, VACANT when it brings none, whoever holds the item.
updatePlantillaItem(i, to) ==
  /\ Exists(i)
  /\ seat' = [seat EXCEPT ![i] = to]
  /\ handled' = IF Held(i) THEN handled \cup {i} ELSE handled
  /\ contested' = Contested({i}, Workers)
  /\ UNCHANGED <<applicant, vacancy, employee, appointment, job, reopened, overlaps>>

ReferredNever(i) == FALSE
Referred(i) == \E v \in Vacancies : vacancy[v] = i

\* The database refuses it while a vacancy refers to the item; appointments lose theirs.
deletePlantillaItem(i) ==
  /\ Exists(i) /\ ~Referred(i)
  /\ seat' = [seat EXCEPT ![i] = "gone"]
  /\ appointment' = [p \in DOMAIN appointment |->
                       [appointment[p] EXCEPT !.item = IF @ = i THEN None ELSE @]]
  /\ contested' = Contested({i}, Workers)
  /\ UNCHANGED <<applicant, vacancy, employee, job, reopened, handled, overlaps>>

-----------------------------------------------------------------------------
(* Vacancies                                                               *)

VacantUnlessArchived(i) == seat[i] # "ARCHIVED"
Vacant(i) == seat[i] = "VACANT"

createVacancyRead(w, v, i) ==
  /\ vacancy[v] = None
  /\ \A u \in Workers : job[u].vacancy # v
  /\ Exists(i) /\ Vacant(i)
  /\ Begin(w, [Idle EXCEPT !.pc = "vacancy", !.vacancy = v, !.item = i])
  /\ UNCHANGED <<tables, contested, reopened, handled>>

createVacancyWrite(w) ==
  /\ job[w].pc = "vacancy" /\ Exists(job[w].item)
  /\ vacancy' = [vacancy EXCEPT ![job[w].vacancy] = job[w].item]
  /\ Done(w)
  /\ UNCHANGED <<applicant, seat, employee, appointment, history>>

\* The item it is moved to is not looked at: the database only wants it to exist.
updateVacancy(v, i) ==
  /\ v \in OpenVacancies /\ Exists(i)
  /\ vacancy' = [vacancy EXCEPT ![v] = i]
  /\ UNCHANGED <<applicant, seat, employee, appointment, job, history>>

\* Its applicants lose it.  Refused, by the database, with publications: then nothing happens.
deleteVacancy(v) ==
  /\ v \in OpenVacancies
  /\ vacancy' = [vacancy EXCEPT ![v] = None]
  /\ applicant' = [a \in Applicants |-> IF Created(a) /\ applicant[a].vacancy = v
                                        THEN [applicant[a] EXCEPT !.vacancy = None]
                                        ELSE applicant[a]]
  /\ UNCHANGED <<seat, employee, appointment, job, history>>

-----------------------------------------------------------------------------
(* Applicants                                                              *)

createApplicant(a, to, v) ==
  /\ ~Created(a)
  /\ applicant' = [applicant EXCEPT ![a] = [status |-> to, vacancy |-> v, hired |-> None]]
  /\ UNCHANGED <<vacancy, seat, employee, appointment, job, history>>

\* Any status but HIRED, and any vacancy, also of an applicant hired before.
updateApplicant(a, to, v) ==
  /\ Created(a)
  /\ applicant' = [applicant EXCEPT ![a].status = to, ![a].vacancy = v]
  /\ reopened' = IF applicant[a].status = "HIRED" /\ to # "HIRED" THEN reopened \cup {a} ELSE reopened
  /\ UNCHANGED <<vacancy, seat, employee, appointment, job, contested, handled, overlaps>>

MayHireAgain(a) == TRUE
MayHire(a) == applicant[a].status # "HIRED"

\* The applicant with its vacancy; one HIRED is answered with its employee.
hireRead(w, a) ==
  LET v == applicant[a].vacancy
      i == IF v = None THEN None ELSE vacancy[v]
  IN
  /\ Created(a) /\ MayHire(a)
  /\ Begin(w, [Idle EXCEPT !.pc = IF i = None THEN "commit" ELSE "check", !.applicant = a, !.item = i])
  /\ UNCHANGED <<tables, contested, reopened, handled>>

\* The item, read again by itself: without one, or one not VACANT, the request fails.
hireCheck(w) ==
  /\ job[w].pc = "check"
  /\ Exists(job[w].item) /\ Vacant(job[w].item)
  /\ job' = [job EXCEPT ![w].pc = "commit"]
  /\ UNCHANGED <<tables, history>>

FillNothing(i) == seat
Fill(i) == IF i = None THEN seat ELSE [seat EXCEPT ![i] = "FILLED"]

\* The transaction.
hireCommit(w) ==
  LET a == job[w].applicant
      i == job[w].item
      e == Len(employee) + 1
  IN
  /\ job[w].pc = "commit"
  /\ i # None => Exists(i) /\ Len(appointment) < MaxAppointments
  /\ e <= MaxEmployees
  /\ employee' = Append(employee, a)
  /\ appointment' = IF i = None THEN appointment
                    ELSE Append(appointment, [employee |-> e, item |-> i, status |-> "EFFECTIVE"])
  /\ seat' = Fill(i)
  /\ applicant' = [applicant EXCEPT ![a].status = "HIRED", ![a].hired = e]
  /\ contested' = Contested({a, i} \ {None}, Workers \ {w})
  /\ Done(w)
  /\ UNCHANGED <<vacancy, reopened, handled, overlaps>>

-----------------------------------------------------------------------------
(* appointmentsService: rows of employees, without an item of the plantilla *)

createAppointment(e, to) ==
  /\ Len(appointment) < MaxAppointments
  /\ appointment' = Append(appointment, [employee |-> e, item |-> None, status |-> to])
  /\ UNCHANGED <<applicant, vacancy, seat, employee, job, history>>

\* The item of the plantilla keeps its status.
updateAppointment(p, to) ==
  /\ appointment[p].status # "REMOVED"
  /\ appointment' = [appointment EXCEPT ![p].status = to]
  /\ handled' = IF to = "EFFECTIVE" THEN handled \cup ({appointment[p].item} \ {None}) ELSE handled
  /\ UNCHANGED <<applicant, vacancy, seat, employee, job, contested, reopened, overlaps>>

removeAppointment(p) ==
  /\ appointment[p].status # "REMOVED"
  /\ appointment' = [appointment EXCEPT ![p].status = "REMOVED"]
  /\ UNCHANGED <<applicant, vacancy, seat, employee, job, history>>

-----------------------------------------------------------------------------
\* A check or a statement throws and the transaction rolls back, or the process dies.
Throw(w) ==
  /\ job[w] # Idle
  /\ Done(w)
  /\ UNCHANGED <<tables, history>>

Init ==
  /\ applicant = [a \in Applicants |-> None]
  /\ vacancy = [v \in Vacancies |-> None]
  /\ seat = [i \in Items |-> "none"]
  /\ employee = <<>> /\ appointment = <<>>
  /\ job = [w \in Workers |-> Idle]
  /\ contested = {} /\ reopened = {} /\ handled = {} /\ overlaps = 0

Handler(w) ==
  \/ \E v \in Vacancies, i \in Items : createVacancyRead(w, v, i)
  \/ \E a \in Applicants : hireRead(w, a)
  \/ createVacancyWrite(w) \/ hireCheck(w) \/ hireCommit(w) \/ Throw(w)

\* Requests whose outcome does not depend on when they read: a step each.
Plantilla ==
  \E i \in Items :
    \/ \E to \in SeatForms : createPlantillaItem(i, to) \/ updatePlantillaItem(i, to)
    \/ deletePlantillaItem(i)
Recruitment ==
  \/ \E v \in Vacancies : deleteVacancy(v) \/ \E i \in Items : updateVacancy(v, i)
  \/ \E a \in Applicants, v \in OpenVacancies \cup {None} :
       \/ \E to \in Stages : createApplicant(a, to, v) \/ updateApplicant(a, to, v)
       \/ Created(a) /\ updateApplicant(a, applicant[a].status, v)
Appointments ==
  \/ \E e \in DOMAIN employee, to \in AppointmentForms : createAppointment(e, to)
  \/ \E p \in DOMAIN appointment :
       removeAppointment(p) \/ \E to \in AppointmentForms : updateAppointment(p, to)

Next == (\E w \in Workers : Handler(w)) \/ Plantilla \/ Recruitment \/ Appointments

Spec == Init /\ [][Next]_vars

-----------------------------------------------------------------------------
(* Properties                                                              *)

Job == [pc: {"idle", "vacancy", "check", "commit"}, applicant: Applicants \cup {None},
        item: Items \cup {None}, vacancy: Vacancies \cup {None}]

References ==
  /\ \A v \in OpenVacancies : Exists(vacancy[v])
  /\ \A a \in Applicants : Created(a) =>
       /\ applicant[a].vacancy \in OpenVacancies \cup {None}
       /\ applicant[a].hired \in DOMAIN employee \cup {None}
  /\ \A p \in DOMAIN appointment :
       /\ appointment[p].employee \in DOMAIN employee
       /\ appointment[p].item = None \/ Exists(appointment[p].item)

\* Rows and local states have the shapes the code gives them, and what a row refers to exists.
TypeOK ==
  /\ applicant \in [Applicants -> ApplicantRow \cup {None}]
  /\ vacancy \in [Vacancies -> Items \cup {None}]
  /\ seat \in [Items -> PlantillaStatus \cup {"none", "gone"}]
  /\ employee \in Seq(Applicants) /\ Len(employee) <= MaxEmployees
  /\ appointment \in Seq(AppointmentRow) /\ Len(appointment) <= MaxAppointments
  /\ References
  /\ job \in [Workers -> Job]
  /\ contested \subseteq Applicants \cup Items /\ reopened \subseteq Applicants /\ handled \subseteq Items
  /\ overlaps \in 0 .. MaxOverlaps

\* "Idempotent hire creating Employee + Appointment": an applicant is one employee, that of
\* its hiredEmployeeId, however often it is hired, unless two hires of it met or it was given
\* another status after the first; and who is HIRED is linked to an employee made from it.
HiresAccounted ==
  \A a \in Applicants :
    /\ Created(a) /\ applicant[a].status = "HIRED" =>
         applicant[a].hired \in DOMAIN employee /\ employee[applicant[a].hired] = a
    /\ a \notin contested \cup reopened => \A e \in DOMAIN employee : employee[e] = a =>
         applicant[a].status = "HIRED" /\ applicant[a].hired = e

\* An item of the plantilla has one appointment in force, and is FILLED while it has one,
\* though several vacancies and applicants may be after it: unless a request met a hire in
\* it, its status was set while it was held, or an appointment was put in force by hand.
SeatHeldOnce ==
  \A i \in Items \ (contested \cup handled) : \A p \in DOMAIN appointment :
    Holds(p, i) => seat[i] = "FILLED" /\ \A q \in DOMAIN appointment : Holds(q, i) => q = p

\* A vacancy is opened for an item that is still vacant when its row is written, unless the
\* item was written since it was read.
OpenedForVacant ==
  [][\A v \in Vacancies : vacancy[v] = None /\ vacancy'[v] # None =>
       seat[vacancy'[v]] = "VACANT" \/ vacancy'[v] \in contested]_vars

=============================================================================
