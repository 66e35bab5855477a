----------------------------- MODULE Performance -----------------------------
(***************************************************************************)
(* Performance reviews: backend/src/services/performanceService.js and the *)
(* writes of performanceRepository.js.                                     *)
(*                                                                         *)
(* A handler reads the review with its rows, checks, and writes some       *)
(* statements later, without a transaction and without a condition on what *)
(* it read.  An approval writes the average of every target, one by one,   *)
(* then the rating, then the status.                                       *)
(***************************************************************************)
EXTENDS RatingEngine, Sequences

CONSTANTS
  Workers,      \* request handlers
  Reviews,      \* each one is of one employee, year and type
  Competencies, \* the catalog
  Configs,      \* weights and caps a review may be given
  Defaults,     \* those of a review created without
  TargetForms,  \* what POST /:id/targets carries
  Patches,      \* what PATCH /:id/targets/:targetId carries
  Keep,         \* a field a patch does not carry
  ItemForms,    \* score and weight of a competency in a review
  MaxTargets,   \* bounds the targets ever added
  MaxOverlaps   \* bounds the handlers that start while another one is under way

VARIABLES
  status,       \* PerformanceReview.status; "none" before its creation, "gone" after its deletion
  config,       \* its weights and officeRatingCap
  rated,        \* its rating and adjectivalRating
  target,       \* PerformanceTarget rows in the order they were created, None when deleted
  item,         \* PerformanceCompetency by review and competency, None without a row
  job,          \* what each handler is in the middle of
  verdict,      \* what it computed, until it is written
  contested,    \* history: reviews written by one handler while another one had them in hand
  amended,      \* history: reviews changed after their approval
  misread,      \* history: reviews with an average that was not the sum of numbers
  overlaps      \* history: the handlers so far that started while another one was under way

tables == <<status, config, rated, target, item>>
notes == <<contested, amended, misread>>
history == <<notes, overlaps>>
vars == <<tables, job, verdict, history>>

ReviewStatus == {"PLANNING", "MONITORING", "REVIEW", "APPROVED", "REJECTED", "CANCELLED"}
ScoreValue == (1 .. 5) \cup {None}
Percent == 0 .. 100
Config == [core: Percent, strategic: Percent, support: Percent, competency: Percent,
           cap: (100 .. 500) \cup {None}]
TargetForm == [group: Groups, weight: Percent,
               quality: ScoreValue, efficiency: ScoreValue, timeliness: ScoreValue]
TargetRow == [review: Reviews, group: Groups, weight: Percent, quality: ScoreValue,
              efficiency: ScoreValue, timeliness: ScoreValue, average: (0 .. 999) \cup {None}]
Patch == [group: Groups \cup {Keep}, weight: Percent \cup {Keep}, quality: ScoreValue \cup {Keep},
          efficiency: ScoreValue \cup {Keep}, timeliness: ScoreValue \cup {Keep}]
ItemRow == [score: ScoreValue, weight: Percent]
Average == Nat \cup {None}
Entry == [average: Average, misread: BOOLEAN]

ASSUME PerformanceAssumption ==
  /\ Configs \subseteq Config /\ Defaults \in Config
  /\ TargetForms \subseteq TargetForm /\ Patches \subseteq Patch /\ ItemForms \subseteq ItemRow
  /\ None \notin Config \cup TargetRow \cup ItemRow \cup Entry \cup Reviews \cup ReviewStatus \cup Nat
  /\ Keep \notin Groups \cup Nat \cup {None}
  /\ MaxTargets \in Nat /\ MaxOverlaps \in Nat

Exists(r) == status[r] \in ReviewStatus
Rows == {k \in DOMAIN target : target[k] # None}
TargetsOf(r) == [k \in {k \in Rows : target[k].review = r} |-> target[k]]

Ids == 1 .. MaxTargets
Nothing == [k \in Ids |-> None]
NoEdit == [status |-> None, config |-> None]
Idle == [pc |-> "idle", review |-> None, edit |-> NoEdit,
         todo |-> Nothing, target |-> 0, row |-> None]
Begin(w, j) ==
  /\ job[w] = Idle
  /\ job' = [job EXCEPT ![w] = j]
  /\ overlaps' = IF \A v \in Workers : job[v] = Idle THEN overlaps ELSE overlaps + 1
  /\ overlaps' <= MaxOverlaps
Goto(w, pc) == job' = [job EXCEPT ![w].pc = pc]
Done(w) == job' = [job EXCEPT ![w] = Idle] /\ verdict' = [verdict EXCEPT ![w] = None]

\* Called with every write to a review's rows.
InHandOfOthers(w, r) == \E v \in Workers \ {w} : job[v].review = r
Contested(w, r) == contested \cup {x \in {r} : InHandOfOthers(w, x)}

-----------------------------------------------------------------------------
(* createPerformanceReview                                                 *)

\* A second review of the employee, year and type is refused, by the check or by the index.
Create(r, first, conf) ==
  /\ status[r] = "none"
  /\ first \in {"PLANNING", "MONITORING"}
  /\ status' = [status EXCEPT ![r] = first]
  /\ config' = [config EXCEPT ![r] = conf]
  /\ UNCHANGED <<rated, target, item, job, verdict, history>>

-----------------------------------------------------------------------------
(* updatePerformanceReview, computeReview, computeAndPersistReviewRating   *)

AllowedTransitionsReopened(s) ==
  CASE s = "PLANNING" -> {"MONITORING", "CANCELLED", "REVIEW"}
    [] s = "MONITORING" -> {"REVIEW", "PLANNING", "CANCELLED"}
    [] s = "REVIEW" -> {"APPROVED", "REJECTED", "MONITORING"}
    [] s = "REJECTED" -> {"MONITORING"}
    [] s = "APPROVED" -> {"MONITORING"}
    [] OTHER -> {}
AllowedTransitions(s) ==
  CASE s = "PLANNING" -> {"MONITORING", "CANCELLED", "REVIEW"}
    [] s = "MONITORING" -> {"REVIEW", "PLANNING", "CANCELLED"}
    [] s = "REVIEW" -> {"APPROVED", "REJECTED", "MONITORING"}
    [] s = "REJECTED" -> {"MONITORING"}
    [] OTHER -> {}

\* The average of a row computed from the row alone: all its scores are Decimals.
Stored(row) == <<Score(row.quality, TRUE), Score(row.efficiency, TRUE), Score(row.timeliness, TRUE)>>
Averaged(s) == [average |-> computeAverageScore(s[1], s[2], s[3]), misread |-> Misread(s[1], s[2], s[3])]

\* From what was read: the rating, by the averages the rows have, and new averages of the rows.
Assess(w, r, edit, conf) ==
  LET targets == TargetsOf(r) IN
  /\ Begin(w, [Idle EXCEPT !.pc = IF DOMAIN targets = {} THEN "rating" ELSE "average",
                           !.review = r, !.edit = edit,
                           !.todo = [k \in Ids |-> IF k \in DOMAIN targets
                                                   THEN Averaged(Stored(targets[k])) ELSE None]])
  /\ verdict' = [verdict EXCEPT ![w] = computeFullReview(targets, item[r], conf)]

UpdateStart(w, r, to, conf) ==
  LET edit == [status |-> IF to = status[r] THEN None ELSE to, config |-> conf] IN
  /\ Exists(r)
  /\ edit # NoEdit
  /\ edit.status # None => edit.status \in AllowedTransitions(status[r])
  /\ IF edit.status = "APPROVED"
     THEN Assess(w, r, edit, IF conf = None THEN config[r] ELSE conf)
     ELSE /\ Begin(w, [Idle EXCEPT !.pc = "update", !.review = r, !.edit = edit])
          /\ UNCHANGED verdict
  /\ UNCHANGED <<tables, notes>>

ComputeStart(w, r) ==
  /\ Exists(r)
  /\ Assess(w, r, NoEdit, config[r])
  /\ UNCHANGED <<tables, notes>>

\* averageScore holds up to 9.99; what does not fit throws.
FitsAlways(average) == TRUE
Fits(average) == average # None => average <= 999

\* The targets are updated in the order they were created.
WriteAverage(w) ==
  LET r == job[w].review
      left == {k \in Ids : job[w].todo[k] # None}
  IN
  /\ job[w].pc = "average"
  /\ \E k \in left :
       LET new == job[w].todo[k] IN
       /\ \A j \in left : k <= j
       /\ k \in Rows
       /\ Fits(new.average)
       /\ target' = [target EXCEPT ![k].average = new.average]
       /\ misread' = IF new.misread THEN misread \cup {r} ELSE misread
       /\ job' = [job EXCEPT ![w].todo[k] = None, ![w].pc = IF left = {k} THEN "rating" ELSE @]
  /\ contested' = Contested(w, r)
  /\ UNCHANGED <<status, config, rated, item, verdict, amended, overlaps>>

WriteRating(w) ==
  LET r == job[w].review IN
  /\ job[w].pc = "rating" /\ Exists(r)
  /\ rated' = [rated EXCEPT ![r] = verdict[w]]
  /\ IF job[w].edit = NoEdit THEN Done(w) ELSE Goto(w, "update") /\ UNCHANGED verdict
  /\ contested' = Contested(w, r)
  /\ UNCHANGED <<status, config, target, item, amended, misread, overlaps>>

\* The last write of PATCH /:id, whatever became of the review since.
UpdateWrite(w) ==
  LET r == job[w].review
      edit == job[w].edit
  IN
  /\ job[w].pc = "update" /\ Exists(r)
  /\ status' = IF edit.status = None THEN status ELSE [status EXCEPT ![r] = edit.status]
  /\ config' = IF edit.config = None THEN config ELSE [config EXCEPT ![r] = edit.config]
  /\ rated' = IF edit.status = "APPROVED" THEN [rated EXCEPT ![r] = verdict[w]] ELSE rated
  /\ amended' = IF edit.status = None /\ status[r] = "APPROVED" THEN amended \cup {r} ELSE amended
  /\ contested' = Contested(w, r)
  /\ Done(w)
  /\ UNCHANGED <<target, item, misread, overlaps>>

-----------------------------------------------------------------------------
(* deletePerformanceReview                                                 *)

DeleteStart(w, r) ==
  /\ Exists(r) /\ status[r] # "APPROVED"
  /\ Begin(w, [Idle EXCEPT !.pc = "delete", !.review = r])
  /\ UNCHANGED <<tables, verdict, notes>>

\* The rows of the review go with it.
DeleteWrite(w) ==
  LET r == job[w].review IN
  /\ job[w].pc = "delete" /\ Exists(r)
  /\ status' = [status EXCEPT ![r] = "gone"]
  /\ config' = [config EXCEPT ![r] = Defaults]
  /\ rated' = [rated EXCEPT ![r] = None]
  /\ target' = [k \in DOMAIN target |-> IF k \in DOMAIN TargetsOf(r) THEN None ELSE target[k]]
  /\ item' = [item EXCEPT ![r] = [c \in Competencies |-> None]]
  /\ contested' = Contested(w, r)
  /\ Done(w)
  /\ UNCHANGED <<amended, misread, overlaps>>

-----------------------------------------------------------------------------
(* addTarget, updateTarget, removeTarget                                   *)

AddTargetStart(w, r, form) ==
  LET given(v) == Score(v, FALSE) IN
  /\ Exists(r) /\ status[r] \notin {"APPROVED", "REVIEW"}
  /\ Begin(w, [Idle EXCEPT !.pc = "add", !.review = r,
       !.row = [review |-> r, group |-> form.group, weight |-> form.weight,
                quality |-> form.quality, efficiency |-> form.efficiency,
                timeliness |-> form.timeliness,
                average |-> computeAverageScore(given(form.quality), given(form.efficiency),
                                                given(form.timeliness))]])
  /\ UNCHANGED <<tables, verdict, notes>>

AddTargetWrite(w) ==
  LET r == job[w].review IN
  /\ job[w].pc = "add" /\ Exists(r)
  /\ Len(target) < MaxTargets
  /\ target' = Append(target, job[w].row)
  /\ contested' = Contested(w, r)
  /\ Done(w)
  /\ UNCHANGED <<status, config, rated, item, amended, misread, overlaps>>

Carried(value, old) == IF value = Keep THEN old ELSE value
Merged(row, patch) ==
  [row EXCEPT !.group = Carried(patch.group, @), !.weight = Carried(patch.weight, @),
              !.quality = Carried(patch.quality, @), !.efficiency = Carried(patch.efficiency, @),
              !.timeliness = Carried(patch.timeliness, @)]

LockedNever(r) == FALSE
Locked(r) == status[r] = "APPROVED"

\* The review is read and, if it is not approved, the target after it.
EditTargetStart(w, r, patch) ==
  /\ Exists(r) /\ ~Locked(r)
  /\ Begin(w, [Idle EXCEPT !.pc = "read", !.review = r, !.row = patch])
  /\ UNCHANGED <<tables, verdict, notes>>

\* Its average is that of the merged row: scores the request brings are numbers, others Decimals.
EditTargetRead(w, k) ==
  LET patch == job[w].row
      merged == Merged(target[k], patch)
      s == <<Score(merged.quality, patch.quality = Keep),
             Score(merged.efficiency, patch.efficiency = Keep),
             Score(merged.timeliness, patch.timeliness = Keep)>>
  IN
  /\ job[w].pc = "read"
  /\ k \in DOMAIN TargetsOf(job[w].review)
  /\ job' = [job EXCEPT ![w].pc = "edit", ![w].target = k, ![w].todo[k] = Averaged(s)]
  /\ UNCHANGED <<tables, verdict, history>>

EditTargetWrite(w) ==
  LET r == job[w].review
      k == job[w].target
      new == job[w].todo[k]
  IN
  /\ job[w].pc = "edit" /\ k \in Rows
  /\ Fits(new.average)
  /\ target' = [target EXCEPT ![k] = [Merged(@, job[w].row) EXCEPT !.average = new.average]]
  /\ misread' = IF new.misread THEN misread \cup {r} ELSE misread
  /\ contested' = Contested(w, r)
  /\ Done(w)
  /\ UNCHANGED <<status, config, rated, item, amended, overlaps>>

\* The target is found by its own id: it need not be one of the review in the path.
RemoveTargetStart(w, r, k) ==
  /\ Exists(r) /\ ~Locked(r)
  /\ Begin(w, [Idle EXCEPT !.pc = "remove", !.review = r, !.target = k])
  /\ UNCHANGED <<tables, verdict, notes>>

RemoveTargetWrite(w) ==
  LET k == job[w].target
      owner == target[k].review
  IN
  /\ job[w].pc = "remove" /\ k \in Rows
  /\ target' = [target EXCEPT ![k] = None]
  /\ amended' = IF owner # job[w].review /\ status[owner] = "APPROVED" THEN amended \cup {owner}
                ELSE amended
  /\ contested' = Contested(w, owner)
  /\ Done(w)
  /\ UNCHANGED <<status, config, rated, item, misread, overlaps>>

-----------------------------------------------------------------------------
(* addReviewCompetency                                                     *)

\* What precedes the write looks for the review and the row, and the write fails without the
\* one or beside the other: one step.  The review's status is not asked.  The row then stays:
\* PATCH and DELETE name it by :itemId, which validate(performanceIdSchema) strips first.
AddItem(r, c, row) ==
  /\ Exists(r) /\ item[r][c] = None
  /\ item' = [item EXCEPT ![r][c] = row]
  /\ amended' = IF status[r] = "APPROVED" THEN amended \cup {r} ELSE amended
  /\ contested' = contested \cup {x \in {r} : \E v \in Workers : job[v].review = x}
  /\ UNCHANGED <<status, config, rated, target, job, verdict, misread, overlaps>>

-----------------------------------------------------------------------------
\* A statement throws, its row is gone or its value does not fit, or the process dies.
Throw(w) ==
  /\ job[w] # Idle
  /\ Done(w)
  /\ UNCHANGED <<tables, history>>

Init ==
  /\ status = [r \in Reviews |-> "none"]
  /\ config = [r \in Reviews |-> Defaults]
  /\ rated = [r \in Reviews |-> None]
  /\ target = <<>>
  /\ item = [r \in Reviews |-> [c \in Competencies |-> None]]
  /\ job = [w \in Workers |-> Idle]
  /\ verdict = [w \in Workers |-> None]
  /\ contested = {} /\ amended = {} /\ misread = {} /\ overlaps = 0

Step(w) ==
  \/ \E r \in Reviews :
       \/ \E to \in ReviewStatus \cup {None}, conf \in Configs \cup {None} : UpdateStart(w, r, to, conf)
       \/ ComputeStart(w, r) \/ DeleteStart(w, r)
       \/ \E form \in TargetForms : AddTargetStart(w, r, form)
       \/ \E patch \in Patches : EditTargetStart(w, r, patch)
       \/ \E k \in Rows : RemoveTargetStart(w, r, k)
  \/ WriteAverage(w) \/ WriteRating(w) \/ UpdateWrite(w) \/ DeleteWrite(w)
  \/ AddTargetWrite(w) \/ EditTargetWrite(w) \/ RemoveTargetWrite(w)
  \/ \E k \in Rows : EditTargetRead(w, k)
  \/ Throw(w)

Next ==
  \/ \E w \in Workers : Step(w)
  \/ \E r \in Reviews, first \in ReviewStatus, conf \in Configs \cup {Defaults} : Create(r, first, conf)
  \/ \E r \in Reviews, c \in Competencies, row \in ItemForms : AddItem(r, c, row)

Spec == Init /\ [][Next]_vars

-----------------------------------------------------------------------------
(* Properties                                                              *)

Job == [pc: {"idle", "average", "rating", "update", "delete", "add", "read", "edit", "remove"},
        review: Reviews \cup {None},
        edit: [status: ReviewStatus \cup {None}, config: Config \cup {None}],
        todo: [Ids -> Entry \cup {None}], target: 0 .. MaxTargets, row: TargetRow \cup Patch \cup {None}]

\* Rows and local states have the shapes the code gives them; what the engine computes, in
\* rated and verdict, is RatedOnScale's.
TypeOK ==
  /\ status \in [Reviews -> ReviewStatus \cup {"none", "gone"}]
  /\ config \in [Reviews -> Config]
  /\ DOMAIN rated = Reviews /\ DOMAIN verdict = Workers
  /\ target \in Seq(TargetRow \cup {None}) /\ Len(target) <= MaxTargets
  /\ item \in [Reviews -> [Competencies -> ItemRow \cup {None}]]
  /\ job \in [Workers -> Job]
  /\ contested \subseteq Reviews /\ amended \subseteq Reviews /\ misread \subseteq Reviews
  /\ overlaps \in 0 .. MaxOverlaps

\* "APPROVED (terminal)": an approved review keeps its status and is not deleted, unless one
\* handler wrote it while another one had it in hand.
ApprovedIsFinal ==
  [][\A r \in Reviews \ contested' : status[r] = "APPROVED" => status'[r] = "APPROVED"]_vars

\* The rating of an approved review is that of the targets, competencies and weights it has,
\* although an approval reads them before its first write and writes them in several
\* statements: unless handlers met in it, it was changed after its approval where the code
\* lets it be, or one of its averages was misread.
RatingOfItsRows ==
  \A r \in Reviews :
    status[r] = "APPROVED" /\ r \notin contested \cup amended \cup misread
      => rated[r] = computeFullReview(TargetsOf(r), item[r], config[r])

Given(s) == IF s = None THEN 0 ELSE 1
Value(s) == IF s = None THEN 0 ELSE s

\* "Average of Q, E, T scores (each 1-5). Skips nulls.": a target's stored average is the mean
\* of the scores stored beside it, to half a hundredth, however often they were patched and
\* recomputed, unless handlers met in the review or it was recomputed from several scores read
\* back as Decimals.
AverageIsMean ==
  \A k \in Rows : target[k].review \notin contested \cup misread =>
    LET row == target[k]
        n == Given(row.quality) + Given(row.efficiency) + Given(row.timeliness)
        sum == Value(row.quality) + Value(row.efficiency) + Value(row.timeliness)
    IN IF n = 0 THEN row.average = None
       ELSE row.average # None /\ 2 * (n * row.average - 100 * sum) \in -n .. n

\* A stored rating is on the scale of its scores, from 1.00 to 5.00, whichever groups have
\* targets, whatever the weights and the cap, and however handlers met: unless an average of
\* the review was misread.
RatedOnScale ==
  \A r \in Reviews \ misread :
    rated[r] # None /\ rated[r].rating # None => rated[r].rating \in 100 .. 500

=============================================================================
