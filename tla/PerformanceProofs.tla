-------------------------- MODULE PerformanceProofs --------------------------
(***************************************************************************)
(* Proofs about Performance, for any number of reviews, competencies,      *)
(* targets and handlers.                                                   *)
(***************************************************************************)
EXTENDS Performance, Sums, SequenceTheorems

-----------------------------------------------------------------------------
(* Averages                                                                *)

Scores == [value: ScoreValue, decimal: BOOLEAN]
Number(s) == Score(s.value, FALSE)
Zero == [n |-> 0, text |-> FALSE]
Totals == [n: Nat, text: BOOLEAN]

\* A score of a request or of a row has the type of scores.
LEMMA ScoreTyped ==
  ASSUME NEW v \in ScoreValue, NEW d \in BOOLEAN
  PROVE  Score(v, d) \in Scores /\ Score(v, d).value = v /\ Score(v, d).decimal = d
  BY DEF Score, Scores

\* None is no number.
LEMMA NoneApart == None \notin Nat
  BY PerformanceAssumption

\* A rounded quotient by up to three is within a half of it.
LEMMA RoundedTyped ==
  ASSUME NEW a \in Nat, NEW b \in 1 .. 3
  PROVE  Rounded(a, b) \in Nat /\ 2 * (b * Rounded(a, b) - a) \in -b .. b
  <1>1. CASE b = 1
    BY <1>1 DEF Rounded
  <1>2. CASE b = 2
    BY <1>2 DEF Rounded
  <1>3. CASE b = 3
    BY <1>3 DEF Rounded
  <1> QED
    BY <1>1, <1>2, <1>3

\* A sum stays a sum, of numbers or of digits.
LEMMA PlusTyped ==
  ASSUME NEW sum \in Totals, NEW s \in Scores
  PROVE  Plus(sum, s) \in Totals
  <1>1. CASE Missing(s)
    BY <1>1 DEF Plus
  <1>2. CASE ~Missing(s)
    <2>1. s.value \in 1 .. 5
      BY <1>2 DEF Missing, Scores, ScoreValue
    <2>2. sum.n \in Nat /\ 10 * sum.n + s.value \in Nat /\ sum.n + s.value \in Nat
      BY <2>1 DEF Totals
    <2> QED
      BY <1>2, <2>2 DEF Plus, Totals
  <1> QED
    BY <1>1, <1>2

\* There are up to three scores, and none exactly when all are missing.
LEMMA LengthTyped ==
  ASSUME NEW q \in Scores, NEW e \in Scores, NEW t \in Scores
  PROVE  /\ Length(q, e, t) \in 0 .. 3
         /\ Length(q, e, t) = 0 <=> Missing(q) /\ Missing(e) /\ Missing(t)
  BY DEF Length, One

\* An average is a number or none, misread or not.
LEMMA AverageTyped ==
  ASSUME NEW q \in Scores, NEW e \in Scores, NEW t \in Scores
  PROVE  computeAverageScore(q, e, t) \in Average
  <1> DEFINE sum == Plus(Plus(Plus(Zero, q), e), t)
  <1>1. sum \in Totals
    BY PlusTyped DEF Zero, Totals
  <1>2. sum.n \in Nat /\ 100 * sum.n \in Nat
    BY <1>1 DEF Totals
  <1>3. CASE Missing(q) /\ Missing(e) /\ Missing(t)
    BY <1>3 DEF computeAverageScore, Average
  <1>4. CASE ~(Missing(q) /\ Missing(e) /\ Missing(t))
    <2>1. Length(q, e, t) \in 1 .. 3
      BY <1>4, LengthTyped
    <2>2. Rounded(100 * sum.n, Length(q, e, t)) \in Nat
      BY <1>2, <2>1, RoundedTyped
    <2> QED
      BY <1>4, <2>2 DEF computeAverageScore, Average, Zero
  <1> QED
    BY <1>3, <1>4

\* Numbers add up.
LEMMA PlusNumber ==
  ASSUME NEW sum \in Totals, sum.text = FALSE, NEW s \in Scores, s.decimal = FALSE
  PROVE  /\ Plus(sum, s) \in Totals
         /\ Plus(sum, s).text = FALSE
         /\ Plus(sum, s).n = sum.n + Value(s.value)
  <1>1. sum.n \in Nat
    BY DEF Totals
  <1>2. CASE Missing(s)
    <2>1. Value(s.value) = 0
      BY <1>2 DEF Missing, Value
    <2>2. Plus(sum, s) = sum
      BY <1>2 DEF Plus
    <2> QED
      BY <1>1, <2>1, <2>2
  <1>3. CASE ~Missing(s)
    <2>1. Value(s.value) = s.value
      BY <1>3 DEF Missing, Value
    <2>2. Plus(sum, s) = [n |-> sum.n + s.value, text |-> FALSE]
      BY <1>3 DEF Plus
    <2>3. Plus(sum, s).text = FALSE /\ Plus(sum, s).n = sum.n + s.value
      BY <2>2
    <2>4. Plus(sum, s) \in Totals
      BY PlusTyped
    <2> QED
      BY <2>1, <2>3, <2>4
  <1> QED
    BY <1>2, <1>3

\* A row's average is the mean of its three numbers, or of those it has, to half a hundredth.
IsMean(average, a, b, c) ==
  LET n == Given(a) + Given(b) + Given(c)
      sum == Value(a) + Value(b) + Value(c)
  IN /\ n = 0 => average = None
     /\ n # 0 => average \in 0 .. 999 /\ 2 * (n * average - 100 * sum) \in -n .. n

\* The average of numbers is their mean, and on their scale.
LEMMA AverageOfNumbers ==
  ASSUME NEW a \in ScoreValue, NEW b \in ScoreValue, NEW c \in ScoreValue
  PROVE  IsMean(computeAverageScore(Score(a, FALSE), Score(b, FALSE), Score(c, FALSE)), a, b, c)
  <1> DEFINE n == Given(a) + Given(b) + Given(c)
             total == Value(a) + Value(b) + Value(c)
             q == Score(a, FALSE)
             e == Score(b, FALSE)
             t == Score(c, FALSE)
             average == computeAverageScore(q, e, t)
  <1> SUFFICES /\ n = 0 => average = None
               /\ n # 0 => average \in 0 .. 999 /\ 2 * (n * average - 100 * total) \in -n .. n
    BY DEF IsMean
  <1>1. /\ Value(a) \in 0 .. 5 /\ Value(b) \in 0 .. 5 /\ Value(c) \in 0 .. 5
        /\ Given(a) \in 0 .. 1 /\ Given(b) \in 0 .. 1 /\ Given(c) \in 0 .. 1
        /\ Value(a) <= 5 * Given(a) /\ Value(b) <= 5 * Given(b) /\ Value(c) <= 5 * Given(c)
    BY NoneApart DEF Value, Given, ScoreValue
  <1>7. /\ q \in Scores /\ q.decimal = FALSE /\ q.value = a
        /\ e \in Scores /\ e.decimal = FALSE /\ e.value = b
        /\ t \in Scores /\ t.decimal = FALSE /\ t.value = c
    BY DEF Score, Scores
  <1>2. Length(q, e, t) = n
    BY DEF Length, One, Missing, Score, Given
  <1>3. Plus(Plus(Plus(Zero, q), e), t).n = total
    <2>1. Zero \in Totals /\ Zero.text = FALSE /\ Zero.n = 0
      BY DEF Zero, Totals
    <2> HIDE DEF q, e, t
    <2>2. Plus(Zero, q) \in Totals /\ Plus(Zero, q).text = FALSE /\ Plus(Zero, q).n = 0 + Value(a)
      BY <1>7, <2>1, PlusNumber
    <2>3. /\ Plus(Plus(Zero, q), e) \in Totals /\ Plus(Plus(Zero, q), e).text = FALSE
          /\ Plus(Plus(Zero, q), e).n = (0 + Value(a)) + Value(b)
      BY <1>7, <2>2, PlusNumber
    <2>4. Plus(Plus(Plus(Zero, q), e), t).n = ((0 + Value(a)) + Value(b)) + Value(c)
      BY <1>7, <2>3, PlusNumber
    <2>5. ((0 + Value(a)) + Value(b)) + Value(c) = Value(a) + Value(b) + Value(c)
      BY <1>1
    <2> QED
      BY <2>4, <2>5
  <1>4. (Missing(q) /\ Missing(e) /\ Missing(t)) <=> n = 0
    BY DEF Missing, Score, Given
  <1>5. CASE n = 0
    BY <1>4, <1>5 DEF computeAverageScore
  <1>6. CASE n # 0
    <2>1. average = Rounded(100 * total, n)
      BY <1>2, <1>3, <1>4, <1>6 DEF computeAverageScore, Zero
    <2>2. n \in 1 .. 3
      BY <1>1, <1>6
    <2>3. total \in Nat /\ total <= 5 * n
      BY <1>1
    <2> HIDE DEF n, total
    <2>4. 100 * total \in Nat
      BY <2>3
    <2>5. Rounded(100 * total, n) \in Nat
          /\ 2 * (n * Rounded(100 * total, n) - 100 * total) \in -n .. n
      BY <2>2, <2>4, RoundedTyped
    <2> HIDE DEF average
    <2>6. average \in Nat /\ 2 * (n * average - 100 * total) \in -n .. n
      BY <2>1, <2>5
    <2>7. average \in 0 .. 999
      <3>1. CASE n = 1
        BY <2>3, <2>6, <3>1
      <3>2. CASE n = 2
        BY <2>3, <2>6, <3>2
      <3>3. CASE n = 3
        BY <2>3, <2>6, <3>3
      <3> QED
        BY <2>2, <3>1, <3>2, <3>3
    <2> QED
      BY <1>6, <2>6, <2>7 DEF n, total, average
  <1> QED
    BY <1>5, <1>6

\* Unless it is misread, a sum with Decimals is that of their numbers.
LEMMA FairUnlessMisread ==
  ASSUME NEW q \in Scores, NEW e \in Scores, NEW t \in Scores, ~Misread(q, e, t)
  PROVE  computeAverageScore(q, e, t) = computeAverageScore(Number(q), Number(e), Number(t))
  <1> DEFINE sum(x, y, z) == Plus(Plus(Plus(Zero, x), y), z)
  <1>1. /\ Missing(Number(q)) <=> Missing(q)
        /\ Missing(Number(e)) <=> Missing(e)
        /\ Missing(Number(t)) <=> Missing(t)
        /\ Length(Number(q), Number(e), Number(t)) = Length(q, e, t)
    BY DEF Number, Score, Missing, Length, One
  <1>2. sum(q, e, t).n = sum(Number(q), Number(e), Number(t)).n
    <2>1. CASE \A s \in {q, e, t} : Missing(s) \/ ~s.decimal
      <3>1. \A x \in Totals, s \in {q, e, t} : Plus(x, s) = Plus(x, Number(s))
        BY <2>1 DEF Plus, Missing, Number, Score
      <3>2. Zero \in Totals
        BY DEF Zero, Totals
      <3>3. Plus(Zero, q) \in Totals /\ Plus(Plus(Zero, q), e) \in Totals
        BY <3>2, PlusTyped
      <3> QED
        BY <3>1, <3>2, <3>3
    <2>2. CASE Length(q, e, t) <= 1
      <3>1. \A x, s : Missing(s) => Plus(x, s) = x
        BY DEF Plus
      <3>2. \A s \in Scores : ~Missing(s) => Plus(Zero, s).n = s.value /\ Plus(Zero, Number(s)).n = s.value
        BY NoneApart DEF Plus, Zero, Missing, Number, Score, Scores, ScoreValue
      <3>3. \/ Missing(q) /\ Missing(e)
            \/ Missing(q) /\ Missing(t)
            \/ Missing(e) /\ Missing(t)
        BY <2>2 DEF Length, One
      <3>4. CASE Missing(q) /\ Missing(e)
        BY <1>1, <3>1, <3>2, <3>4
      <3>5. CASE Missing(q) /\ Missing(t)
        BY <1>1, <3>1, <3>2, <3>5
      <3>6. CASE Missing(e) /\ Missing(t)
        BY <1>1, <3>1, <3>2, <3>6
      <3> QED
        BY <3>3, <3>4, <3>5, <3>6
    <2>3. Length(q, e, t) \in 0 .. 3
      BY LengthTyped
    <2> QED
      BY <2>1, <2>2, <2>3 DEF Misread
  <1> QED
    BY <1>1, <1>2 DEF computeAverageScore, Zero

-----------------------------------------------------------------------------
(* Rows and local states keep their types                                  *)

\* What each statement of a handler has at hand.
StageFits(j) ==
  /\ j.pc # "idle" => j.review \in Reviews
  /\ j.pc = "add" => j.row \in TargetRow
  /\ j.pc \in {"read", "edit"} => j.row \in Patch
  /\ j.pc = "edit" => j.target \in Ids /\ j.todo[j.target] \in Entry

\* The strengthening of TypeOK that every step keeps.
TypeInv == TypeOK /\ \A w \in Workers : StageFits(job[w])

\* None is no number, row, id or status.
LEMMA NoneOutside ==
  None \notin Nat /\ None \notin TargetRow /\ None \notin Reviews /\ None \notin ReviewStatus
  BY PerformanceAssumption

\* Nothing to do is a list of its type.
LEMMA NothingTyped == Nothing \in [Ids -> Entry \cup {None}]
  BY DEF Nothing

\* A worker that does nothing has its type.
LEMMA IdleTyped == Idle \in Job /\ StageFits(Idle)
  <1>1. NoEdit \in [status: ReviewStatus \cup {None}, config: Config \cup {None}]
    BY DEF NoEdit
  <1>2. 0 \in 0 .. MaxTargets
    BY PerformanceAssumption
  <1> QED
    BY <1>1, <1>2, NothingTyped DEF Idle, Job, StageFits

\* A handler begins with a local state of its type.
LEMMA BeginTyped ==
  ASSUME TypeInv, NEW w \in Workers, NEW j \in Job, StageFits(j), Begin(w, j)
  PROVE  /\ job' \in [Workers -> Job]
         /\ \A v \in Workers : StageFits(job'[v])
         /\ overlaps' \in 0 .. MaxOverlaps
  <1>1. job \in [Workers -> Job] /\ overlaps \in 0 .. MaxOverlaps /\ \A v \in Workers : StageFits(job[v])
    BY DEF TypeInv, TypeOK
  <1>2. job' = [job EXCEPT ![w] = j]
    BY DEF Begin
  <1>3. overlaps' \in {overlaps, overlaps + 1} /\ overlaps' <= MaxOverlaps
    BY DEF Begin
  <1>4. overlaps' \in 0 .. MaxOverlaps
    BY <1>1, <1>3, PerformanceAssumption
  <1> QED
    BY <1>1, <1>2, <1>4

\* A handler that ends leaves the local states typed.
LEMMA DoneTyped ==
  ASSUME TypeInv, NEW w \in Workers, Done(w)
  PROVE  /\ job' \in [Workers -> Job]
         /\ \A v \in Workers : StageFits(job'[v])
         /\ DOMAIN verdict' = Workers
  BY IdleTyped DEF TypeInv, TypeOK, Done

\* Rows as they are changed.
LEMMA ChangedTyped ==
  ASSUME TypeInv, NEW k \in DOMAIN target, NEW row \in TargetRow \cup {None},
         target' = [target EXCEPT ![k] = row]
  PROVE  target' \in Seq(TargetRow \cup {None}) /\ Len(target') = Len(target)
  <1>1. target \in Seq(TargetRow \cup {None})
    BY DEF TypeInv, TypeOK
  <1>2. k \in 1 .. Len(target)
    BY <1>1, LenProperties
  <1> QED
    BY <1>1, <1>2, ExceptSeq

\* Where a target has a row, the row has its type.
LEMMA RowAt ==
  ASSUME TypeInv, NEW k \in Rows
  PROVE  k \in DOMAIN target /\ k \in Ids /\ target[k] \in TargetRow
  <1>1. target \in Seq(TargetRow \cup {None}) /\ Len(target) \in Nat /\ Len(target) <= MaxTargets
    BY LenProperties DEF TypeInv, TypeOK
  <1>2. k \in DOMAIN target /\ target[k] # None /\ DOMAIN target = 1 .. Len(target)
    BY <1>1, LenProperties DEF Rows
  <1>3. target[k] \in TargetRow \cup {None}
    BY <1>1, <1>2, ElementOfSeq
  <1>4. k \in Ids
    BY <1>1, <1>2, PerformanceAssumption DEF Ids
  <1> QED
    BY <1>2, <1>3, <1>4

\* The average computed of a row is an entry.
LEMMA StoredTyped ==
  ASSUME NEW row \in TargetRow
  PROVE  Averaged(Stored(row)) \in Entry
  <1> DEFINE q == Score(row.quality, TRUE)
             e == Score(row.efficiency, TRUE)
             t == Score(row.timeliness, TRUE)
  <1>1. row.quality \in ScoreValue /\ row.efficiency \in ScoreValue /\ row.timeliness \in ScoreValue
    BY DEF TargetRow
  <1>2. q \in Scores /\ e \in Scores /\ t \in Scores
    BY <1>1, ScoreTyped
  <1>3. Averaged(Stored(row)) = [average |-> computeAverageScore(q, e, t), misread |-> Misread(q, e, t)]
    BY DEF Averaged, Stored
  <1>4. Misread(q, e, t) \in BOOLEAN
    BY DEF Misread
  <1> HIDE DEF q, e, t
  <1>5. computeAverageScore(q, e, t) \in Average
    BY <1>2, AverageTyped
  <1> QED
    BY <1>3, <1>4, <1>5 DEF Entry

\* The scores an edit averages.
EditScores(row, patch) ==
  LET merged == Merged(row, patch) IN
  <<Score(merged.quality, patch.quality = Keep), Score(merged.efficiency, patch.efficiency = Keep),
    Score(merged.timeliness, patch.timeliness = Keep)>>

\* A patched row is a row of the same review.
LEMMA MergedTyped ==
  ASSUME NEW row \in TargetRow, NEW patch \in Patch
  PROVE  /\ Merged(row, patch) \in TargetRow
         /\ Merged(row, patch).review = row.review
  <1> DEFINE g == Carried(patch.group, row.group)
             w == Carried(patch.weight, row.weight)
             q == Carried(patch.quality, row.quality)
             e == Carried(patch.efficiency, row.efficiency)
             t == Carried(patch.timeliness, row.timeliness)
  <1>1. /\ row.group \in Groups /\ row.weight \in Percent /\ row.quality \in ScoreValue
        /\ row.efficiency \in ScoreValue /\ row.timeliness \in ScoreValue
    BY DEF TargetRow
  <1>2. /\ patch.group \in Groups \cup {Keep} /\ patch.weight \in Percent \cup {Keep}
        /\ patch.quality \in ScoreValue \cup {Keep} /\ patch.efficiency \in ScoreValue \cup {Keep}
        /\ patch.timeliness \in ScoreValue \cup {Keep}
    BY DEF Patch
  <1>3. g \in Groups /\ w \in Percent /\ q \in ScoreValue /\ e \in ScoreValue /\ t \in ScoreValue
    BY <1>1, <1>2 DEF Carried
  <1>4. Merged(row, patch) = [row EXCEPT !.group = g, !.weight = w, !.quality = q,
                                         !.efficiency = e, !.timeliness = t]
    BY DEF Merged
  <1> HIDE DEF g, w, q, e, t
  <1>5. row \in [review: Reviews, group: Groups, weight: Percent, quality: ScoreValue,
                 efficiency: ScoreValue, timeliness: ScoreValue,
                 average: (0 .. 999) \cup {None}]
    BY DEF TargetRow
  <1>6. Merged(row, patch) = [review |-> row.review, group |-> g, weight |-> w, quality |-> q,
                              efficiency |-> e, timeliness |-> t, average |-> row.average]
    BY <1>4, <1>5
  <1>7. row.review \in Reviews /\ row.average \in (0 .. 999) \cup {None}
    BY <1>5
  <1> QED
    BY <1>3, <1>6, <1>7 DEF TargetRow

\* The average computed of a patched row is an entry.
LEMMA EditTyped ==
  ASSUME NEW row \in TargetRow, NEW patch \in Patch
  PROVE  Averaged(EditScores(row, patch)) \in Entry
  <1> DEFINE merged == Merged(row, patch)
             q == Score(merged.quality, patch.quality = Keep)
             e == Score(merged.efficiency, patch.efficiency = Keep)
             t == Score(merged.timeliness, patch.timeliness = Keep)
  <1>1. merged \in TargetRow
    BY MergedTyped
  <1> HIDE DEF merged
  <1>2. /\ merged.quality \in ScoreValue /\ merged.efficiency \in ScoreValue
        /\ merged.timeliness \in ScoreValue
    BY <1>1 DEF TargetRow
  <1>3. q \in Scores /\ e \in Scores /\ t \in Scores
    BY <1>2 DEF Score, Scores
  <1>4. Averaged(EditScores(row, patch))
          = [average |-> computeAverageScore(q, e, t), misread |-> Misread(q, e, t)]
    BY DEF Averaged, EditScores, merged
  <1>5. Misread(q, e, t) \in BOOLEAN
    BY DEF Misread
  <1> HIDE DEF q, e, t
  <1>6. computeAverageScore(q, e, t) \in Average
    BY <1>3, AverageTyped
  <1> QED
    BY <1>4, <1>5, <1>6 DEF Entry

-----------------------------------------------------------------------------
(* Every step keeps the types                                              *)

\* An assessment begins with a local state of its type.
LEMMA AssessTyped ==
  ASSUME TypeInv, NEW w \in Workers, NEW r \in Reviews,
         NEW edit \in [status: ReviewStatus \cup {None}, config: Config \cup {None}], NEW conf,
         Assess(w, r, edit, conf)
  PROVE  /\ job' \in [Workers -> Job]
         /\ \A v \in Workers : StageFits(job'[v])
         /\ overlaps' \in 0 .. MaxOverlaps
         /\ DOMAIN verdict' = Workers
  <1> DEFINE targets == TargetsOf(r)
             todo == [k \in Ids |-> IF k \in DOMAIN targets THEN Averaged(Stored(targets[k])) ELSE None]
             j == [Idle EXCEPT !.pc = IF DOMAIN targets = {} THEN "rating" ELSE "average",
                               !.review = r, !.edit = edit, !.todo = todo]
  <1>1. \A k \in DOMAIN targets : targets[k] \in TargetRow
    BY RowAt DEF TargetsOf
  <1>2. todo \in [Ids -> Entry \cup {None}]
    BY <1>1, StoredTyped
  <1>3. Begin(w, j) /\ verdict' = [verdict EXCEPT ![w] = computeFullReview(targets, item[r], conf)]
    BY DEF Assess
  <1>4. DOMAIN verdict = Workers
    BY DEF TypeInv, TypeOK
  <1> HIDE DEF targets, todo
  <1>5. j \in Job /\ StageFits(j)
    BY <1>2, IdleTyped DEF Job, Idle, StageFits
  <1> HIDE DEF j
  <1> QED
    BY <1>3, <1>4, <1>5, BeginTyped

Starts(w, r) ==
  \/ \E to \in ReviewStatus \cup {None}, conf \in Configs \cup {None} : UpdateStart(w, r, to, conf)
  \/ ComputeStart(w, r) \/ DeleteStart(w, r)
  \/ \E form \in TargetForms : AddTargetStart(w, r, form)
  \/ \E patch \in Patches : EditTargetStart(w, r, patch)
  \/ \E k \in Rows : RemoveTargetStart(w, r, k)

\* A target as a request brings it.
NewRow(r, form) ==
  [review |-> r, group |-> form.group, weight |-> form.weight, quality |-> form.quality,
   efficiency |-> form.efficiency, timeliness |-> form.timeliness,
   average |-> computeAverageScore(Score(form.quality, FALSE), Score(form.efficiency, FALSE),
                                   Score(form.timeliness, FALSE))]

\* A target that a request brings is a row.
LEMMA NewRowTyped ==
  ASSUME NEW r \in Reviews, NEW form \in TargetForms
  PROVE  NewRow(r, form) \in TargetRow
  <1> DEFINE average == computeAverageScore(Score(form.quality, FALSE), Score(form.efficiency, FALSE),
                                            Score(form.timeliness, FALSE))
  <1>1. form \in TargetForm
    BY PerformanceAssumption
  <1>2. /\ form.group \in Groups /\ form.weight \in Percent /\ form.quality \in ScoreValue
        /\ form.efficiency \in ScoreValue /\ form.timeliness \in ScoreValue
    BY <1>1 DEF TargetForm
  <1>3. average \in (0 .. 999) \cup {None}
    <2>1. IsMean(average, form.quality, form.efficiency, form.timeliness)
      BY <1>2, AverageOfNumbers
    <2> HIDE DEF average
    <2> QED
      BY <2>1 DEF IsMean
  <1>4. NewRow(r, form) = [review |-> r, group |-> form.group, weight |-> form.weight,
                           quality |-> form.quality, efficiency |-> form.efficiency,
                           timeliness |-> form.timeliness, average |-> average]
    BY DEF NewRow
  <1> HIDE DEF average
  <1> QED
    BY <1>2, <1>3, <1>4 DEF TargetRow

\* The handler has a local state of its type, and nothing else changes.
OnlyBegins ==
  /\ job' \in [Workers -> Job]
  /\ \A v \in Workers : StageFits(job'[v])
  /\ overlaps' \in 0 .. MaxOverlaps
  /\ DOMAIN verdict' = Workers
  /\ UNCHANGED <<tables, notes>>

\* Every handler that starts keeps the types.
LEMMA StartsTyped ==
  ASSUME TypeInv, NEW w \in Workers, NEW r \in Reviews, Starts(w, r)
  PROVE  TypeInv'
  <1>1. OnlyBegins
    <2>1. ASSUME NEW to \in ReviewStatus \cup {None}, NEW conf \in Configs \cup {None},
                 UpdateStart(w, r, to, conf)
          PROVE  OnlyBegins
      <3> DEFINE edit == [status |-> IF to = status[r] THEN None ELSE to, config |-> conf]
      <3>1. edit \in [status: ReviewStatus \cup {None}, config: Config \cup {None}]
        BY PerformanceAssumption
      <3>2. UNCHANGED <<tables, notes>>
        BY <2>1 DEF UpdateStart
      <3>3. CASE edit.status = "APPROVED"
        <4>1. Assess(w, r, edit, IF conf = None THEN config[r] ELSE conf)
          BY <2>1, <3>3 DEF UpdateStart
        <4> HIDE DEF edit
        <4> QED
          BY <3>1, <3>2, <4>1, AssessTyped DEF OnlyBegins
      <3>4. CASE edit.status # "APPROVED"
        <4> DEFINE j == [Idle EXCEPT !.pc = "update", !.review = r, !.edit = edit]
        <4>1. Begin(w, j) /\ UNCHANGED verdict
          BY <2>1, <3>4 DEF UpdateStart
        <4> HIDE DEF edit
        <4>2. j \in Job /\ StageFits(j)
          BY <3>1, IdleTyped DEF Job, Idle, StageFits
        <4> HIDE DEF j
        <4> QED
          BY <3>2, <4>1, <4>2, BeginTyped DEF TypeInv, TypeOK, OnlyBegins
      <3> QED
        BY <3>3, <3>4
    <2>2. CASE ComputeStart(w, r)
      <3>1. NoEdit \in [status: ReviewStatus \cup {None}, config: Config \cup {None}]
        BY DEF NoEdit
      <3> QED
        BY <2>2, <3>1, AssessTyped DEF ComputeStart, OnlyBegins
    <2>3. CASE DeleteStart(w, r)
      <3> DEFINE j == [Idle EXCEPT !.pc = "delete", !.review = r]
      <3>1. j \in Job /\ StageFits(j)
        BY IdleTyped DEF Job, Idle, StageFits
      <3>2. Begin(w, j) /\ UNCHANGED <<tables, verdict, notes>>
        BY <2>3 DEF DeleteStart
      <3> HIDE DEF j
      <3> QED
        BY <3>1, <3>2, BeginTyped DEF TypeInv, TypeOK, OnlyBegins
    <2>4. ASSUME NEW form \in TargetForms, AddTargetStart(w, r, form)
          PROVE  OnlyBegins
      <3> DEFINE row == NewRow(r, form)
                 j == [Idle EXCEPT !.pc = "add", !.review = r, !.row = row]
      <3>1. row \in TargetRow
        BY NewRowTyped
      <3>2. Begin(w, j) /\ UNCHANGED <<tables, verdict, notes>>
        BY <2>4 DEF AddTargetStart, NewRow
      <3> HIDE DEF row
      <3>3. j \in Job /\ StageFits(j)
        BY <3>1, IdleTyped DEF Job, Idle, StageFits
      <3> HIDE DEF j
      <3> QED
        BY <3>2, <3>3, BeginTyped DEF TypeInv, TypeOK, OnlyBegins
    <2>5. ASSUME NEW patch \in Patches, EditTargetStart(w, r, patch)
          PROVE  OnlyBegins
      <3> DEFINE j == [Idle EXCEPT !.pc = "read", !.review = r, !.row = patch]
      <3>1. patch \in Patch
        BY PerformanceAssumption
      <3>2. j \in Job /\ StageFits(j)
        BY <3>1, IdleTyped DEF Job, Idle, StageFits
      <3>3. Begin(w, j) /\ UNCHANGED <<tables, verdict, notes>>
        BY <2>5 DEF EditTargetStart
      <3> HIDE DEF j
      <3> QED
        BY <3>2, <3>3, BeginTyped DEF TypeInv, TypeOK, OnlyBegins
    <2>6. ASSUME NEW k \in Rows, RemoveTargetStart(w, r, k)
          PROVE  OnlyBegins
      <3> DEFINE j == [Idle EXCEPT !.pc = "remove", !.review = r, !.target = k]
      <3>1. k \in 0 .. MaxTargets
        BY RowAt DEF Ids
      <3>2. j \in Job /\ StageFits(j)
        BY <3>1, IdleTyped DEF Job, Idle, StageFits
      <3>3. Begin(w, j) /\ UNCHANGED <<tables, verdict, notes>>
        BY <2>6 DEF RemoveTargetStart
      <3> HIDE DEF j
      <3> QED
        BY <3>2, <3>3, BeginTyped DEF TypeInv, TypeOK, OnlyBegins
    <2> QED
      BY <2>1, <2>2, <2>3, <2>4, <2>5, <2>6 DEF Starts
  <1> QED
    BY <1>1 DEF TypeInv, TypeOK, OnlyBegins, tables, notes

Writes(w) ==
  \/ WriteAverage(w) \/ WriteRating(w) \/ UpdateWrite(w) \/ DeleteWrite(w)
  \/ AddTargetWrite(w) \/ EditTargetWrite(w) \/ RemoveTargetWrite(w)

\* A row with an average that fits its column is a row.
LEMMA AveragedRowTyped ==
  ASSUME NEW row \in TargetRow, NEW average \in Average, Fits(average)
  PROVE  [row EXCEPT !.average = average] \in TargetRow
  <1>1. average \in (0 .. 999) \cup {None}
    <2>1. CASE average = None
      BY <2>1
    <2>2. CASE average # None
      <3>1. average \in Nat /\ average <= 999
        BY <2>2 DEF Fits, Average
      <3> QED
        BY <3>1
    <2> QED
      BY <2>1, <2>2
  <1> QED
    BY <1>1 DEF TargetRow

\* Only reviews are contested.
LEMMA ContestedTyped ==
  ASSUME TypeInv, NEW w, NEW r
  PROVE  r \in Reviews => Contested(w, r) \subseteq Reviews
  BY DEF TypeInv, TypeOK, Contested

\* The write of an average keeps the types.
LEMMA WriteAverageTyped ==
  ASSUME TypeInv, NEW w \in Workers, WriteAverage(w)
  PROVE  TypeInv'
  <1> DEFINE r == job[w].review
             left == {k \in Ids : job[w].todo[k] # None}
  <1>1. /\ job[w] \in Job /\ job \in [Workers -> Job] /\ r \in Reviews /\ misread \subseteq Reviews
        /\ \A v \in Workers : StageFits(job[v])
    BY DEF TypeInv, TypeOK, WriteAverage, StageFits
  <1>2. PICK k \in left :
          LET new == job[w].todo[k] IN
          /\ k \in Rows
          /\ Fits(new.average)
          /\ target' = [target EXCEPT ![k].average = new.average]
          /\ misread' = IF new.misread THEN misread \cup {r} ELSE misread
          /\ job' = [job EXCEPT ![w].todo[k] = None, ![w].pc = IF left = {k} THEN "rating" ELSE @]
    BY DEF WriteAverage
  <1>3. job[w].todo \in [Ids -> Entry \cup {None}] /\ job[w].todo[k] \in Entry /\ k \in Ids
    BY <1>1 DEF Job
  <1>4. job[w].todo[k].average \in Average
    BY <1>3 DEF Entry
  <1>5. k \in DOMAIN target /\ target[k] \in TargetRow
    BY <1>2, RowAt
  <1> DEFINE row == [target[k] EXCEPT !.average = job[w].todo[k].average]
             todo == [job[w].todo EXCEPT ![k] = None]
             pc == IF left = {k} THEN "rating" ELSE job[w].pc
             j == [job[w] EXCEPT !.todo = todo, !.pc = pc]
  <1>6. row \in TargetRow
    BY <1>2, <1>4, <1>5, AveragedRowTyped
  <1>7. target' = [target EXCEPT ![k] = row]
    BY <1>2, <1>5
  <1>8. todo \in [Ids -> Entry \cup {None}] /\ pc \in {"average", "rating"}
    BY <1>3 DEF WriteAverage
  <1>9. job' = [job EXCEPT ![w] = j]
    BY <1>1, <1>2
  <1> HIDE DEF row, todo, pc
  <1>10. target' \in Seq(TargetRow \cup {None}) /\ Len(target') = Len(target)
    BY <1>5, <1>6, <1>7, ChangedTyped
  <1>11. j \in Job /\ StageFits(j)
    BY <1>1, <1>8 DEF Job, StageFits
  <1> HIDE DEF j
  <1>12. job' \in [Workers -> Job] /\ \A v \in Workers : StageFits(job'[v])
    BY <1>1, <1>9, <1>11
  <1>13. contested' \subseteq Reviews /\ misread' \subseteq Reviews
    BY <1>1, <1>2, ContestedTyped DEF WriteAverage
  <1>14. UNCHANGED <<status, config, rated, item, verdict, amended, overlaps>>
    BY DEF WriteAverage
  <1> QED
    BY <1>10, <1>12, <1>13, <1>14 DEF TypeInv, TypeOK

\* The write of a rating keeps the types.
LEMMA WriteRatingTyped ==
  ASSUME TypeInv, NEW w \in Workers, WriteRating(w)
  PROVE  TypeInv'
  <1>1. /\ job[w] \in Job /\ job \in [Workers -> Job] /\ job[w].review \in Reviews
        /\ \A v \in Workers : StageFits(job[v]) /\ DOMAIN verdict = Workers
    BY DEF TypeInv, TypeOK, WriteRating, StageFits
  <1>2. /\ job' \in [Workers -> Job] /\ \A v \in Workers : StageFits(job'[v])
        /\ DOMAIN verdict' = Workers
    <2>1. CASE job[w].edit = NoEdit
      BY <2>1, DoneTyped DEF WriteRating
    <2>2. CASE job[w].edit # NoEdit
      <3> DEFINE j == [job[w] EXCEPT !.pc = "update"]
      <3>1. job' = [job EXCEPT ![w] = j] /\ UNCHANGED verdict
        BY <1>1, <2>2 DEF WriteRating, Goto
      <3>2. j \in Job /\ StageFits(j)
        BY <1>1 DEF Job, StageFits
      <3> HIDE DEF j
      <3> QED
        BY <1>1, <3>1, <3>2
    <2> QED
      BY <2>1, <2>2
  <1>3. DOMAIN rated' = Reviews /\ contested' \subseteq Reviews
    BY <1>1, ContestedTyped DEF WriteRating, TypeInv, TypeOK
  <1>4. UNCHANGED <<status, config, target, item, amended, misread, overlaps>>
    BY DEF WriteRating
  <1> QED
    BY <1>2, <1>3, <1>4 DEF TypeInv, TypeOK

\* The last write of a PATCH keeps the types.
LEMMA UpdateWriteTyped ==
  ASSUME TypeInv, NEW w \in Workers, UpdateWrite(w)
  PROVE  TypeInv'
  <1> DEFINE r == job[w].review
             edit == job[w].edit
  <1>1. /\ r \in Reviews /\ edit.status \in ReviewStatus \cup {None}
        /\ edit.config \in Config \cup {None}
    BY DEF TypeInv, TypeOK, UpdateWrite, StageFits, Job
  <1>2. /\ job' \in [Workers -> Job] /\ \A v \in Workers : StageFits(job'[v])
        /\ DOMAIN verdict' = Workers
    BY DoneTyped DEF UpdateWrite
  <1>3. status' \in [Reviews -> ReviewStatus \cup {"none", "gone"}]
    BY <1>1 DEF TypeInv, TypeOK, UpdateWrite
  <1>4. config' \in [Reviews -> Config]
    BY <1>1 DEF TypeInv, TypeOK, UpdateWrite
  <1>5. DOMAIN rated' = Reviews /\ contested' \subseteq Reviews /\ amended' \subseteq Reviews
    BY <1>1, ContestedTyped DEF UpdateWrite, TypeInv, TypeOK
  <1>6. UNCHANGED <<target, item, misread, overlaps>>
    BY DEF UpdateWrite
  <1> QED
    BY <1>2, <1>3, <1>4, <1>5, <1>6 DEF TypeInv, TypeOK

\* A deletion keeps the types.
LEMMA DeleteWriteTyped ==
  ASSUME TypeInv, NEW w \in Workers, DeleteWrite(w)
  PROVE  TypeInv'
  <1> DEFINE r == job[w].review
  <1>1. r \in Reviews
    BY DEF TypeInv, TypeOK, DeleteWrite, StageFits
  <1>2. /\ job' \in [Workers -> Job] /\ \A v \in Workers : StageFits(job'[v])
        /\ DOMAIN verdict' = Workers
    BY DoneTyped DEF DeleteWrite
  <1>3. target' \in Seq(TargetRow \cup {None}) /\ Len(target') = Len(target)
    <2>1. /\ target \in Seq(TargetRow \cup {None}) /\ Len(target) \in Nat
          /\ DOMAIN target = 1 .. Len(target)
          /\ \A k \in 1 .. Len(target) : target[k] \in TargetRow \cup {None}
      BY LenProperties, ElementOfSeq DEF TypeInv, TypeOK
    <2>2. target' = [k \in 1 .. Len(target) |-> IF k \in DOMAIN TargetsOf(r) THEN None ELSE target[k]]
      BY <2>1 DEF DeleteWrite
    <2>3. target' \in [1 .. Len(target) -> TargetRow \cup {None}]
      BY <2>1, <2>2
    <2> QED
      BY <2>1, <2>3, SeqDef, LenProperties
  <1>4. /\ status' \in [Reviews -> ReviewStatus \cup {"none", "gone"}]
        /\ config' \in [Reviews -> Config]
    BY <1>1, PerformanceAssumption DEF TypeInv, TypeOK, DeleteWrite
  <1>5. item' \in [Reviews -> [Competencies -> ItemRow \cup {None}]]
    BY <1>1 DEF TypeInv, TypeOK, DeleteWrite
  <1>6. DOMAIN rated' = Reviews /\ contested' \subseteq Reviews
    BY <1>1, ContestedTyped DEF DeleteWrite, TypeInv, TypeOK
  <1>7. UNCHANGED <<amended, misread, overlaps>>
    BY DEF DeleteWrite
  <1> QED
    BY <1>2, <1>3, <1>4, <1>5, <1>6, <1>7 DEF TypeInv, TypeOK

\* An added target keeps the types.
LEMMA AddTargetWriteTyped ==
  ASSUME TypeInv, NEW w \in Workers, AddTargetWrite(w)
  PROVE  TypeInv'
  <1>1. job[w].review \in Reviews /\ job[w].row \in TargetRow
    BY DEF TypeInv, AddTargetWrite, StageFits
  <1>2. /\ job' \in [Workers -> Job] /\ \A v \in Workers : StageFits(job'[v])
        /\ DOMAIN verdict' = Workers
    BY DoneTyped DEF AddTargetWrite
  <1>3. target' \in Seq(TargetRow \cup {None}) /\ Len(target') <= MaxTargets
    <2>1. target \in Seq(TargetRow \cup {None}) /\ job[w].row \in TargetRow \cup {None}
      BY <1>1 DEF TypeInv, TypeOK
    <2>2. target' = Append(target, job[w].row) /\ Len(target) < MaxTargets
      BY DEF AddTargetWrite
    <2>3. Len(target) \in Nat /\ Len(target') = Len(target) + 1
          /\ target' \in Seq(TargetRow \cup {None})
      BY <2>1, <2>2, AppendProperties, LenProperties
    <2> QED
      BY <2>2, <2>3, PerformanceAssumption
  <1>4. contested' \subseteq Reviews
    BY <1>1, ContestedTyped DEF AddTargetWrite
  <1>5. UNCHANGED <<status, config, rated, item, amended, misread, overlaps>>
    BY DEF AddTargetWrite
  <1> QED
    BY <1>2, <1>3, <1>4, <1>5 DEF TypeInv, TypeOK

\* An edited target keeps the types.
LEMMA EditTargetWriteTyped ==
  ASSUME TypeInv, NEW w \in Workers, EditTargetWrite(w)
  PROVE  TypeInv'
  <1> DEFINE r == job[w].review
             k == job[w].target
             new == job[w].todo[k]
             merged == Merged(target[k], job[w].row)
             row == [merged EXCEPT !.average = new.average]
  <1>1. /\ r \in Reviews /\ job[w].row \in Patch /\ new \in Entry
        /\ misread \subseteq Reviews
    BY DEF TypeInv, TypeOK, EditTargetWrite, StageFits
  <1>2. k \in DOMAIN target /\ target[k] \in TargetRow
    BY RowAt DEF EditTargetWrite
  <1>3. merged \in TargetRow
    BY <1>1, <1>2, MergedTyped
  <1>4. new.average \in Average /\ Fits(new.average)
    BY <1>1 DEF Entry, EditTargetWrite
  <1>5. target' = [target EXCEPT ![k] = row]
    BY <1>2 DEF EditTargetWrite
  <1> HIDE DEF merged
  <1>6. row \in TargetRow
    BY <1>3, <1>4, AveragedRowTyped
  <1> HIDE DEF row
  <1>7. target' \in Seq(TargetRow \cup {None}) /\ Len(target') = Len(target)
    BY <1>2, <1>5, <1>6, ChangedTyped
  <1>8. /\ job' \in [Workers -> Job] /\ \A v \in Workers : StageFits(job'[v])
        /\ DOMAIN verdict' = Workers
    BY DoneTyped DEF EditTargetWrite
  <1>9. contested' \subseteq Reviews /\ misread' \subseteq Reviews
    BY <1>1, ContestedTyped DEF EditTargetWrite
  <1>10. UNCHANGED <<status, config, rated, item, amended, overlaps>>
    BY DEF EditTargetWrite
  <1> QED
    BY <1>7, <1>8, <1>9, <1>10 DEF TypeInv, TypeOK

\* A removed target keeps the types.
LEMMA RemoveTargetWriteTyped ==
  ASSUME TypeInv, NEW w \in Workers, RemoveTargetWrite(w)
  PROVE  TypeInv'
  <1> DEFINE k == job[w].target
             owner == target[k].review
  <1>1. k \in DOMAIN target /\ target[k] \in TargetRow
    BY RowAt DEF RemoveTargetWrite
  <1>2. owner \in Reviews
    BY <1>1 DEF TargetRow
  <1>3. target' \in Seq(TargetRow \cup {None}) /\ Len(target') = Len(target)
    <2>1. target' = [target EXCEPT ![k] = None]
      BY DEF RemoveTargetWrite
    <2> QED
      BY <1>1, <2>1, ChangedTyped
  <1>4. /\ job' \in [Workers -> Job] /\ \A v \in Workers : StageFits(job'[v])
        /\ DOMAIN verdict' = Workers
    BY DoneTyped DEF RemoveTargetWrite
  <1>5. contested' \subseteq Reviews /\ amended' \subseteq Reviews
    BY <1>2, ContestedTyped DEF RemoveTargetWrite, TypeInv, TypeOK
  <1>6. UNCHANGED <<status, config, rated, item, misread, overlaps>>
    BY DEF RemoveTargetWrite
  <1> QED
    BY <1>3, <1>4, <1>5, <1>6 DEF TypeInv, TypeOK

\* The second read of an edit keeps the types.
LEMMA EditTargetReadTyped ==
  ASSUME TypeInv, NEW w \in Workers, NEW k \in Rows, EditTargetRead(w, k)
  PROVE  TypeInv'
  <1> DEFINE new == Averaged(EditScores(target[k], job[w].row))
             todo == [job[w].todo EXCEPT ![k] = new]
             j == [job[w] EXCEPT !.pc = "edit", !.target = k, !.todo = todo]
  <1>1. /\ job[w] \in Job /\ job \in [Workers -> Job] /\ job[w].row \in Patch
        /\ job[w].review \in Reviews
        /\ \A v \in Workers : StageFits(job[v])
    BY DEF TypeInv, TypeOK, EditTargetRead, StageFits
  <1>2. k \in Ids /\ k \in 0 .. MaxTargets /\ target[k] \in TargetRow
    BY RowAt DEF Ids
  <1>3. new \in Entry
    BY <1>1, <1>2, EditTyped
  <1>4. job' = [job EXCEPT ![w].pc = "edit", ![w].target = k, ![w].todo[k] = new]
    BY DEF EditTargetRead, EditScores
  <1> HIDE DEF new
  <1>5. job' = [job EXCEPT ![w] = j]
    BY <1>1, <1>4
  <1>6. job[w].todo \in [Ids -> Entry \cup {None}]
    BY <1>1 DEF Job
  <1>7. todo \in [Ids -> Entry \cup {None}] /\ todo[k] \in Entry
    BY <1>2, <1>3, <1>6
  <1> HIDE DEF todo
  <1>8. j \in Job /\ StageFits(j)
    BY <1>1, <1>2, <1>7 DEF Job, StageFits
  <1> HIDE DEF j
  <1>9. job' \in [Workers -> Job] /\ \A v \in Workers : StageFits(job'[v])
    BY <1>1, <1>5, <1>8
  <1>10. UNCHANGED <<tables, verdict, history>>
    BY DEF EditTargetRead
  <1> QED
    BY <1>9, <1>10 DEF TypeInv, TypeOK, tables, history, notes

\* A competency added to a review keeps the types.
LEMMA AddItemTyped ==
  ASSUME TypeInv, NEW r \in Reviews, NEW c \in Competencies, NEW row \in ItemRow,
         AddItem(r, c, row)
  PROVE  TypeInv'
  <1>1. item' \in [Reviews -> [Competencies -> ItemRow \cup {None}]]
    BY DEF TypeInv, TypeOK, AddItem
  <1>2. contested' \subseteq Reviews /\ amended' \subseteq Reviews
    BY DEF TypeInv, TypeOK, AddItem
  <1>3. UNCHANGED <<status, config, rated, target, job, verdict, misread, overlaps>>
    BY DEF AddItem
  <1> QED
    BY <1>1, <1>2, <1>3 DEF TypeInv, TypeOK

\* Every step keeps the types.
LEMMA TypeStep ==
  ASSUME TypeInv, [Next]_vars
  PROVE  TypeInv'
  <1>1. ASSUME NEW w \in Workers, NEW r \in Reviews, Starts(w, r)
        PROVE  TypeInv'
    BY <1>1, StartsTyped
  <1>2. ASSUME NEW w \in Workers, Writes(w)
        PROVE  TypeInv'
    BY <1>2, WriteAverageTyped, WriteRatingTyped, UpdateWriteTyped, DeleteWriteTyped,
       AddTargetWriteTyped, EditTargetWriteTyped, RemoveTargetWriteTyped DEF Writes
  <1>3. ASSUME NEW w \in Workers, NEW k \in Rows, EditTargetRead(w, k)
        PROVE  TypeInv'
    BY <1>3, EditTargetReadTyped
  <1>4. ASSUME NEW w \in Workers, Throw(w)
        PROVE  TypeInv'
    <2>1. /\ job' \in [Workers -> Job] /\ \A v \in Workers : StageFits(job'[v])
          /\ DOMAIN verdict' = Workers
      BY <1>4, DoneTyped DEF Throw
    <2>2. UNCHANGED <<tables, history>>
      BY <1>4 DEF Throw
    <2> QED
      BY <2>1, <2>2 DEF TypeInv, TypeOK, tables, history, notes
  <1>5. ASSUME NEW r \in Reviews, NEW first \in ReviewStatus, NEW conf \in Configs \cup {Defaults},
               Create(r, first, conf)
        PROVE  TypeInv'
    <2>1. /\ status' \in [Reviews -> ReviewStatus \cup {"none", "gone"}]
          /\ config' \in [Reviews -> Config]
      BY <1>5, PerformanceAssumption DEF Create, TypeInv, TypeOK
    <2>2. UNCHANGED <<rated, target, item, job, verdict, history>>
      BY <1>5 DEF Create
    <2> QED
      BY <2>1, <2>2 DEF TypeInv, TypeOK, history, notes
  <1>6. ASSUME NEW r \in Reviews, NEW c \in Competencies, NEW row \in ItemForms, AddItem(r, c, row)
        PROVE  TypeInv'
    BY <1>6, AddItemTyped, PerformanceAssumption
  <1>7. CASE UNCHANGED vars
    BY <1>7 DEF vars, tables, history, notes, TypeInv, TypeOK
  <1> QED
    BY <1>1, <1>2, <1>3, <1>4, <1>5, <1>6, <1>7 DEF Next, Step, Starts, Writes

\* The initial state has the types.
LEMMA TypeInit ==
  ASSUME Init
  PROVE  TypeInv
  <1>1. \A w \in Workers : job[w] = Idle
    BY DEF Init
  <1>2. job \in [Workers -> Job] /\ \A w \in Workers : StageFits(job[w])
    BY <1>1, IdleTyped DEF Init
  <1>3. target \in Seq(TargetRow \cup {None}) /\ Len(target) <= MaxTargets
    BY EmptySeq, PerformanceAssumption DEF Init
  <1>4. overlaps \in 0 .. MaxOverlaps
    BY PerformanceAssumption DEF Init
  <1> QED
    BY <1>2, <1>3, <1>4, PerformanceAssumption DEF Init, TypeInv, TypeOK

\* Rows, averages and local states of Performance keep their types.
THEOREM PerformanceTypeCorrect == Spec => []TypeOK
  <1>1. Init => TypeInv
    BY TypeInit
  <1>2. TypeInv /\ [Next]_vars => TypeInv'
    BY TypeStep
  <1>3. TypeInv => TypeOK
    BY DEF TypeInv
  <1> QED
    BY <1>1, <1>2, <1>3, PTL DEF Spec

-----------------------------------------------------------------------------
(* A handler writes to the rows of its review, or of the target it removes *)

\* The targets a handler has in hand are, if they are still there, its review's.
Owns(w) ==
  LET j == job[w] IN
  /\ j.pc = "add" => j.row.review = j.review
  /\ \A k \in Ids : j.todo[k] # None =>
       k \in DOMAIN target /\ (target[k] = None \/ target[k].review = j.review)

OwnInv == TypeInv /\ \A w \in Workers : Owns(w)

\* Ids are not used again, and a target stays with its review.
TargetsKept ==
  \A k \in DOMAIN target :
    k \in DOMAIN target' /\ (target'[k] = None \/ (target[k] # None /\ target'[k].review = target[k].review))

\* Every step keeps targets with their reviews.
LEMMA Kept ==
  ASSUME TypeInv, [Next]_vars
  PROVE  TargetsKept
  <1>1. /\ \A k \in Rows : k \in DOMAIN target /\ target[k] \in TargetRow
        /\ target \in Seq(TargetRow \cup {None}) /\ DOMAIN target = 1 .. Len(target)
        /\ Len(target) \in Nat
    BY RowAt, LenProperties DEF TypeInv, TypeOK
  <1>2. ASSUME NEW k \in DOMAIN target, target[k] # None
        PROVE  target[k].review = target[k].review /\ k \in Rows
    BY <1>2 DEF Rows
  <1>3. CASE UNCHANGED target
    BY <1>3 DEF TargetsKept
  <1>4. ASSUME NEW w \in Workers, WriteAverage(w)
        PROVE  TargetsKept
    <2>1. PICK k \in Rows : target' = [target EXCEPT ![k].average = job[w].todo[k].average]
      BY <1>4 DEF WriteAverage
    <2>2. target[k] \in TargetRow /\ target'[k].review = target[k].review
      BY <1>1, <2>1 DEF TargetRow
    <2>3. target[k] # None
      BY DEF Rows
    <2>4. DOMAIN target' = DOMAIN target /\ \A i \in DOMAIN target : i # k => target'[i] = target[i]
      BY <2>1
    <2> QED
      BY <2>2, <2>3, <2>4 DEF TargetsKept
  <1>5. ASSUME NEW w \in Workers, DeleteWrite(w)
        PROVE  TargetsKept
    BY <1>5 DEF DeleteWrite, TargetsKept
  <1>6. ASSUME NEW w \in Workers, AddTargetWrite(w)
        PROVE  TargetsKept
    <2>1. job[w].row \in TargetRow \cup {None} /\ target' = Append(target, job[w].row)
      BY <1>6 DEF AddTargetWrite, TypeInv, StageFits
    <2>2. /\ DOMAIN target' = 1 .. Len(target) + 1
          /\ \A k \in 1 .. Len(target) : target'[k] = target[k]
      BY <1>1, <2>1, AppendProperties, LenProperties
    <2> QED
      BY <1>1, <2>2 DEF TargetsKept
  <1>7. ASSUME NEW w \in Workers, EditTargetWrite(w)
        PROVE  TargetsKept
    <2> DEFINE k == job[w].target
               merged == Merged(target[k], job[w].row)
               row == [merged EXCEPT !.average = job[w].todo[k].average]
    <2>1. k \in Rows /\ target' = [target EXCEPT ![k] = row]
      BY <1>1, <1>7 DEF EditTargetWrite
    <2>2. merged \in TargetRow /\ merged.review = target[k].review
      BY <1>1, <1>7, <2>1, MergedTyped DEF EditTargetWrite, TypeInv, StageFits
    <2> HIDE DEF merged
    <2>3. row.review = target[k].review
      BY <2>2 DEF TargetRow
    <2> HIDE DEF row
    <2>4. target[k] # None
      BY <2>1 DEF Rows
    <2> QED
      BY <1>1, <2>1, <2>3, <2>4 DEF TargetsKept
  <1>8. ASSUME NEW w \in Workers, RemoveTargetWrite(w)
        PROVE  TargetsKept
    BY <1>8 DEF RemoveTargetWrite, TargetsKept
  <1>9. CASE Next
    <2>1. ASSUME NEW w \in Workers, Step(w)
          PROVE  TargetsKept
      <3>1. ASSUME NEW r \in Reviews, NEW edit, NEW conf, Assess(w, r, edit, conf), UNCHANGED tables
            PROVE  UNCHANGED target
        BY <3>1 DEF tables
      <3> QED
        BY <1>3, <1>4, <1>5, <1>6, <1>7, <1>8, <2>1
        DEF Step, tables, UpdateStart, ComputeStart, DeleteStart, AddTargetStart, EditTargetStart,
            RemoveTargetStart, WriteRating, UpdateWrite, EditTargetRead, Throw
    <2>2. ASSUME NEW r \in Reviews, NEW first \in ReviewStatus, NEW conf, Create(r, first, conf)
          PROVE  TargetsKept
      BY <1>3, <2>2 DEF Create
    <2>3. ASSUME NEW r \in Reviews, NEW c \in Competencies, NEW row, AddItem(r, c, row)
          PROVE  TargetsKept
      BY <1>3, <2>3 DEF AddItem
    <2> QED
      BY <1>9, <2>1, <2>2, <2>3 DEF Next
  <1> QED
    BY <1>3, <1>9 DEF vars, tables

\* Who does nothing has no targets in hand.
LEMMA OwnsIdle ==
  ASSUME NEW w, job'[w] = Idle
  PROVE  Owns(w)'
  BY DEF Owns, Idle, Nothing

\* A handler that has no more targets in hand than before still has its own.
LEMMA OwnsStays ==
  ASSUME TargetsKept, NEW v, Owns(v), job'[v].row = job[v].row, job'[v].review = job[v].review,
         job'[v].pc = "add" => job[v].pc = "add",
         \A k \in Ids : job'[v].todo[k] # None => job[v].todo[k] # None
  PROVE  Owns(v)'
  <1>1. job'[v].pc = "add" => job'[v].row.review = job'[v].review
    BY DEF Owns
  <1>2. ASSUME NEW k \in Ids, job'[v].todo[k] # None
        PROVE  k \in DOMAIN target' /\ (target'[k] = None \/ target'[k].review = job'[v].review)
    BY <1>2 DEF Owns, TargetsKept
  <1> QED
    BY <1>1, <1>2 DEF Owns

\* A handler that begins without any has none.
LEMMA OwnsBegun ==
  ASSUME TypeInv, NEW w \in Workers, NEW j, Begin(w, j), j.todo = Nothing, j.pc # "add"
  PROVE  Owns(w)'
  <1>1. job'[w] = j
    BY DEF Begin, TypeInv, TypeOK
  <1> QED
    BY <1>1 DEF Owns, Nothing

\* An assessment takes the targets of its review in hand.
LEMMA OwnsAssessing ==
  ASSUME TypeInv, NEW w \in Workers, NEW r \in Reviews, NEW edit, NEW conf,
         Assess(w, r, edit, conf), UNCHANGED tables
  PROVE  Owns(w)'
  <1> DEFINE targets == TargetsOf(r)
             todo == [k \in Ids |-> IF k \in DOMAIN targets THEN Averaged(Stored(targets[k])) ELSE None]
             j == [Idle EXCEPT !.pc = IF DOMAIN targets = {} THEN "rating" ELSE "average",
                               !.review = r, !.edit = edit, !.todo = todo]
  <1>1. job'[w] = j
    BY DEF Assess, Begin, TypeInv, TypeOK
  <1>2. \A k \in Ids : todo[k] # None => k \in Rows /\ target[k].review = r
    BY DEF TargetsOf
  <1> HIDE DEF targets, todo
  <1>3. job'[w].todo = todo /\ job'[w].review = r /\ job'[w].pc # "add"
    BY <1>1 DEF Idle
  <1>4. target' = target
    BY DEF tables
  <1> HIDE DEF j
  <1> QED
    BY <1>2, <1>3, <1>4 DEF Owns, Rows

\* Every step leaves the handlers with targets of their reviews.
LEMMA OwnStep ==
  ASSUME OwnInv, [Next]_vars
  PROVE  OwnInv'
  <1>1. TypeInv /\ TargetsKept /\ job \in [Workers -> Job] /\ \A v \in Workers : Owns(v)
    BY Kept DEF OwnInv, TypeInv, TypeOK
  <1>2. ASSUME NEW v \in Workers, job'[v] = job[v]
        PROVE  Owns(v)'
    BY <1>1, <1>2, OwnsStays
  <1>3. ASSUME NEW w \in Workers, NEW j, Begin(w, j), NEW v \in Workers \ {w}
        PROVE  job'[v] = job[v]
    BY <1>1, <1>3 DEF Begin
  <1>4. ASSUME NEW w \in Workers, Done(w)
        PROVE  \A v \in Workers : Owns(v)'
    <2>1. job'[w] = Idle /\ \A v \in Workers \ {w} : job'[v] = job[v]
      BY <1>1, <1>4 DEF Done
    <2> QED
      BY <1>2, <2>1, OwnsIdle
  <1>5. ASSUME NEW w \in Workers, NEW r \in Reviews, Starts(w, r)
        PROVE  \A v \in Workers : Owns(v)'
    <2>1. ASSUME NEW edit, NEW conf, Assess(w, r, edit, conf), UNCHANGED tables
          PROVE  \A v \in Workers : Owns(v)'
      BY <1>1, <1>2, <1>3, <2>1, OwnsAssessing DEF Assess
    <2>2. ASSUME NEW j, Begin(w, j), j.todo = Nothing, j.pc # "add"
          PROVE  \A v \in Workers : Owns(v)'
      BY <1>1, <1>2, <1>3, <2>2, OwnsBegun
    <2>3. ASSUME NEW to, NEW conf, UpdateStart(w, r, to, conf)
          PROVE  \A v \in Workers : Owns(v)'
      <3> DEFINE edit == [status |-> IF to = status[r] THEN None ELSE to, config |-> conf]
                 j == [Idle EXCEPT !.pc = "update", !.review = r, !.edit = edit]
      <3>1. CASE edit.status = "APPROVED"
        BY <2>1, <2>3, <3>1 DEF UpdateStart
      <3>2. CASE edit.status # "APPROVED"
        <4>1. Begin(w, j)
          BY <2>3, <3>2 DEF UpdateStart
        <4>2. j.todo = Nothing /\ j.pc = "update"
          BY DEF Idle
        <4> HIDE DEF j
        <4> QED
          BY <2>2, <4>1, <4>2
      <3> QED
        BY <3>1, <3>2
    <2>4. CASE ComputeStart(w, r)
      BY <2>1, <2>4 DEF ComputeStart
    <2>5. CASE DeleteStart(w, r)
      <3> DEFINE j == [Idle EXCEPT !.pc = "delete", !.review = r]
      <3>1. Begin(w, j)
        BY <2>5 DEF DeleteStart
      <3>2. j.todo = Nothing /\ j.pc = "delete"
        BY DEF Idle
      <3> HIDE DEF j
      <3> QED
        BY <2>2, <3>1, <3>2
    <2>6. ASSUME NEW form \in TargetForms, AddTargetStart(w, r, form)
          PROVE  \A v \in Workers : Owns(v)'
      <3> DEFINE row == NewRow(r, form)
                 j == [Idle EXCEPT !.pc = "add", !.review = r, !.row = row]
      <3>1. Begin(w, j)
        BY <2>6 DEF AddTargetStart, NewRow
      <3>2. row.review = r
        BY DEF NewRow
      <3> HIDE DEF row
      <3>3. j.todo = Nothing /\ j.row.review = j.review
        BY <3>2 DEF Idle
      <3>4. job'[w] = j
        BY <1>1, <3>1 DEF Begin
      <3> HIDE DEF j
      <3>5. Owns(w)'
        BY <3>3, <3>4 DEF Owns, Nothing
      <3> QED
        BY <1>2, <1>3, <3>1, <3>5
    <2>7. ASSUME NEW patch, EditTargetStart(w, r, patch)
          PROVE  \A v \in Workers : Owns(v)'
      <3> DEFINE j == [Idle EXCEPT !.pc = "read", !.review = r, !.row = patch]
      <3>1. Begin(w, j)
        BY <2>7 DEF EditTargetStart
      <3>2. j.todo = Nothing /\ j.pc = "read"
        BY DEF Idle
      <3> HIDE DEF j
      <3> QED
        BY <2>2, <3>1, <3>2
    <2>8. ASSUME NEW k, RemoveTargetStart(w, r, k)
          PROVE  \A v \in Workers : Owns(v)'
      <3> DEFINE j == [Idle EXCEPT !.pc = "remove", !.review = r, !.target = k]
      <3>1. Begin(w, j)
        BY <2>8 DEF RemoveTargetStart
      <3>2. j.todo = Nothing /\ j.pc = "remove"
        BY DEF Idle
      <3> HIDE DEF j
      <3> QED
        BY <2>2, <3>1, <3>2
    <2> QED
      BY <1>5, <2>3, <2>4, <2>5, <2>6, <2>7, <2>8 DEF Starts
  <1>6. ASSUME NEW w \in Workers, Writes(w)
        PROVE  \A v \in Workers : Owns(v)'
    <2>1. CASE WriteAverage(w)
      <3>1. PICK k \in Ids : \E pc : job' = [job EXCEPT ![w].todo[k] = None, ![w].pc = pc]
                                     /\ pc \in {"rating", "average"}
        <4>1. job[w].pc = "average"
          BY <2>1 DEF WriteAverage
        <4> QED
          BY <2>1, <4>1 DEF WriteAverage
      <3>2. PICK pc \in {"rating", "average"} : job' = [job EXCEPT ![w].todo[k] = None, ![w].pc = pc]
        BY <3>1
      <3>3. job[w] \in Job /\ job[w].todo \in [Ids -> Entry \cup {None}]
        BY <1>1 DEF Job
      <3>4. /\ job'[w] = [job[w] EXCEPT !.todo = [job[w].todo EXCEPT ![k] = None], !.pc = pc]
            /\ \A v \in Workers \ {w} : job'[v] = job[v]
        BY <1>1, <3>2
      <3>5. /\ job'[w].row = job[w].row /\ job'[w].review = job[w].review /\ job'[w].pc # "add"
            /\ job'[w].todo = [job[w].todo EXCEPT ![k] = None]
        BY <3>3, <3>4 DEF Job
      <3>6. \A i \in Ids : job'[w].todo[i] # None => job[w].todo[i] # None
        BY <3>3, <3>5
      <3>7. Owns(w)'
        BY <1>1, <3>5, <3>6, OwnsStays
      <3> QED
        BY <1>2, <3>4, <3>7
    <2>2. CASE WriteRating(w)
      <3>1. CASE Done(w)
        BY <1>4, <3>1
      <3>2. CASE Goto(w, "update")
        <4>1. job[w] \in Job
          BY <1>1
        <4>2. /\ job'[w] = [job[w] EXCEPT !.pc = "update"]
              /\ \A v \in Workers \ {w} : job'[v] = job[v]
          BY <1>1, <3>2 DEF Goto
        <4>3. /\ job'[w].row = job[w].row /\ job'[w].review = job[w].review
              /\ job'[w].pc # "add" /\ job'[w].todo = job[w].todo
          BY <4>1, <4>2 DEF Job
        <4>4. Owns(w)'
          BY <1>1, <4>3, OwnsStays
        <4> QED
          BY <1>2, <4>2, <4>4
      <3> QED
        BY <2>2, <3>1, <3>2 DEF WriteRating
    <2> QED
      BY <1>4, <1>6, <2>1, <2>2
      DEF Writes, UpdateWrite, DeleteWrite, AddTargetWrite, EditTargetWrite, RemoveTargetWrite
  <1>7. ASSUME NEW w \in Workers, NEW k \in Rows, EditTargetRead(w, k)
        PROVE  \A v \in Workers : Owns(v)'
    <2> DEFINE new == Averaged(EditScores(target[k], job[w].row))
    <2>1. job[w].pc = "read" /\ k \in Ids /\ k \in DOMAIN target /\ target[k].review = job[w].review
      BY <1>1, <1>7, RowAt DEF EditTargetRead, TargetsOf
    <2>2. job' = [job EXCEPT ![w].pc = "edit", ![w].target = k, ![w].todo[k] = new]
      BY <1>7 DEF EditTargetRead, EditScores
    <2> HIDE DEF new
    <2>3. job[w] \in Job /\ job[w].todo \in [Ids -> Entry \cup {None}]
      BY <1>1 DEF Job
    <2>4. /\ job'[w] = [job[w] EXCEPT !.pc = "edit", !.target = k, !.todo = [job[w].todo EXCEPT ![k] = new]]
          /\ \A v \in Workers \ {w} : job'[v] = job[v]
      BY <1>1, <2>2
    <2>5. /\ job'[w].pc = "edit" /\ job'[w].review = job[w].review
          /\ job'[w].todo = [job[w].todo EXCEPT ![k] = new]
      BY <2>3, <2>4 DEF Job
    <2>6. target' = target
      BY <1>7 DEF EditTargetRead, tables
    <2>7. Owns(w)
      BY <1>1
    <2>8. Owns(w)'
      BY <2>1, <2>3, <2>5, <2>6, <2>7 DEF Owns
    <2> QED
      BY <1>2, <2>4, <2>8
  <1>8. ASSUME UNCHANGED job
        PROVE  \A v \in Workers : Owns(v)'
    BY <1>2, <1>8
  <1>9. ASSUME Next
        PROVE  \A v \in Workers : Owns(v)'
    <2>1. ASSUME NEW w \in Workers, Step(w)
          PROVE  \A v \in Workers : Owns(v)'
      <3>1. CASE Throw(w)
        BY <1>4, <3>1 DEF Throw
      <3> QED
        BY <1>5, <1>6, <1>7, <2>1, <3>1 DEF Step, Starts, Writes
    <2>2. ASSUME NEW r \in Reviews, NEW first \in ReviewStatus, NEW conf, Create(r, first, conf)
          PROVE  UNCHANGED job
      BY <2>2 DEF Create
    <2>3. ASSUME NEW r \in Reviews, NEW c \in Competencies, NEW row, AddItem(r, c, row)
          PROVE  UNCHANGED job
      BY <2>3 DEF AddItem
    <2> QED
      BY <1>8, <1>9, <2>1, <2>2, <2>3 DEF Next
  <1> QED
    BY <1>1, <1>8, <1>9, TypeStep DEF OwnInv, vars

-----------------------------------------------------------------------------
(* What a handler read of its review still holds, unless another one wrote *)

\* The average of a row's scores, taken as numbers.
Numbers(row) == computeAverageScore(Score(row.quality, FALSE), Score(row.efficiency, FALSE),
                                    Score(row.timeliness, FALSE))

\* What a handler computed is what the review's rows would give it now.
Fresh(w, r) ==
  verdict[w] = computeFullReview(TargetsOf(r), item[r],
                                 IF job[w].edit.config = None THEN config[r] ELSE job[w].edit.config)

RowOf(k, r) == k \in Rows /\ target[k].review = r

HandOf(w, r) ==
  LET j == job[w] IN
  /\ Exists(r)
  /\ j.pc \in {"average", "rating", "update"} /\ j.edit.status # None =>
       j.edit.status \in AllowedTransitions(status[r])
  /\ j.pc \in {"delete", "add", "read", "edit", "remove"} => status[r] # "APPROVED"
  /\ j.pc \in {"average", "rating"} => j.edit = NoEdit \/ j.edit.status = "APPROVED"
  /\ j.pc = "average" => \A k \in Ids : j.todo[k] # None =>
       RowOf(k, r) /\ j.todo[k] = Averaged(Stored(target[k]))
  /\ j.pc = "edit" =>
       RowOf(j.target, r) /\ j.todo[j.target] = Averaged(EditScores(target[j.target], j.row))
  /\ j.pc = "add" => j.row.average = Numbers(j.row)
  /\ r \notin misread /\ (j.pc \in {"average", "rating"} \/ (j.pc = "update" /\ j.edit.status = "APPROVED")) =>
       Fresh(w, r)

HandFits(w) == \A r \in Reviews \ contested : job[w].review = r => HandOf(w, r)

\* Where no sum was misread and no handlers met, an average is that of the scores beside it.
FairRows ==
  \A k \in Rows : target[k].review \notin contested \cup misread => target[k].average = Numbers(target[k])

Inv ==
  /\ OwnInv
  /\ \A w \in Workers : HandFits(w)
  /\ FairRows
  /\ RatingOfItsRows

\* A step leaves a review and its rows as they are.
Same(r) ==
  /\ status'[r] = status[r] /\ config'[r] = config[r] /\ item'[r] = item[r]
  /\ \A k : (k \in Rows' /\ target'[k].review = r) <=> RowOf(k, r)
  /\ \A k : RowOf(k, r) => target'[k] = target[k]

NotesGrow == contested \subseteq contested' /\ amended \subseteq amended' /\ misread \subseteq misread'

\* What is noted stays noted.
LEMMA NotesOnlyGrow ==
  ASSUME [Next]_vars
  PROVE  NotesGrow
  <1>1. CASE UNCHANGED notes
    BY <1>1 DEF notes, NotesGrow
  <1>2. ASSUME NEW w \in Workers, Step(w)
        PROVE  NotesGrow
    <2>1. CASE \E r \in Reviews : Starts(w, r)
      BY <1>1, <2>1 DEF Starts, UpdateStart, ComputeStart, DeleteStart, AddTargetStart,
         EditTargetStart, RemoveTargetStart
    <2>2. CASE WriteAverage(w)
      BY <2>2 DEF WriteAverage, Contested, NotesGrow
    <2>3. CASE EditTargetWrite(w)
      BY <2>3 DEF EditTargetWrite, Contested, NotesGrow
    <2>4. CASE WriteRating(w) \/ UpdateWrite(w) \/ DeleteWrite(w) \/ AddTargetWrite(w) \/ RemoveTargetWrite(w)
      BY <2>4 DEF WriteRating, UpdateWrite, DeleteWrite, AddTargetWrite, RemoveTargetWrite, Contested,
         NotesGrow
    <2>5. CASE Throw(w) \/ \E k \in Rows : EditTargetRead(w, k)
      BY <1>1, <2>5 DEF Throw, EditTargetRead, history
    <2> QED
      BY <1>2, <2>1, <2>2, <2>3, <2>4, <2>5 DEF Step, Starts
  <1>3. ASSUME NEW r \in Reviews, NEW first, NEW conf, Create(r, first, conf)
        PROVE  NotesGrow
    BY <1>1, <1>3 DEF Create, history
  <1>4. ASSUME NEW r \in Reviews, NEW c, NEW row, AddItem(r, c, row)
        PROVE  NotesGrow
    BY <1>4 DEF AddItem, NotesGrow
  <1>5. CASE UNCHANGED vars
    BY <1>1, <1>5 DEF vars, history
  <1> QED
    BY <1>2, <1>3, <1>4, <1>5 DEF Next

\* A review left as it is has the same targets.
LEMMA TargetsSame ==
  ASSUME NEW r, Same(r)
  PROVE  TargetsOf(r)' = TargetsOf(r)
  <1> DEFINE S == {k \in Rows : target[k].review = r}
  <1>1. {k \in Rows' : target'[k].review = r} = S
    BY DEF Same, RowOf
  <1>2. \A k \in S : target'[k] = target[k]
    BY DEF Same, RowOf
  <1>3. TargetsOf(r)' = [k \in S |-> target'[k]]
    BY <1>1 DEF TargetsOf
  <1>4. TargetsOf(r) = [k \in S |-> target[k]]
    BY DEF TargetsOf
  <1> HIDE DEF S
  <1> QED
    BY <1>2, <1>3, <1>4

\* A step that writes none of the tables leaves every review as it is.
LEMMA SameUnchanged ==
  ASSUME UNCHANGED <<status, config, item, target>>, NEW r
  PROVE  Same(r)
  BY DEF Same, Rows, RowOf

\* A handler that stays where it is, in a review left as it is, still knows what it knew.
LEMMA HandKept ==
  ASSUME NotesGrow, NEW w, NEW r, HandOf(w, r), Same(r), job'[w] = job[w], verdict'[w] = verdict[w]
  PROVE  HandOf(w, r)'
  <1>1. TargetsOf(r)' = TargetsOf(r) /\ status'[r] = status[r] /\ config'[r] = config[r] /\ item'[r] = item[r]
    BY TargetsSame DEF Same
  <1>2. \A k : RowOf(k, r) => RowOf(k, r)' /\ target'[k] = target[k]
    BY DEF Same, RowOf
  <1>3. Fresh(w, r) => Fresh(w, r)'
    BY <1>1 DEF Fresh
  <1>4. misread \subseteq misread'
    BY DEF NotesGrow
  <1> QED
    BY <1>1, <1>2, <1>3, <1>4 DEF HandOf, Exists, RowOf

\* Who does nothing has nothing to know.
LEMMA HandIdle ==
  ASSUME NEW w, job'[w] = Idle
  PROVE  HandFits(w)'
  BY NoneOutside DEF HandFits, Idle

-----------------------------------------------------------------------------
(* A write touches the rows of one review, and notes who else has it       *)

\* A changed target leaves the other reviews as they are.
LEMMA OneChanged ==
  ASSUME NEW k \in Rows, NEW row, target' = [target EXCEPT ![k] = row],
         row = None \/ row.review = target[k].review, UNCHANGED <<status, config, item>>,
         NEW r, r # target[k].review
  PROVE  Same(r)
  <1>1. k \in DOMAIN target
    BY DEF Rows
  <1>2. target'[k] = row /\ DOMAIN target' = DOMAIN target /\ \A i \in DOMAIN target : i # k => target'[i] = target[i]
    BY <1>1
  <1>3. ~RowOf(k, r) /\ ~(k \in Rows' /\ target'[k].review = r)
    BY <1>2 DEF RowOf, Rows
  <1>4. \A i : i # k => ((i \in Rows' /\ target'[i].review = r) <=> RowOf(i, r)) /\ (RowOf(i, r) => target'[i] = target[i])
    BY <1>2 DEF RowOf, Rows
  <1> QED
    BY <1>3, <1>4 DEF Same

\* The rows an average and an edit are written to, and what is written.
LEMMA AverageWritten ==
  ASSUME OwnInv, NEW w \in Workers, WriteAverage(w)
  PROVE  \E k \in Rows :
           /\ k \in Ids /\ k \in DOMAIN target /\ target[k] \in TargetRow
           /\ job[w].todo[k] \in Entry /\ Fits(job[w].todo[k].average)
           /\ target[k].review = job[w].review
           /\ target' = [target EXCEPT ![k] = [target[k] EXCEPT !.average = job[w].todo[k].average]]
           /\ misread' = IF job[w].todo[k].misread THEN misread \cup {job[w].review} ELSE misread
           /\ \E pc \in {"rating", "average"} : job' = [job EXCEPT ![w].todo[k] = None, ![w].pc = pc]
  <1>1. TypeInv /\ job[w] \in Job /\ Owns(w) /\ job[w].pc = "average"
    BY DEF OwnInv, TypeInv, TypeOK, WriteAverage
  <1>2. PICK k \in Rows :
           /\ k \in Ids /\ job[w].todo[k] # None
           /\ Fits(job[w].todo[k].average)
           /\ target' = [target EXCEPT ![k].average = job[w].todo[k].average]
           /\ misread' = IF job[w].todo[k].misread THEN misread \cup {job[w].review} ELSE misread
           /\ \E pc \in {"rating", "average"} : job' = [job EXCEPT ![w].todo[k] = None, ![w].pc = pc]
    BY <1>1 DEF WriteAverage
  <1>3. job[w].todo \in [Ids -> Entry \cup {None}]
    BY <1>1 DEF Job
  <1>4. k \in DOMAIN target /\ target[k] \in TargetRow /\ target[k] # None
    BY <1>1, RowAt DEF Rows
  <1>5. target[k].review = job[w].review
    BY <1>1, <1>2, <1>4 DEF Owns
  <1> QED
    BY <1>2, <1>3, <1>4, <1>5

\* What an edit writes, and where.
LEMMA EditWritten ==
  ASSUME OwnInv, NEW w \in Workers, EditTargetWrite(w)
  PROVE  LET k == job[w].target
             merged == Merged(target[k], job[w].row)
         IN /\ k \in Rows /\ k \in Ids /\ target[k] \in TargetRow /\ job[w].row \in Patch
            /\ merged \in TargetRow /\ merged.review = target[k].review
            /\ job[w].todo[k] \in Entry /\ Fits(job[w].todo[k].average)
            /\ target[k].review = job[w].review
            /\ target' = [target EXCEPT ![k] = [merged EXCEPT !.average = job[w].todo[k].average]]
            /\ misread' = IF job[w].todo[k].misread THEN misread \cup {job[w].review} ELSE misread
  <1> DEFINE k == job[w].target
  <1>1. TypeInv /\ Owns(w) /\ StageFits(job[w]) /\ job[w].pc = "edit"
    BY DEF OwnInv, TypeInv, EditTargetWrite
  <1>2. k \in Rows /\ k \in Ids /\ job[w].row \in Patch /\ job[w].todo[k] \in Entry
    BY <1>1 DEF EditTargetWrite, StageFits
  <1>3. k \in DOMAIN target /\ target[k] \in TargetRow /\ target[k] # None
    BY <1>1, <1>2, RowAt DEF Rows
  <1>4. job[w].todo[k] # None
    BY <1>2, PerformanceAssumption
  <1>5. target[k].review = job[w].review
    BY <1>1, <1>2, <1>3, <1>4 DEF Owns
  <1>6. Merged(target[k], job[w].row) \in TargetRow /\ Merged(target[k], job[w].row).review = target[k].review
    BY <1>2, <1>3, MergedTyped
  <1> QED
    BY <1>2, <1>3, <1>5, <1>6 DEF EditTargetWrite

\* What an added target changes.
LEMMA AddWritten ==
  ASSUME OwnInv, NEW w \in Workers, AddTargetWrite(w)
  PROVE  LET n == Len(target) + 1 IN
         /\ job[w].row \in TargetRow /\ job[w].row.review = job[w].review
         /\ n \notin DOMAIN target /\ DOMAIN target' = DOMAIN target \cup {n}
         /\ target'[n] = job[w].row
         /\ \A k \in DOMAIN target : target'[k] = target[k]
  <1>1. TypeInv /\ Owns(w) /\ StageFits(job[w]) /\ job[w].pc = "add" /\ target' = Append(target, job[w].row)
    BY DEF OwnInv, TypeInv, AddTargetWrite
  <1>2. job[w].row \in TargetRow \cup {None} /\ job[w].row \in TargetRow /\ job[w].row.review = job[w].review
    BY <1>1 DEF StageFits, Owns
  <1>3. target \in Seq(TargetRow \cup {None}) /\ DOMAIN target = 1 .. Len(target) /\ Len(target) \in Nat
    BY <1>1, LenProperties DEF TypeInv, TypeOK
  <1>4. /\ DOMAIN target' = 1 .. Len(target) + 1
        /\ target'[Len(target) + 1] = job[w].row
        /\ \A k \in 1 .. Len(target) : target'[k] = target[k]
    BY <1>1, <1>2, <1>3, AppendProperties, LenProperties
  <1> QED
    BY <1>2, <1>3, <1>4

\* The review whose rows a handler's write touches.
Touched(w) == IF job[w].pc = "remove" THEN target[job[w].target].review ELSE job[w].review

\* A write leaves a review as it is, or notes who else has it in hand.
LEMMA WritesTouch ==
  ASSUME OwnInv, NEW w \in Workers, NEW r \in Reviews, Writes(w)
  PROVE  Same(r) \/ (r = Touched(w) /\ contested' = Contested(w, r))
  <1>1. TypeInv /\ status \in [Reviews -> ReviewStatus \cup {"none", "gone"}]
        /\ config \in [Reviews -> Config]
        /\ item \in [Reviews -> [Competencies -> ItemRow \cup {None}]]
    BY DEF OwnInv, TypeInv, TypeOK
  <1>2. CASE WriteAverage(w)
    <2>1. PICK k \in Rows :
            /\ target[k] \in TargetRow /\ target[k].review = job[w].review
            /\ target' = [target EXCEPT ![k] = [target[k] EXCEPT !.average = job[w].todo[k].average]]
      BY <1>2, AverageWritten
    <2> DEFINE row == [target[k] EXCEPT !.average = job[w].todo[k].average]
    <2>2. row.review = target[k].review
      BY <2>1 DEF TargetRow
    <2>3. target' = [target EXCEPT ![k] = row]
      BY <2>1
    <2> HIDE DEF row
    <2>4. /\ UNCHANGED <<status, config, item>> /\ contested' = Contested(w, job[w].review)
          /\ Touched(w) = job[w].review
      BY <1>2 DEF WriteAverage, Touched
    <2> QED
      BY <2>1, <2>2, <2>3, <2>4, OneChanged
  <1>3. CASE WriteRating(w)
    BY <1>3, SameUnchanged DEF WriteRating
  <1>4. CASE UpdateWrite(w)
    <2>1. /\ contested' = Contested(w, job[w].review) /\ UNCHANGED <<target, item>>
          /\ Touched(w) = job[w].review
      BY <1>4 DEF UpdateWrite, Touched
    <2>2. r # job[w].review => status'[r] = status[r] /\ config'[r] = config[r]
      BY <1>1, <1>4 DEF UpdateWrite
    <2> QED
      BY <2>1, <2>2 DEF Same, Rows, RowOf
  <1>5. CASE DeleteWrite(w)
    <2>1. contested' = Contested(w, job[w].review) /\ Touched(w) = job[w].review
      BY <1>5 DEF DeleteWrite, Touched
    <2>2. ASSUME r # job[w].review
          PROVE  status'[r] = status[r] /\ config'[r] = config[r] /\ item'[r] = item[r]
      BY <1>1, <1>5, <2>2 DEF DeleteWrite
    <2>3. /\ DOMAIN target' = DOMAIN target
          /\ \A k \in DOMAIN target :
               target'[k] = IF RowOf(k, job[w].review) THEN None ELSE target[k]
      BY <1>5 DEF DeleteWrite, TargetsOf, RowOf
    <2>4. ASSUME r # job[w].review, NEW k
          PROVE  /\ (k \in Rows' /\ target'[k].review = r) <=> RowOf(k, r)
                 /\ RowOf(k, r) => target'[k] = target[k]
      BY <2>3, <2>4 DEF Rows, RowOf
    <2> QED
      BY <2>1, <2>2, <2>4 DEF Same
  <1>6. CASE AddTargetWrite(w)
    <2>1. /\ UNCHANGED <<status, config, item>> /\ contested' = Contested(w, job[w].review)
          /\ Touched(w) = job[w].review
      BY <1>6 DEF AddTargetWrite, Touched
    <2>2. r # job[w].review => Same(r)
      BY <1>6, <2>1, AddWritten DEF Same, Rows, RowOf
    <2> QED
      BY <2>1, <2>2
  <1>7. CASE EditTargetWrite(w)
    <2> DEFINE k == job[w].target
               merged == Merged(target[k], job[w].row)
               row == [merged EXCEPT !.average = job[w].todo[k].average]
    <2>1. /\ k \in Rows /\ merged \in TargetRow /\ merged.review = target[k].review
          /\ target[k].review = job[w].review /\ target' = [target EXCEPT ![k] = row]
      BY <1>7, EditWritten
    <2> HIDE DEF merged
    <2>2. row.review = target[k].review
      BY <2>1 DEF TargetRow
    <2> HIDE DEF row
    <2>3. /\ UNCHANGED <<status, config, item>> /\ contested' = Contested(w, job[w].review)
          /\ Touched(w) = job[w].review
      BY <1>7 DEF EditTargetWrite, Touched
    <2> QED
      BY <2>1, <2>2, <2>3, OneChanged
  <1>8. CASE RemoveTargetWrite(w)
    <2> DEFINE k == job[w].target
    <2>1. /\ k \in Rows /\ target' = [target EXCEPT ![k] = None] /\ UNCHANGED <<status, config, item>>
          /\ contested' = Contested(w, target[k].review) /\ Touched(w) = target[k].review
      BY <1>8 DEF RemoveTargetWrite, Touched
    <2> QED
      BY <2>1, OneChanged
  <1> QED
    BY <1>2, <1>3, <1>4, <1>5, <1>6, <1>7, <1>8 DEF Writes

\* A step of one handler leaves the local state of another one alone.
LEMMA OthersKeep ==
  ASSUME OwnInv, NEW w \in Workers, NEW v \in Workers \ {w}, Step(w)
  PROVE  job'[v] = job[v] /\ verdict'[v] = verdict[v]
  <1>1. job \in [Workers -> Job] /\ DOMAIN verdict = Workers
    BY DEF OwnInv, TypeInv, TypeOK
  <1>2. ASSUME NEW x \in Reviews, Starts(w, x)
        PROVE  job'[v] = job[v] /\ verdict'[v] = verdict[v]
    <2>1. ASSUME NEW j, Begin(w, j)
          PROVE  job'[v] = job[v]
      BY <1>1, <2>1 DEF Begin
    <2>2. ASSUME NEW edit, NEW conf, Assess(w, x, edit, conf)
          PROVE  job'[v] = job[v] /\ verdict'[v] = verdict[v]
      BY <1>1, <2>1, <2>2 DEF Assess
    <2> QED
      BY <1>2, <2>1, <2>2 DEF Starts, UpdateStart, ComputeStart, DeleteStart, AddTargetStart,
         EditTargetStart, RemoveTargetStart
  <1>3. CASE WriteAverage(w)
    BY <1>1, <1>3 DEF WriteAverage
  <1>4. CASE Writes(w) /\ ~WriteAverage(w)
    BY <1>1, <1>4 DEF Writes, WriteRating, UpdateWrite, DeleteWrite, AddTargetWrite,
       EditTargetWrite, RemoveTargetWrite, Done, Goto
  <1>5. CASE Throw(w) \/ \E k \in Rows : EditTargetRead(w, k)
    BY <1>1, <1>5 DEF Throw, EditTargetRead, Done
  <1> QED
    BY <1>2, <1>3, <1>4, <1>5 DEF Step, Starts, Writes

\* A handler that starts writes nothing.
LEMMA StartsOnlyRead ==
  ASSUME NEW w \in Workers, NEW r \in Reviews, Starts(w, r)
  PROVE  UNCHANGED <<tables, notes>>
  BY DEF Starts, UpdateStart, ComputeStart, DeleteStart, AddTargetStart, EditTargetStart,
     RemoveTargetStart

\* It leaves the review of another one alone too, or is noted.
LEMMA OthersSpared ==
  ASSUME OwnInv, NEW w \in Workers, NEW v \in Workers \ {w}, NEW r \in Reviews, job[v].review = r, Step(w)
  PROVE  r \in contested' \/ Same(r)
  <1>1. contested' = Contested(w, r) => r \in contested'
    BY DEF Contested, InHandOfOthers
  <1>2. CASE \E x \in Reviews : Starts(w, x)
    BY <1>2, StartsOnlyRead, SameUnchanged DEF tables
  <1>3. CASE Writes(w)
    BY <1>1, <1>3, WritesTouch
  <1>4. CASE Throw(w) \/ \E k \in Rows : EditTargetRead(w, k)
    BY <1>4, SameUnchanged DEF Throw, EditTargetRead, tables
  <1> QED
    BY <1>2, <1>3, <1>4 DEF Step, Starts, Writes

-----------------------------------------------------------------------------
(* A new average that was not misread is that of the scores                *)

\* Unless it was misread, the average computed of a row is that of its scores as numbers.
LEMMA StoredFair ==
  ASSUME NEW row \in TargetRow, ~Averaged(Stored(row)).misread
  PROVE  Averaged(Stored(row)).average = Numbers(row)
  <1> DEFINE q == Score(row.quality, TRUE)
             e == Score(row.efficiency, TRUE)
             t == Score(row.timeliness, TRUE)
  <1>1. row.quality \in ScoreValue /\ row.efficiency \in ScoreValue /\ row.timeliness \in ScoreValue
    BY DEF TargetRow
  <1>2. /\ q \in Scores /\ q.value = row.quality
        /\ e \in Scores /\ e.value = row.efficiency
        /\ t \in Scores /\ t.value = row.timeliness
    BY <1>1, ScoreTyped
  <1>3. Averaged(Stored(row)) = [average |-> computeAverageScore(q, e, t), misread |-> Misread(q, e, t)]
    BY DEF Averaged, Stored
  <1>4. Numbers(row) = computeAverageScore(Number(q), Number(e), Number(t))
    BY <1>2 DEF Numbers, Number
  <1> HIDE DEF q, e, t
  <1> QED
    BY <1>2, <1>3, <1>4, FairUnlessMisread

\* Likewise that of a patched row.
LEMMA EditFair ==
  ASSUME NEW row \in TargetRow, NEW patch \in Patch, ~Averaged(EditScores(row, patch)).misread
  PROVE  Averaged(EditScores(row, patch)).average = Numbers(Merged(row, patch))
  <1> DEFINE merged == Merged(row, patch)
             q == Score(merged.quality, patch.quality = Keep)
             e == Score(merged.efficiency, patch.efficiency = Keep)
             t == Score(merged.timeliness, patch.timeliness = Keep)
  <1>1. merged \in TargetRow
    BY MergedTyped
  <1>2. Averaged(EditScores(row, patch))
          = [average |-> computeAverageScore(q, e, t), misread |-> Misread(q, e, t)]
    BY DEF Averaged, EditScores
  <1> HIDE DEF merged
  <1>3. /\ merged.quality \in ScoreValue /\ merged.efficiency \in ScoreValue
        /\ merged.timeliness \in ScoreValue
    BY <1>1 DEF TargetRow
  <1>4. /\ q \in Scores /\ q.value = merged.quality
        /\ e \in Scores /\ e.value = merged.efficiency
        /\ t \in Scores /\ t.value = merged.timeliness
    BY <1>3 DEF Score, Scores
  <1>5. Numbers(merged) = computeAverageScore(Number(q), Number(e), Number(t))
    BY <1>4 DEF Numbers, Number
  <1> HIDE DEF q, e, t
  <1>6. computeAverageScore(q, e, t) = Numbers(merged)
    BY <1>2, <1>4, <1>5, FairUnlessMisread
  <1> QED
    BY <1>2, <1>6 DEF merged

\* The average stored in a row does not enter the average of its scores.
LEMMA NumbersAlone ==
  ASSUME NEW row \in TargetRow, NEW average
  PROVE  LET new == [row EXCEPT !.average = average] IN
         Numbers(new) = Numbers(row) /\ new.average = average /\ new.review = row.review
  BY DEF Numbers, TargetRow

\* Writing a fair average leaves a fair row as it is.
LEMMA AverageSpares ==
  ASSUME OwnInv, FairRows, NEW w \in Workers, WriteAverage(w), NEW r \in Reviews, job[w].review = r,
         HandOf(w, r), r \notin contested \cup misread'
  PROVE  target' = target
  <1>1. PICK k \in Rows :
          /\ k \in Ids /\ k \in DOMAIN target /\ target[k] \in TargetRow /\ job[w].todo[k] \in Entry
          /\ target[k].review = r
          /\ target' = [target EXCEPT ![k] = [target[k] EXCEPT !.average = job[w].todo[k].average]]
          /\ misread' = IF job[w].todo[k].misread THEN misread \cup {r} ELSE misread
    BY AverageWritten
  <1>2. job[w].todo[k] = Averaged(Stored(target[k])) /\ job[w].pc = "average"
    <2>1. job[w].todo[k] # None
      BY <1>1, PerformanceAssumption
    <2> QED
      BY <1>1, <2>1 DEF HandOf, WriteAverage
  <1>3. ~job[w].todo[k].misread /\ r \notin misread
    BY <1>1
  <1>4. job[w].todo[k].average = Numbers(target[k])
    BY <1>1, <1>2, <1>3, StoredFair
  <1>5. target[k].average = Numbers(target[k])
    BY <1>1, <1>3 DEF FairRows
  <1>6. [target[k] EXCEPT !.average = job[w].todo[k].average] = target[k]
    BY <1>1, <1>4, <1>5 DEF TargetRow
  <1>7. target \in Seq(TargetRow \cup {None}) /\ DOMAIN target = 1 .. Len(target)
    BY LenProperties DEF OwnInv, TypeInv, TypeOK
  <1>8. target = [i \in 1 .. Len(target) |-> target[i]]
    BY <1>7, SeqDef
  <1> QED
    BY <1>1, <1>6, <1>8

-----------------------------------------------------------------------------
(* Every step keeps what the handlers have in hand                         *)

\* What an assessment read holds when it has read it.
LEMMA AssessHand ==
  ASSUME OwnInv, NEW w \in Workers, NEW r \in Reviews, NEW edit, NEW conf,
         Assess(w, r, edit, conf), UNCHANGED <<tables, notes>>, Exists(r),
         conf = IF edit.config = None THEN config[r] ELSE edit.config,
         edit = NoEdit \/ (edit.status = "APPROVED" /\ edit.status \in AllowedTransitions(status[r]))
  PROVE  HandOf(w, r)'
  <1> DEFINE targets == TargetsOf(r)
             todo == [k \in Ids |-> IF k \in DOMAIN targets THEN Averaged(Stored(targets[k])) ELSE None]
             j == [Idle EXCEPT !.pc = IF DOMAIN targets = {} THEN "rating" ELSE "average",
                               !.review = r, !.edit = edit, !.todo = todo]
  <1>1. job'[w] = j /\ verdict'[w] = computeFullReview(TargetsOf(r), item[r], conf)
    BY DEF Assess, Begin, OwnInv, TypeInv, TypeOK
  <1>2. \A k \in Ids : todo[k] # None => RowOf(k, r) /\ todo[k] = Averaged(Stored(target[k]))
    BY DEF TargetsOf, RowOf
  <1> HIDE DEF targets, todo
  <1>3. job'[w].pc \in {"average", "rating"} /\ job'[w].edit = edit /\ job'[w].todo = todo
    BY <1>1 DEF Idle
  <1> HIDE DEF j
  <1>4. UNCHANGED <<status, config, item, target, misread>>
    BY DEF tables, notes
  <1>5. TargetsOf(r)' = TargetsOf(r)
    BY <1>4, SameUnchanged, TargetsSame
  <1>6. Fresh(w, r)'
    BY <1>1, <1>3, <1>4, <1>5 DEF Fresh
  <1>7. edit.status # None => edit.status \in AllowedTransitions(status[r])
    BY DEF NoEdit
  <1>8. \A k : RowOf(k, r)' <=> RowOf(k, r)
    BY <1>4 DEF RowOf, Rows
  <1> QED
    BY <1>2, <1>3, <1>4, <1>6, <1>7, <1>8 DEF HandOf, Exists

\* What a handler checked holds when it starts.
LEMMA StartHand ==
  ASSUME OwnInv, NEW w \in Workers, NEW r \in Reviews, NEW x \in Reviews, Starts(w, x), job'[w].review = r
  PROVE  HandOf(w, r)'
  <1>1. UNCHANGED <<tables, notes>> /\ job \in [Workers -> Job]
    BY StartsOnlyRead DEF OwnInv, TypeInv, TypeOK
  <1>2. ASSUME NEW j, Begin(w, j)
        PROVE  job'[w] = j
    BY <1>1, <1>2 DEF Begin
  <1>3. ASSUME NEW to \in ReviewStatus \cup {None}, NEW conf \in Configs \cup {None},
               UpdateStart(w, x, to, conf)
        PROVE  HandOf(w, r)'
    <2> DEFINE edit == [status |-> IF to = status[x] THEN None ELSE to, config |-> conf]
    <2>1. Exists(x) /\ (edit.status # None => edit.status \in AllowedTransitions(status[x]))
      BY <1>3 DEF UpdateStart
    <2>2. CASE edit.status = "APPROVED"
      <3>1. Assess(w, x, edit, IF conf = None THEN config[x] ELSE conf) /\ edit.config = conf
        BY <1>3, <2>2 DEF UpdateStart
      <3>2. "APPROVED" # None
        BY PerformanceAssumption DEF ReviewStatus
      <3>3. edit.status \in AllowedTransitions(status[x])
        BY <2>1, <2>2, <3>2
      <3> HIDE DEF edit
      <3>4. x = r
        <4> DEFINE t == [k \in Ids |-> IF k \in DOMAIN TargetsOf(x) THEN Averaged(Stored(TargetsOf(x)[k])) ELSE None]
                   pc == IF DOMAIN TargetsOf(x) = {} THEN "rating" ELSE "average"
                   j == [Idle EXCEPT !.pc = pc, !.review = x, !.edit = edit, !.todo = t]
        <4>1. Begin(w, j)
          BY <3>1 DEF Assess
        <4>2. j.review = x
          BY DEF Idle
        <4> HIDE DEF j
        <4> QED
          BY <1>2, <4>1, <4>2
      <3> QED
        BY <1>1, <2>1, <2>2, <3>1, <3>3, <3>4, AssessHand
    <2>3. CASE edit.status # "APPROVED"
      <3> DEFINE j == [Idle EXCEPT !.pc = "update", !.review = x, !.edit = edit]
      <3>1. Begin(w, j)
        BY <1>3, <2>3 DEF UpdateStart
      <3> HIDE DEF edit
      <3>2. j.pc = "update" /\ j.review = x /\ j.edit = edit
        BY DEF Idle
      <3> HIDE DEF j
      <3>3. job'[w].pc = "update" /\ x = r /\ job'[w].edit = edit
        BY <1>2, <3>1, <3>2
      <3> QED
        BY <1>1, <2>1, <2>3, <3>3 DEF HandOf, Exists, tables
    <2> QED
      BY <2>2, <2>3
  <1>4. CASE ComputeStart(w, x)
    <2> DEFINE t == [k \in Ids |-> IF k \in DOMAIN TargetsOf(x) THEN Averaged(Stored(TargetsOf(x)[k])) ELSE None]
               pc == IF DOMAIN TargetsOf(x) = {} THEN "rating" ELSE "average"
               j == [Idle EXCEPT !.pc = pc, !.review = x, !.edit = NoEdit, !.todo = t]
    <2>1. Assess(w, x, NoEdit, config[x]) /\ Exists(x) /\ NoEdit.config = None
      BY <1>4 DEF ComputeStart, NoEdit
    <2>2. Begin(w, j)
      BY <2>1 DEF Assess
    <2>3. j.review = x
      BY DEF Idle
    <2> HIDE DEF j
    <2>4. x = r
      BY <1>2, <2>2, <2>3
    <2> QED
      BY <1>1, <2>1, <2>4, AssessHand
  <1>5. ASSUME NEW j, Begin(w, j), j.pc \in {"delete", "read", "remove"}, j.review = x,
               Exists(x), status[x] # "APPROVED"
        PROVE  HandOf(w, r)'
    <2>1. job'[w].pc \in {"delete", "read", "remove"} /\ x = r
      BY <1>2, <1>5
    <2> QED
      BY <1>1, <1>5, <2>1 DEF HandOf, Exists, tables
  <1>6. CASE DeleteStart(w, x)
    <2> DEFINE j == [Idle EXCEPT !.pc = "delete", !.review = x]
    <2>1. Begin(w, j) /\ Exists(x) /\ status[x] # "APPROVED"
      BY <1>6 DEF DeleteStart
    <2>2. j.review = x /\ j.pc = "delete"
      BY DEF Idle
    <2> HIDE DEF j
    <2> QED
      BY <1>5, <2>1, <2>2
  <1>7. ASSUME NEW form \in TargetForms, AddTargetStart(w, x, form)
        PROVE  HandOf(w, r)'
    <2> DEFINE row == NewRow(x, form)
               j == [Idle EXCEPT !.pc = "add", !.review = x, !.row = row]
    <2>1. Begin(w, j) /\ Exists(x) /\ status[x] # "APPROVED"
      BY <1>7 DEF AddTargetStart, NewRow
    <2>2. row.average = Numbers(row)
      BY DEF NewRow, Numbers
    <2> HIDE DEF row
    <2>3. j.review = x /\ j.pc = "add" /\ j.row = row
      BY DEF Idle
    <2> HIDE DEF j
    <2>4. job'[w].pc = "add" /\ x = r /\ job'[w].row = row
      BY <1>2, <2>1, <2>3
    <2>5. Numbers(job'[w].row) = job'[w].row.average
      BY <2>2, <2>4
    <2> QED
      BY <1>1, <2>1, <2>4, <2>5 DEF HandOf, Exists, tables, Numbers
  <1>8. ASSUME NEW patch \in Patches, EditTargetStart(w, x, patch)
        PROVE  HandOf(w, r)'
    <2> DEFINE j == [Idle EXCEPT !.pc = "read", !.review = x, !.row = patch]
    <2>1. Begin(w, j) /\ Exists(x) /\ status[x] # "APPROVED"
      BY <1>8 DEF EditTargetStart, Locked
    <2>2. j.review = x /\ j.pc = "read"
      BY DEF Idle
    <2> HIDE DEF j
    <2> QED
      BY <1>5, <2>1, <2>2
  <1>9. ASSUME NEW k \in Rows, RemoveTargetStart(w, x, k)
        PROVE  HandOf(w, r)'
    <2> DEFINE j == [Idle EXCEPT !.pc = "remove", !.review = x, !.target = k]
    <2>1. Begin(w, j) /\ Exists(x) /\ status[x] # "APPROVED"
      BY <1>9 DEF RemoveTargetStart, Locked
    <2>2. j.review = x /\ j.pc = "remove"
      BY DEF Idle
    <2> HIDE DEF j
    <2> QED
      BY <1>5, <2>1, <2>2
  <1> QED
    BY <1>3, <1>4, <1>6, <1>7, <1>8, <1>9 DEF Starts

\* After an average is written its handler still knows what it knew: the rating it computed is
\* the one the rows give.
LEMMA WriteAverageHand ==
  ASSUME Inv, NotesGrow, NEW w \in Workers, WriteAverage(w), NEW r \in Reviews, job'[w].review = r, r \notin contested'
  PROVE  HandOf(w, r)'
  <1>1. PICK k \in Rows :
          /\ k \in Ids
          /\ target' = [target EXCEPT ![k] = [target[k] EXCEPT !.average = job[w].todo[k].average]]
          /\ \E pc \in {"rating", "average"} : job' = [job EXCEPT ![w].todo[k] = None, ![w].pc = pc]
    BY AverageWritten DEF Inv
  <1>2. PICK pc \in {"rating", "average"} : job' = [job EXCEPT ![w].todo[k] = None, ![w].pc = pc]
    BY <1>1
  <1>3. OwnInv /\ FairRows /\ job \in [Workers -> Job] /\ job[w].todo \in [Ids -> Entry \cup {None}]
    BY DEF Inv, OwnInv, TypeInv, TypeOK, Job
  <1>4. job'[w] = [job[w] EXCEPT !.todo = [job[w].todo EXCEPT ![k] = None], !.pc = pc]
    BY <1>2, <1>3
  <1>5. /\ job'[w].pc = pc /\ job'[w].review = job[w].review /\ job'[w].edit = job[w].edit
        /\ job'[w].todo = [job[w].todo EXCEPT ![k] = None]
    BY <1>3, <1>4 DEF Job
  <1>6. /\ \A i \in Ids : job'[w].todo[i] # None => i # k /\ job[w].todo[i] # None /\ job'[w].todo[i] = job[w].todo[i]
    BY <1>1, <1>3, <1>5
  <1>7. HandOf(w, r) /\ job[w].pc = "average" /\ r \notin contested
    BY <1>5 DEF Inv, HandFits, NotesGrow, WriteAverage
  <1>8. UNCHANGED <<status, config, item, verdict>>
    BY DEF WriteAverage
  <1>9. \A i : i # k /\ RowOf(i, r) => RowOf(i, r)' /\ target'[i] = target[i]
    BY <1>1 DEF RowOf, Rows
  <1>10. r \notin misread' => Fresh(w, r)'
    <2> SUFFICES ASSUME r \notin misread' PROVE Fresh(w, r)'
      OBVIOUS
    <2>1. target' = target
      BY <1>3, <1>5, <1>7, AverageSpares
    <2>2. TargetsOf(r)' = TargetsOf(r)
      BY <1>8, <2>1, SameUnchanged, TargetsSame
    <2>3. Fresh(w, r)
      BY <1>7 DEF HandOf, NotesGrow
    <2> QED
      BY <1>5, <1>8, <2>2, <2>3 DEF Fresh
  <1>11. \A i \in Ids : job'[w].todo[i] # None => RowOf(i, r)' /\ job'[w].todo[i] = Averaged(Stored(target'[i]))
    BY <1>6, <1>7, <1>9 DEF HandOf
  <1> QED
    BY <1>5, <1>7, <1>8, <1>10, <1>11 DEF HandOf, Exists

\* A handler's own steps keep what it knows of an uncontested review.
LEMMA OwnStepHand ==
  ASSUME Inv, NotesGrow, NEW w \in Workers, Step(w), NEW r \in Reviews, job'[w].review = r, r \notin contested'
  PROVE  HandOf(w, r)'
  <1>1. OwnInv /\ job \in [Workers -> Job] /\ job[w] \in Job /\ None \notin Reviews /\ misread \subseteq misread'
    BY NoneOutside DEF Inv, OwnInv, TypeInv, TypeOK, NotesGrow
  <1>2. ASSUME Done(w)
        PROVE  FALSE
    BY <1>1, <1>2 DEF Done, Idle
  <1>3. CASE WriteRating(w)
    <2>1. job' = [job EXCEPT ![w].pc = "update"] /\ job[w].edit # NoEdit /\ UNCHANGED verdict
      BY <1>2, <1>3 DEF WriteRating, Goto
    <2>2. job'[w].pc = "update" /\ job'[w].review = job[w].review /\ job'[w].edit = job[w].edit
      BY <1>1, <2>1 DEF Job
    <2>3. HandOf(w, r) /\ job[w].pc = "rating"
      BY <1>3, <2>2 DEF Inv, HandFits, NotesGrow, WriteRating
    <2>4. UNCHANGED <<status, config, item, target>>
      BY <1>3 DEF WriteRating
    <2>5. TargetsOf(r)' = TargetsOf(r)
      BY <2>4, SameUnchanged, TargetsSame
    <2>6. Fresh(w, r) => Fresh(w, r)'
      BY <2>1, <2>2, <2>4, <2>5 DEF Fresh
    <2> QED
      BY <1>1, <2>2, <2>3, <2>4, <2>6 DEF HandOf, Exists
  <1>4. ASSUME NEW k \in Rows, EditTargetRead(w, k)
        PROVE  HandOf(w, r)'
    <2> DEFINE new == Averaged(EditScores(target[k], job[w].row))
    <2>1. /\ job[w].pc = "read" /\ RowOf(k, job[w].review)
          /\ UNCHANGED <<status, config, item, target>>
      BY <1>4 DEF EditTargetRead, TargetsOf, RowOf, tables
    <2>2. job' = [job EXCEPT ![w].pc = "edit", ![w].target = k, ![w].todo[k] = new]
      BY <1>4 DEF EditTargetRead, EditScores
    <2>3. k \in Ids /\ job[w].todo \in [Ids -> Entry \cup {None}]
      BY <1>1, RowAt DEF OwnInv, Job
    <2> HIDE DEF new
    <2>4. job'[w] = [job[w] EXCEPT !.pc = "edit", !.target = k, !.todo = [job[w].todo EXCEPT ![k] = new]]
      BY <1>1, <2>2
    <2>5. /\ job'[w].pc = "edit" /\ job'[w].review = job[w].review /\ job'[w].target = k
          /\ job'[w].row = job[w].row /\ job'[w].todo[k] = new
      BY <1>1, <2>3, <2>4 DEF Job
    <2>6. HandOf(w, r)
      BY <2>5 DEF Inv, HandFits, NotesGrow
    <2>7. RowOf(k, r)' /\ job'[w].todo[k] = Averaged(EditScores(target'[k], job'[w].row))
      BY <2>1, <2>5 DEF RowOf, Rows, new
    <2> QED
      BY <2>1, <2>5, <2>6, <2>7 DEF HandOf, Exists
  <1>5. CASE WriteAverage(w)
    BY <1>5, WriteAverageHand
  <1>6. ASSUME NEW x \in Reviews, Starts(w, x)
        PROVE  HandOf(w, r)'
    BY <1>1, <1>6, StartHand
  <1> QED
    BY <1>2, <1>3, <1>4, <1>5, <1>6
    DEF Step, Starts, UpdateWrite, DeleteWrite, AddTargetWrite, EditTargetWrite, RemoveTargetWrite, Throw

\* Every step keeps what handlers know.
LEMMA HandStep ==
  ASSUME Inv, [Next]_vars
  PROVE  \A v \in Workers : HandFits(v)'
  <1> SUFFICES ASSUME NEW v \in Workers, NEW r \in Reviews, r \notin contested', job'[v].review = r
               PROVE  HandOf(v, r)'
    BY DEF HandFits
  <1>1. OwnInv /\ NotesGrow /\ r \notin contested
    BY NotesOnlyGrow DEF Inv, NotesGrow
  <1>2. ASSUME Same(r), job'[v] = job[v], verdict'[v] = verdict[v]
        PROVE  HandOf(v, r)'
    BY <1>1, <1>2, HandKept DEF Inv, HandFits
  <1>3. ASSUME NEW w \in Workers \ {v}, Step(w)
        PROVE  HandOf(v, r)'
    <2>1. job'[v] = job[v] /\ verdict'[v] = verdict[v]
      BY <1>1, <1>3, OthersKeep
    <2>2. Same(r)
      BY <1>1, <1>3, <2>1, OthersSpared
    <2> QED
      BY <1>2, <2>1, <2>2
  <1>4. CASE Step(v)
    BY <1>1, <1>4, OwnStepHand
  <1>5. ASSUME NEW x \in Reviews, NEW first, NEW conf, Create(x, first, conf)
        PROVE  HandOf(v, r)'
    <2>1. UNCHANGED <<job, verdict, item, target>> /\ status[x] = "none"
      BY <1>5 DEF Create
    <2>2. x # r
      BY <1>1, <2>1 DEF Inv, HandFits, HandOf, Exists, ReviewStatus
    <2>3. status'[r] = status[r] /\ config'[r] = config[r]
      BY <1>1, <1>5, <2>2 DEF Create, OwnInv, TypeInv, TypeOK
    <2>4. Same(r)
      BY <2>1, <2>3 DEF Same, RowOf, Rows
    <2> QED
      BY <1>2, <2>1, <2>4
  <1>6. ASSUME NEW x \in Reviews, NEW c, NEW row, AddItem(x, c, row)
        PROVE  HandOf(v, r)'
    <2>1. UNCHANGED <<job, verdict, status, config, target>>
      BY <1>6 DEF AddItem
    <2>2. x # r
      BY <1>6, <2>1 DEF AddItem
    <2>3. item'[r] = item[r]
      BY <1>1, <1>6, <2>2 DEF AddItem, OwnInv, TypeInv, TypeOK
    <2>4. Same(r)
      BY <2>1, <2>3 DEF Same, RowOf, Rows
    <2> QED
      BY <1>2, <2>1, <2>4
  <1>7. CASE UNCHANGED vars
    BY <1>2, <1>7, SameUnchanged DEF vars, tables
  <1> QED
    BY <1>3, <1>4, <1>5, <1>6, <1>7 DEF Next

-----------------------------------------------------------------------------
(* Every step keeps averages and ratings                                   *)

\* The rows are old ones.
OldRows == \A k \in Rows' : k \in Rows /\ target'[k] = target[k]

\* Rows that stay or go leave the averages those of the scores.
LEMMA FairKept ==
  ASSUME FairRows, NotesGrow, OldRows
  PROVE  FairRows'
  BY DEF FairRows, NotesGrow, OldRows, Numbers

\* So does a row whose new average is that of its scores.
LEMMA FairChanged ==
  ASSUME FairRows, NotesGrow, NEW k \in DOMAIN target', NEW row, target'[k] = row,
         \A i \in DOMAIN target' : i # k => i \in DOMAIN target /\ target'[i] = target[i],
         row.review \notin contested' \cup misread' => row.average = Numbers(row)
  PROVE  FairRows'
  <1> SUFFICES ASSUME NEW i \in DOMAIN target', target'[i] # None,
                      target'[i].review \notin contested' \cup misread'
               PROVE  target'[i].average = Numbers(target'[i])
    BY DEF FairRows, Rows, Numbers
  <1>1. CASE i = k
    BY <1>1
  <1>2. CASE i # k
    <2>1. i \in Rows /\ target'[i] = target[i] /\ target[i].review \notin contested \cup misread
      BY <1>2 DEF Rows, NotesGrow
    <2> QED
      BY <2>1 DEF FairRows
  <1> QED
    BY <1>1, <1>2

\* Every step keeps averages those of the scores.
LEMMA FairStep ==
  ASSUME Inv, [Next]_vars
  PROVE  FairRows'
  <1>1. OwnInv /\ FairRows /\ NotesGrow /\ job \in [Workers -> Job]
    BY NotesOnlyGrow DEF Inv, OwnInv, TypeInv, TypeOK
  <1>2. ASSUME UNCHANGED target
        PROVE  FairRows'
    BY <1>1, <1>2, FairKept DEF OldRows, Rows
  <1>3. ASSUME NEW w \in Workers, WriteAverage(w)
        PROVE  FairRows'
    <2>1. PICK k \in Rows :
            /\ k \in Ids /\ k \in DOMAIN target /\ target[k] \in TargetRow /\ job[w].todo[k] \in Entry
            /\ target[k].review = job[w].review
            /\ target' = [target EXCEPT ![k] = [target[k] EXCEPT !.average = job[w].todo[k].average]]
            /\ misread' = IF job[w].todo[k].misread THEN misread \cup {job[w].review} ELSE misread
      BY <1>1, <1>3, AverageWritten
    <2> DEFINE row == [target[k] EXCEPT !.average = job[w].todo[k].average]
    <2>2. Numbers(row) = Numbers(target[k]) /\ row.average = job[w].todo[k].average /\ row.review = job[w].review
      BY <2>1, NumbersAlone
    <2>3. target' = [target EXCEPT ![k] = row]
      BY <2>1
    <2> HIDE DEF row
    <2>4. ASSUME row.review \notin contested' \cup misread'
          PROVE  row.average = Numbers(row)
      <3>0. target[k].review \in Reviews
        BY <2>1 DEF TargetRow
      <3>1. job[w].review \in Reviews \ contested
        BY <1>1, <2>1, <2>2, <2>4, <3>0 DEF NotesGrow
      <3>2. HandOf(w, job[w].review) /\ job[w].pc = "average" /\ job[w].todo[k] # None
        BY <1>3, <2>1, <3>1, PerformanceAssumption DEF Inv, HandFits, WriteAverage
      <3>3. job[w].todo[k] = Averaged(Stored(target[k]))
        BY <2>1, <3>2 DEF HandOf
      <3>4. ~job[w].todo[k].misread
        BY <2>1, <2>2, <2>4
      <3> QED
        BY <2>1, <2>2, <3>3, <3>4, StoredFair
    <2>5. /\ k \in DOMAIN target' /\ target'[k] = row
          /\ \A i \in DOMAIN target' : i # k => i \in DOMAIN target /\ target'[i] = target[i]
      BY <2>1, <2>3
    <2> QED
      BY <1>1, <2>4, <2>5, FairChanged
  <1>4. ASSUME NEW w \in Workers, EditTargetWrite(w)
        PROVE  FairRows'
    <2> DEFINE k == job[w].target
               merged == Merged(target[k], job[w].row)
               row == [merged EXCEPT !.average = job[w].todo[k].average]
    <2>1. /\ k \in Rows /\ k \in Ids /\ target[k] \in TargetRow /\ job[w].row \in Patch
          /\ merged \in TargetRow /\ merged.review = target[k].review
          /\ job[w].todo[k] \in Entry /\ target[k].review = job[w].review
          /\ target' = [target EXCEPT ![k] = row]
          /\ misread' = IF job[w].todo[k].misread THEN misread \cup {job[w].review} ELSE misread
      BY <1>1, <1>4, EditWritten
    <2>2. Numbers(row) = Numbers(merged) /\ row.average = job[w].todo[k].average /\ row.review = job[w].review
      BY <2>1, NumbersAlone
    <2>3. k \in DOMAIN target
      BY <2>1 DEF Rows
    <2> HIDE DEF row
    <2>4. ASSUME row.review \notin contested' \cup misread'
          PROVE  row.average = Numbers(row)
      <3>0. target[k].review \in Reviews
        BY <2>1 DEF TargetRow
      <3>1. job[w].review \in Reviews \ contested
        BY <1>1, <2>1, <2>2, <2>4, <3>0 DEF NotesGrow
      <3>2. HandOf(w, job[w].review) /\ job[w].pc = "edit"
        BY <1>4, <3>1 DEF Inv, HandFits, EditTargetWrite
      <3>3. job[w].todo[k] = Averaged(EditScores(target[k], job[w].row))
        BY <3>2 DEF HandOf
      <3>4. ~job[w].todo[k].misread
        BY <2>1, <2>2, <2>4
      <3>5. job[w].todo[k].average = Numbers(merged)
        BY <2>1, <3>3, <3>4, EditFair
      <3> QED
        BY <2>2, <3>5
    <2> HIDE DEF k, merged
    <2>5. /\ k \in DOMAIN target' /\ target'[k] = row
          /\ \A i \in DOMAIN target' : i # k => i \in DOMAIN target /\ target'[i] = target[i]
      BY <2>1, <2>3
    <2> QED
      BY <1>1, <2>4, <2>5, FairChanged
  <1>5. ASSUME NEW w \in Workers, AddTargetWrite(w)
        PROVE  FairRows'
    <2> DEFINE n == Len(target) + 1
    <2>1. /\ job[w].row \in TargetRow /\ job[w].row.review = job[w].review
          /\ n \notin DOMAIN target /\ DOMAIN target' = DOMAIN target \cup {n}
          /\ target'[n] = job[w].row
          /\ \A k \in DOMAIN target : target'[k] = target[k]
      BY <1>1, <1>5, AddWritten
    <2>2. ASSUME job[w].row.review \notin contested' \cup misread'
          PROVE  job[w].row.average = Numbers(job[w].row)
      <3>1. job[w].review \in Reviews \ contested
        BY <1>1, <2>1, <2>2 DEF NotesGrow, TargetRow
      <3> QED
        BY <1>5, <3>1 DEF Inv, HandFits, HandOf, AddTargetWrite
    <2> HIDE DEF n
    <2>3. n \in DOMAIN target' /\ \A i \in DOMAIN target' : i # n => i \in DOMAIN target /\ target'[i] = target[i]
      BY <2>1
    <2> QED
      BY <1>1, <2>1, <2>2, <2>3, FairChanged
  <1>6. ASSUME NEW w \in Workers, DeleteWrite(w) \/ RemoveTargetWrite(w)
        PROVE  FairRows'
    <2>1. OldRows
      BY <1>6 DEF DeleteWrite, RemoveTargetWrite, OldRows, Rows
    <2> QED
      BY <1>1, <2>1, FairKept
  <1>7. ASSUME NEW w \in Workers, Step(w)
        PROVE  FairRows'
    <2>1. CASE \E x \in Reviews : Starts(w, x)
      BY <1>2, <2>1, StartsOnlyRead DEF tables
    <2> QED
      BY <1>2, <1>3, <1>4, <1>5, <1>6, <1>7, <2>1
      DEF Step, Starts, WriteRating, UpdateWrite, EditTargetRead, Throw, tables
  <1>8. ASSUME NEW r \in Reviews, NEW first, NEW conf, Create(r, first, conf)
        PROVE  FairRows'
    BY <1>2, <1>8 DEF Create
  <1>9. ASSUME NEW r \in Reviews, NEW c, NEW row, AddItem(r, c, row)
        PROVE  FairRows'
    BY <1>2, <1>9 DEF AddItem
  <1>10. CASE UNCHANGED vars
    BY <1>2, <1>10 DEF vars, tables
  <1> QED
    BY <1>7, <1>8, <1>9, <1>10 DEF Next

Rated(r) == rated[r] = computeFullReview(TargetsOf(r), item[r], config[r])

\* Every step keeps the rating of an approved review that of its rows.
LEMMA RatedStep ==
  ASSUME Inv, [Next]_vars
  PROVE  RatingOfItsRows'
  <1> SUFFICES ASSUME NEW r \in Reviews, status'[r] = "APPROVED",
                      r \notin contested' \cup amended' \cup misread'
               PROVE  Rated(r)'
    BY DEF RatingOfItsRows, Rated
  <1>1. /\ OwnInv /\ FairRows /\ NotesGrow /\ job \in [Workers -> Job] /\ DOMAIN rated = Reviews
        /\ status \in [Reviews -> ReviewStatus \cup {"none", "gone"}]
        /\ config \in [Reviews -> Config]
        /\ r \notin contested \cup amended \cup misread
    BY NotesOnlyGrow DEF Inv, OwnInv, TypeInv, TypeOK, NotesGrow
  <1>2. ASSUME Same(r), rated'[r] = rated[r]
        PROVE  Rated(r)'
    <2>1. TargetsOf(r)' = TargetsOf(r) /\ status[r] = "APPROVED" /\ config'[r] = config[r] /\ item'[r] = item[r]
      BY <1>2, TargetsSame DEF Same
    <2>2. Rated(r)
      BY <1>1, <2>1 DEF Inv, RatingOfItsRows, Rated
    <2> QED
      BY <1>2, <2>1, <2>2 DEF Rated
  <1>3. ASSUME NEW w \in Workers, job[w].review = r
        PROVE  HandOf(w, r)
    BY <1>1, <1>3 DEF Inv, HandFits
  <1>4. ASSUME NEW w \in Workers, Writes(w)
        PROVE  Rated(r)'
    <2>1. CASE r # Touched(w)
      <3>1. Same(r)
        BY <1>1, <1>4, <2>1, WritesTouch
      <3>2. rated'[r] = rated[r]
        BY <1>1, <1>4, <2>1 DEF Writes, Touched, WriteAverage, WriteRating, UpdateWrite, DeleteWrite,
           AddTargetWrite, EditTargetWrite, RemoveTargetWrite
      <3> QED
        BY <1>2, <3>1, <3>2
    <2>2. ASSUME r = Touched(w), WriteAverage(w)
          PROVE  Rated(r)'
      <3>1. job[w].review = r /\ UNCHANGED <<status, config, item, rated>>
        BY <2>2 DEF WriteAverage, Touched
      <3>2. target' = target
        BY <1>1, <1>3, <2>2, <3>1, AverageSpares
      <3> QED
        BY <1>2, <3>1, <3>2, SameUnchanged
    <2>3. ASSUME r = Touched(w), WriteRating(w)
          PROVE  Rated(r)'
      <3>1. /\ job[w].review = r /\ job[w].pc = "rating" /\ rated'[r] = verdict[w]
            /\ UNCHANGED <<status, config, item, target>>
        BY <1>1, <2>3 DEF WriteRating, Touched
      <3>2. HandOf(w, r) /\ status[r] = "APPROVED"
        BY <1>3, <3>1
      <3>3. AllowedTransitions(status[r]) = {}
        BY <3>2 DEF AllowedTransitions
      <3>4. "APPROVED" # None
        BY PerformanceAssumption DEF ReviewStatus
      <3>5. job[w].edit = NoEdit /\ Fresh(w, r)
        BY <1>1, <3>1, <3>2, <3>3, <3>4 DEF HandOf
      <3>6. verdict[w] = computeFullReview(TargetsOf(r), item[r], config[r])
        BY <3>5 DEF Fresh, NoEdit
      <3>7. TargetsOf(r)' = TargetsOf(r)
        BY <3>1, SameUnchanged, TargetsSame
      <3> QED
        BY <3>1, <3>6, <3>7 DEF Rated
    <2>4. ASSUME r = Touched(w), UpdateWrite(w)
          PROVE  Rated(r)'
      <3>1. /\ job[w].review = r /\ job[w].pc = "update" /\ UNCHANGED <<target, item>>
            /\ job[w].edit.status # None => status'[r] = job[w].edit.status
            /\ job[w].edit.status = None => status'[r] = status[r]
            /\ config'[r] = IF job[w].edit.config = None THEN config[r] ELSE job[w].edit.config
            /\ job[w].edit.status = "APPROVED" => rated'[r] = verdict[w]
            /\ job[w].edit.status = None /\ status[r] = "APPROVED" => r \in amended'
        BY <1>1, <2>4 DEF UpdateWrite, Touched
      <3>2. job[w].edit.status = "APPROVED"
        BY <3>1
      <3>3. Fresh(w, r)
        BY <1>1, <1>3, <3>1, <3>2 DEF HandOf
      <3>4. TargetsOf(r)' = TargetsOf(r)
        BY <3>1 DEF TargetsOf, Rows
      <3> QED
        BY <3>1, <3>2, <3>3, <3>4 DEF Fresh, Rated
    <2>5. ASSUME r = Touched(w), DeleteWrite(w)
          PROVE  Rated(r)'
      BY <1>1, <2>5 DEF DeleteWrite, Touched
    <2>6. ASSUME r = Touched(w), AddTargetWrite(w) \/ EditTargetWrite(w)
          PROVE  Rated(r)'
      <3>1. job[w].review = r /\ job[w].pc \in {"add", "edit"} /\ status[r] = "APPROVED"
        BY <2>6 DEF AddTargetWrite, EditTargetWrite, Touched
      <3> QED
        BY <1>3, <3>1 DEF HandOf
    <2>7. ASSUME r = Touched(w), RemoveTargetWrite(w)
          PROVE  Rated(r)'
      <3>1. job[w].pc = "remove" /\ status[r] = "APPROVED" /\ (r # job[w].review => r \in amended')
        BY <2>7 DEF RemoveTargetWrite, Touched
      <3> QED
        BY <1>3, <3>1 DEF HandOf
    <2> QED
      BY <1>4, <2>1, <2>2, <2>3, <2>4, <2>5, <2>6, <2>7 DEF Writes
  <1>5. ASSUME NEW w \in Workers, Step(w), ~Writes(w)
        PROVE  Rated(r)'
    <2>1. CASE \E x \in Reviews : Starts(w, x)
      BY <1>2, <2>1, StartsOnlyRead, SameUnchanged DEF tables
    <2>2. CASE Throw(w) \/ \E k \in Rows : EditTargetRead(w, k)
      BY <1>2, <2>2, SameUnchanged DEF Throw, EditTargetRead, tables
    <2> QED
      BY <1>5, <2>1, <2>2 DEF Step, Starts, Writes
  <1>6. ASSUME NEW x \in Reviews, NEW first, NEW conf, Create(x, first, conf)
        PROVE  Rated(r)'
    <2>1. x # r
      BY <1>1, <1>6 DEF Create
    <2>2. Same(r) /\ rated'[r] = rated[r]
      BY <1>1, <1>6, <2>1 DEF Create, Same, RowOf, Rows
    <2> QED
      BY <1>2, <2>2
  <1>7. ASSUME NEW x \in Reviews, NEW c, NEW row, AddItem(x, c, row)
        PROVE  Rated(r)'
    <2>1. x # r
      BY <1>7 DEF AddItem
    <2>2. Same(r) /\ rated'[r] = rated[r]
      BY <1>1, <1>7, <2>1 DEF AddItem, Same, RowOf, Rows, OwnInv, TypeInv, TypeOK
    <2> QED
      BY <1>2, <2>2
  <1>8. CASE UNCHANGED vars
    BY <1>2, <1>8, SameUnchanged DEF vars, tables
  <1> QED
    BY <1>4, <1>5, <1>6, <1>7, <1>8 DEF Next

-----------------------------------------------------------------------------

\* The invariant of the reviews holds at the start.
LEMMA InvInit == Init => Inv
  <1> SUFFICES ASSUME Init PROVE Inv
    OBVIOUS
  <1>1. TypeInv
    BY TypeInit
  <1>2. Rows = {} /\ \A w \in Workers : job[w] = Idle
    BY DEF Init, Rows
  <1>3. \A w \in Workers : Owns(w) /\ HandFits(w)
    BY <1>2, NoneOutside DEF Owns, HandFits, Idle, Nothing
  <1> QED
    BY <1>1, <1>2, <1>3 DEF Init, Inv, OwnInv, FairRows, RatingOfItsRows

\* Every step keeps it.
LEMMA InvStep ==
  ASSUME Inv, [Next]_vars
  PROVE  Inv'
  <1>1. OwnInv'
    BY OwnStep DEF Inv
  <1> QED
    BY <1>1, HandStep, FairStep, RatedStep DEF Inv

\* It holds always.
LEMMA Invariant == Spec => []Inv
  BY InvInit, InvStep, PTL DEF Spec

\* However handlers meet, an approved review's rating is that of its rows unless the step that
\* changed one or the other is noted: what an approval read still holds at its last write.
THEOREM RatingCorrect == Spec => []RatingOfItsRows
  <1>1. Inv => RatingOfItsRows
    BY DEF Inv
  <1> QED
    BY <1>1, Invariant, PTL

\* A stored average is the mean of the scores beside it, unless it is noted that it may not be.
THEOREM AverageCorrect == Spec => []AverageIsMean
  <1>1. Inv => AverageIsMean
    <2> SUFFICES ASSUME Inv, NEW k \in Rows, target[k].review \notin contested \cup misread
                 PROVE  LET row == target[k]
                            n == Given(row.quality) + Given(row.efficiency) + Given(row.timeliness)
                            sum == Value(row.quality) + Value(row.efficiency) + Value(row.timeliness)
                        IN IF n = 0 THEN row.average = None
                           ELSE row.average # None /\ 2 * (n * row.average - 100 * sum) \in -n .. n
      BY DEF AverageIsMean
    <2>1. target[k] \in TargetRow
      BY RowAt DEF Inv, OwnInv
    <2>2. /\ target[k].quality \in ScoreValue /\ target[k].efficiency \in ScoreValue
          /\ target[k].timeliness \in ScoreValue
      BY <2>1 DEF TargetRow
    <2>3. target[k].average = computeAverageScore(Score(target[k].quality, FALSE),
            Score(target[k].efficiency, FALSE), Score(target[k].timeliness, FALSE))
      BY DEF Inv, FairRows, Numbers
    <2> DEFINE a == target[k].quality
               b == target[k].efficiency
               c == target[k].timeliness
               n == Given(a) + Given(b) + Given(c)
               sum == Value(a) + Value(b) + Value(c)
    <2>4. IsMean(target[k].average, a, b, c)
      BY <2>2, <2>3, AverageOfNumbers
    <2> HIDE DEF a, b, c
    <2>5. /\ n = 0 => target[k].average = None
          /\ n # 0 => target[k].average \in 0 .. 999 /\ 2 * (n * target[k].average - 100 * sum) \in -n .. n
      BY <2>4 DEF IsMean
    <2> HIDE DEF n, sum
    <2>6. IF n = 0 THEN target[k].average = None
          ELSE target[k].average # None /\ 2 * (n * target[k].average - 100 * sum) \in -n .. n
      BY <2>5, NoneApart
    <2> QED
      BY <2>6 DEF n, sum, a, b, c
  <1> QED
    BY <1>1, Invariant, PTL

\* An approved review keeps its status and is not deleted, unless handlers met in it.
THEOREM ApprovedCorrect == Spec => ApprovedIsFinal
  <1>1. Inv /\ [Next]_vars =>
          [\A r \in Reviews \ contested' : status[r] = "APPROVED" => status'[r] = "APPROVED"]_vars
    <2> SUFFICES ASSUME Inv, Next, NEW r \in Reviews, r \notin contested', status[r] = "APPROVED"
                 PROVE  status'[r] = "APPROVED"
      BY DEF vars, tables
    <2>1. /\ r \notin contested /\ status \in [Reviews -> ReviewStatus \cup {"none", "gone"}]
          /\ \A w \in Workers : job[w].review = r => HandOf(w, r)
      BY NotesOnlyGrow DEF NotesGrow, Inv, HandFits, OwnInv, TypeInv, TypeOK
    <2>2. ASSUME NEW w \in Workers, UpdateWrite(w)
          PROVE  status'[r] = "APPROVED"
      <3>1. AllowedTransitions(status[r]) = {}
        BY DEF AllowedTransitions
      <3>2. job[w].review = r => job[w].edit.status = None
        BY <2>1, <2>2, <3>1 DEF HandOf, UpdateWrite
      <3> QED
        BY <2>1, <2>2, <3>2 DEF UpdateWrite
    <2>3. ASSUME NEW w \in Workers, DeleteWrite(w)
          PROVE  status'[r] = "APPROVED"
      <3>1. job[w].review # r
        BY <2>1, <2>3 DEF HandOf, DeleteWrite
      <3> QED
        BY <2>1, <2>3, <3>1 DEF DeleteWrite
    <2>4. ASSUME NEW x \in Reviews, NEW first, NEW conf, Create(x, first, conf)
          PROVE  status'[r] = "APPROVED"
      BY <2>1, <2>4 DEF Create
    <2>5. ASSUME NEW w \in Workers, Step(w)
          PROVE  status'[r] = "APPROVED"
      <3>1. CASE \E x \in Reviews : Starts(w, x)
        BY <3>1, StartsOnlyRead DEF tables
      <3> QED
        BY <2>2, <2>3, <2>5, <3>1
        DEF Step, Starts, WriteAverage, WriteRating, AddTargetWrite, EditTargetWrite, RemoveTargetWrite,
            EditTargetRead, Throw, tables
    <2> QED
      BY <2>4, <2>5 DEF Next, AddItem
  <1> QED
    BY <1>1, Invariant, PTL DEF Spec, ApprovedIsFinal

-----------------------------------------------------------------------------
(* The engine's averages stay on the scale                                 *)

\* A number of hundredths on the scale of the scores, or none.
OnScale(v) == v = None \/ v \in 100 .. 500

\* Rounding a quotient leaves it between the whole numbers it was between.
LEMMA RoundedBetween ==
  ASSUME NEW a \in Int, NEW b \in Nat \ {0}, NEW lo \in Int, NEW hi \in Int,
         lo * b <= a, a <= hi * b
  PROVE  Rounded(a, b) \in lo .. hi
  <1> DEFINE m == 2 * a + b
             d == 2 * b
             q == m \div d
  <1>1. m \in Int /\ d \in Nat /\ d > 0
    OBVIOUS
  <1>2. m >= d * lo /\ m < d * hi + d
    <2>1. d * lo = 2 * (lo * b) /\ d * hi = 2 * (hi * b) /\ lo * b \in Int /\ hi * b \in Int
      OBVIOUS
    <2> QED
      BY <2>1
  <1> HIDE DEF m, d
  <1>3. q \in Int /\ d * q <= m /\ m < d * q + d
    BY <1>1
  <1> HIDE DEF q
  <1>4. lo <= q
    <2> SUFFICES ASSUME q + 1 <= lo PROVE FALSE
      BY <1>3
    <2>1. d * (q + 1) <= d * lo
      BY <1>1, <1>3
    <2>2. d * (q + 1) = d * q + d
      BY <1>1, <1>3
    <2>3. d * q \in Int /\ d * lo \in Int
      BY <1>1, <1>3
    <2> QED
      BY <1>1, <1>2, <1>3, <2>1, <2>2, <2>3
  <1>5. q <= hi
    <2> SUFFICES ASSUME hi + 1 <= q PROVE FALSE
      BY <1>3
    <2>1. d * (hi + 1) <= d * q
      BY <1>1, <1>3
    <2>2. d * (hi + 1) = d * hi + d
      BY <1>1
    <2>3. d * q \in Int /\ d * hi \in Int
      BY <1>1, <1>3
    <2> QED
      BY <1>1, <1>2, <1>3, <2>1, <2>2, <2>3
  <1>6. Rounded(a, b) = q
    BY DEF Rounded, q, m, d
  <1> QED
    BY <1>3, <1>4, <1>5, <1>6

\* A quotient on the scale is rounded to a number on it.
LEMMA RoundedOnScale ==
  ASSUME NEW a \in Int, NEW b \in Int, b > 0, 100 * b <= a, a <= 500 * b
  PROVE  Rounded(a, b) \in 100 .. 500
  <1>1. b \in Nat \ {0} /\ 100 \in Int /\ 500 \in Int
    OBVIOUS
  <1> QED
    BY <1>1, RoundedBetween

\* The products of values and weights.
Weighted(value, weight) == [k \in DOMAIN value |-> value[k] * weight[k]]

\* A weighted average's dividend is the sum of the products.
LEMMA WeightedStated ==
  ASSUME NEW value, NEW weight, IsFiniteSet(DOMAIN value)
  PROVE  MapThenSumSet(LAMBDA k : value[k] * weight[k], DOMAIN value)
           = Sum(Weighted(value, weight), DOMAIN value)
  <1> DEFINE S == DOMAIN value
  <1> DEFINE f == Weighted(value, weight)
  <1> DEFINE IsFold(g) ==
        g = [s \in SUBSET S |-> IF s = {} THEN 0
               ELSE value[Taken(s)] * weight[Taken(s)] + g[s \ {Taken(s)}]]
  <1>1. MapThenSumSet(LAMBDA k : value[k] * weight[k], S) = (CHOOSE g : IsFold(g))[S]
    BY DEF MapThenSumSet, MapThenFoldSet, Taken
  <1>2. \A s \in SUBSET S : s # {} => f[Taken(s)] = value[Taken(s)] * weight[Taken(s)]
    BY DEF Taken, Weighted
  <1> HIDE DEF S, f
  <1>3. ASSUME NEW g PROVE Solves(f, S, g) <=> IsFold(g)
    <2>1. [s \in SUBSET S |-> IF s = {} THEN 0
               ELSE value[Taken(s)] * weight[Taken(s)] + g[s \ {Taken(s)}]]
          = [s \in SUBSET S |-> IF s = {} THEN 0 ELSE f[Taken(s)] + g[s \ {Taken(s)}]]
      BY <1>2
    <2> QED
      BY <2>1 DEF Solves
  <1> HIDE DEF IsFold
  <1>4. IsFiniteSet(S)
    BY DEF S
  <1>5. PICK g : IsFold(g) /\ (CHOOSE h : IsFold(h)) = g
    BY <1>3, <1>4, SolutionExists
  <1>6. Sum(f, S) = g[S]
    BY <1>3, <1>4, <1>5, SumOfSolution
  <1> QED
    BY <1>1, <1>5, <1>6 DEF S, f

\* The weighted average of values on the scale is on it.
LEMMA WeightedAverageOnScale ==
  ASSUME NEW value, NEW weight, IsFiniteSet(DOMAIN value), DOMAIN value # {},
         \A k \in DOMAIN value : value[k] \in 100 .. 500 /\ weight[k] \in Nat \ {0}
  PROVE  WeightedAverage(value, weight) \in 100 .. 500
  <1> DEFINE S == DOMAIN value
  <1> DEFINE f == Weighted(value, weight)
  <1>1. ASSUME NEW k \in S
        PROVE  /\ weight[k] \in Nat \ {0} /\ f[k] \in Int
               /\ 100 * weight[k] <= f[k] /\ f[k] <= 500 * weight[k]
    <2>1. value[k] \in 100 .. 500 /\ weight[k] \in Nat \ {0} /\ f[k] = value[k] * weight[k]
      BY DEF Weighted
    <2> DEFINE v == value[k]
    <2> DEFINE u == weight[k]
    <2>2. v \in Int /\ 100 <= v /\ v <= 500 /\ u \in Nat /\ u # 0
      BY <2>1
    <2> HIDE DEF v, u
    <2>3. v * u \in Int /\ 100 * u <= v * u /\ v * u <= 500 * u
      BY <2>2
    <2> QED
      BY <2>1, <2>3 DEF v, u
  <1>2. /\ Sum(weight, S) \in Nat /\ Sum(f, S) \in Int /\ Sum(weight, S) > 0
        /\ 100 * Sum(weight, S) <= Sum(f, S) /\ Sum(f, S) <= 500 * Sum(weight, S)
    <2> HIDE DEF S, f
    <2>1. IsFiniteSet(S) /\ S # {}
      BY DEF S
    <2>2. WeighedBetween(f, weight, 100, 500, S)
      BY <1>1 DEF WeighedBetween
    <2> QED
      BY <2>1, <2>2, SumBetween
  <1>3. WeightedAverage(value, weight) = Rounded(Sum(f, S), Sum(weight, S))
    <2>1. MapThenSumSet(LAMBDA k : value[k] * weight[k], S) = Sum(f, S)
      BY WeightedStated
    <2>2. Sum(weight, S) = MapThenSumSet(LAMBDA k : weight[k], S)
      BY DEF Sum
    <2> HIDE DEF f
    <2> QED
      BY <2>1, <2>2 DEF WeightedAverage
  <1> HIDE DEF S, f
  <1>4. /\ Sum(f, S) \in Int /\ Sum(weight, S) \in Int /\ Sum(weight, S) > 0
        /\ 100 * Sum(weight, S) <= Sum(f, S) /\ Sum(f, S) <= 500 * Sum(weight, S)
    BY <1>2
  <1>5. Rounded(Sum(f, S), Sum(weight, S)) \in 100 .. 500
    BY <1>4, RoundedOnScale, Zenon
  <1> QED
    BY <1>3, <1>5

\* The average of a group's targets.
LEMMA GroupAverageOnScale ==
  ASSUME NEW targets, NEW g, IsFiniteSet(DOMAIN targets),
         \A k \in DOMAIN targets : targets[k].weight \in Nat /\ OnScale(targets[k].average)
  PROVE  OnScale(GroupAverage(targets, g))
  <1> DEFINE S == {k \in DOMAIN targets : /\ targets[k].group = g /\ targets[k].weight > 0
                                          /\ targets[k].average # None}
             value == [k \in S |-> targets[k].average]
             weight == [k \in S |-> targets[k].weight]
  <1>1. GroupAverage(targets, g) = IF S = {} THEN None ELSE WeightedAverage(value, weight)
    BY DEF GroupAverage
  <1>2. IsFiniteSet(S) /\ DOMAIN value = S
    BY FS_Subset
  <1>3. \A k \in S : value[k] \in 100 .. 500 /\ weight[k] \in Nat \ {0}
    BY DEF OnScale
  <1> HIDE DEF S, value, weight
  <1>4. S # {} => WeightedAverage(value, weight) \in 100 .. 500
    BY <1>2, <1>3, WeightedAverageOnScale
  <1> QED
    BY <1>1, <1>4 DEF OnScale

\* The average of the groups that have targets, by whichever percentages.
LEMMA PartIOnScale ==
  ASSUME NEW targets, NEW percent, IsFiniteSet(DOMAIN targets),
         \A k \in DOMAIN targets : targets[k].weight \in Nat /\ OnScale(targets[k].average),
         \A g \in Groups : percent[g] \in Nat
  PROVE  OnScale(computePartI(targets, percent))
  <1> DEFINE S == {g \in Groups : GroupAverage(targets, g) # None /\ percent[g] > 0}
             value == [g \in S |-> GroupAverage(targets, g)]
  <1>1. computePartI(targets, percent) = IF S = {} THEN None ELSE WeightedAverage(value, percent)
    BY DEF computePartI
  <1>2. IsFiniteSet(S) /\ DOMAIN value = S
    <2>1. IsFiniteSet(Groups)
      <3>1. Groups = (({} \cup {"CORE"}) \cup {"STRATEGIC"}) \cup {"SUPPORT"}
        BY DEF Groups
      <3> QED
        BY <3>1, FS_EmptySet, FS_AddElement
    <2> QED
      BY <2>1, FS_Subset
  <1>3. \A g \in S : value[g] \in 100 .. 500 /\ percent[g] \in Nat \ {0}
    <2>1. \A g \in S : OnScale(GroupAverage(targets, g))
      BY GroupAverageOnScale
    <2> QED
      BY <2>1 DEF OnScale
  <1> HIDE DEF S, value
  <1>4. S # {} => WeightedAverage(value, percent) \in 100 .. 500
    BY <1>2, <1>3, WeightedAverageOnScale
  <1> QED
    BY <1>1, <1>4 DEF OnScale

\* The average of the competencies that have a score and a weight.
LEMMA PartIIOnScale ==
  ASSUME NEW items \in [Competencies -> ItemRow \cup {None}],
         IsFiniteSet({c \in Competencies : items[c] # None})
  PROVE  OnScale(computePartII(items))
  <1> DEFINE S == {c \in DOMAIN items : items[c] # None /\ items[c].score # None /\ items[c].weight > 0}
             value == [c \in S |-> 100 * items[c].score]
             weight == [c \in S |-> items[c].weight]
  <1>1. computePartII(items) = IF S = {} THEN None ELSE WeightedAverage(value, weight)
    BY DEF computePartII
  <1>2. IsFiniteSet(S) /\ DOMAIN value = S
    BY FS_Subset
  <1>3. \A c \in S : value[c] \in 100 .. 500 /\ weight[c] \in Nat \ {0}
    BY DEF ItemRow, ScoreValue, Percent
  <1> HIDE DEF S, value, weight
  <1>4. S # {} => WeightedAverage(value, weight) \in 100 .. 500
    BY <1>2, <1>3, WeightedAverageOnScale
  <1> QED
    BY <1>1, <1>4 DEF OnScale

\* Two parts on the scale make a rating on it, capped or not.
LEMMA FinalOnScale ==
  ASSUME NEW partI, OnScale(partI), NEW partII, OnScale(partII), NEW competencyWeight \in Percent,
         NEW cap \in (100 .. 500) \cup {None}
  PROVE  OnScale(computeFinalRating(partI, partII, competencyWeight, cap).rating)
  <1> DEFINE both == Rounded(partI * (100 - competencyWeight) + partII * competencyWeight, 100)
             final == IF partI # None /\ partII # None THEN both
                      ELSE IF partI # None THEN partI ELSE partII
             capped == IF cap # None /\ final > cap THEN cap ELSE final
  <1>1. partI # None /\ partII # None => both \in 100 .. 500
    <2> SUFFICES ASSUME partI # None, partII # None PROVE both \in 100 .. 500
      OBVIOUS
    <2> DEFINE p == partI * (100 - competencyWeight)
    <2> DEFINE s == partII * competencyWeight
    <2> DEFINE c == competencyWeight
    <2>1. /\ partI \in Int /\ 100 <= partI /\ partI <= 500
          /\ partII \in Int /\ 100 <= partII /\ partII <= 500
          /\ c \in Int /\ 0 <= c /\ c <= 100 /\ 100 - c \in Int /\ 0 <= 100 - c
      BY DEF OnScale, Percent
    <2>2. p \in Int /\ 100 * (100 - c) <= p /\ p <= 500 * (100 - c)
      BY <2>1
    <2>3. s \in Int /\ 100 * c <= s /\ s <= 500 * c
      BY <2>1
    <2> HIDE DEF p, s, c
    <2>4. /\ p + s \in Int /\ 100 \in Int /\ 100 > 0
          /\ 100 * 100 <= p + s /\ p + s <= 500 * 100
      BY <2>1, <2>2, <2>3
    <2>5. Rounded(p + s, 100) \in 100 .. 500
      BY <2>4, RoundedOnScale, Zenon
    <2> QED
      BY <2>5 DEF p, s, c
  <1>2. OnScale(final)
    <2> HIDE DEF both
    <2> QED
      BY <1>1 DEF OnScale
  <1>3. computeFinalRating(partI, partII, competencyWeight, cap).rating
          = IF final = None THEN None ELSE capped
    BY DEF computeFinalRating
  <1> HIDE DEF final
  <1>4. final # None => capped \in 100 .. 500
    BY <1>2 DEF OnScale
  <1> HIDE DEF capped
  <1> QED
    BY <1>3, <1>4 DEF OnScale

\* From averages on the scale comes a rating on it.
LEMMA FullReviewOnScale ==
  ASSUME NEW targets, IsFiniteSet(DOMAIN targets),
         \A k \in DOMAIN targets : targets[k].weight \in Nat /\ OnScale(targets[k].average),
         NEW items \in [Competencies -> ItemRow \cup {None}],
         IsFiniteSet({c \in Competencies : items[c] # None}),
         NEW conf \in Config
  PROVE  OnScale(computeFullReview(targets, items, conf).rating)
  <1> DEFINE percent == [CORE |-> OrElse(conf.core, 50), STRATEGIC |-> OrElse(conf.strategic, 30),
                         SUPPORT |-> OrElse(conf.support, 20)]
             partI == computePartI(targets, percent)
             partII == computePartII(items)
  <1>1. /\ conf.core \in Percent /\ conf.strategic \in Percent /\ conf.support \in Percent
        /\ conf.competency \in Percent /\ conf.cap \in (100 .. 500) \cup {None}
    BY DEF Config
  <1>2. \A g \in Groups : percent[g] \in Nat
    BY <1>1 DEF Groups, OrElse, Percent
  <1>3. OrElse(conf.competency, 30) \in Percent
    BY <1>1 DEF OrElse, Percent
  <1>4. computeFullReview(targets, items, conf)
          = computeFinalRating(partI, partII, OrElse(conf.competency, 30), conf.cap)
    BY DEF computeFullReview
  <1> HIDE DEF percent
  <1>5. OnScale(partI)
    BY <1>2, PartIOnScale
  <1>6. OnScale(partII)
    BY PartIIOnScale
  <1> HIDE DEF partI, partII
  <1> QED
    BY <1>1, <1>3, <1>4, <1>5, <1>6, FinalOnScale

-----------------------------------------------------------------------------
(* Every step keeps averages and ratings on the scale                      *)

\* What a handler computed is on the scale, unless it noted, or will, that a sum was misread.
HandOnScale(w) ==
  LET j == job[w] IN
  /\ j.pc = "idle" => verdict[w] = None
  /\ verdict[w] # None => j.review \in misread \/ OnScale(verdict[w].rating)
  /\ j.pc = "add" => OnScale(j.row.average)
  /\ \A k \in Ids : j.todo[k] # None => j.todo[k].misread \/ OnScale(j.todo[k].average)

RowsOnScale == \A k \in Rows : target[k].review \in misread \/ OnScale(target[k].average)

ItemsOf(r) == {c \in Competencies : item[r][c] # None}

\* What is stored and what is in hand is on the scale; the items of a review are finitely many,
\* whatever the catalog, because each was added by a step.
ScaleInv ==
  /\ OwnInv
  /\ RowsOnScale
  /\ RatedOnScale
  /\ \A w \in Workers : HandOnScale(w)
  /\ \A r \in Reviews : IsFiniteSet(ItemsOf(r))

\* The mean of scores is on their scale.
LEMMA MeanOnScale ==
  ASSUME NEW a \in ScoreValue, NEW b \in ScoreValue, NEW c \in ScoreValue, NEW average,
         IsMean(average, a, b, c)
  PROVE  OnScale(average)
  <1> DEFINE n == Given(a) + Given(b) + Given(c)
             total == Value(a) + Value(b) + Value(c)
  <1>1. /\ Value(a) \in 0 .. 5 /\ Value(b) \in 0 .. 5 /\ Value(c) \in 0 .. 5
        /\ Given(a) \in 0 .. 1 /\ Given(b) \in 0 .. 1 /\ Given(c) \in 0 .. 1
        /\ Value(a) <= 5 * Given(a) /\ Value(b) <= 5 * Given(b) /\ Value(c) <= 5 * Given(c)
        /\ Given(a) <= Value(a) /\ Given(b) <= Value(b) /\ Given(c) <= Value(c)
    BY NoneApart DEF Value, Given, ScoreValue
  <1>2. n \in 0 .. 3 /\ total \in Nat /\ n <= total /\ total <= 5 * n
    BY <1>1
  <1>3. /\ n = 0 => average = None
        /\ n # 0 => average \in 0 .. 999 /\ 2 * (n * average - 100 * total) \in -n .. n
    BY DEF IsMean
  <1> HIDE DEF n, total
  <1>4. CASE n = 0
    BY <1>3, <1>4 DEF OnScale
  <1>5. CASE n = 1
    BY <1>2, <1>3, <1>5 DEF OnScale
  <1>6. CASE n = 2
    BY <1>2, <1>3, <1>6 DEF OnScale
  <1>7. CASE n = 3
    BY <1>2, <1>3, <1>7 DEF OnScale
  <1> QED
    BY <1>2, <1>4, <1>5, <1>6, <1>7

\* The average of a row's scores as numbers is on the scale.
LEMMA NumbersOnScale ==
  ASSUME NEW row \in TargetRow
  PROVE  OnScale(Numbers(row))
  <1>1. row.quality \in ScoreValue /\ row.efficiency \in ScoreValue /\ row.timeliness \in ScoreValue
    BY DEF TargetRow
  <1>2. IsMean(Numbers(row), row.quality, row.efficiency, row.timeliness)
    BY <1>1, AverageOfNumbers DEF Numbers
  <1> QED
    BY <1>1, <1>2, MeanOnScale

EntryOnScale(e) == e.misread \/ OnScale(e.average)

\* What is computed of a row is on the scale, or misread.
LEMMA StoredOnScale ==
  ASSUME NEW row \in TargetRow
  PROVE  EntryOnScale(Averaged(Stored(row)))
  <1>1. CASE Averaged(Stored(row)).misread
    BY <1>1 DEF EntryOnScale
  <1>2. CASE ~Averaged(Stored(row)).misread
    <2>1. Averaged(Stored(row)).average = Numbers(row)
      BY <1>2, StoredFair
    <2> QED
      BY <2>1, NumbersOnScale DEF EntryOnScale
  <1> QED
    BY <1>1, <1>2

\* Likewise what is computed of a patched row.
LEMMA EditOnScale ==
  ASSUME NEW row \in TargetRow, NEW patch \in Patch
  PROVE  EntryOnScale(Averaged(EditScores(row, patch)))
  <1>1. CASE Averaged(EditScores(row, patch)).misread
    BY <1>1 DEF EntryOnScale
  <1>2. CASE ~Averaged(EditScores(row, patch)).misread
    <2>1. Averaged(EditScores(row, patch)).average = Numbers(Merged(row, patch))
      BY <1>2, EditFair
    <2> QED
      BY <2>1, MergedTyped, NumbersOnScale DEF EntryOnScale
  <1> QED
    BY <1>1, <1>2

\* Of a review none of whose sums was misread, the rating is on the scale.
LEMMA ReviewOnScale ==
  ASSUME ScaleInv, NEW r \in Reviews, r \notin misread, NEW conf \in Config
  PROVE  OnScale(computeFullReview(TargetsOf(r), item[r], conf).rating)
  <1> DEFINE targets == TargetsOf(r)
  <1>1. IsFiniteSet(Ids)
    BY FS_Interval, PerformanceAssumption DEF Ids
  <1>2. TypeInv /\ RowsOnScale
    BY DEF ScaleInv, OwnInv
  <1>3. ASSUME NEW k \in DOMAIN targets
        PROVE  k \in Ids /\ targets[k].weight \in Nat /\ OnScale(targets[k].average)
    <2>1. k \in Rows /\ target[k].review = r /\ targets[k] = target[k]
      BY DEF TargetsOf
    <2>2. target[k] \in TargetRow /\ k \in Ids
      BY <1>2, <2>1, RowAt
    <2> QED
      BY <1>2, <2>1, <2>2 DEF RowsOnScale, TargetRow, Percent
  <1> HIDE DEF targets
  <1>4. IsFiniteSet(DOMAIN targets)
    BY <1>1, <1>3, FS_Subset
  <1>5. item[r] \in [Competencies -> ItemRow \cup {None}]
    BY <1>2 DEF TypeInv, TypeOK
  <1>6. IsFiniteSet({c \in Competencies : item[r][c] # None})
    BY DEF ScaleInv, ItemsOf
  <1>7. OnScale(computeFullReview(targets, item[r], conf).rating)
    BY <1>3, <1>4, <1>5, <1>6, FullReviewOnScale
  <1> QED
    BY <1>7 DEF targets

\* Who does nothing has nothing off the scale.
LEMMA ScaleIdle ==
  ASSUME NEW w, job'[w] = Idle, verdict'[w] = None
  PROVE  HandOnScale(w)'
  BY DEF HandOnScale, Idle, Nothing

\* Nor has who stays where it is.
LEMMA ScaleStays ==
  ASSUME NotesGrow, NEW v, HandOnScale(v), job'[v] = job[v], verdict'[v] = verdict[v]
  PROVE  HandOnScale(v)'
  <1>1. misread \subseteq misread'
    BY DEF NotesGrow
  <1> QED
    BY <1>1 DEF HandOnScale

\* Nor has who begins with no average, or with that of a new target.
LEMMA ScaleBegun ==
  ASSUME ScaleInv, NEW w \in Workers, NEW j, Begin(w, j), j.todo = Nothing, j.pc # "idle",
         j.pc = "add" => OnScale(j.row.average), UNCHANGED verdict
  PROVE  HandOnScale(w)'
  <1>1. job'[w] = j /\ job[w] = Idle
    BY DEF Begin, ScaleInv, OwnInv, TypeInv, TypeOK
  <1>2. verdict'[w] = None
    BY <1>1 DEF ScaleInv, HandOnScale, Idle
  <1> QED
    BY <1>1, <1>2 DEF HandOnScale, Nothing

\* Nor has an assessment, unless an average it read had been misread.
LEMMA ScaleAssessing ==
  ASSUME ScaleInv, NEW w \in Workers, NEW r \in Reviews, NEW edit, NEW conf \in Config,
         Assess(w, r, edit, conf), UNCHANGED <<tables, notes>>
  PROVE  HandOnScale(w)'
  <1> DEFINE targets == TargetsOf(r)
             todo == [k \in Ids |-> IF k \in DOMAIN targets THEN Averaged(Stored(targets[k])) ELSE None]
             j == [Idle EXCEPT !.pc = IF DOMAIN targets = {} THEN "rating" ELSE "average",
                               !.review = r, !.edit = edit, !.todo = todo]
             new == computeFullReview(targets, item[r], conf)
  <1>1. /\ TypeInv /\ job \in [Workers -> Job] /\ DOMAIN verdict = Workers
    BY DEF ScaleInv, OwnInv, TypeInv, TypeOK
  <1>2. job'[w] = j /\ verdict'[w] = new /\ misread' = misread
    BY <1>1 DEF Assess, Begin, notes
  <1>3. \A k \in DOMAIN targets : targets[k] \in TargetRow
    BY <1>1, RowAt DEF TargetsOf
  <1>4. \A k \in Ids : todo[k] # None => EntryOnScale(todo[k])
    BY <1>3, StoredOnScale
  <1>5. r \in misread \/ OnScale(new.rating)
    BY ReviewOnScale
  <1> HIDE DEF targets, todo, new
  <1>6. /\ job'[w].todo = todo /\ job'[w].review = r
        /\ job'[w].pc \in {"rating", "average"}
    BY <1>2 DEF Idle
  <1> HIDE DEF j
  <1>7. \A k \in Ids : job'[w].todo[k] # None => job'[w].todo[k].misread \/ OnScale(job'[w].todo[k].average)
    BY <1>4, <1>6 DEF EntryOnScale
  <1>8. verdict'[w] # None => job'[w].review \in misread' \/ OnScale(verdict'[w].rating)
    BY <1>2, <1>5, <1>6
  <1> QED
    BY <1>6, <1>7, <1>8 DEF HandOnScale

\* A handler starts with averages on the scale.
LEMMA ScaleStart ==
  ASSUME ScaleInv, NEW w \in Workers, NEW r \in Reviews, Starts(w, r)
  PROVE  HandOnScale(w)'
  <1>1. UNCHANGED <<tables, notes>>
    BY StartsOnlyRead
  <1>2. config[r] \in Config /\ Configs \subseteq Config
    BY PerformanceAssumption DEF ScaleInv, OwnInv, TypeInv, TypeOK
  <1>3. ASSUME NEW to \in ReviewStatus \cup {None}, NEW conf \in Configs \cup {None},
               UpdateStart(w, r, to, conf)
        PROVE  HandOnScale(w)'
    <2> DEFINE edit == [status |-> IF to = status[r] THEN None ELSE to, config |-> conf]
               j == [Idle EXCEPT !.pc = "update", !.review = r, !.edit = edit]
               given == IF conf = None THEN config[r] ELSE conf
    <2>1. CASE edit.status = "APPROVED"
      <3>1. Assess(w, r, edit, given)
        BY <1>3, <2>1 DEF UpdateStart
      <3>2. given \in Config
        BY <1>2
      <3> HIDE DEF edit, given
      <3> QED
        BY <1>1, <3>1, <3>2, ScaleAssessing
    <2>2. CASE edit.status # "APPROVED"
      <3>1. Begin(w, j) /\ UNCHANGED verdict
        BY <1>3, <2>2 DEF UpdateStart
      <3>2. j.todo = Nothing /\ j.pc = "update"
        BY DEF Idle
      <3> HIDE DEF j
      <3> QED
        BY <3>1, <3>2, ScaleBegun
    <2> QED
      BY <2>1, <2>2
  <1>4. CASE ComputeStart(w, r)
    BY <1>1, <1>2, <1>4, ScaleAssessing DEF ComputeStart
  <1>5. CASE DeleteStart(w, r)
    <2> DEFINE j == [Idle EXCEPT !.pc = "delete", !.review = r]
    <2>1. Begin(w, j) /\ UNCHANGED verdict
      BY <1>5 DEF DeleteStart
    <2>2. j.todo = Nothing /\ j.pc = "delete"
      BY DEF Idle
    <2> HIDE DEF j
    <2> QED
      BY <2>1, <2>2, ScaleBegun
  <1>6. ASSUME NEW form \in TargetForms, AddTargetStart(w, r, form)
        PROVE  HandOnScale(w)'
    <2> DEFINE row == NewRow(r, form)
               j == [Idle EXCEPT !.pc = "add", !.review = r, !.row = row]
    <2>1. Begin(w, j) /\ UNCHANGED verdict
      BY <1>6 DEF AddTargetStart, NewRow
    <2>2. OnScale(row.average)
      <3>1. row \in TargetRow
        BY NewRowTyped
      <3>2. row.average = Numbers(row)
        BY DEF Numbers, NewRow
      <3> QED
        BY <3>1, <3>2, NumbersOnScale
    <2> HIDE DEF row
    <2>3. j.todo = Nothing /\ j.pc = "add" /\ j.row = row
      BY DEF Idle
    <2> HIDE DEF j
    <2> QED
      BY <2>1, <2>2, <2>3, ScaleBegun
  <1>7. ASSUME NEW patch \in Patches, EditTargetStart(w, r, patch)
        PROVE  HandOnScale(w)'
    <2> DEFINE j == [Idle EXCEPT !.pc = "read", !.review = r, !.row = patch]
    <2>1. Begin(w, j) /\ UNCHANGED verdict
      BY <1>7 DEF EditTargetStart
    <2>2. j.todo = Nothing /\ j.pc = "read"
      BY DEF Idle
    <2> HIDE DEF j
    <2> QED
      BY <2>1, <2>2, ScaleBegun
  <1>8. ASSUME NEW k \in Rows, RemoveTargetStart(w, r, k)
        PROVE  HandOnScale(w)'
    <2> DEFINE j == [Idle EXCEPT !.pc = "remove", !.review = r, !.target = k]
    <2>1. Begin(w, j) /\ UNCHANGED verdict
      BY <1>8 DEF RemoveTargetStart
    <2>2. j.todo = Nothing /\ j.pc = "remove"
      BY DEF Idle
    <2> HIDE DEF j
    <2> QED
      BY <2>1, <2>2, ScaleBegun
  <1> QED
    BY <1>3, <1>4, <1>5, <1>6, <1>7, <1>8 DEF Starts

\* The average an edit computes is on the scale, or misread.
LEMMA ScaleReading ==
  ASSUME ScaleInv, NEW w \in Workers, NEW k \in Rows, EditTargetRead(w, k)
  PROVE  HandOnScale(w)'
  <1> DEFINE new == Averaged(EditScores(target[k], job[w].row))
  <1>1. /\ job[w] \in Job /\ job \in [Workers -> Job] /\ job[w].row \in Patch
        /\ TypeInv /\ HandOnScale(w)
    BY DEF ScaleInv, OwnInv, TypeInv, TypeOK, EditTargetRead, StageFits
  <1>2. EntryOnScale(new)
    BY <1>1, RowAt, EditOnScale
  <1>3. /\ job' = [job EXCEPT ![w].pc = "edit", ![w].target = k, ![w].todo[k] = new]
        /\ verdict' = verdict /\ misread' = misread
    BY DEF EditTargetRead, EditScores, history, notes
  <1> HIDE DEF new
  <1>4. job[w].todo \in [Ids -> Entry \cup {None}]
    BY <1>1 DEF Job
  <1>5. /\ job'[w].pc = "edit" /\ job'[w].review = job[w].review
        /\ job'[w].todo = [job[w].todo EXCEPT ![k] = new]
    BY <1>1, <1>3 DEF Job
  <1>6. ASSUME NEW i \in Ids, job'[w].todo[i] # None
        PROVE  EntryOnScale(job'[w].todo[i])
    <2>1. CASE i = k
      BY <1>2, <1>4, <1>5, <2>1
    <2>2. CASE i # k
      <3>1. job'[w].todo[i] = job[w].todo[i]
        BY <1>4, <1>5, <2>2
      <3> QED
        BY <1>1, <1>6, <3>1 DEF HandOnScale, EntryOnScale
    <2> QED
      BY <2>1, <2>2
  <1>7. verdict'[w] # None => job'[w].review \in misread' \/ OnScale(verdict'[w].rating)
    BY <1>1, <1>3, <1>5 DEF HandOnScale
  <1> QED
    BY <1>5, <1>6, <1>7 DEF HandOnScale, EntryOnScale

\* The averages that are left to write were there before.
LEMMA ScaleAveraging ==
  ASSUME ScaleInv, NotesGrow, NEW w \in Workers, WriteAverage(w)
  PROVE  HandOnScale(w)'
  <1>1. /\ OwnInv /\ HandOnScale(w) /\ job[w] \in Job /\ job \in [Workers -> Job]
        /\ verdict' = verdict /\ misread \subseteq misread'
    BY DEF ScaleInv, OwnInv, TypeInv, TypeOK, WriteAverage, NotesGrow
  <1>2. PICK k \in Ids, pc \in {"rating", "average"} : job' = [job EXCEPT ![w].todo[k] = None, ![w].pc = pc]
    BY <1>1, AverageWritten
  <1>3. job[w].todo \in [Ids -> Entry \cup {None}]
    BY <1>1 DEF Job
  <1>4. /\ job'[w].pc \in {"rating", "average"} /\ job'[w].review = job[w].review
        /\ job'[w].todo = [job[w].todo EXCEPT ![k] = None]
    BY <1>1, <1>2 DEF Job
  <1>5. ASSUME NEW i \in Ids, job'[w].todo[i] # None
        PROVE  job'[w].todo[i] = job[w].todo[i]
    BY <1>3, <1>4, <1>5
  <1>6. ASSUME NEW i \in Ids, job'[w].todo[i] # None
        PROVE  EntryOnScale(job'[w].todo[i])
    BY <1>1, <1>5, <1>6 DEF HandOnScale, EntryOnScale
  <1>7. verdict'[w] # None => job'[w].review \in misread' \/ OnScale(verdict'[w].rating)
    BY <1>1, <1>4 DEF HandOnScale
  <1> QED
    BY <1>4, <1>6, <1>7 DEF HandOnScale, EntryOnScale

\* Every step leaves what handlers computed on the scale.
LEMMA ScaleHands ==
  ASSUME ScaleInv, [Next]_vars
  PROVE  \A v \in Workers : HandOnScale(v)'
  <1>1. /\ NotesGrow /\ job \in [Workers -> Job] /\ DOMAIN verdict = Workers
        /\ \A v \in Workers : HandOnScale(v)
    BY NotesOnlyGrow DEF ScaleInv, OwnInv, TypeInv, TypeOK
  <1>2. ASSUME UNCHANGED <<job, verdict>>
        PROVE  \A v \in Workers : HandOnScale(v)'
    BY <1>1, <1>2, ScaleStays
  <1>3. ASSUME NEW w \in Workers, Done(w)
        PROVE  \A v \in Workers : HandOnScale(v)'
    <2>1. job'[w] = Idle /\ verdict'[w] = None
      BY <1>1, <1>3 DEF Done
    <2>2. \A v \in Workers \ {w} : job'[v] = job[v] /\ verdict'[v] = verdict[v]
      BY <1>1, <1>3 DEF Done
    <2> QED
      BY <1>1, <2>1, <2>2, ScaleIdle, ScaleStays
  <1>4. ASSUME NEW w \in Workers, HandOnScale(w)',
               \A v \in Workers \ {w} : job'[v] = job[v] /\ verdict'[v] = verdict[v]
        PROVE  \A v \in Workers : HandOnScale(v)'
    BY <1>1, <1>4, ScaleStays
  <1>5. ASSUME NEW w \in Workers, NEW r \in Reviews, Starts(w, r)
        PROVE  \A v \in Workers : HandOnScale(v)'
    <2>1. \A v \in Workers \ {w} : job'[v] = job[v] /\ verdict'[v] = verdict[v]
      BY <1>1, <1>5 DEF Starts, UpdateStart, ComputeStart, DeleteStart, AddTargetStart, EditTargetStart,
         RemoveTargetStart, Assess, Begin
    <2> QED
      BY <1>4, <1>5, <2>1, ScaleStart
  <1>6. ASSUME NEW w \in Workers, WriteAverage(w)
        PROVE  \A v \in Workers : HandOnScale(v)'
    <2>1. \A v \in Workers \ {w} : job'[v] = job[v] /\ verdict'[v] = verdict[v]
      BY <1>1, <1>6 DEF WriteAverage
    <2> QED
      BY <1>1, <1>4, <1>6, <2>1, ScaleAveraging
  <1>7. ASSUME NEW w \in Workers, WriteRating(w)
        PROVE  \A v \in Workers : HandOnScale(v)'
    <2>1. CASE job[w].edit = NoEdit
      BY <1>3, <1>7, <2>1 DEF WriteRating
    <2>2. CASE job[w].edit # NoEdit
      <3>1. job' = [job EXCEPT ![w].pc = "update"] /\ verdict' = verdict /\ job[w].pc = "rating"
        BY <1>7, <2>2 DEF WriteRating, Goto
      <3>2. /\ job'[w].pc = "update" /\ job'[w].review = job[w].review /\ job'[w].todo = job[w].todo
            /\ \A v \in Workers \ {w} : job'[v] = job[v]
        BY <1>1, <3>1 DEF Job
      <3>3. misread \subseteq misread' /\ HandOnScale(w)
        BY <1>1 DEF NotesGrow
      <3>4. HandOnScale(w)'
        BY <3>1, <3>2, <3>3 DEF HandOnScale
      <3> QED
        BY <1>4, <3>1, <3>2, <3>4
    <2> QED
      BY <2>1, <2>2
  <1>8. ASSUME NEW w \in Workers, NEW k \in Rows, EditTargetRead(w, k)
        PROVE  \A v \in Workers : HandOnScale(v)'
    <2>1. \A v \in Workers \ {w} : job'[v] = job[v] /\ verdict'[v] = verdict[v]
      BY <1>1, <1>8 DEF EditTargetRead
    <2> QED
      BY <1>4, <1>8, <2>1, ScaleReading
  <1>9. ASSUME NEW w \in Workers, Step(w)
        PROVE  \A v \in Workers : HandOnScale(v)'
    <2>1. CASE \E r \in Reviews : Starts(w, r)
      BY <1>5, <2>1
    <2> QED
      BY <1>3, <1>6, <1>7, <1>8, <1>9, <2>1
      DEF Step, Starts, UpdateWrite, DeleteWrite, AddTargetWrite, EditTargetWrite, RemoveTargetWrite, Throw
  <1> QED
    BY <1>2, <1>9 DEF Next, Create, AddItem, vars

\* Rows that stay or go leave the stored averages on the scale.
LEMMA ScaleRowsKept ==
  ASSUME RowsOnScale, NotesGrow, OldRows
  PROVE  RowsOnScale'
  <1>1. misread \subseteq misread'
    BY DEF NotesGrow
  <1> QED
    BY <1>1 DEF RowsOnScale, OldRows

\* So does a row whose new average is on it, or noted as misread.
LEMMA ScaleRowChanged ==
  ASSUME RowsOnScale, NotesGrow, NEW k \in DOMAIN target', NEW row, target'[k] = row,
         \A i \in DOMAIN target' : i # k => i \in DOMAIN target /\ target'[i] = target[i],
         row.review \in misread' \/ OnScale(row.average)
  PROVE  RowsOnScale'
  <1> SUFFICES ASSUME NEW i \in DOMAIN target', target'[i] # None
               PROVE  target'[i].review \in misread' \/ OnScale(target'[i].average)
    BY DEF RowsOnScale, Rows
  <1>1. CASE i = k
    BY <1>1
  <1>2. CASE i # k
    <2>1. i \in Rows /\ target'[i] = target[i] /\ misread \subseteq misread'
      BY <1>2 DEF Rows, NotesGrow
    <2> QED
      BY <2>1 DEF RowsOnScale
  <1> QED
    BY <1>1, <1>2

\* The average an entry brings is on the scale, or its review is noted.
LEMMA EntryWritten ==
  ASSUME NEW w \in Workers, HandOnScale(w), NEW k \in Ids, job[w].todo[k] \in Entry,
         misread' = IF job[w].todo[k].misread THEN misread \cup {job[w].review} ELSE misread
  PROVE  job[w].review \in misread' \/ OnScale(job[w].todo[k].average)
  <1>1. job[w].todo[k] # None
    BY PerformanceAssumption
  <1>2. CASE job[w].todo[k].misread
    BY <1>2
  <1>3. CASE ~job[w].todo[k].misread
    BY <1>1, <1>3 DEF HandOnScale
  <1> QED
    BY <1>2, <1>3

\* Every step leaves the stored averages on the scale.
LEMMA ScaleRows ==
  ASSUME ScaleInv, [Next]_vars
  PROVE  RowsOnScale'
  <1>1. /\ OwnInv /\ RowsOnScale /\ NotesGrow /\ job \in [Workers -> Job]
        /\ \A w \in Workers : HandOnScale(w)
    BY NotesOnlyGrow DEF ScaleInv, OwnInv, TypeInv, TypeOK
  <1>2. ASSUME UNCHANGED target
        PROVE  RowsOnScale'
    BY <1>1, <1>2, ScaleRowsKept DEF OldRows, Rows
  <1>3. ASSUME NEW w \in Workers, WriteAverage(w)
        PROVE  RowsOnScale'
    <2>1. PICK k \in Rows :
            /\ k \in Ids /\ k \in DOMAIN target /\ target[k] \in TargetRow /\ job[w].todo[k] \in Entry
            /\ target[k].review = job[w].review
            /\ target' = [target EXCEPT ![k] = [target[k] EXCEPT !.average = job[w].todo[k].average]]
            /\ misread' = IF job[w].todo[k].misread THEN misread \cup {job[w].review} ELSE misread
      BY <1>1, <1>3, AverageWritten
    <2> DEFINE row == [target[k] EXCEPT !.average = job[w].todo[k].average]
    <2>2. row.average = job[w].todo[k].average /\ row.review = job[w].review
      BY <2>1, NumbersAlone
    <2>3. target' = [target EXCEPT ![k] = row]
      BY <2>1
    <2> HIDE DEF row
    <2>4. row.review \in misread' \/ OnScale(row.average)
      BY <1>1, <2>1, <2>2, EntryWritten
    <2>5. /\ k \in DOMAIN target' /\ target'[k] = row
          /\ \A i \in DOMAIN target' : i # k => i \in DOMAIN target /\ target'[i] = target[i]
      BY <2>1, <2>3
    <2> QED
      BY <1>1, <2>4, <2>5, ScaleRowChanged
  <1>4. ASSUME NEW w \in Workers, EditTargetWrite(w)
        PROVE  RowsOnScale'
    <2> DEFINE k == job[w].target
               merged == Merged(target[k], job[w].row)
               row == [merged EXCEPT !.average = job[w].todo[k].average]
    <2>1. /\ k \in Rows /\ k \in Ids /\ merged \in TargetRow /\ merged.review = target[k].review
          /\ job[w].todo[k] \in Entry /\ target[k].review = job[w].review
          /\ target' = [target EXCEPT ![k] = row]
          /\ misread' = IF job[w].todo[k].misread THEN misread \cup {job[w].review} ELSE misread
      BY <1>1, <1>4, EditWritten
    <2>2. row.average = job[w].todo[k].average /\ row.review = job[w].review
      BY <2>1, NumbersAlone
    <2>3. k \in DOMAIN target
      BY <2>1 DEF Rows
    <2> HIDE DEF row, k, merged
    <2>4. row.review \in misread' \/ OnScale(row.average)
      BY <1>1, <2>1, <2>2, EntryWritten
    <2>5. /\ k \in DOMAIN target' /\ target'[k] = row
          /\ \A i \in DOMAIN target' : i # k => i \in DOMAIN target /\ target'[i] = target[i]
      BY <2>1, <2>3
    <2> QED
      BY <1>1, <2>4, <2>5, ScaleRowChanged
  <1>5. ASSUME NEW w \in Workers, AddTargetWrite(w)
        PROVE  RowsOnScale'
    <2> DEFINE n == Len(target) + 1
    <2>1. /\ n \notin DOMAIN target /\ DOMAIN target' = DOMAIN target \cup {n}
          /\ target'[n] = job[w].row
          /\ \A k \in DOMAIN target : target'[k] = target[k]
      BY <1>1, <1>5, AddWritten
    <2>2. OnScale(job[w].row.average)
      BY <1>1, <1>5 DEF HandOnScale, AddTargetWrite
    <2> HIDE DEF n
    <2>3. n \in DOMAIN target' /\ \A i \in DOMAIN target' : i # n => i \in DOMAIN target /\ target'[i] = target[i]
      BY <2>1
    <2> QED
      BY <1>1, <2>1, <2>2, <2>3, ScaleRowChanged
  <1>6. ASSUME NEW w \in Workers, DeleteWrite(w) \/ RemoveTargetWrite(w)
        PROVE  RowsOnScale'
    <2>1. OldRows
      BY <1>6 DEF DeleteWrite, RemoveTargetWrite, OldRows, Rows
    <2> QED
      BY <1>1, <2>1, ScaleRowsKept
  <1>7. ASSUME NEW w \in Workers, Step(w)
        PROVE  RowsOnScale'
    <2>1. CASE \E x \in Reviews : Starts(w, x)
      BY <1>2, <2>1, StartsOnlyRead DEF tables
    <2> QED
      BY <1>2, <1>3, <1>4, <1>5, <1>6, <1>7, <2>1
      DEF Step, Starts, WriteRating, UpdateWrite, EditTargetRead, Throw, tables
  <1> QED
    BY <1>2, <1>7 DEF Next, Create, AddItem, vars, tables

\* A rating is written as a handler computed it.
LEMMA ScaleRated ==
  ASSUME ScaleInv, [Next]_vars
  PROVE  RatedOnScale'
  <1> SUFFICES ASSUME NEW r \in Reviews, r \notin misread', rated'[r] # None
               PROVE  OnScale(rated'[r].rating)
    BY DEF RatedOnScale, OnScale
  <1>1. /\ r \notin misread /\ DOMAIN rated = Reviews
        /\ \A w \in Workers : HandOnScale(w)
    BY NotesOnlyGrow DEF NotesGrow, ScaleInv, OwnInv, TypeInv, TypeOK
  <1>2. ASSUME rated'[r] = rated[r]
        PROVE  OnScale(rated'[r].rating)
    BY <1>1, <1>2 DEF ScaleInv, RatedOnScale, OnScale
  <1>3. ASSUME NEW w \in Workers, rated' = [rated EXCEPT ![job[w].review] = verdict[w]]
        PROVE  OnScale(rated'[r].rating)
    <2>1. CASE r = job[w].review
      <3>1. rated'[r] = verdict[w]
        BY <1>1, <1>3, <2>1
      <3> QED
        BY <1>1, <2>1, <3>1 DEF HandOnScale
    <2>2. CASE r # job[w].review
      BY <1>1, <1>2, <1>3, <2>2
    <2> QED
      BY <2>1, <2>2
  <1>4. ASSUME NEW w \in Workers, DeleteWrite(w)
        PROVE  OnScale(rated'[r].rating)
    BY <1>1, <1>2, <1>4 DEF DeleteWrite
  <1>5. ASSUME NEW w \in Workers, Step(w)
        PROVE  OnScale(rated'[r].rating)
    <2>1. CASE \E x \in Reviews : Starts(w, x)
      BY <1>2, <2>1, StartsOnlyRead DEF tables
    <2>2. CASE UpdateWrite(w)
      BY <1>2, <1>3, <2>2 DEF UpdateWrite
    <2> QED
      BY <1>2, <1>3, <1>4, <1>5, <2>1, <2>2
      DEF Step, Starts, WriteAverage, WriteRating, AddTargetWrite, EditTargetWrite, RemoveTargetWrite,
          EditTargetRead, Throw, tables
  <1> QED
    BY <1>2, <1>5 DEF Next, Create, AddItem, vars, tables

\* Every step leaves a review's competencies finitely many.
LEMMA ScaleItems ==
  ASSUME ScaleInv, [Next]_vars, NEW r \in Reviews
  PROVE  IsFiniteSet(ItemsOf(r)')
  <1>1. item \in [Reviews -> [Competencies -> ItemRow \cup {None}]] /\ IsFiniteSet(ItemsOf(r))
    BY DEF ScaleInv, OwnInv, TypeInv, TypeOK
  <1>2. ASSUME item'[r] = item[r]
        PROVE  IsFiniteSet(ItemsOf(r)')
    <2>1. ItemsOf(r)' = ItemsOf(r)
      BY <1>2 DEF ItemsOf
    <2> QED
      BY <1>1, <2>1
  <1>3. ASSUME NEW w \in Workers, DeleteWrite(w)
        PROVE  IsFiniteSet(ItemsOf(r)')
    <2>1. CASE r = job[w].review
      <3>1. ItemsOf(r)' = {}
        BY <1>1, <1>3, <2>1 DEF DeleteWrite, ItemsOf
      <3> QED
        BY <3>1, FS_EmptySet
    <2>2. CASE r # job[w].review
      BY <1>1, <1>2, <1>3, <2>2 DEF DeleteWrite
    <2> QED
      BY <2>1, <2>2
  <1>4. ASSUME NEW x \in Reviews, NEW c \in Competencies, NEW row \in ItemForms, AddItem(x, c, row)
        PROVE  IsFiniteSet(ItemsOf(r)')
    <2>1. ItemsOf(r)' \subseteq ItemsOf(r) \cup {c}
      BY <1>1, <1>4 DEF AddItem, ItemsOf
    <2> QED
      BY <1>1, <2>1, FS_AddElement, FS_Subset
  <1>5. ASSUME NEW w \in Workers, Step(w)
        PROVE  IsFiniteSet(ItemsOf(r)')
    <2>1. CASE \E x \in Reviews : Starts(w, x)
      BY <1>2, <2>1, StartsOnlyRead DEF tables
    <2> QED
      BY <1>2, <1>3, <1>5, <2>1
      DEF Step, Starts, WriteAverage, WriteRating, UpdateWrite, AddTargetWrite, EditTargetWrite,
          RemoveTargetWrite, EditTargetRead, Throw, tables
  <1> QED
    BY <1>2, <1>4, <1>5 DEF Next, Create, vars, tables

\* Nothing is off the scale at the start.
LEMMA ScaleInit == Init => ScaleInv
  <1> SUFFICES ASSUME Init PROVE ScaleInv
    OBVIOUS
  <1>1. OwnInv
    BY InvInit DEF Inv
  <1>2. Rows = {}
    BY DEF Init, Rows
  <1>3. \A w \in Workers : HandOnScale(w)
    BY DEF Init, HandOnScale, Idle, Nothing
  <1>4. ASSUME NEW r \in Reviews PROVE IsFiniteSet(ItemsOf(r))
    <2>1. ItemsOf(r) = {}
      BY DEF Init, ItemsOf
    <2> QED
      BY <2>1, FS_EmptySet
  <1> QED
    BY <1>1, <1>2, <1>3, <1>4 DEF ScaleInv, RowsOnScale, RatedOnScale, Init

\* A stored rating is on the scale of the scores, for any targets, competencies, weights and
\* caps and however handlers meet, unless an average of the review was misread: a handler only
\* writes what it computed from averages on the scale, and a misread one is noted when written.
THEOREM RatedCorrect == Spec => []RatedOnScale
  <1>1. ScaleInv /\ [Next]_vars => ScaleInv'
    <2> SUFFICES ASSUME ScaleInv, [Next]_vars PROVE ScaleInv'
      OBVIOUS
    <2>1. OwnInv'
      BY OwnStep DEF ScaleInv
    <2> QED
      BY <2>1, ScaleHands, ScaleRows, ScaleRated, ScaleItems DEF ScaleInv
  <1>2. ScaleInv => RatedOnScale
    BY DEF ScaleInv
  <1> QED
    BY <1>1, <1>2, ScaleInit, PTL DEF Spec

=============================================================================
