----------------------- MODULE SubmarksValidity_proofs -----------------------
(***************************************************************************)
(* Proofs about the merge of marks and sub-marks, for all lists that       *)
(* satisfy LegalJob.                                                       *)
(***************************************************************************)
EXTENDS SubmarksValidity, TLAPS

(***************************************************************************)
(* The inductive invariant.  ReadsInBounds is not inductive: that a mark   *)
(* is left to read follows from where the iterator stands, at the current  *)
(* sub-mark in the loop and strictly before the next one while skipping.   *)
(* The reports need to remember that they are about sub-marks already      *)
(* passed, so that a new one is in order and none is missing.              *)
(***************************************************************************)
Position ==
  /\ pc = "start" => read = 0 /\ i = 0 /\ validity = <<>>
  /\ pc # "start" => read \in DOMAIN job.marks
  /\ pc = "loop" => job.marks[read] = Submark
  /\ pc = "skip" => /\ i < Len(job.submarks) - 1
                    /\ Submark < job.marks[read] /\ job.marks[read] < NextSubmark
  /\ pc = "done" => i = Len(job.submarks) - 1

Passed(j) == j < i \/ (pc = "skip" /\ j = i)

ReportsPassed ==
  \A e \in DOMAIN validity :
    validity[e][1] < Len(job.submarks) - 1 /\ Passed(validity[e][1])

PassedReported ==
  \A j \in 0..(Len(job.submarks) - 2) :
    Passed(j) /\ DroppedAfter(j) # {} => \E e \in DOMAIN validity : validity[e][1] = j

InOrder == \A d, e \in DOMAIN validity : d < e => validity[d][1] < validity[e][1]

IInv ==
  /\ TypeOK /\ Position
  /\ ReportsPassed /\ ReportsSound /\ PassedReported /\ InOrder

\* Positions of a sorted list are ordered as their values.
LEMMA SortedOrder ==
  ASSUME NEW v \in Seq(Nat), StrictlyIncreasing(v), NEW a \in DOMAIN v, NEW b \in DOMAIN v
  PROVE  /\ (a < b) <=> (v[a] < v[b])
         /\ (a <= b) <=> (v[a] <= v[b])
<1>1. a \in Int /\ b \in Int /\ v[a] \in Nat /\ v[b] \in Nat
  OBVIOUS
<1>2. /\ a < b => v[a] < v[b]
      /\ b < a => v[b] < v[a]
      /\ a = b => v[a] = v[b]
  BY DEF StrictlyIncreasing
<1>3. QED
  BY <1>1, <1>2

\* While a sub-mark is left, so is a mark: the next one is no later than it.
LEMMA MarkLeft ==
  ASSUME IInv, pc \in {"loop", "skip"}, i < Len(job.submarks) - 1
  PROVE  /\ read + 1 \in DOMAIN job.marks
         /\ job.marks[read] < NextMark /\ NextMark <= NextSubmark
         /\ Submark < NextMark
         /\ Submark \in Nat /\ NextSubmark \in Nat /\ NextMark \in Nat
<1>1. /\ job.marks \in Seq(Nat) /\ StrictlyIncreasing(job.marks)
      /\ job.submarks \in Seq(Nat) /\ StrictlyIncreasing(job.submarks)
      /\ read \in DOMAIN job.marks /\ i \in Nat
  BY DEF IInv, TypeOK, Position, LegalJob
<1>2. /\ read \in Nat
      /\ i + 1 \in DOMAIN job.submarks /\ i + 2 \in DOMAIN job.submarks
  BY <1>1
<1>3. Submark \in Nat /\ NextSubmark \in Nat /\ Submark < NextSubmark
  BY <1>1, <1>2 DEF Submark, NextSubmark, StrictlyIncreasing
<1>4. PICK j \in DOMAIN job.marks : job.marks[j] = NextSubmark
  BY <1>2 DEF IInv, TypeOK, LegalJob, NextSubmark
<1>5. Submark <= job.marks[read] /\ job.marks[read] < job.marks[j]
  <2>1. job.marks[read] \in Nat
    BY <1>1
  <2>2. CASE pc = "loop"
    BY <1>3, <1>4, <2>1, <2>2 DEF IInv, Position
  <2>3. CASE pc = "skip"
    BY <1>3, <1>4, <2>1, <2>3 DEF IInv, Position
  <2>4. QED
    BY <2>2, <2>3
<1>6. read < j
  BY <1>1, <1>5, SortedOrder
<1>7. read + 1 \in DOMAIN job.marks /\ read < read + 1 /\ read + 1 <= j
  BY <1>1, <1>2, <1>6
<1>8. job.marks[read] < job.marks[read + 1] /\ job.marks[read + 1] <= job.marks[j]
  BY <1>1, <1>7, SortedOrder
<1>9. job.marks[read] \in Nat /\ NextMark \in Nat /\ NextMark = job.marks[read + 1]
  BY <1>1, <1>7 DEF NextMark
<1>10. Submark < NextMark /\ NextMark <= NextSubmark
  BY <1>3, <1>4, <1>5, <1>8, <1>9
<1>11. QED
  BY <1>3, <1>7, <1>8, <1>9, <1>10

\* The invariant holds before the first mark is read.
LEMMA InitIInv == Init => IInv
<1> SUFFICES ASSUME Init PROVE IInv
  OBVIOUS
<1>1. LegalJob(job) /\ validity = <<>> /\ read = 0 /\ i = 0 /\ pc = "start"
  BY JobsAssumption DEF Init
<1>2. TypeOK
  BY <1>1 DEF TypeOK, LegalJob
<1>3. Position
  BY <1>1 DEF Position
<1>4. ReportsPassed /\ ReportsSound /\ InOrder
  BY <1>1 DEF ReportsPassed, ReportsSound, InOrder
<1>5. PassedReported
  BY <1>1 DEF PassedReported, Passed
<1>6. QED
  BY <1>2, <1>3, <1>4, <1>5 DEF IInv

\* Every step keeps the types of the merge.
LEMMA StepType ==
  ASSUME IInv, [Next]_vars
  PROVE  TypeOK'
<1>1. /\ LegalJob(job) /\ read \in 0..Len(job.marks) /\ i \in 0..(Len(job.submarks) - 1)
      /\ validity \in Seq(Nat \X Nat)
      /\ Len(job.marks) \in Nat /\ Len(job.submarks) \in Nat
  BY DEF IInv, TypeOK, LegalJob
<1>2. CASE Start
  BY <1>1, <1>2 DEF Start, TypeOK
<1>3. CASE Adjacent
  BY <1>1, <1>3 DEF Adjacent, TypeOK
<1>4. CASE ReportInvalid
  <2>1. NextMark - Submark \in Nat /\ i \in Nat
    BY <1>1, <1>4, MarkLeft DEF ReportInvalid
  <2>2. validity' \in Seq(Nat \X Nat)
    BY <1>1, <1>4, <2>1 DEF ReportInvalid
  <2>3. QED
    BY <1>1, <1>4, <2>2 DEF ReportInvalid, TypeOK
<1>5. CASE Skip
  <2>1. i + 1 \in 0..(Len(job.submarks) - 1)
    BY <1>1, <1>5 DEF Skip, IInv, Position
  <2>2. QED
    BY <1>1, <1>5, <2>1 DEF Skip, TypeOK
<1>6. CASE Finish
  BY <1>1, <1>6 DEF Finish, TypeOK
<1>7. CASE UNCHANGED vars
  BY <1>1, <1>7 DEF vars, TypeOK, IInv
<1>8. QED
  BY <1>2, <1>3, <1>4, <1>5, <1>6, <1>7 DEF Next, Step

\* Every step leaves the iterator where the loops expect it.
LEMMA StepPosition ==
  ASSUME IInv, [Next]_vars
  PROVE  Position'
<1>1. /\ LegalJob(job) /\ read \in Nat /\ i \in Nat /\ i < Len(job.submarks)
      /\ Position
      /\ Len(job.marks) \in Nat /\ Len(job.submarks) \in Nat
  BY DEF IInv, TypeOK, LegalJob
<1>2. CASE Start
  BY <1>1, <1>2 DEF Start, Position, LegalJob, Submark
<1>3. CASE Adjacent
  <2>1. read + 1 \in DOMAIN job.marks
    BY <1>3, MarkLeft DEF Adjacent
  <2>2. job.marks[read + 1] = job.submarks[i + 1 + 1]
    BY <1>1, <1>3 DEF Adjacent, NextMark, NextSubmark
  <2>3. QED
    BY <1>1, <1>3, <2>1, <2>2 DEF Adjacent, Position, Submark
<1>4. CASE ReportInvalid
  <2>1. /\ read + 1 \in DOMAIN job.marks
        /\ Submark < job.marks[read + 1] /\ job.marks[read + 1] < NextSubmark
    BY <1>4, MarkLeft DEF ReportInvalid, NextMark
  <2>2. QED
    BY <1>1, <1>4, <2>1 DEF ReportInvalid, Position, Submark, NextSubmark
<1>5. CASE Skip
  <2>1. /\ read + 1 \in DOMAIN job.marks /\ Submark < NextMark /\ NextMark <= NextSubmark
        /\ NextMark \in Nat /\ NextSubmark \in Nat
        /\ i < Len(job.submarks) - 1
    BY <1>1, <1>5, MarkLeft DEF Skip, Position
  <2>2. CASE NextMark = NextSubmark
    <3>1. job.marks[read + 1] = job.submarks[i + 1 + 1]
      BY <1>1, <2>2 DEF NextMark, NextSubmark
    <3>2. QED
      BY <1>1, <1>5, <2>1, <2>2, <3>1 DEF Skip, Position, Submark
  <2>3. CASE NextMark # NextSubmark
    <3>1. Submark < job.marks[read + 1] /\ job.marks[read + 1] < NextSubmark
      BY <2>1, <2>3 DEF NextMark
    <3>2. QED
      BY <1>1, <1>5, <2>1, <2>3, <3>1 DEF Skip, Position, Submark, NextSubmark
  <2>4. QED
    BY <2>2, <2>3
<1>6. CASE Finish
  BY <1>1, <1>6 DEF Finish, Position
<1>7. CASE UNCHANGED vars
  BY <1>1, <1>7 DEF vars, Position, Submark, NextSubmark
<1>8. QED
  BY <1>2, <1>3, <1>4, <1>5, <1>6, <1>7 DEF Next, Step

\* What one more report does to the list of reports.
LEMMA OneMoreReport ==
  ASSUME IInv, ReportInvalid
  PROVE  /\ Len(validity) \in Nat
         /\ DOMAIN validity = 1..Len(validity)
         /\ DOMAIN validity' = 1..(Len(validity) + 1)
         /\ \A e \in DOMAIN validity : validity'[e] = validity[e]
         /\ validity'[Len(validity) + 1][1] = i
         /\ validity'[Len(validity) + 1][2] = NextMark - Submark
<1>1. validity \in Seq(Nat \X Nat) /\ i \in Nat
  BY DEF IInv, TypeOK
<1>2. NextMark - Submark \in Nat
  BY MarkLeft DEF ReportInvalid
<1>3. validity' = Append(validity, <<i, NextMark - Submark>>)
  BY DEF ReportInvalid
<1>4. Len(validity) \in Nat /\ DOMAIN validity = 1..Len(validity)
  BY <1>1
<1>5. /\ DOMAIN validity' = 1..(Len(validity) + 1)
      /\ \A e \in DOMAIN validity : validity'[e] = validity[e]
      /\ validity'[Len(validity) + 1] = <<i, NextMark - Submark>>
  BY <1>1, <1>2, <1>3, <1>4
<1>6. QED
  BY <1>4, <1>5

\* Only ReportInvalid reports; the other steps only pass sub-marks.
LEMMA OtherSteps ==
  ASSUME IInv, [Next]_vars, ~ReportInvalid
  PROVE  /\ validity' = validity /\ job' = job
         /\ \A j \in Nat : Passed(j) => Passed(j)'
         /\ \A j \in Nat : Passed(j)' => Passed(j) \/ (Adjacent /\ j = i)
<1>1. i \in Nat
  BY DEF IInv, TypeOK
<1>2. CASE Start
  BY <1>1, <1>2 DEF Start, Passed
<1>3. CASE Adjacent
  BY <1>1, <1>3 DEF Adjacent, Passed
<1>4. CASE Skip
  BY <1>1, <1>4 DEF Skip, Passed
<1>5. CASE Finish
  BY <1>1, <1>5 DEF Finish, Passed
<1>6. CASE UNCHANGED vars
  BY <1>1, <1>6 DEF vars, Passed
<1>7. QED
  BY <1>2, <1>3, <1>4, <1>5, <1>6 DEF Next, Step

\* Reports stay about sub-marks that were passed.
LEMMA StepReportsPassed ==
  ASSUME IInv, [Next]_vars
  PROVE  ReportsPassed'
<1>1. /\ ReportsPassed /\ validity \in Seq(Nat \X Nat) /\ i \in Nat
      /\ \A e \in DOMAIN validity : validity[e][1] \in Nat
  BY DEF IInv, TypeOK
<1>2. CASE ReportInvalid
  <2>1. job' = job /\ i' = i /\ pc' = "skip" /\ i < Len(job.submarks) - 1 /\ pc = "loop"
    BY <1>2 DEF ReportInvalid
  <2>2. ASSUME NEW e \in DOMAIN validity'
        PROVE  validity'[e][1] < Len(job.submarks) - 1
    <3>1. CASE e \in DOMAIN validity
      BY <1>1, <1>2, <2>1, <3>1, OneMoreReport DEF ReportsPassed, Passed
    <3>2. CASE e = Len(validity) + 1
      BY <1>1, <1>2, <2>1, <3>2, OneMoreReport
    <3>3. QED
      BY <1>2, <2>2, <3>1, <3>2, OneMoreReport
  <2>3. ASSUME NEW e \in DOMAIN validity'
        PROVE  validity'[e][1] < i \/ validity'[e][1] = i
    <3>1. CASE e \in DOMAIN validity
      BY <1>1, <1>2, <2>1, <3>1, OneMoreReport DEF ReportsPassed, Passed
    <3>2. CASE e = Len(validity) + 1
      BY <1>2, <3>2, OneMoreReport
    <3>3. QED
      BY <1>2, <2>3, <3>1, <3>2, OneMoreReport
  <2>4. QED
    BY <2>1, <2>2, <2>3 DEF ReportsPassed, Passed
<1>3. CASE ~ReportInvalid
  BY <1>1, <1>3, OtherSteps DEF ReportsPassed
<1>4. QED
  BY <1>2, <1>3

\* Reports stay in the order of their sub-marks.
LEMMA StepInOrder ==
  ASSUME IInv, [Next]_vars
  PROVE  InOrder'
<1>1. InOrder /\ ReportsPassed
  BY DEF IInv
<1>2. CASE ReportInvalid
  <2>1. \A e \in DOMAIN validity : validity[e][1] < i
    BY <1>1, <1>2 DEF ReportInvalid, ReportsPassed, Passed
  <2>2. SUFFICES ASSUME NEW d \in DOMAIN validity', NEW e \in DOMAIN validity', d < e
                 PROVE  validity'[d][1] < validity'[e][1]
    BY DEF InOrder
  <2>3. d \in DOMAIN validity
    BY <1>2, <2>2, OneMoreReport
  <2>4. CASE e \in DOMAIN validity
    BY <1>1, <1>2, <2>2, <2>3, <2>4, OneMoreReport DEF InOrder
  <2>5. CASE e = Len(validity) + 1
    BY <1>2, <2>1, <2>3, <2>5, OneMoreReport
  <2>6. QED
    BY <1>2, <2>4, <2>5, OneMoreReport
<1>3. CASE ~ReportInvalid
  BY <1>1, <1>3, OtherSteps DEF InOrder
<1>4. QED
  BY <1>2, <1>3

\* A report of area for sub-mark j is sound: ReportsSound, one entry at a time.
SoundEntry(j, area) ==
  \E m \in DroppedAfter(j) :
    /\ job.marks[m] = job.submarks[j + 1] + area
    /\ \A other \in DroppedAfter(j) : job.marks[m] <= job.marks[other]

\* The entry ReportInvalid appends is sound: no mark lies between the current
\* sub-mark, where the iterator stands, and the mark it reads next.
LEMMA NewEntrySound ==
  ASSUME IInv, ReportInvalid
  PROVE  SoundEntry(i, NextMark - Submark)
<1>1. /\ job.marks \in Seq(Nat) /\ StrictlyIncreasing(job.marks)
      /\ read \in DOMAIN job.marks /\ job.marks[read] = Submark
  BY DEF IInv, TypeOK, Position, LegalJob, ReportInvalid
<1>2. /\ read + 1 \in DOMAIN job.marks /\ NextMark <= NextSubmark /\ Submark < NextMark
      /\ Submark \in Nat /\ NextSubmark \in Nat /\ NextMark \in Nat
      /\ NextMark # NextSubmark
  BY MarkLeft DEF ReportInvalid
<1>3. read + 1 \in DroppedAfter(i)
  BY <1>2 DEF DroppedAfter, NextMark, Submark, NextSubmark
<1>4. job.marks[read + 1] = job.submarks[i + 1] + (NextMark - Submark)
  BY <1>2 DEF NextMark, Submark
<1>5. ASSUME NEW other \in DroppedAfter(i)
      PROVE  job.marks[read + 1] <= job.marks[other]
  <2>1. other \in DOMAIN job.marks /\ job.marks[read] < job.marks[other]
    BY <1>1, <1>5 DEF DroppedAfter, Submark
  <2>2. read < other
    BY <1>1, <2>1, SortedOrder
  <2>3. read + 1 <= other
    BY <1>1, <2>1, <2>2
  <2>4. QED
    BY <1>1, <1>2, <2>1, <2>3, SortedOrder
<1>6. QED
  BY <1>3, <1>4, <1>5 DEF SoundEntry

\* Every step keeps the reports sound.
LEMMA StepSound ==
  ASSUME IInv, [Next]_vars
  PROVE  ReportsSound'
<1>1. \A e \in DOMAIN validity : SoundEntry(validity[e][1], validity[e][2])
  BY DEF IInv, ReportsSound, SoundEntry
<1>2. job' = job
  BY DEF Next, Step, Start, Adjacent, ReportInvalid, Skip, Finish, vars
<1>3. \A e \in DOMAIN validity' : SoundEntry(validity'[e][1], validity'[e][2])
  <2>1. CASE ReportInvalid
    <3>1. ASSUME NEW e \in DOMAIN validity'
          PROVE  SoundEntry(validity'[e][1], validity'[e][2])
      <4>1. CASE e \in DOMAIN validity
        BY <1>1, <2>1, <4>1, OneMoreReport
      <4>2. CASE e = Len(validity) + 1
        BY <2>1, <4>2, OneMoreReport, NewEntrySound
      <4>3. QED
        BY <2>1, <3>1, <4>1, <4>2, OneMoreReport
    <3>2. QED
      BY <3>1
  <2>2. CASE ~ReportInvalid
    BY <1>1, <2>2, OtherSteps
  <2>3. QED
    BY <2>1, <2>2
<1>4. QED
  BY <1>2, <1>3 DEF ReportsSound, SoundEntry, DroppedAfter

\* Adjacent passes a sub-mark with nothing dropped behind it.
LEMMA NothingDropped ==
  ASSUME IInv, Adjacent
  PROVE  DroppedAfter(i) = {}
<1>1. /\ job.marks \in Seq(Nat) /\ StrictlyIncreasing(job.marks)
      /\ read \in DOMAIN job.marks /\ job.marks[read] = Submark
  BY DEF IInv, TypeOK, Position, LegalJob, Adjacent
<1>2. read + 1 \in DOMAIN job.marks /\ job.marks[read + 1] = NextSubmark
  BY MarkLeft DEF Adjacent, NextMark
<1>3. SUFFICES ASSUME NEW m \in DOMAIN job.marks,
                      job.marks[read] < job.marks[m], job.marks[m] < job.marks[read + 1]
               PROVE  FALSE
  BY <1>1, <1>2 DEF DroppedAfter, Submark, NextSubmark
<1>4. read < m /\ m < read + 1
  BY <1>1, <1>2, <1>3, SortedOrder
<1>5. QED
  BY <1>1, <1>3, <1>4

\* Every step leaves no passed sub-mark with dropped marks unreported.
LEMMA StepPassedReported ==
  ASSUME IInv, [Next]_vars
  PROVE  PassedReported'
<1>1. PassedReported /\ i \in Nat
  BY DEF IInv, TypeOK
<1>2. job' = job
  BY DEF Next, Step, Start, Adjacent, ReportInvalid, Skip, Finish, vars
<1>3. SUFFICES ASSUME NEW j \in 0..(Len(job.submarks) - 2), Passed(j)', DroppedAfter(j) # {}
               PROVE  \E e \in DOMAIN validity' : validity'[e][1] = j
  BY <1>2 DEF PassedReported, DroppedAfter
<1>4. CASE ReportInvalid
  <2>1. Passed(j) \/ j = i
    BY <1>3, <1>4 DEF ReportInvalid, Passed
  <2>2. CASE Passed(j)
    <3>1. PICK e \in DOMAIN validity : validity[e][1] = j
      BY <1>1, <1>3, <2>2 DEF PassedReported
    <3>2. e \in DOMAIN validity' /\ validity'[e][1] = j
      BY <1>4, <3>1, OneMoreReport
    <3>3. QED
      BY <3>2
  <2>3. CASE j = i
    <3>1. Len(validity) + 1 \in DOMAIN validity' /\ validity'[Len(validity) + 1][1] = j
      BY <1>4, <2>3, OneMoreReport
    <3>2. QED
      BY <3>1
  <2>4. QED
    BY <2>1, <2>2, <2>3
<1>5. CASE ~ReportInvalid
  <2>1. j \in Nat
    BY <1>3
  <2>2. Passed(j) \/ (Adjacent /\ j = i)
    BY <1>3, <1>5, <2>1, OtherSteps
  <2>3. Passed(j)
    BY <1>3, <2>2, NothingDropped
  <2>4. validity' = validity
    BY <1>5, OtherSteps
  <2>5. QED
    BY <1>1, <1>3, <2>3, <2>4 DEF PassedReported
<1>6. QED
  BY <1>4, <1>5

\* The invariant holds in every behaviour of the merge.
LEMMA Invariance == Spec => []IInv
<1>1. IInv /\ [Next]_vars => IInv'
  BY StepType, StepPosition, StepReportsPassed, StepSound, StepPassedReported, StepInOrder
     DEF IInv
<1>2. QED
  BY InitIInv, <1>1, PTL DEF Spec

\* The merge never leaves the two lists and every area it reports is a natural.
THEOREM TypeCorrect == Spec => []TypeOK
<1>1. IInv => TypeOK
  BY DEF IInv
<1>2. QED
  BY Invariance, <1>1, PTL

\* Neither loop of computeSubmarksValidity dereferences the iterator over the
\* marks at its end, for any lists that satisfy LegalJob.
THEOREM ReadsTheorem == Spec => []ReadsInBounds
<1>1. IInv => ReadsInBounds
  <2> SUFFICES ASSUME IInv, pc = "skip" \/ (pc = "loop" /\ i < Len(job.submarks) - 1)
               PROVE  read < Len(job.marks)
    BY DEF ReadsInBounds
  <2>1. pc \in {"loop", "skip"} /\ i < Len(job.submarks) - 1
    BY DEF IInv, Position
  <2>2. read + 1 \in DOMAIN job.marks
    BY <2>1, MarkLeft
  <2>3. job.marks \in Seq(Nat) /\ read \in 0..Len(job.marks)
    BY DEF IInv, TypeOK, LegalJob
  <2>4. QED
    BY <2>2, <2>3
<1>2. QED
  BY Invariance, <1>1, PTL

\* A trusted area never reaches over a dropped mark, whatever was dropped.
THEOREM SoundTheorem == Spec => []ReportsSound
<1>1. IInv => ReportsSound
  BY DEF IInv
<1>2. QED
  BY Invariance, <1>1, PTL

\* When the merge ends, every sub-mark with dropped marks behind it has been
\* reported, and the areas stand in the order of their sub-marks.
THEOREM CompleteTheorem == Spec => []ReportsComplete
<1>1. IInv => ReportsComplete
  <2> SUFFICES ASSUME IInv PROVE ReportsComplete
    OBVIOUS
  <2>1. InOrder /\ PassedReported /\ i \in Nat /\ Len(job.submarks) \in Nat
    BY DEF IInv, TypeOK, LegalJob
  <2>2. ASSUME pc = "done", NEW j \in 0..(Len(job.submarks) - 2), DroppedAfter(j) # {}
        PROVE  \E e \in DOMAIN validity : validity[e][1] = j
    <3>1. i = Len(job.submarks) - 1
      BY <2>2 DEF IInv, Position
    <3>2. Passed(j)
      BY <2>1, <2>2, <3>1 DEF Passed
    <3>3. QED
      BY <2>1, <2>2, <3>2 DEF PassedReported
  <2>3. QED
    BY <2>1, <2>2 DEF ReportsComplete, InOrder
<1>2. QED
  BY Invariance, <1>1, PTL

=============================================================================
