--------------------------- MODULE SubmarksValidity ---------------------------
(***************************************************************************)
(* computeSubmarksValidity (include/sr-index/construct.h): the merge of    *)
(* the marks of the r-index with the sub-sampled marks, both sorted by     *)
(* text position, that finds which sub-marks may be trusted.  A sub-mark   *)
(* is invalid when marks between it and the next sub-mark were dropped;    *)
(* its valid area is the distance to the first of those.                   *)
(*                                                                         *)
(* t_get_next_mark and t_get_next_submark advance iterators that check no  *)
(* bound: nothing but the relation of the two lists stops them.            *)
(***************************************************************************)
EXTENDS Integers, Sequences

CONSTANT Jobs   \* The calls of computeSubmarksValidity that may happen

StrictlyIncreasing(v) == \A i, j \in DOMAIN v : i < j => v[i] < v[j]

(***************************************************************************)
(* Both lists are sorted, the sub-marks are among the marks, and the first *)
(* mark is a sub-mark: its sample is one of the two required ones.         *)
(***************************************************************************)
LegalJob(job) ==
  /\ DOMAIN job = {"marks", "submarks"}
  /\ job.marks \in Seq(Nat) /\ job.submarks \in Seq(Nat)
  /\ StrictlyIncreasing(job.marks) /\ StrictlyIncreasing(job.submarks)
  /\ \A i \in DOMAIN job.submarks : \E j \in DOMAIN job.marks : job.submarks[i] = job.marks[j]
  /\ 1 \in DOMAIN job.submarks /\ 1 \in DOMAIN job.marks /\ job.submarks[1] = job.marks[1]

ASSUME JobsAssumption == \A job \in Jobs : LegalJob(job)

VARIABLES
  job,        \* the two lists
  read,       \* how many marks were taken from the iterator
  i,          \* loop index: submark is the i-th sub-mark (0-based)
  validity,   \* the pairs reported: <<index of an invalid sub-mark, its area>>
  pc          \* "start", "loop", "skip" (the inner do-while) or "done"

vars == <<job, read, i, validity, pc>>

Submark == job.submarks[i + 1]
NextSubmark == job.submarks[i + 2]
NextMark == job.marks[read + 1]

Init ==
  /\ job \in Jobs
  /\ read = 0 /\ i = 0 /\ validity = <<>> /\ pc = "start"

\* The first mark and the first sub-mark are taken without comparing them.
Start ==
  /\ pc = "start" /\ read < Len(job.marks)
  /\ read' = read + 1
  /\ pc' = "loop"
  /\ UNCHANGED <<job, i, validity>>

\* Loop body when the next mark is the next sub-mark: nothing in between.
Adjacent ==
  /\ pc = "loop" /\ i < Len(job.submarks) - 1
  /\ read < Len(job.marks) /\ NextMark = NextSubmark
  /\ read' = read + 1
  /\ i' = i + 1
  /\ UNCHANGED <<job, validity, pc>>

\* Faulty reports: the area subtracted the wrong way, measured to the next
\* sub-mark instead of the next mark, or reported for the next sub-mark.
FaultyReport(index, area) ==
  /\ pc = "loop" /\ i < Len(job.submarks) - 1
  /\ read < Len(job.marks) /\ NextMark # NextSubmark
  /\ validity' = Append(validity, <<index, area>>)
  /\ read' = read + 1
  /\ pc' = "skip"
  /\ UNCHANGED <<job, i>>
FaultyReportSwapped == FaultyReport(i, Submark - NextMark)
FaultyReportToSubmark == FaultyReport(i, NextSubmark - Submark)
FaultyReportNext == FaultyReport(i + 1, NextMark - Submark)

\* Loop body when it is not: report the sub-mark and start skipping marks.
ReportInvalid ==
  /\ pc = "loop" /\ i < Len(job.submarks) - 1
  /\ read < Len(job.marks) /\ NextMark # NextSubmark
  /\ validity' = Append(validity, <<i, NextMark - Submark>>)
  /\ read' = read + 1
  /\ pc' = "skip"
  /\ UNCHANGED <<job, i>>

\* Faulty inner loops: one that looks for a mark behind the next sub-mark and
\* one that forgets submark = next_submark.
FaultySkipBeyond ==
  /\ pc = "skip" /\ read < Len(job.marks)
  /\ read' = read + 1
  /\ IF NextSubmark < NextMark THEN i' = i + 1 /\ pc' = "loop"
                               ELSE UNCHANGED <<i, pc>>
  /\ UNCHANGED <<job, validity>>
FaultySkipStaying ==
  /\ pc = "skip" /\ read < Len(job.marks)
  /\ read' = read + 1
  /\ IF NextMark = NextSubmark THEN pc' = "loop" ELSE UNCHANGED pc
  /\ UNCHANGED <<job, i, validity>>

\* One iteration of the inner loop: it ends at the next sub-mark.
Skip ==
  /\ pc = "skip" /\ read < Len(job.marks)
  /\ read' = read + 1
  /\ IF NextMark = NextSubmark THEN i' = i + 1 /\ pc' = "loop"
                               ELSE UNCHANGED <<i, pc>>
  /\ UNCHANGED <<job, validity>>

Finish ==
  /\ pc = "loop" /\ i = Len(job.submarks) - 1
  /\ pc' = "done"
  /\ UNCHANGED <<job, read, i, validity>>

Step == Start \/ Adjacent \/ ReportInvalid \/ Skip \/ Finish
Next == Step

Spec == Init /\ [][Next]_vars
FairSpec == Spec /\ WF_vars(Next)

-----------------------------------------------------------------------------

\* The lists stay legal and every reported area is a natural number.
TypeOK ==
  /\ LegalJob(job)
  /\ read \in 0..Len(job.marks)
  /\ i \in 0..(Len(job.submarks) - 1)
  /\ validity \in Seq(Nat \X Nat)
  /\ pc \in {"start", "loop", "skip", "done"}

\* The iterator over the marks is never dereferenced at its end, although
\* the loops test only sub-marks.
ReadsInBounds ==
  pc = "skip" \/ (pc = "loop" /\ i < Len(job.submarks) - 1) => read < Len(job.marks)

\* The marks the sub-sampling dropped between sub-mark j (0-based) and the next.
DroppedAfter(j) ==
  {m \in DOMAIN job.marks : job.submarks[j + 1] < job.marks[m] /\ job.marks[m] < job.submarks[j + 2]}

\* Every report is about a sub-mark followed by dropped marks, and its area
\* ends exactly at the first of them: a mark's trusted area holds no mark.
ReportsSound ==
  \A e \in DOMAIN validity :
    LET j == validity[e][1]
        area == validity[e][2]
    IN \E m \in DroppedAfter(j) :
         /\ job.marks[m] = job.submarks[j + 1] + area
         /\ \A other \in DroppedAfter(j) : job.marks[m] <= job.marks[other]

\* No sub-mark that lost its neighbours is left trusted, and the reports come
\* in sub-mark order: the k-th area belongs to the k-th invalid sub-mark,
\* which is how SampleValidator finds it with a rank.
ReportsComplete ==
  /\ pc = "done" =>
       \A j \in 0..(Len(job.submarks) - 2) :
         DroppedAfter(j) # {} => \E e \in DOMAIN validity : validity[e][1] = j
  /\ \A d, e \in DOMAIN validity : d < e => validity[d][1] < validity[e][1]

\* The merge ends although the inner loop has no bound of its own.
Terminates == <>(pc = "done")

=============================================================================
