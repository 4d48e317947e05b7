----------------------------- MODULE Subsampling -----------------------------
(***************************************************************************)
(* computeSampling (include/sr-index/sampling.h): the greedy scan that     *)
(* decides which BWT-run samples an sr-index keeps.                        *)
(*                                                                         *)
(* The scan visits the samples in text order (forward for the SrIndex      *)
(* family, through reverse iterators for the SrCSA family), one loop       *)
(* iteration per Scan step.  A sample is named by its position 1..Len(v)   *)
(* in that order and v gives its text position, so the code's *idx is      *)
(* position k and t_values[*idx] is v[k].                                  *)
(***************************************************************************)
EXTENDS Integers, Sequences

CONSTANT Jobs   \* The calls of computeSampling that may happen

(***************************************************************************)
(* A call: the sub-sampling rate s, the text positions v in scan order,    *)
(* and the positions req of the samples that must be kept (the code looks  *)
(* a sample up in t_req_idxs).                                             *)
(***************************************************************************)
Increasing(v) == \A i, j \in DOMAIN v : i < j => v[i] < v[j]
Decreasing(v) == \A i, j \in DOMAIN v : i < j => v[j] < v[i]

LegalJob(job) ==
  /\ DOMAIN job = {"s", "v", "req"}
  /\ job.s \in Nat
  /\ job.v \in Seq(Nat)
  /\ job.req \in SUBSET DOMAIN job.v
  /\ Increasing(job.v) \/ Decreasing(job.v)

ASSUME JobsAssumption == \A job \in Jobs : LegalJob(job)

VARIABLES
  job,    \* the arguments of the call
  kept,   \* positions already emplaced in samples
  last,   \* the position whose value is last_sampled_value
  prev,   \* the position of prev_idx
  pc      \* "first" before the first emplace, "scan" in the loop, "done"

vars == <<job, kept, last, prev, pc>>

\* Text distance, the code's two-way unsigned difference.
Dist(a, b) == IF a < b THEN b - a ELSE a - b

Span == Dist(job.v[prev + 1], job.v[last])

Init ==
  /\ job \in Jobs
  /\ kept = {} /\ last = 1 /\ prev = 2 /\ pc = "first"

\* if (n == 0) return samples.
NoSamples ==
  /\ pc = "first" /\ Len(job.v) = 0
  /\ pc' = "done"
  /\ UNCHANGED <<job, kept, last, prev>>

\* The first sample is always kept; it is the only one if n == 1.
KeepFirst ==
  /\ pc = "first" /\ Len(job.v) > 0
  /\ kept' = {1}
  /\ last' = 1
  /\ prev' = 2
  /\ pc' = IF Len(job.v) = 1 THEN "done" ELSE "scan"
  /\ UNCHANGED job

\* Faulty variants, one for each property below: the distance to prev instead
\* of curr, the required samples forgotten, a distance of s already too far.
FaultyKeepByPrev == job.s < Dist(job.v[prev], job.v[last]) \/ prev \in job.req
FaultyKeepUnrequired == job.s < Span
FaultyKeepAtDistance == job.s <= Span \/ prev \in job.req

\* Keeping prev: curr would be further than s from the last kept sample, or
\* prev is one of the required samples.
MustKeep == job.s < Span \/ prev \in job.req

\* Faulty: prev advances only when it is kept.
FaultyScan ==
  /\ pc = "scan" /\ prev < Len(job.v)
  /\ MustKeep
  /\ kept' = kept \cup {prev} /\ last' = prev /\ prev' = prev + 1
  /\ UNCHANGED <<job, pc>>

\* One iteration of the loop, curr = prev + 1.
Scan ==
  /\ pc = "scan" /\ prev < Len(job.v)
  /\ \/ MustKeep /\ kept' = kept \cup {prev} /\ last' = prev
     \/ ~MustKeep /\ UNCHANGED <<kept, last>>
  /\ prev' = prev + 1
  /\ UNCHANGED <<job, pc>>

\* Faulty: the end iterator is dereferenced instead of prev_idx.
FaultyKeepLast ==
  /\ pc = "scan" /\ prev = Len(job.v)
  /\ kept' = kept \cup {prev + 1}
  /\ pc' = "done"
  /\ UNCHANGED <<job, last, prev>>

\* After the loop prev_idx is the last sample, which is kept.
KeepLast ==
  /\ pc = "scan" /\ prev = Len(job.v)
  /\ kept' = kept \cup {prev}
  /\ pc' = "done"
  /\ UNCHANGED <<job, last, prev>>

Step == NoSamples \/ KeepFirst \/ Scan \/ KeepLast
Next == Step

Spec == Init /\ [][Next]_vars
FairSpec == Spec /\ WF_vars(Next)

-----------------------------------------------------------------------------

\* The call's arguments stay legal and every kept sample is one of the list.
TypeOK ==
  /\ LegalJob(job)
  /\ kept \in SUBSET DOMAIN job.v
  /\ last \in Nat \ {0}
  /\ prev \in Nat \ {0}
  /\ pc \in {"first", "scan", "done"}

\* A sample that was visited and dropped.
Dropped == {k \in DOMAIN job.v : k < prev /\ k \notin kept}

\* The sample after a dropped one is within s of a kept sample that the scan
\* met before it.  An index reaches the sample of a dropped position by LF (or
\* Psi) steps towards that kept sample, so the search descends fewer than s
\* levels; phi.h stops descending at level s and relies on it.
GapBounded ==
  pc # "first" =>
    \A k \in Dropped : \E j \in kept : j < k /\ Dist(job.v[k + 1], job.v[j]) <= job.s

\* When the scan is over the first and the last samples in text order and the
\* required ones (those linked to the extreme marks of the text) are kept.
ExtremesKept ==
  pc = "done" => (job.req \cup {1, Len(job.v)}) \cap DOMAIN job.v \subseteq kept

\* The sub-sample is sparse: an interior sample is kept only if it is required
\* or if dropping it would leave its two kept neighbours more than s apart.
Sparse ==
  \A i, j, k \in kept :
    /\ i < j /\ j < k /\ j \notin job.req
    => job.s < Dist(job.v[k], job.v[i])

\* The call returns.
Terminates == <>(pc = "done")

=============================================================================
