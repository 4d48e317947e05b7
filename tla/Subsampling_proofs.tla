------------------------- MODULE Subsampling_proofs -------------------------
(***************************************************************************)
(* Proofs about the sub-sampling scan, for every list of text positions,   *)
(* every rate and every set of required samples.                           *)
(***************************************************************************)
EXTENDS Subsampling, TLAPS

(***************************************************************************)
(* The inductive invariant.  GapBounded alone is not inductive: a Scan     *)
(* step that drops prev needs last to be a kept sample behind prev, and    *)
(* one that keeps prev needs last to be the newest kept sample.  Sparse    *)
(* needs the reason a sample was kept to outlive the step that kept it.    *)
(***************************************************************************)
Frontier ==
  /\ pc = "first" => kept = {} /\ prev = 2
  /\ pc = "scan" => /\ last \in kept /\ last < prev /\ prev <= Len(job.v)
                    /\ \A k \in kept : k <= last
                    /\ 1 \in kept
                    /\ \A k \in job.req : k < prev => k \in kept
  /\ pc = "done" => /\ (job.req \cup {1, Len(job.v)}) \cap DOMAIN job.v \subseteq kept
                    /\ Len(job.v) > 1 => prev = Len(job.v)

Justified ==
  \A j \in kept :
    \/ j = 1
    \/ j \in job.req
    \/ pc = "done" /\ j = Len(job.v)
    \/ j < Len(job.v) /\ \A i \in kept : i < j => job.s < Dist(job.v[j + 1], job.v[i])

IInv == TypeOK /\ Frontier /\ GapBounded /\ Justified

\* Dist is a distance between naturals.
LEMMA DistNat ==
  ASSUME NEW a \in Nat, NEW b \in Nat
  PROVE  Dist(a, b) \in Nat
  BY DEF Dist

\* Positions of a monotone list are further apart the further out they lie.
LEMMA DistWidens ==
  ASSUME NEW v \in Seq(Nat), Increasing(v) \/ Decreasing(v),
         NEW i \in DOMAIN v, NEW j \in DOMAIN v, NEW k \in DOMAIN v, NEW m \in DOMAIN v,
         i <= j, j <= k, k <= m
  PROVE  Dist(v[k], v[j]) <= Dist(v[m], v[i])
<1>1. /\ v[i] \in Nat /\ v[j] \in Nat /\ v[k] \in Nat /\ v[m] \in Nat
      /\ i \in Nat /\ j \in Nat /\ k \in Nat /\ m \in Nat
  OBVIOUS
<1>2. CASE Increasing(v)
  <2>1. v[i] <= v[j] /\ v[j] <= v[k] /\ v[k] <= v[m]
    BY <1>1, <1>2 DEF Increasing
  <2>2. QED
    BY <1>1, <2>1 DEF Dist
<1>3. CASE Decreasing(v)
  <2>1. v[m] <= v[k] /\ v[k] <= v[j] /\ v[j] <= v[i]
    BY <1>1, <1>3 DEF Decreasing
  <2>2. QED
    BY <1>1, <2>1 DEF Dist
<1>4. QED
  BY <1>2, <1>3

\* The invariant holds before the first sample is read.
LEMMA InitIInv == Init => IInv
  BY JobsAssumption DEF Init, IInv, TypeOK, Frontier, GapBounded, Justified, Dropped

\* Every step keeps the scan's type and its frontier.
LEMMA StepFrontier ==
  ASSUME IInv, [Next]_vars
  PROVE  TypeOK' /\ Frontier'
<1> USE DEF IInv, TypeOK, Frontier, LegalJob
<1>1. Len(job.v) \in Nat /\ DOMAIN job.v = 1..Len(job.v)
  OBVIOUS
<1>2. CASE NoSamples
  BY <1>1, <1>2 DEF NoSamples
<1>3. CASE KeepFirst
  <2>1. /\ job' = job /\ kept' = {1} /\ last' = 1 /\ prev' = 2 /\ Len(job.v) > 0
        /\ pc' = IF Len(job.v) = 1 THEN "done" ELSE "scan"
    BY <1>3 DEF KeepFirst
  <2>2. TypeOK'
    BY <1>1, <2>1
  <2>3. CASE Len(job.v) = 1
    BY <1>1, <2>1, <2>2, <2>3
  <2>4. CASE Len(job.v) # 1
    <3>1. \A k \in job.req : k < 2 => k = 1
      BY <1>1
    <3>2. pc' = "scan"
      BY <2>1, <2>4, Zenon
    <3>3. Len(job.v) \in Nat /\ Len(job.v) > 0 /\ Len(job.v) # 1
      BY <1>1, <2>1, <2>4, Zenon
    <3>4. 2 <= Len(job.v)
      <4>1. \A m \in Nat : m > 0 /\ m # 1 => 2 <= m
        OBVIOUS
      <4>2. QED
        BY <3>3, <4>1, Zenon
    <3>5. \A k \in job'.req : k < prev' => k \in kept'
      BY <2>1, <3>1
    <3>6. Frontier'
      BY <2>1, <3>2, <3>4, <3>5
    <3>7. QED
      BY <2>2, <3>6
  <2>5. QED
    BY <2>2, <2>3, <2>4
<1>4. CASE Scan
  <2>1. CASE MustKeep /\ kept' = kept \cup {prev} /\ last' = prev
    BY <1>1, <1>4, <2>1 DEF Scan
  <2>2. CASE ~MustKeep /\ UNCHANGED <<kept, last>>
    BY <1>1, <1>4, <2>2 DEF Scan, MustKeep
  <2>3. QED
    BY <1>4, <2>1, <2>2 DEF Scan
<1>5. CASE KeepLast
  BY <1>1, <1>5 DEF KeepLast
<1>6. CASE UNCHANGED vars
  BY <1>6 DEF vars
<1>7. QED
  BY <1>2, <1>3, <1>4, <1>5, <1>6 DEF Next, Step

\* Every step keeps the gap bound: a dropped sample has last as its witness.
LEMMA StepGap ==
  ASSUME IInv, [Next]_vars
  PROVE  GapBounded'
<1> USE DEF IInv, TypeOK, Frontier, LegalJob, Dropped
<1>1. Len(job.v) \in Nat /\ DOMAIN job.v = 1..Len(job.v)
  OBVIOUS
<1>2. CASE NoSamples
  BY <1>1, <1>2 DEF NoSamples, GapBounded
<1>3. CASE KeepFirst
  BY <1>1, <1>3 DEF KeepFirst, GapBounded
<1>4. CASE Scan
  <2>0. job' = job /\ pc = "scan" /\ pc' = "scan" /\ prev' = prev + 1 /\ prev < Len(job.v)
        /\ kept \subseteq kept'
    BY <1>4 DEF Scan
  <2>1. SUFFICES ASSUME NEW k \in Dropped'
                 PROVE  \E j \in kept' : j < k /\ Dist(job.v[k + 1], job.v[j]) <= job.s
    BY <2>0 DEF GapBounded
  <2>2. CASE k < prev
    BY <2>0, <2>2 DEF GapBounded
  <2>3. CASE k = prev
    <3>1. ~MustKeep /\ kept' = kept /\ last' = last
      BY <1>4, <2>0, <2>3 DEF Scan
    <3>2. job.v[prev + 1] \in Nat /\ job.v[last] \in Nat
      BY <1>1, <2>0
    <3>3. Span \in Nat
      BY <3>2, DistNat DEF Span
    <3>4. Dist(job.v[k + 1], job.v[last]) <= job.s
      BY <2>3, <3>1, <3>3 DEF MustKeep, Span
    <3>5. QED
      BY <2>0, <2>3, <3>1, <3>4
  <2>4. QED
    BY <2>0, <2>2, <2>3
<1>5. CASE KeepLast
  BY <1>1, <1>5 DEF KeepLast, GapBounded
<1>6. CASE UNCHANGED vars
  BY <1>6 DEF vars, GapBounded
<1>7. QED
  BY <1>2, <1>3, <1>4, <1>5, <1>6 DEF Next, Step

\* Every step keeps the justification of the kept samples: the new one is
\* further than s from last, hence from every older kept sample.
LEMMA StepJustified ==
  ASSUME IInv, [Next]_vars
  PROVE  Justified'
<1> USE DEF IInv, TypeOK, Frontier, LegalJob
<1>1. Len(job.v) \in Nat /\ DOMAIN job.v = 1..Len(job.v)
  OBVIOUS
<1>2. CASE NoSamples
  BY <1>1, <1>2 DEF NoSamples, Justified
<1>3. CASE KeepFirst
  BY <1>1, <1>3 DEF KeepFirst, Justified
<1>4. CASE Scan
  <2>0. job' = job /\ pc = "scan" /\ pc' = "scan" /\ prev < Len(job.v)
    BY <1>4 DEF Scan
  <2>1. CASE ~MustKeep /\ UNCHANGED <<kept, last>>
    BY <2>0, <2>1 DEF Justified
  <2>2. CASE MustKeep /\ kept' = kept \cup {prev} /\ last' = prev
    <3>1. SUFFICES ASSUME NEW j \in kept', j # 1, j \notin job.req
                   PROVE  /\ j < Len(job.v)
                          /\ \A i \in kept' : i < j =>
                               job.s < Dist(job.v[j + 1], job.v[i])
      BY <2>0 DEF Justified
    <3>2. CASE j \in kept
      BY <1>1, <2>0, <2>2, <3>1, <3>2 DEF Justified
    <3>3. CASE j = prev
      <4>1. job.s < Span
        BY <2>2, <3>1, <3>3 DEF MustKeep
      <4>2. ASSUME NEW i \in kept', i < j
            PROVE  job.s < Dist(job.v[j + 1], job.v[i])
        <5>1. i \in kept /\ i <= last
          BY <1>1, <2>0, <2>2, <3>3, <4>2
        <5>2. /\ i \in DOMAIN job.v /\ last \in DOMAIN job.v /\ prev + 1 \in DOMAIN job.v
              /\ last <= prev + 1
          BY <1>1, <2>0, <5>1
        <5>3. Span <= Dist(job.v[prev + 1], job.v[i])
          BY <5>1, <5>2, DistWidens DEF Span
        <5>4. job.v[prev + 1] \in Nat /\ job.v[last] \in Nat /\ job.v[i] \in Nat /\ job.s \in Nat
          BY <5>2
        <5>5. Span \in Nat /\ Dist(job.v[prev + 1], job.v[i]) \in Nat
          BY <5>4, DistNat DEF Span
        <5>6. QED
          BY <3>3, <4>1, <5>3, <5>4, <5>5
      <4>3. QED
        BY <2>0, <3>3, <4>2
    <3>4. QED
      BY <2>2, <3>2, <3>3
  <2>3. QED
    BY <1>4, <2>1, <2>2 DEF Scan
<1>5. CASE KeepLast
  BY <1>1, <1>5 DEF KeepLast, Justified
<1>6. CASE UNCHANGED vars
  BY <1>6 DEF vars, Justified
<1>7. QED
  BY <1>2, <1>3, <1>4, <1>5, <1>6 DEF Next, Step

\* The reasons the samples were kept for make the sub-sample sparse.
LEMMA JustifiedSparse == IInv => Sparse
<1> USE DEF IInv, TypeOK, LegalJob
<1>1. SUFFICES ASSUME IInv, NEW i \in kept, NEW j \in kept, NEW k \in kept,
                      i < j, j < k, j \notin job.req
               PROVE  job.s < Dist(job.v[k], job.v[i])
  BY DEF Sparse
<1>2. Len(job.v) \in Nat /\ DOMAIN job.v = 1..Len(job.v)
  BY <1>1
<1>3. j # 1 /\ j # Len(job.v) /\ j + 1 \in DOMAIN job.v /\ j + 1 <= k
  BY <1>1, <1>2
<1>4. job.s < Dist(job.v[j + 1], job.v[i])
  BY <1>1, <1>3 DEF Justified
<1>5. Dist(job.v[j + 1], job.v[i]) <= Dist(job.v[k], job.v[i])
  BY <1>1, <1>2, <1>3, DistWidens
<1>6. job.v[j + 1] \in Nat /\ job.v[k] \in Nat /\ job.v[i] \in Nat /\ job.s \in Nat
  BY <1>1, <1>3
<1>7. Dist(job.v[j + 1], job.v[i]) \in Nat /\ Dist(job.v[k], job.v[i]) \in Nat
  BY <1>6, DistNat
<1>8. QED
  BY <1>4, <1>5, <1>6, <1>7

\* The invariant holds in every behaviour of the scan.
LEMMA Invariance == Spec => []IInv
<1>1. IInv /\ [Next]_vars => IInv'
  BY StepFrontier, StepGap, StepJustified DEF IInv
<1>2. QED
  BY InitIInv, <1>1, PTL DEF Spec

\* The scan of sampling.h only ever holds positions of its argument and never
\* changes the call it serves.
THEOREM TypeCorrect == Spec => []TypeOK
<1>1. IInv => TypeOK
  BY DEF IInv
<1>2. QED
  BY Invariance, <1>1, PTL

\* Whatever the text and the rate, a dropped sample is followed within s text
\* positions of a kept one: the bound phi.h's level limit relies on.
THEOREM GapTheorem == Spec => []GapBounded
<1>1. IInv => GapBounded
  BY DEF IInv
<1>2. QED
  BY Invariance, <1>1, PTL

\* The extreme and the required samples survive every complete scan.
THEOREM ExtremesTheorem == Spec => []ExtremesKept
<1>1. IInv => ExtremesKept
  BY DEF IInv, Frontier, ExtremesKept
<1>2. QED
  BY Invariance, <1>1, PTL

\* The scan never keeps an interior sample without need.
THEOREM SparseTheorem == Spec => []Sparse
  BY Invariance, JustifiedSparse, PTL

=============================================================================
