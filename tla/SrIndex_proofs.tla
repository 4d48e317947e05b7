---------------------------- MODULE SrIndex_proofs ----------------------------
(***************************************************************************)
(* Proofs about an index from its input to its answers, for every text,    *)
(* class, rate and pattern.                                                *)
(*                                                                         *)
(* First the queries on a loaded index that is right (IndexIsRight): the   *)
(* runs of the BWT and how a range splits in them; the backward search and *)
(* the toehold, which keeps leading to the range's end; the pending calls  *)
(* of the walk, what popping the top run, shortening it and pushing a call *)
(* do to a stack that stands for the positions from first to next          *)
(* (StackInv); then one lemma per action (QueryInv, StepKeeps).            *)
(*                                                                         *)
(* Then the construction: what was built and loaded is right for the       *)
(* queries (LoadedIndexIsRight).  Then the whole: the safety properties    *)
(* hold from the input on, and it implements LocateSpec.                   *)
(***************************************************************************)
EXTENDS SrIndex, LocateInvariant, TextLemmas

-----------------------------------------------------------------------------
(* Positions and their images after some LF steps. *)

\* The origin of a position is the one position with the text position level further on.
LEMMA OriginIs ==
  ASSUME TextIsIndexed, NEW q \in DOMAIN sa, NEW level \in Nat, NEW p \in DOMAIN sa,
         sa[p] = (sa[q] + level) % ix.n
  PROVE  Origin(q, level) = p
<1>1. \A x, y \in DOMAIN sa : sa[x] = sa[y] => x = y
  BY DEF TextIsIndexed
<1>2. QED
  BY <1>1 DEF Origin

\* Every position has an origin, level text positions further on (modulo the size).
LEMMA OriginType ==
  ASSUME TextIsIndexed, NEW q \in DOMAIN sa, NEW level \in Nat
  PROVE  /\ Origin(q, level) \in DOMAIN sa
         /\ sa[Origin(q, level)] = (sa[q] + level) % ix.n
<1>1. sa[q] + level \in Int /\ ix.n \in Nat \ {0}
  BY TextSize DEF TextIsIndexed
<1>2. (sa[q] + level) % ix.n \in 0..(ix.n - 1)
  BY <1>1, ModDef
<1>3. PICK p \in DOMAIN sa : sa[p] = (sa[q] + level) % ix.n
  BY <1>2, SaIsOnto
<1>4. QED
  BY <1>3, OriginIs

\* No LF step leads from a position to itself.
LEMMA OriginZero ==
  ASSUME TextIsIndexed, NEW q \in DOMAIN sa
  PROVE  Origin(q, 0) = q
<1>1. sa[q] + 0 = sa[q] /\ sa[q] \in 0..(ix.n - 1) /\ ix.n \in Nat \ {0}
  BY TextSize DEF TextIsIndexed
<1>2. sa[q] = (sa[q] + 0) % ix.n
  BY <1>1, ModSmall
<1>3. QED
  BY <1>2, OriginIs

\* A position that a sampled tail is level LF steps behind is that tail's image.
LEMMA TailAtOrigin ==
  ASSUME TextIsIndexed, NEW q \in DOMAIN sa, NEW level \in Nat, NEW k,
         TailOf(k) \in DOMAIN sa, TailBehind(k, level, Origin(q, level))
  PROVE  q = TailOf(k)
<1>1. (sa[TailOf(k)] + level) % ix.n = (sa[q] + level) % ix.n
  BY OriginType DEF TailBehind
<1>2. sa[TailOf(k)] \in 0..(ix.n - 1) /\ sa[q] \in 0..(ix.n - 1) /\ ix.n \in Nat \ {0}
  BY TextSize DEF TextIsIndexed
<1>3. sa[TailOf(k)] = sa[q]
  BY <1>1, <1>2, ModCancel
<1>4. QED
  BY <1>3 DEF TextIsIndexed

\* One LF step more leads back to the same position.
LEMMA OriginOfLF ==
  ASSUME TextIsIndexed, LFIsRight, NEW q \in DOMAIN sa, NEW level \in Nat
  PROVE  Origin(LF(q), level + 1) = Origin(q, level)
<1>1. LF(q) \in DOMAIN sa /\ sa[LF(q)] = (sa[q] + (-1)) % ix.n
  BY TextPosIsBefore DEF LFIsRight
<1>2. ix.n \in Nat \ {0} /\ sa[q] + (-1) \in Int /\ level + 1 \in Nat
  BY TextSize DEF TextIsIndexed
<1>3. (((sa[q] + (-1)) % ix.n) + (level + 1)) % ix.n = ((sa[q] + (-1)) + (level + 1)) % ix.n
  BY <1>2, ModMod
<1>4. (sa[q] + (-1)) + (level + 1) = sa[q] + level
  BY TextSize
<1>5. sa[Origin(q, level)] = (sa[LF(q)] + (level + 1)) % ix.n
  BY <1>1, <1>3, <1>4, OriginType
<1>6. QED
  BY <1>1, <1>2, <1>5, OriginType, OriginIs

-----------------------------------------------------------------------------
(* The runs of the BWT. *)

\* The tail of a run is a position.
LEMMA TailType ==
  ASSUME TextIsIndexed, RunsPartition, NEW k \in DOMAIN ix.run
  PROVE  /\ TailOf(k) \in DOMAIN sa /\ ix.run[k].start <= TailOf(k) /\ TailOf(k) < ix.run[k].end
         /\ ix.run[k].end = TailOf(k) + 1 /\ ix.bwt[TailOf(k)] = ix.run[k].c
<1>1. /\ ix.run[k].start < ix.run[k].end /\ ix.run[k].end <= ix.n
      /\ \A p \in ix.run[k].start .. (ix.run[k].end - 1) : ix.bwt[p] = ix.run[k].c
  BY DEF RunsPartition
<1>2. ix.run[k].start \in Nat /\ ix.run[k].end \in Nat /\ DOMAIN sa = 0..(ix.n - 1) /\ ix.n \in Nat
  BY RunTypes, TextSize
<1>3. TailOf(k) \in ix.run[k].start .. (ix.run[k].end - 1) /\ TailOf(k) = ix.run[k].end - 1
  BY <1>1, <1>2 DEF TailOf
<1>4. QED
  BY <1>1, <1>2, <1>3

\* A position and one after it are in the same run or in runs in the same order.
LEMMA RunAtMonotone ==
  ASSUME TextIsIndexed, RunsPartition, NEW p \in DOMAIN sa, NEW q \in DOMAIN sa, p <= q
  PROVE  RunAt(p) <= RunAt(q)
<1>1. \A i, j \in DOMAIN ix.run : i < j => ix.run[i].end <= ix.run[j].start
  BY DEF RunsPartition
<1>2. RunAt(p) \in DOMAIN ix.run /\ RunAt(q) \in DOMAIN ix.run
      /\ ix.run[RunAt(p)].start <= p /\ q < ix.run[RunAt(q)].end
  BY RunAtIs
<1>3. ~(RunAt(q) < RunAt(p))
  BY <1>1, <1>2, RunTypes, TextSize
<1>4. QED
  BY <1>2, <1>3, RunTypes

-----------------------------------------------------------------------------
(* A range split in the runs of the BWT. *)

\* Split cuts a range in runs of RunRecord, each a piece of the BWT run it names,
\* one after another without a gap.
LEMMA SplitIs ==
  ASSUME TextIsIndexed, RunsPartition,
         NEW first \in Nat, NEW last \in Nat, first < last, last <= ix.n
  PROVE  /\ Split(first, last) \in Seq(RunRecord) /\ Split(first, last) # <<>>
         /\ \A k \in DOMAIN Split(first, last) :
              LET run == Split(first, last)[k]
              IN /\ first <= run.start /\ run.start < run.end /\ run.end <= last
                 /\ PieceOf(run)
         /\ \A k, m \in DOMAIN Split(first, last) :
              k < m => Split(first, last)[k].end <= Split(first, last)[m].start
         /\ \A p \in first .. (last - 1) : \E k \in DOMAIN Split(first, last) :
              Split(first, last)[k].start <= p /\ p < Split(first, last)[k].end
<1> DEFINE a == RunAt(first)
           b == RunAt(last - 1)
           N == b - a + 1
           S == Split(first, last)
<1>1. first \in DOMAIN sa /\ last - 1 \in DOMAIN sa /\ first <= last - 1
  BY TextSize
<1>2. /\ a \in DOMAIN ix.run /\ ix.run[a].start <= first /\ first < ix.run[a].end
      /\ b \in DOMAIN ix.run /\ ix.run[b].start <= last - 1 /\ last - 1 < ix.run[b].end
      /\ a <= b
  BY <1>1, RunAtIs, RunAtMonotone
<1>3. /\ DOMAIN ix.run = 0..(Size(ix.run) - 1) /\ Size(ix.run) \in Nat
      /\ \A k \in DOMAIN ix.run : ix.run[k].start \in Nat /\ ix.run[k].end \in Nat
      /\ \A k \in DOMAIN ix.run : ix.run[k].start < ix.run[k].end
      /\ \A k, m \in DOMAIN ix.run : k < m => ix.run[k].end <= ix.run[m].start
  <2>1. \A k \in DOMAIN ix.run : ix.run[k].start < ix.run[k].end
    BY DEF RunsPartition
  <2>2. \A k, m \in DOMAIN ix.run : k < m => ix.run[k].end <= ix.run[m].start
    BY DEF RunsPartition
  <2>3. QED
    BY <2>1, <2>2, RunTypes
<1> DEFINE piece(k) ==
             [start |-> IF k = 1 THEN first ELSE ix.run[a + k - 1].start,
              end   |-> IF a + k - 1 = b THEN last ELSE ix.run[a + k - 1].end,
              rnk   |-> a + k - 1,
              isEnd |-> ix.run[a + k - 1].end <= last]
<1>4. S = [k \in 1..N |-> piece(k)]
  BY DEF Split
<1>5. a \in Nat /\ b \in Nat /\ N \in Nat /\ N >= 1
  BY <1>2, <1>3
<1>6. ASSUME NEW k \in 1..N
      PROVE  /\ a + k - 1 \in DOMAIN ix.run /\ a <= a + k - 1 /\ a + k - 1 <= b
             /\ a + k - 1 \in Nat /\ (k = 1 <=> a + k - 1 = a)
  <2>1. k \in Int /\ 1 <= k /\ k <= b - a + 1
    BY <1>5
  <2> HIDE DEF a, b, N
  <2>2. a <= a + k - 1 /\ a + k - 1 <= b /\ a + k - 1 \in Nat /\ (k = 1 <=> a + k - 1 = a)
    BY <1>5, <2>1
  <2>3. QED
    BY <1>2, <1>3, <1>5, <2>2
<1>7. ASSUME NEW k \in 1..N
      PROVE  /\ piece(k) \in RunRecord
             /\ first <= piece(k).start /\ piece(k).start < piece(k).end /\ piece(k).end <= last
             /\ PieceOf(piece(k))
  <2> DEFINE r == a + k - 1
  <2>1. r \in DOMAIN ix.run /\ a <= r /\ r <= b /\ (k = 1 <=> r = a) /\ r \in Nat
    BY <1>3, <1>6
  <2>2. piece(k) = [start |-> IF k = 1 THEN first ELSE ix.run[r].start,
                    end |-> IF r = b THEN last ELSE ix.run[r].end,
                    rnk |-> r, isEnd |-> ix.run[r].end <= last]
    OBVIOUS
  <2> HIDE DEF r, a, b, N, piece
  <2> ix.run[r].start \in Nat /\ ix.run[r].end \in Nat
    BY <1>3, <2>1
  <2>3. ASSUME r # a
        PROVE  first <= ix.run[r].start
    <3>1. a < r
      BY <1>5, <2>1, <2>3
    <3>2. ix.run[a].end <= ix.run[r].start
      BY <1>2, <1>3, <2>1, <3>1
    <3>3. ix.run[a].end \in Nat
      BY <1>2, <1>3
    <3>4. QED
      BY <1>2, <3>2, <3>3
  <2>4. ASSUME r # b
        PROVE  ix.run[r].end <= last - 1
    <3>1. r < b
      BY <1>5, <2>1, <2>4
    <3>2. ix.run[r].end <= ix.run[b].start
      BY <1>2, <1>3, <2>1, <3>1
    <3>3. ix.run[b].start \in Nat
      BY <1>2, <1>3
    <3>4. QED
      BY <1>2, <3>2, <3>3
  <2>5. piece(k) \in RunRecord
    BY <1>3, <2>1, <2>2 DEF RunRecord
  <2>6. first <= piece(k).start /\ piece(k).start < piece(k).end /\ piece(k).end <= last
    BY <1>2, <1>3, <2>1, <2>2, <2>3, <2>4
  <2>7. PieceOf(piece(k))
    <3>1. ix.run[r].start <= piece(k).start
      BY <1>2, <1>3, <2>1, <2>2
    <3>2. piece(k).end <= ix.run[r].end
      BY <1>2, <1>3, <2>1, <2>2
    <3>3. ix.run[r].end <= last <=> piece(k).end = ix.run[r].end
      BY <1>2, <1>3, <2>1, <2>2, <2>4
    <3>4. piece(k).rnk = r /\ piece(k).isEnd = (ix.run[r].end <= last)
      BY <2>2
    <3>5. QED
      BY <2>1, <3>1, <3>2, <3>3, <3>4 DEF PieceOf
  <2>8. QED
    BY <2>5, <2>6, <2>7
<1> HIDE DEF N, S, piece
<1>8. S \in Seq(RunRecord) /\ DOMAIN S = 1..N /\ S # <<>>
  <2>1. S \in [1..N -> RunRecord]
    BY <1>4, <1>7
  <2>2. QED
    BY <1>5, <2>1
<1>9. \A k \in DOMAIN S : S[k] = piece(k)
  BY <1>4, <1>8
<1>10. ASSUME NEW k \in 1..N, NEW m \in 1..N, k < m
       PROVE  piece(k).end <= piece(m).start
  <2>1. /\ a + k - 1 \in DOMAIN ix.run /\ a + m - 1 \in DOMAIN ix.run
        /\ a + k - 1 < a + m - 1 /\ a + m - 1 <= b /\ m # 1 /\ a + k - 1 # b
    <3> HIDE DEF a, b
    <3>1. k \in Int /\ m \in Int /\ 1 <= k
      BY <1>5
    <3>2. QED
      BY <1>5, <1>6, <1>10, <3>1
  <2>2. piece(k).end = ix.run[a + k - 1].end /\ piece(m).start = ix.run[a + m - 1].start
    BY <2>1 DEF piece
  <2>3. QED
    BY <1>3, <2>1, <2>2
<1>11. ASSUME NEW p \in first .. (last - 1)
       PROVE  \E k \in 1..N : piece(k).start <= p /\ p < piece(k).end
  <2> DEFINE r == RunAt(p)
             k == r - a + 1
  <2>1. p \in DOMAIN sa /\ first <= p /\ p <= last - 1
    BY <1>1, TextSize
  <2>2. r \in DOMAIN ix.run /\ ix.run[r].start <= p /\ p < ix.run[r].end /\ a <= r /\ r <= b
    BY <1>1, <2>1, RunAtIs, RunAtMonotone
  <2>3. k \in 1..N /\ a + k - 1 = r
    <3>1. r \in Nat
      BY <1>3, <2>2
    <3> HIDE DEF a, b, r
    <3>2. QED
      BY <1>5, <2>2, <3>1 DEF N
  <2>4. piece(k).start <= p /\ p < piece(k).end
    <3> HIDE DEF r, k
    <3>1. piece(k).start = IF k = 1 THEN first ELSE ix.run[r].start
      BY <2>3 DEF piece
    <3>2. piece(k).end = IF r = b THEN last ELSE ix.run[r].end
      BY <2>3 DEF piece
    <3>3. QED
      BY <2>1, <2>2, <3>1, <3>2
  <2>5. QED
    BY <2>3, <2>4
<1>12. QED
  <2> HIDE DEF a, b
  <2>1. \A k \in DOMAIN S : /\ first <= S[k].start /\ S[k].start < S[k].end /\ S[k].end <= last
                            /\ PieceOf(S[k])
    BY <1>7, <1>8, <1>9
  <2>2. \A k, m \in DOMAIN S : k < m => S[k].end <= S[m].start
    BY <1>8, <1>9, <1>10
  <2>3. \A p \in first .. (last - 1) : \E k \in DOMAIN S : S[k].start <= p /\ p < S[k].end
    BY <1>8, <1>9, <1>11
  <2>4. QED
    BY <1>8, <2>1, <2>2, <2>3 DEF S

-----------------------------------------------------------------------------
(* LF on ranges. *)

\* LF takes a piece of a run to a range of the same length, position by position.
LEMMA LFRunIs ==
  ASSUME TextIsIndexed, RunsPartition, LFIsRight, NEW run \in RunRecord,
         run.start < run.end, PieceOf(run)
  PROVE  /\ LFRun(run) \in RunRecord
         /\ LFRun(run).end <= ix.n
         /\ LFRun(run).end - LFRun(run).start = run.end - run.start
         /\ \A q \in run.start .. (run.end - 1) :
              q \in DOMAIN sa /\ LFRun(run).start + (q - run.start) = LF(q)
<1> DEFINE k == run.rnk
           c == ix.run[k].c
           a == run.start
           b == run.end
<1>1. /\ k \in DOMAIN ix.run /\ ix.run[k].start <= a /\ b <= ix.run[k].end
      /\ a \in Nat /\ b \in Nat /\ a < b
  BY DEF PieceOf, RunRecord
<1>2. /\ ix.run[k].start \in Nat /\ ix.run[k].end \in Nat /\ ix.run[k].end <= ix.n
      /\ ix.n \in Nat /\ DOMAIN sa = 0..(ix.n - 1)
      /\ \A p \in ix.run[k].start .. (ix.run[k].end - 1) : ix.bwt[p] = c
  BY <1>1, RunTypes, TextSize DEF RunsPartition
<1> HIDE DEF a, b, c, k
<1>3. b <= ix.n
  BY <1>1, <1>2
<1>4. \A q \in a .. (b - 1) : q \in DOMAIN sa /\ ix.bwt[q] = c
  BY <1>1, <1>2
<1>5. ASSUME NEW q \in a .. b
      PROVE  Rank(c, q) = Rank(c, a) + (q - a)
  <2>1. q \in Nat /\ a <= q /\ q <= ix.n /\ \A p \in a .. (q - 1) : ix.bwt[p] = c
    BY <1>1, <1>2, <1>3, <1>4
  <2>2. QED
    BY <1>1, <2>1, RankInRun
<1>6. ix.C[c] \in Nat /\ Rank(c, a) \in Nat
  <2>1. a \in DOMAIN sa /\ ix.bwt[a] = c
    BY <1>1, <1>4
  <2>2. QED
    BY <2>1, BwtType, RankType
<1>7. LFRun(run) = [start |-> ix.C[c] + Rank(c, a), end |-> ix.C[c] + Rank(c, b),
                    rnk |-> 0, isEnd |-> FALSE]
  BY DEF LFRun, a, b, c, k
<1>8. Rank(c, b) = Rank(c, a) + (b - a)
  BY <1>1, <1>5
<1>9. \A q \in a .. (b - 1) : LFRun(run).start + (q - a) = LF(q)
  BY <1>1, <1>4, <1>5, <1>6, <1>7, LFIs
<1>10. LFRun(run).end <= ix.n
  <2>1. b - 1 \in a .. (b - 1)
    BY <1>1
  <2>2. LF(b - 1) \in 0..(ix.n - 1)
    BY <1>2, <1>4, <2>1 DEF LFIsRight
  <2>3. LFRun(run).start + ((b - 1) - a) = LF(b - 1)
    BY <1>9, <2>1
  <2>4. QED
    BY <1>1, <1>2, <1>6, <1>7, <1>8, <2>2, <2>3
<1>11. LFRun(run) \in RunRecord /\ LFRun(run).end - LFRun(run).start = b - a
  BY <1>1, <1>6, <1>7, <1>8 DEF RunRecord
<1>12. QED
  BY <1>4, <1>9, <1>10, <1>11 DEF a, b

-----------------------------------------------------------------------------
(* Runs visited at a level. *)

\* A part of an interval that LF kept together was kept together as well, and lies in
\* the image at the same offset.
LEMMA ImagePart ==
  ASSUME TextIsIndexed, NEW first \in Nat, NEW last \in Nat, last <= ix.n,
         NEW level \in Nat, Image(first, last, level),
         NEW a \in Nat, NEW b \in Nat, first <= a, a < b, b <= last
  PROVE  /\ Image(a, b, level)
         /\ Origin(a, level) = Origin(first, level) + (a - first)
<1>1. \A q \in first .. (last - 1) : Origin(q, level) = Origin(first, level) + (q - first)
  BY DEF Image
<1>2. first \in DOMAIN sa /\ a \in first .. (last - 1)
  BY TextSize
<1>3. Origin(first, level) \in Nat
  <2>1. Origin(first, level) \in DOMAIN sa
    BY <1>2, OriginType
  <2>2. QED
    BY <2>1, TextSize
<1>4. Origin(a, level) = Origin(first, level) + (a - first)
  BY <1>1, <1>2
<1>5. ASSUME NEW q \in a .. (b - 1)
      PROVE  /\ Origin(q, level) = Origin(a, level) + (q - a)
             /\ \A k \in ix.sampled, l \in 0..(level - 1) : ~TailBehind(k, l, Origin(q, level))
  <2>1. q \in first .. (last - 1)
    OBVIOUS
  <2>2. Origin(q, level) = Origin(first, level) + (q - first)
    BY <1>1, <2>1
  <2>3. Origin(q, level) = Origin(a, level) + (q - a)
    BY <1>3, <1>4, <2>1, <2>2
  <2>4. QED
    BY <2>1, <2>3 DEF Image
<1>6. QED
  BY <1>4, <1>5 DEF Image

\* Before any LF step each position stands for itself.
LEMMA ImageZero ==
  ASSUME TextIsIndexed, NEW first \in Nat, NEW last \in Nat, last <= ix.n
  PROVE  Image(first, last, 0)
<1> SUFFICES ASSUME NEW q \in first .. (last - 1)
             PROVE  /\ Origin(q, 0) = Origin(first, 0) + (q - first)
                    /\ \A k \in ix.sampled, l \in 0..(0 - 1) : ~TailBehind(k, l, Origin(q, 0))
  BY DEF Image
<1>1. q \in DOMAIN sa /\ first \in DOMAIN sa
  BY TextSize
<1>2. Origin(q, 0) = q /\ Origin(first, 0) = first
  BY <1>1, OriginZero
<1>3. 0..(0 - 1) = {}
  OBVIOUS
<1>4. QED
  BY <1>2, <1>3

\* A run that is not sampled has no sampled tail in it.
LEMMA NoTailInside ==
  ASSUME TextIsIndexed, RunsPartition, SamplesAreRight, NEW run \in RunRecord,
         run.start < run.end, PieceOf(run), Sampled(run) = NoSample,
         NEW k \in ix.sampled, NEW q \in run.start .. (run.end - 1)
  PROVE  q # TailOf(k)
<1> SUFFICES ASSUME q = TailOf(k) PROVE FALSE
  OBVIOUS
<1>1. k \in DOMAIN ix.run /\ GetSample(k) = TextPos(sa, TailOf(k))
  BY DEF SamplesAreRight
<1>2. /\ ix.run[k].start <= q /\ q < ix.run[k].end /\ ix.run[k].end = q + 1 /\ q \in DOMAIN sa
  BY <1>1, TailType
<1>3. /\ run.rnk \in DOMAIN ix.run
      /\ ix.run[run.rnk].start <= run.start /\ run.end <= ix.run[run.rnk].end
      /\ run.isEnd <=> run.end = ix.run[run.rnk].end
      /\ run.start \in Nat /\ run.end \in Nat /\ q \in Nat
  BY DEF PieceOf, RunRecord
<1>4. k = run.rnk
  <2>1. ix.run[run.rnk].start <= q /\ q < ix.run[run.rnk].end
    BY <1>3, RunTypes
  <2>2. QED
    BY <1>1, <1>2, <1>3, <2>1, RunsDisjoint
<1>5. run.end = ix.run[run.rnk].end
  BY <1>2, <1>3, <1>4, RunTypes
<1>6. Sampled(run) = GetSample(k)
  BY <1>3, <1>4, <1>5 DEF Sampled
<1>7. TextPos(sa, TailOf(k)) \in 0..(ix.n - 1)
  BY <1>1, TailType, TextSize
<1>8. QED
  BY <1>1, <1>6, <1>7 DEF NoSample

\* One LF step from a run that is not sampled leads to a run that stands for the
\* same positions, one level deeper.
LEMMA ImageOfLF ==
  ASSUME TextIsIndexed, RunsPartition, LFIsRight, SamplesAreRight, NEW run \in RunRecord,
         run.start < run.end, run.end <= ix.n, PieceOf(run), Sampled(run) = NoSample,
         NEW level \in Nat, Image(run.start, run.end, level)
  PROVE  /\ Image(LFRun(run).start, LFRun(run).end, level + 1)
         /\ Origin(LFRun(run).start, level + 1) = Origin(run.start, level)
<1> DEFINE a == run.start
           b == run.end
           s == LFRun(run).start
           e == LFRun(run).end
<1>1. a \in Nat /\ b \in Nat /\ s \in Nat /\ e \in Nat /\ a < b /\ e - s = b - a
      /\ \A q \in a .. (b - 1) : q \in DOMAIN sa /\ s + (q - a) = LF(q)
  BY LFRunIs DEF RunRecord
<1>2. \A q \in a .. (b - 1) : /\ Origin(q, level) = Origin(a, level) + (q - a)
                              /\ Origin(LF(q), level + 1) = Origin(q, level)
  BY <1>1, OriginOfLF DEF Image
<1>3. Origin(s, level + 1) = Origin(a, level)
  <2>1. a \in a .. (b - 1) /\ s + (a - a) = s
    BY <1>1
  <2>2. LF(a) = s
    BY <1>1, <2>1
  <2>3. QED
    BY <1>2, <2>1, <2>2
<1>4. ASSUME NEW x \in s .. (e - 1)
      PROVE  /\ Origin(x, level + 1) = Origin(s, level + 1) + (x - s)
             /\ \A k \in ix.sampled, l \in 0..((level + 1) - 1) :
                  ~TailBehind(k, l, Origin(x, level + 1))
  <2> DEFINE q == a + (x - s)
  <2> HIDE DEF a, b, s, e
  <2>1. q \in a .. (b - 1) /\ s + (q - a) = x /\ q - a = x - s
    BY <1>1
  <2>2. LF(q) = x /\ q \in DOMAIN sa
    BY <1>1, <2>1
  <2>3. Origin(x, level + 1) = Origin(q, level)
    BY <1>2, <2>1, <2>2
  <2>4. Origin(x, level + 1) = Origin(s, level + 1) + (x - s)
    BY <1>2, <1>3, <2>1, <2>3
  <2>5. ASSUME NEW k \in ix.sampled, NEW l \in 0..((level + 1) - 1)
        PROVE  ~TailBehind(k, l, Origin(q, level))
    <3>1. CASE l = level
      <4>1. q # TailOf(k)
        BY <2>1, NoTailInside DEF a, b
      <4>2. TailOf(k) \in DOMAIN sa
        BY TailType DEF SamplesAreRight
      <4>3. QED
        BY <2>2, <3>1, <4>1, <4>2, TailAtOrigin
    <3>2. CASE l # level
      <4>1. l \in 0..(level - 1)
        BY <3>2
      <4>2. QED
        BY <2>1, <4>1 DEF Image, a, b
    <3>3. QED
      BY <3>1, <3>2
  <2>6. QED
    BY <2>3, <2>4, <2>5
<1>5. QED
  BY <1>3, <1>4 DEF Image

-----------------------------------------------------------------------------
(* One step of the search on the range. *)

\* The step counts the symbols before both ends of the range.
LEMMA LFRangeIs ==
  ASSUME TextIsIndexed, NEW x \in Symbols(text),
         NEW rng \in [start : Nat, end : Nat], rng.start < rng.end, rng.end <= ix.n
  PROVE  LET c    == Comp(text, x)
             next == LFRange(rng, c)
         IN /\ next.start = ix.C[c] + Rank(c, rng.start) /\ next.end = ix.C[c] + Rank(c, rng.end)
            /\ next.run = RankReport(c, rng.end - 1).run
            /\ next.cover <=> ix.bwt[rng.end - 1] = c
            /\ ix.C[c] \in Nat /\ Rank(c, rng.start) \in Nat /\ Rank(c, rng.end) \in Nat
            /\ next.start \in Nat /\ next.end \in Nat /\ next.start <= next.end
<1> DEFINE c == Comp(text, x)
           next == LFRange(rng, c)
<1>1. rng.start \in Nat /\ rng.end \in Nat /\ rng.end - 1 \in DOMAIN sa
  BY TextSize
<1>2. ix.C[c] \in Nat /\ Rank(c, rng.start) \in Nat /\ Rank(c, rng.end) \in Nat
      /\ Rank(c, rng.end - 1) \in Nat
  BY CumulativeIs, RankType
<1>3. Rank(c, rng.end) = Rank(c, rng.end - 1) + (IF ix.bwt[rng.end - 1] = c THEN 1 ELSE 0)
  <2>1. Rank(c, rng.end - 1 + 1) = Rank(c, rng.end - 1) + (IF ix.bwt[rng.end - 1] = c THEN 1 ELSE 0)
    BY <1>1, RankStep
  <2>2. rng.end - 1 + 1 = rng.end
    BY <1>1
  <2>3. QED
    BY <2>1, <2>2
<1>4. Rank(c, rng.start) <= Rank(c, rng.end)
  BY <1>1, RankMonotone
<1>5. /\ next.start = ix.C[c] + Rank(c, rng.start)
      /\ next.end = ix.C[c] + Rank(c, rng.end - 1) + (IF ix.bwt[rng.end - 1] = c THEN 1 ELSE 0)
      /\ next.run = RankReport(c, rng.end - 1).run
      /\ next.cover <=> ix.bwt[rng.end - 1] = c
  BY DEF LFRange, RankReport
<1> HIDE DEF c, next
<1>6. next.end = ix.C[c] + Rank(c, rng.end)
  BY <1>2, <1>3, <1>5
<1>7. QED
  BY <1>2, <1>4, <1>5, <1>6 DEF c, next

-----------------------------------------------------------------------------
(* The run that the report of a step names. *)

\* The run that selectOnRuns finds for the report at pos is the last run of the
\* symbol that starts no later than pos.
LEMMA SelectIs ==
  ASSUME TextIsIndexed, RunsPartition, NEW c, NEW pos \in DOMAIN sa,
         NEW m \in DOMAIN ix.run, ix.run[m].c = c, ix.run[m].start <= pos
  PROVE  LET k == SelectOnRuns(RankReport(c, pos).run, c)
         IN /\ k \in DOMAIN ix.run /\ ix.run[k].c = c /\ ix.run[k].start <= pos
            /\ \A j \in DOMAIN ix.run : ix.run[j].c = c /\ ix.run[j].start <= pos => j <= k
<1> DEFINE T == {k \in DOMAIN ix.run : ix.run[k].c = c /\ ix.run[k].start <= pos}
           Upto(k) == {j \in 0..k : ix.run[j].c = c}
           rnk == RankReport(c, pos).run
<1>1. /\ Size(ix.run) \in Nat /\ Size(ix.run) > 0 /\ DOMAIN ix.run = 0..(Size(ix.run) - 1)
      /\ \A k \in DOMAIN ix.run : ix.run[k].start \in Nat /\ ix.run[k].end \in Nat
      /\ pos \in Nat
  BY RunTypes, TextSize
<1>2. PICK M \in T : \A j \in T : j <= M
  <2>1. T \in SUBSET (0..(Size(ix.run) - 1)) /\ T # {} /\ Size(ix.run) - 1 \in Nat
    BY <1>1
  <2> HIDE DEF T
  <2>2. QED
    BY <2>1, MaxExists
<1>3. M \in DOMAIN ix.run /\ M \in Nat /\ ix.run[M].c = c /\ ix.run[M].start <= pos
  BY <1>1
<1>4. Upto(M) = T
  <2>1. ASSUME NEW j \in Upto(M) PROVE j \in T
    <3>1. j \in DOMAIN ix.run /\ j \in Nat /\ j <= M /\ ix.run[j].c = c
      BY <1>1, <1>3, <2>1
    <3>2. ix.run[j].start <= ix.run[M].start
      <4>1. CASE j = M
        BY <1>1, <1>3, <4>1
      <4>2. CASE j < M
        <5> HIDE DEF T, Upto
        <5>1. ix.run[j].end <= ix.run[M].start /\ ix.run[j].start < ix.run[j].end
          BY <1>3, <3>1, <4>2 DEF RunsPartition
        <5>2. QED
          BY <1>1, <1>3, <3>1, <5>1
      <4>3. QED
        BY <1>3, <3>1, <4>1, <4>2
    <3>3. QED
      BY <1>1, <1>3, <3>1, <3>2
  <2>2. ASSUME NEW j \in T PROVE j \in Upto(M)
    <3>1. j \in Nat /\ j <= M /\ ix.run[j].c = c
      BY <1>1, <1>2
    <3>2. QED
      BY <1>3, <3>1
  <2> HIDE DEF Upto, T
  <2>3. QED
    BY <2>1, <2>2
<1>5. rnk = Cardinality(T)
  BY DEF RankReport
<1>6. \A k \in DOMAIN ix.run : IsFiniteSet(Upto(k))
  <2> SUFFICES ASSUME NEW k \in DOMAIN ix.run PROVE IsFiniteSet(Upto(k))
    OBVIOUS
  <2>1. IsFiniteSet(0..k)
    BY <1>1, FS_Interval
  <2>2. Upto(k) \in SUBSET (0..k)
    OBVIOUS
  <2>3. QED
    BY <2>1, <2>2, FS_Subset
<1>7. ASSUME NEW j \in DOMAIN ix.run, NEW k \in DOMAIN ix.run, ix.run[k].c = c, j < k
      PROVE  Cardinality(Upto(j)) < Cardinality(Upto(k))
  <2>1. j \in Nat /\ k \in Nat
    BY <1>1
  <2>2. k \notin Upto(j) /\ Upto(j) \cup {k} \subseteq Upto(k)
    BY <1>7, <2>1
  <2> HIDE DEF Upto
  <2>3. Cardinality(Upto(j) \cup {k}) = Cardinality(Upto(j)) + 1
    BY <1>6, <2>2, FS_AddElement
  <2>4. Cardinality(Upto(j) \cup {k}) <= Cardinality(Upto(k))
    BY <1>6, <2>2, FS_Subset
  <2>5. Cardinality(Upto(j)) \in Nat /\ Cardinality(Upto(k)) \in Nat
    BY <1>6, FS_CardinalityType
  <2>6. QED
    BY <2>3, <2>4, <2>5
<1>8. ASSUME NEW k \in DOMAIN ix.run, ix.run[k].c = c, Cardinality(Upto(k)) = rnk
      PROVE  k = M
  <2>1. k \in Nat /\ Cardinality(Upto(k)) = Cardinality(Upto(M)) /\ Cardinality(Upto(M)) \in Nat
    <3>1. k \in Nat
      BY <1>1
    <3>2. IsFiniteSet(Upto(M))
      BY <1>3, <1>6
    <3> HIDE DEF Upto, rnk, T
    <3>3. Cardinality(Upto(k)) = Cardinality(Upto(M))
      BY <1>4, <1>5, <1>8
    <3>4. QED
      BY <3>1, <3>2, <3>3, FS_CardinalityType
  <2>2. ~(k < M)
    BY <1>3, <1>7, <2>1
  <2>3. ~(M < k)
    BY <1>3, <1>7, <1>8, <2>1
  <2>4. QED
    BY <1>3, <2>1, <2>2, <2>3
<1>9. SelectOnRuns(rnk, c) = M
  <2>1. Cardinality(Upto(M)) = rnk
    BY <1>4, <1>5
  <2> HIDE DEF rnk
  <2>2. QED
    BY <1>3, <1>8, <2>1 DEF SelectOnRuns
<1>10. QED
  BY <1>2, <1>3, <1>9

\* The step takes the range to the images of its positions with the symbol.
LEMMA RangeTakes ==
  ASSUME TextIsIndexed, LFIsRight, NEW x \in Symbols(text),
         NEW rng \in [start : Nat, end : Nat], rng.start < rng.end, rng.end <= ix.n,
         NEW q \in DOMAIN sa
  PROVE  InRange(LFRange(rng, Comp(text, x)), LF(q)) <=> InRange(rng, q) /\ ix.bwt[q] = Comp(text, x)
<1> DEFINE c == Comp(text, x)
           next == LFRange(rng, c)
<1>1. /\ next.start = ix.C[c] + Rank(c, rng.start) /\ next.end = ix.C[c] + Rank(c, rng.end)
      /\ rng.start \in Nat /\ rng.end \in Nat
  BY LFRangeIs
<1>2. ix.C[c] + Rank(c, rng.start) <= LF(q) /\ LF(q) < ix.C[c] + Rank(c, rng.end)
        <=> rng.start <= q /\ q < rng.end /\ ix.bwt[q] = c
  BY <1>1, NextRange
<1> HIDE DEF next, c
<1>3. InRange(next, LF(q)) <=> InRange(rng, q) /\ ix.bwt[q] = c
  BY <1>1, <1>2 DEF InRange
<1>4. QED
  BY <1>3 DEF next, c

\* A range that LF reaches is not empty exactly if it holds the image of a position.
LEMMA NextHolds ==
  ASSUME TextIsIndexed, LFIsRight, NEW x \in Symbols(text),
         NEW rng \in [start : Nat, end : Nat], rng.start < rng.end, rng.end <= ix.n,
         LFRange(rng, Comp(text, x)).start < LFRange(rng, Comp(text, x)).end
  PROVE  /\ LFRange(rng, Comp(text, x)).end - 1 \in DOMAIN sa
         /\ \E q \in DOMAIN sa : /\ InRange(rng, q) /\ ix.bwt[q] = Comp(text, x)
                                 /\ LF(q) = LFRange(rng, Comp(text, x)).end - 1
<1> DEFINE c == Comp(text, x)
           next == LFRange(rng, c)
<1>1. next.start \in Nat /\ next.end \in Nat /\ next.end <= ix.n /\ next.start < next.end
  BY LFRangeIs, BlockInside
<1>2. next.end - 1 \in DOMAIN sa /\ InRange(next, next.end - 1)
  <2> HIDE DEF next
  <2> QED BY <1>1, TextSize DEF InRange
<1>3. PICK q \in DOMAIN sa : LF(q) = next.end - 1
  BY <1>2, LFIsOnto
<1>4. InRange(rng, q) /\ ix.bwt[q] = c
  BY <1>2, <1>3, RangeTakes
<1>5. QED
  BY <1>2, <1>3, <1>4

\* A special step, or the first one over the whole BWT: the run of its report
\* ends with the position that goes to the end of the new range.
LEMMA SpecialStep ==
  ASSUME TextIsIndexed, RunsPartition, LFIsRight, NEW x \in Symbols(text),
         NEW rng \in [start : Nat, end : Nat], rng.start < rng.end, rng.end <= ix.n,
         LFRange(rng, Comp(text, x)).start < LFRange(rng, Comp(text, x)).end,
         ~LFRange(rng, Comp(text, x)).cover \/ rng.end = ix.n
  PROVE  LET c    == Comp(text, x)
             next == LFRange(rng, c)
             k    == SelectOnRuns(next.run, c)
         IN k \in DOMAIN ix.run /\ LF(TailOf(k)) = next.end - 1
<1> DEFINE c == Comp(text, x)
           next == LFRange(rng, c)
           last == rng.end - 1
           k == SelectOnRuns(next.run, c)
<1>1. PICK q \in DOMAIN sa : InRange(rng, q) /\ ix.bwt[q] = c /\ LF(q) = next.end - 1
  BY NextHolds
<1>2. /\ next.run = RankReport(c, last).run /\ (next.cover <=> ix.bwt[last] = c)
  BY LFRangeIs
<1>3. /\ rng.start \in Nat /\ rng.end \in Nat /\ last \in DOMAIN sa /\ last \in Nat /\ q \in Nat /\ q <= last
      /\ ix.n \in Nat /\ DOMAIN sa = 0..(ix.n - 1)
  BY <1>1, TextSize DEF InRange
<1> DEFINE m == RunAt(q)
<1>4. m \in DOMAIN ix.run /\ ix.run[m].start <= q /\ q < ix.run[m].end /\ ix.run[m].c = c
  BY <1>1, RunAtIs
<1>5. ix.run[m].start \in Nat /\ ix.run[m].start <= last
  BY <1>3, <1>4, RunTypes
<1>6. /\ k \in DOMAIN ix.run /\ ix.run[k].c = c /\ ix.run[k].start <= last
      /\ \A j \in DOMAIN ix.run : ix.run[j].c = c /\ ix.run[j].start <= last => j <= k
  <2>1. m \in DOMAIN ix.run /\ ix.run[m].c = c /\ ix.run[m].start <= last
    BY <1>4, <1>5
  <2> HIDE DEF m, c, last, next
  <2>2. QED
    BY <1>2, <1>3, <2>1, SelectIs
<1> HIDE DEF c, next, last, k, m
<1>7. m <= k
  BY <1>4, <1>5, <1>6
<1>8. TailOf(k) \in DOMAIN sa /\ ix.run[k].end = TailOf(k) + 1 /\ ix.run[k].start <= TailOf(k)
      /\ ix.bwt[TailOf(k)] = c
  BY <1>6, TailType
<1>9. TailOf(k) <= last
  <2>1. CASE rng.end = ix.n
    BY <1>3, <1>8, <2>1 DEF last
  <2>2. CASE ~next.cover
    <3>1. ix.bwt[last] # c
      BY <1>2, <2>2
    <3>2. last < TailOf(k) => last \in ix.run[k].start .. (ix.run[k].end - 1)
      BY <1>3, <1>6, <1>8, RunTypes
    <3>3. ~(last < TailOf(k))
      BY <1>6, <3>1, <3>2 DEF RunsPartition
    <3>4. QED
      BY <1>3, <1>8, <3>3
  <2>3. QED
    BY <2>1, <2>2 DEF next, c
<1>10. q <= TailOf(k)
  <2>1. CASE m = k
    BY <1>3, <1>4, <1>8, <2>1
  <2>2. CASE m < k
    <3>1. ix.run[m].end <= ix.run[k].start
      BY <1>4, <1>6, <2>2 DEF RunsPartition
    <3>2. QED
      BY <1>3, <1>4, <1>6, <1>8, <3>1, RunTypes
  <2>3. m \in Nat /\ k \in Nat
    BY <1>4, <1>6, RunTypes
  <2>4. QED
    BY <1>7, <2>1, <2>2, <2>3
<1>11. InRange(rng, TailOf(k))
  BY <1>1, <1>3, <1>8, <1>9, <1>10 DEF InRange, last
<1>12. InRange(next, LF(TailOf(k)))
  BY <1>8, <1>11, RangeTakes DEF next, c
<1>13. q < TailOf(k) => LF(q) < LF(TailOf(k))
  <2>1. LF(q) = ix.C[c] + Rank(c, q) /\ LF(TailOf(k)) = ix.C[c] + Rank(c, TailOf(k))
    BY <1>1, <1>8, LFIs
  <2>2. ix.C[c] \in Nat /\ Rank(c, q) \in Nat /\ Rank(c, TailOf(k)) \in Nat
    BY <1>1, BwtType, RankType
  <2>3. q < TailOf(k) => Rank(c, q) < Rank(c, TailOf(k))
    BY <1>1, <1>3, <1>8, RankStrict
  <2>4. QED
    BY <2>1, <2>2, <2>3
<1>14. LF(TailOf(k)) = next.end - 1
  <2>1. next.end \in Nat
    BY LFRangeIs DEF next, c
  <2>2. LF(TailOf(k)) \in Nat
    BY <1>3, <1>8 DEF LFIsRight
  <2>3. CASE q = TailOf(k)
    BY <1>1, <2>3
  <2>4. CASE q < TailOf(k)
    BY <1>1, <1>12, <1>13, <2>1, <2>2, <2>4 DEF InRange
  <2>5. QED
    BY <1>3, <1>8, <1>10, <2>3, <2>4
<1>15. QED
  BY <1>6, <1>14 DEF next, c, k

\* A step that is not special goes from the last position to the last position.
LEMMA TrivialStep ==
  ASSUME TextIsIndexed, LFIsRight, NEW x \in Symbols(text),
         NEW rng \in [start : Nat, end : Nat], rng.start < rng.end, rng.end <= ix.n,
         LFRange(rng, Comp(text, x)).cover
  PROVE  LFRange(rng, Comp(text, x)).end - 1 = LF(rng.end - 1)
<1> DEFINE c == Comp(text, x)
           last == rng.end - 1
<1>1. last \in DOMAIN sa /\ ix.bwt[last] = c /\ last + 1 = rng.end
  BY TextSize, LFRangeIs
<1>2. LFRange(rng, c).end = ix.C[c] + Rank(c, rng.end)
  BY LFRangeIs
<1>3. ix.C[c] \in Nat /\ Rank(c, last) \in Nat
  BY <1>1, CumulativeIs, RankType
<1> HIDE DEF c, last
<1>4. Rank(c, rng.end) = Rank(c, last) + 1
  BY <1>1, RankStep
<1>5. LF(last) = ix.C[c] + Rank(c, last)
  BY <1>1, LFIs
<1>6. QED
  BY <1>2, <1>3, <1>4, <1>5 DEF c, last

\* The end of a range of a symbol other than the terminator is not 0.
LEMMA EndPositive ==
  ASSUME TextIsIndexed, NEW x \in Symbols(text), x # 0
  PROVE  ix.C[Comp(text, x)] > 0
<1> DEFINE c == Comp(text, x)
           B == {p \in DOMAIN ix.bwt : ix.bwt[p] < c}
<1>1. /\ ix.n - 1 \in DOMAIN text /\ text[ix.n - 1] = 0 /\ 0 \in Symbols(text)
      /\ DOMAIN ix.bwt = DOMAIN sa /\ IsFiniteSet(DOMAIN ix.bwt)
  <2>1. ix.n - 1 \in DOMAIN text /\ text[ix.n - 1] = 0
    <3>1. ix.n - 1 \in DOMAIN text
      BY TextSize
    <3>2. QED
      BY <3>1 DEF TextIsIndexed
  <2>2. DOMAIN ix.bwt = 0..(ix.n - 1) /\ DOMAIN sa = 0..(ix.n - 1) /\ ix.n - 1 \in Int
    BY TextSize
  <2>3. QED
    BY <2>1, <2>2, FS_Interval DEF Symbols
<1>2. PICK p \in DOMAIN sa : TextPos(sa, p) = ix.n - 1
  BY <1>1, TextPosIsOnto
<1>3. ix.bwt[p] = Comp(text, 0)
  BY <1>1, <1>2, BwtIs
<1>4. 0 < x
  BY SymbolsFinite
<1>5. Comp(text, 0) < c
  BY <1>1, <1>4, CompOrder
<1>6. p \in B /\ B \in SUBSET DOMAIN ix.bwt
  BY <1>1, <1>3, <1>5
<1>7. ix.C[c] = Cardinality(B)
  BY CumulativeIs
<1> HIDE DEF B
<1>8. IsFiniteSet(B)
  BY <1>1, <1>6, FS_Subset
<1>9. Cardinality(B) # 0
  BY <1>6, <1>8, FS_EmptySet
<1>10. QED
  BY <1>7, <1>8, <1>9, FS_CardinalityType DEF c

-----------------------------------------------------------------------------
(* Suffixes some symbols apart. *)

\* What ComputeToehold computes from a sample: the sampled tail goes with one LF
\* step to next, jumps LF steps lie between that and the toehold's run, and
\* steps more between that and the end of the range.
LEMMA ToeholdValue ==
  ASSUME NEW n \in Nat \ {0}, NEW s \in 0..(n - 1), NEW v \in 0..(n - 1), NEW w \in 0..(n - 1),
         NEW jumps \in Nat, NEW steps \in Nat,
         (s + jumps) % n = w, (v + steps) % n = w
  PROVE  (((s + 1 + n + jumps) % n) + n - steps - 1) % n = v
<1>1. n \in Int /\ s \in Int /\ v \in Int /\ w \in Int
      /\ jumps \in Int /\ steps \in Int
  OBVIOUS
<1> DEFINE a == s + 1 + n + jumps
           b == n - steps - 1
           d == n + n - steps
<1>2. a \in Int /\ b \in Int /\ d \in Int /\ s + jumps \in Int
  BY <1>1
<1>3. ((a % n) + b) % n = (a + b) % n
  BY <1>1, <1>2, ModMod
<1>4. a + b = (s + jumps) + d
  BY <1>1
<1>5. (((s + jumps) % n) + d) % n = ((s + jumps) + d) % n
  BY <1>1, <1>2, ModMod
<1>6. (((v + steps) % n) + d) % n = ((v + steps) + d) % n
  <2>1. v + steps \in Int
    BY <1>1
  <2>2. QED
    BY <1>1, <1>2, <2>1, ModMod
<1>7. ((v + steps) + d) % n = v
  <2>1. (v + steps) + d = n * 2 + v
    BY <1>1
  <2>2. (v + steps) + d \in Int /\ 2 \in Int
    BY <1>1
  <2>3. QED
    BY <1>1, <2>1, <2>2, ModUnique
<1>8. (a % n) + n - steps - 1 = (a % n) + b
  <2>1. a % n \in Int
    BY <1>1, <1>2, ModDef
  <2> HIDE DEF a
  <2>2. QED
    BY <1>1, <2>1
<1>9. QED
  BY <1>3, <1>4, <1>5, <1>6, <1>7, <1>8


-----------------------------------------------------------------------------
(* The pending calls. *)

TopRun(fs) == Last(Last(fs).runs)
TopLevel(fs) == Last(fs).level

\* gs is fs without its last run.
IsRest(fs, gs) ==
  /\ gs \in Seq(Frame)
  /\ \A f \in DOMAIN gs :
       /\ f \in DOMAIN fs /\ gs[f].level = fs[f].level /\ gs[f].runs # <<>>
       /\ \A k \in DOMAIN gs[f].runs :
            /\ k \in DOMAIN fs[f].runs /\ gs[f].runs[k] = fs[f].runs[k]
            /\ f = Len(fs) => k < Len(fs[f].runs)
  /\ \A f \in DOMAIN fs : \A k \in DOMAIN fs[f].runs :
       f # Len(fs) \/ k # Len(fs[f].runs) => f \in DOMAIN gs /\ k \in DOMAIN gs[f].runs

\* The last call on the stack and its last run are typed, and TopRun and TopLevel name
\* them.
LEMMA TopIs ==
  ASSUME NEW fs \in Seq(Frame), fs # <<>>, Last(fs).runs # <<>>
  PROVE  /\ Len(fs) \in DOMAIN fs /\ fs[Len(fs)] = Last(fs) /\ Len(fs) \in Nat
         /\ \A f \in DOMAIN fs : f \in Nat /\ f <= Len(fs) /\ fs[f] \in Frame
         /\ Last(fs) \in Frame /\ Last(fs).runs \in Seq(RunRecord) /\ TopLevel(fs) \in Nat
         /\ Len(Last(fs).runs) \in DOMAIN Last(fs).runs
         /\ Len(Last(fs).runs) \in Nat
         /\ Last(fs).runs[Len(Last(fs).runs)] = TopRun(fs)
         /\ TopRun(fs) \in RunRecord
<1>1. /\ Len(fs) \in Nat /\ DOMAIN fs = 1..Len(fs) /\ Len(fs) > 0
      /\ \A f \in DOMAIN fs : f \in Nat /\ f <= Len(fs) /\ fs[f] \in Frame
  OBVIOUS
<1>2. Len(fs) \in DOMAIN fs /\ fs[Len(fs)] = Last(fs)
  BY <1>1 DEF Last
<1>3. Last(fs) \in Frame
  BY <1>1, <1>2
<1>4. Last(fs).runs \in Seq(RunRecord) /\ TopLevel(fs) \in Nat
  BY <1>3 DEF Frame, TopLevel
<1> DEFINE rs == Last(fs).runs
<1>5. rs \in Seq(RunRecord) /\ rs # <<>> /\ TopRun(fs) = rs[Len(rs)]
  BY <1>4 DEF TopRun, Last
<1>6. Len(rs) \in Nat /\ Len(rs) \in DOMAIN rs /\ rs[Len(rs)] \in RunRecord
  <2> HIDE DEF rs
  <2> QED BY <1>5
<1>7. QED
  BY <1>1, <1>2, <1>3, <1>4, <1>5, <1>6

\* A sequence without its last element keeps the others at their places.
LEMMA FrontIs ==
  ASSUME NEW S, NEW s \in Seq(S), s # <<>>
  PROVE  /\ Front(s) \in Seq(S) /\ DOMAIN Front(s) = 1..(Len(s) - 1) /\ DOMAIN s = 1..Len(s)
         /\ Len(s) \in Nat /\ Len(s) > 0
         /\ \A k \in DOMAIN Front(s) : k \in DOMAIN s /\ k < Len(s) /\ Front(s)[k] = s[k]
         /\ Len(s) # 1 => Front(s) # <<>>
<1>1. Len(s) \in Nat /\ Len(s) > 0 /\ DOMAIN s = 1..Len(s)
  OBVIOUS
<1>2. \A i \in 1..(Len(s) - 1) : s[i] \in S
  BY <1>1
<1>3. /\ SubSeq(s, 1, Len(s) - 1) \in Seq(S)
      /\ Len(SubSeq(s, 1, Len(s) - 1)) = Len(s) - 1
      /\ \A k \in 1..(Len(s) - 1) : SubSeq(s, 1, Len(s) - 1)[k] = s[k]
  BY <1>1, <1>2
<1>4. Front(s) \in Seq(S) /\ Len(Front(s)) = Len(s) - 1
      /\ \A k \in 1..(Len(s) - 1) : Front(s)[k] = s[k]
  BY <1>3 DEF Front
<1>5. DOMAIN Front(s) = 1..(Len(s) - 1)
  BY <1>4
<1>6. QED
  BY <1>1, <1>4, <1>5

\* A call with other runs is a call.
LEMMA FrameUpdate ==
  ASSUME NEW fr \in Frame, NEW rs \in Seq(RunRecord)
  PROVE  /\ [fr EXCEPT !.runs = rs] \in Frame
         /\ [fr EXCEPT !.runs = rs].level = fr.level
         /\ [fr EXCEPT !.runs = rs].runs = rs
BY DEF Frame

\* PopRun leaves the stack without the current run.
LEMMA PopRunIs ==
  ASSUME frames \in Seq(Frame), frames # <<>>, \A f \in DOMAIN frames : frames[f].runs # <<>>
  PROVE  IsRest(frames, PopRun)
<1> DEFINE n == Len(frames)
           rs == frames[n].runs
<1>1. /\ n \in DOMAIN frames /\ n \in Nat /\ DOMAIN frames = 1..n /\ Top = frames[n]
      /\ \A f \in DOMAIN frames : f \in Nat /\ f <= n /\ frames[f] \in Frame
      /\ rs \in Seq(RunRecord) /\ rs # <<>>
  <2>1. n \in DOMAIN frames /\ n \in Nat /\ DOMAIN frames = 1..n
    OBVIOUS
  <2>2. Last(frames) = frames[n] /\ Last(frames).runs # <<>>
    BY <2>1 DEF Last
  <2>3. QED
    BY <2>1, <2>2, TopIs DEF Top
<1>2. CASE Len(rs) = 1
  <2>1. PopRun = Front(frames)
    BY <1>1, <1>2 DEF PopRun
  <2>2. /\ PopRun \in Seq(Frame) /\ DOMAIN PopRun = 1..(n - 1)
        /\ \A f \in DOMAIN PopRun : PopRun[f] = frames[f]
    BY <2>1, FrontIs
  <2>3. \A f \in DOMAIN PopRun : f \in DOMAIN frames /\ f # n
    BY <1>1, <2>2
  <2>4. \A f \in DOMAIN frames : \A k \in DOMAIN frames[f].runs :
          f # n \/ k # Len(frames[f].runs) => f \in DOMAIN PopRun
    <3>1. \A k \in DOMAIN frames[n].runs : k = 1
      BY <1>1, <1>2
    <3>2. \A f \in DOMAIN frames : f # n => f \in 1..(n - 1)
      BY <1>1
    <3>3. QED
      BY <1>2, <2>2, <3>1, <3>2
  <2>5. QED
    BY <2>2, <2>3, <2>4 DEF IsRest
<1>3. CASE Len(rs) # 1
  <2> DEFINE gs == [frames EXCEPT ![n].runs = Front(@)]
  <2>1. PopRun = gs
    BY <1>1, <1>3 DEF PopRun
  <2>2. /\ Front(rs) \in Seq(RunRecord) /\ DOMAIN Front(rs) = 1..(Len(rs) - 1)
        /\ DOMAIN rs = 1..Len(rs) /\ Len(rs) \in Nat /\ Front(rs) # <<>>
        /\ \A k \in DOMAIN Front(rs) : k \in DOMAIN rs /\ k < Len(rs) /\ Front(rs)[k] = rs[k]
    <3> HIDE DEF rs
    <3> QED BY <1>1, <1>3, FrontIs
  <2>3. /\ DOMAIN gs = DOMAIN frames
        /\ \A f \in DOMAIN frames : f # n => gs[f] = frames[f]
        /\ gs[n] = [frames[n] EXCEPT !.runs = Front(rs)]
    BY <1>1
  <2>4. gs[n].level = frames[n].level /\ gs[n].runs = Front(rs) /\ gs[n] \in Frame
    <3>1. frames[n] \in Frame
      BY <1>1
    <3> HIDE DEF gs, rs
    <3>2. QED
      BY <2>2, <2>3, <3>1, FrameUpdate
  <2>5. gs \in Seq(Frame)
    <3>1. \A f \in 1..n : gs[f] \in Frame
      BY <1>1, <2>3, <2>4
    <3>2. gs = [f \in 1..n |-> gs[f]]
      BY <1>1
    <3>3. QED
      BY <1>1, <3>1, <3>2
  <2> HIDE DEF gs
  <2>6. ASSUME NEW f \in DOMAIN gs
        PROVE  /\ f \in DOMAIN frames /\ gs[f].level = frames[f].level /\ gs[f].runs # <<>>
               /\ \A k \in DOMAIN gs[f].runs :
                    /\ k \in DOMAIN frames[f].runs /\ gs[f].runs[k] = frames[f].runs[k]
                    /\ f = n => k < Len(frames[f].runs)
    <3>1. CASE f = n
      BY <1>1, <2>2, <2>4, <3>1
    <3>2. CASE f # n
      BY <2>3, <2>6, <3>2
    <3>3. QED
      BY <3>1, <3>2
  <2>7. ASSUME NEW f \in DOMAIN frames, NEW k \in DOMAIN frames[f].runs,
               f # n \/ k # Len(frames[f].runs)
        PROVE  f \in DOMAIN gs /\ k \in DOMAIN gs[f].runs
    <3>1. CASE f = n
      <4>1. k \in 1..Len(rs) /\ k # Len(rs)
        BY <2>2, <2>7, <3>1
      <4>2. k \in 1..(Len(rs) - 1)
        BY <2>2, <4>1
      <4>3. QED
        BY <2>2, <2>3, <2>4, <3>1, <4>2
    <3>2. CASE f # n
      BY <2>3, <3>2
    <3>3. QED
      BY <3>1, <3>2
  <2>8. QED
    BY <2>1, <2>5, <2>6, <2>7 DEF IsRest
<1>4. QED
  BY <1>2, <1>3

-----------------------------------------------------------------------------
(* Stacks that stand for the positions from first to next. *)

\* Every run of such a stack stands for an interval of positions.
LEMMA StackTypes ==
  ASSUME TextIsIndexed, NEW fs, NEW first, NEW next, StackInv(fs, first, next),
         NEW f \in DOMAIN fs, NEW k \in DOMAIN fs[f].runs
  PROVE  /\ f \in Nat /\ k \in Nat /\ fs[f].level \in Nat /\ fs[f].runs[k] \in RunRecord
         /\ RunIsRight(fs[f].runs[k], fs[f].level)
         /\ Lo(fs[f].runs[k], fs[f].level) \in Nat /\ Hi(fs[f].runs[k], fs[f].level) \in Nat
         /\ Lo(fs[f].runs[k], fs[f].level) < Hi(fs[f].runs[k], fs[f].level)
<1> DEFINE fr == fs[f]
           run == fr.runs[k]
<1>1. fs \in Seq(Frame) /\ RunsAreRight(fs)
  BY DEF StackInv
<1>2. fr \in Frame /\ f \in Nat
  BY <1>1
<1>3. fr.level \in Nat /\ fr.runs \in Seq(RunRecord)
  BY <1>2 DEF Frame
<1>4. k \in DOMAIN fr.runs
  OBVIOUS
<1>5. run \in RunRecord /\ k \in Nat
  <2> HIDE DEF fr
  <2> QED BY <1>3, <1>4
<1>6. RunIsRight(run, fr.level)
  BY <1>1 DEF RunsAreRight
<1> HIDE DEF fr, run
<1>7. run.start \in Nat /\ run.end \in Nat /\ run.start < run.end /\ run.end <= ix.n
  BY <1>5, <1>6 DEF RunRecord, RunIsRight
<1>8. run.start \in DOMAIN sa /\ ix.n \in Nat /\ DOMAIN sa = 0..(ix.n - 1)
  BY <1>7, TextSize
<1>9. Origin(run.start, fr.level) \in Nat
  <2>1. Origin(run.start, fr.level) \in DOMAIN sa
    BY <1>3, <1>8, OriginType
  <2>2. QED
    BY <1>8, <2>1
<1>10. /\ Lo(run, fr.level) \in Nat /\ Hi(run, fr.level) \in Nat
       /\ Lo(run, fr.level) < Hi(run, fr.level)
  BY <1>7, <1>9 DEF Lo, Hi
<1>11. QED
  BY <1>2, <1>3, <1>5, <1>6, <1>10 DEF fr, run

\* The run on top ends with the last position the stack stands for.
LEMMA TopEnds ==
  ASSUME TextIsIndexed, NEW fs, NEW first \in Nat, NEW next \in Int,
         StackInv(fs, first, next), fs # <<>>
  PROVE  /\ Last(fs).runs # <<>> /\ TopRun(fs) \in RunRecord /\ TopLevel(fs) \in Nat
         /\ TopLevel(fs) <= ix.rate /\ RunIsRight(TopRun(fs), TopLevel(fs))
         /\ Lo(TopRun(fs), TopLevel(fs)) \in Nat
         /\ first <= Lo(TopRun(fs), TopLevel(fs))
         /\ Lo(TopRun(fs), TopLevel(fs)) < Hi(TopRun(fs), TopLevel(fs))
         /\ Hi(TopRun(fs), TopLevel(fs)) = next + 1
<1> DEFINE n == Len(fs)
           m == Len(fs[n].runs)
           lo == Lo(TopRun(fs), TopLevel(fs))
           hi == Hi(TopRun(fs), TopLevel(fs))
<1>1. fs \in Seq(Frame) /\ RunsAreRight(fs) /\ RunsInside(fs, first, next)
      /\ RunsOrdered(fs) /\ RunsCover(fs, first, next)
  BY DEF StackInv
<1>2. n \in DOMAIN fs /\ fs[n] = Last(fs)
  BY <1>1 DEF Last
<1>3. Last(fs).runs # <<>> /\ Last(fs).level <= ix.rate
  BY <1>1, <1>2 DEF RunsAreRight
<1>4. /\ n \in Nat /\ \A f \in DOMAIN fs : f \in Nat /\ f <= n
      /\ fs[n] = Last(fs) /\ m \in Nat /\ m \in DOMAIN fs[n].runs /\ fs[n].runs[m] = TopRun(fs)
      /\ fs[n].runs \in Seq(RunRecord) /\ fs[n].level = TopLevel(fs)
  BY <1>1, <1>2, <1>3, TopIs DEF TopLevel
<1>5. /\ lo \in Nat /\ hi \in Nat /\ lo < hi
      /\ TopRun(fs) \in RunRecord /\ TopLevel(fs) \in Nat /\ RunIsRight(TopRun(fs), TopLevel(fs))
  BY <1>2, <1>4, StackTypes
<1>6. first <= lo /\ hi <= next + 1
  BY <1>1, <1>2, <1>4 DEF RunsInside
<1>7. PICK f \in DOMAIN fs : \E k \in DOMAIN fs[f].runs :
        Lo(fs[f].runs[k], fs[f].level) <= next /\ next < Hi(fs[f].runs[k], fs[f].level)
  <2>1. next \in first .. next
    BY <1>5, <1>6
  <2>2. QED
    BY <1>1, <2>1 DEF RunsCover
<1>8. PICK k \in DOMAIN fs[f].runs :
        Lo(fs[f].runs[k], fs[f].level) <= next /\ next < Hi(fs[f].runs[k], fs[f].level)
  BY <1>7
<1>9. Hi(fs[f].runs[k], fs[f].level) \in Nat /\ k \in Nat /\ f \in Nat /\ f <= n
  BY <1>4, StackTypes
<1>10. f = n /\ k = m
  <2>1. f = n => k <= m
    <3> DEFINE rs == fs[n].runs
    <3>1. rs \in Seq(RunRecord) /\ m = Len(rs)
      BY <1>4
    <3>2. \A j \in DOMAIN rs : j <= m
      <4> HIDE DEF rs, m
      <4> QED BY <3>1
    <3>3. QED
      BY <3>2
  <2>2. CASE f < n \/ (f = n /\ k < m)
    <3>1. Hi(fs[f].runs[k], fs[f].level) <= lo
      BY <1>1, <1>2, <1>4, <2>2 DEF RunsOrdered
    <3>2. QED
      BY <1>5, <1>6, <1>8, <1>9, <3>1
  <2>3. QED
    BY <1>4, <1>9, <2>1, <2>2
<1>11. next < hi
  BY <1>4, <1>8, <1>10
<1>12. QED
  BY <1>3, <1>5, <1>6, <1>11 DEF TopLevel

\* Without its last run the stack stands for the positions before that run's.
LEMMA PopKeeps ==
  ASSUME TextIsIndexed, NEW fs, NEW gs, NEW first \in Nat, NEW next \in Int,
         StackInv(fs, first, next), fs # <<>>, IsRest(fs, gs)
  PROVE  StackInv(gs, first, Lo(TopRun(fs), TopLevel(fs)) - 1)
<1> DEFINE n == Len(fs)
           m == Len(fs[n].runs)
           lo == Lo(TopRun(fs), TopLevel(fs))
<1>1. fs \in Seq(Frame) /\ RunsAreRight(fs) /\ RunsInside(fs, first, next)
      /\ RunsOrdered(fs) /\ RunsCover(fs, first, next)
  BY DEF StackInv
<1>2. /\ Last(fs).runs # <<>> /\ lo \in Nat /\ first <= lo
      /\ lo < Hi(TopRun(fs), TopLevel(fs)) /\ Hi(TopRun(fs), TopLevel(fs)) = next + 1
  BY TopEnds
<1>3. /\ n \in DOMAIN fs /\ n \in Nat /\ \A f \in DOMAIN fs : f \in Nat /\ f <= n
      /\ fs[n] = Last(fs) /\ m \in Nat /\ m \in DOMAIN fs[n].runs /\ fs[n].runs[m] = TopRun(fs)
      /\ fs[n].level = TopLevel(fs)
  BY <1>1, <1>2, TopIs DEF TopLevel
<1>4. /\ gs \in Seq(Frame)
      /\ \A f \in DOMAIN gs : f \in DOMAIN fs /\ gs[f].level = fs[f].level /\ gs[f].runs # <<>>
      /\ \A f \in DOMAIN gs : \A k \in DOMAIN gs[f].runs :
            /\ k \in DOMAIN fs[f].runs /\ gs[f].runs[k] = fs[f].runs[k]
            /\ f = n => k < m
  BY DEF IsRest
<1>5. RunsAreRight(gs)
  BY <1>1, <1>4 DEF RunsAreRight
<1>6. RunsInside(gs, first, lo - 1)
  <2> SUFFICES ASSUME NEW f \in DOMAIN gs, NEW k \in DOMAIN gs[f].runs
               PROVE  /\ first <= Lo(gs[f].runs[k], gs[f].level)
                      /\ Hi(gs[f].runs[k], gs[f].level) <= lo - 1 + 1
    BY DEF RunsInside
  <2>1. f \in DOMAIN fs /\ k \in DOMAIN fs[f].runs /\ (f < n \/ (f = n /\ k < m))
    BY <1>3, <1>4
  <2>2. Hi(fs[f].runs[k], fs[f].level) <= lo
    BY <1>1, <1>3, <2>1 DEF RunsOrdered
  <2>3. first <= Lo(fs[f].runs[k], fs[f].level) /\ Hi(fs[f].runs[k], fs[f].level) \in Nat
    BY <1>1, <2>1, StackTypes DEF RunsInside
  <2>4. QED
    BY <1>2, <1>4, <2>2, <2>3
<1>7. RunsOrdered(gs)
  <2> SUFFICES ASSUME NEW f \in DOMAIN gs, NEW g \in DOMAIN gs,
                      NEW k \in DOMAIN gs[f].runs, NEW j \in DOMAIN gs[g].runs,
                      f < g \/ (f = g /\ k < j)
               PROVE  Hi(gs[f].runs[k], gs[f].level) <= Lo(gs[g].runs[j], gs[g].level)
    BY DEF RunsOrdered
  <2>1. Hi(fs[f].runs[k], fs[f].level) <= Lo(fs[g].runs[j], fs[g].level)
    BY <1>1, <1>4 DEF RunsOrdered
  <2>2. QED
    BY <1>4, <2>1
<1>8. RunsCover(gs, first, lo - 1)
  <2> SUFFICES ASSUME NEW p \in first .. (lo - 1)
               PROVE  \E f \in DOMAIN gs : \E k \in DOMAIN gs[f].runs :
                        Lo(gs[f].runs[k], gs[f].level) <= p /\ p < Hi(gs[f].runs[k], gs[f].level)
    BY DEF RunsCover
  <2>1. p \in Nat /\ p < lo /\ p \in first .. next
    BY <1>2
  <2>2. PICK f \in DOMAIN fs : \E k \in DOMAIN fs[f].runs :
          Lo(fs[f].runs[k], fs[f].level) <= p /\ p < Hi(fs[f].runs[k], fs[f].level)
    BY <1>1, <2>1 DEF RunsCover
  <2>3. PICK k \in DOMAIN fs[f].runs :
          Lo(fs[f].runs[k], fs[f].level) <= p /\ p < Hi(fs[f].runs[k], fs[f].level)
    BY <2>2
  <2>4. f # n \/ k # m
    BY <1>2, <1>3, <2>1, <2>3
  <2>5. f # n \/ k # Len(fs[f].runs)
    BY <2>4
  <2>6. f \in DOMAIN gs /\ k \in DOMAIN gs[f].runs
    BY <2>5 DEF IsRest
  <2>7. QED
    BY <1>4, <2>3, <2>6
<1>9. QED
  BY <1>4, <1>5, <1>6, <1>7, <1>8 DEF StackInv

\* A call pushed on the stack extends it by the positions its runs stand for.
LEMMA PushKeeps ==
  ASSUME TextIsIndexed, NEW gs, NEW fr \in Frame, NEW first \in Nat, NEW mid \in Nat,
         NEW next \in Int, StackInv(gs, first, mid - 1), first <= mid, mid <= next + 1,
         fr.level <= ix.rate, fr.runs # <<>>,
         \A k \in DOMAIN fr.runs :
           /\ RunIsRight(fr.runs[k], fr.level)
           /\ mid <= Lo(fr.runs[k], fr.level) /\ Hi(fr.runs[k], fr.level) <= next + 1,
         \A k, m \in DOMAIN fr.runs :
           k < m => Hi(fr.runs[k], fr.level) <= Lo(fr.runs[m], fr.level),
         \A p \in mid .. next : \E k \in DOMAIN fr.runs :
           Lo(fr.runs[k], fr.level) <= p /\ p < Hi(fr.runs[k], fr.level)
  PROVE  StackInv(Append(gs, fr), first, next)
<1> DEFINE n == Len(gs) + 1
           fs == Append(gs, fr)
<1>1. gs \in Seq(Frame) /\ RunsAreRight(gs) /\ RunsInside(gs, first, mid - 1)
      /\ RunsOrdered(gs) /\ RunsCover(gs, first, mid - 1)
  BY DEF StackInv
<1>2. /\ fs \in Seq(Frame) /\ n \in Nat /\ DOMAIN gs = 1..(n - 1) /\ DOMAIN fs = 1..n
      /\ fs[n] = fr /\ \A f \in DOMAIN gs : fs[f] = gs[f]
  BY <1>1
<1> HIDE DEF fs, n
<1>3. \A f \in DOMAIN fs : f # n => f \in DOMAIN gs /\ fs[f] = gs[f] /\ f < n
  BY <1>2
<1>4. n \in DOMAIN fs
  <2>1. Len(gs) \in Nat
    BY <1>1
  <2>2. QED
    BY <1>2, <2>1 DEF n
<1>5. RunsAreRight(fs)
  <2> SUFFICES ASSUME NEW f \in DOMAIN fs
               PROVE  /\ fs[f].level <= ix.rate /\ fs[f].runs # <<>>
                      /\ \A k \in DOMAIN fs[f].runs : RunIsRight(fs[f].runs[k], fs[f].level)
    BY DEF RunsAreRight
  <2>1. CASE f = n
    BY <1>2, <2>1
  <2>2. CASE f # n
    BY <1>1, <1>3, <2>2 DEF RunsAreRight
  <2>3. QED
    BY <2>1, <2>2
<1>6. \A f \in DOMAIN gs : \A k \in DOMAIN gs[f].runs :
        /\ first <= Lo(gs[f].runs[k], gs[f].level) /\ Hi(gs[f].runs[k], gs[f].level) <= mid
        /\ Lo(gs[f].runs[k], gs[f].level) \in Nat /\ Hi(gs[f].runs[k], gs[f].level) \in Nat
  <2> SUFFICES ASSUME NEW f \in DOMAIN gs, NEW k \in DOMAIN gs[f].runs
               PROVE  /\ first <= Lo(gs[f].runs[k], gs[f].level)
                      /\ Hi(gs[f].runs[k], gs[f].level) <= mid
                      /\ Lo(gs[f].runs[k], gs[f].level) \in Nat
                      /\ Hi(gs[f].runs[k], gs[f].level) \in Nat
    OBVIOUS
  <2>1. first <= Lo(gs[f].runs[k], gs[f].level) /\ Hi(gs[f].runs[k], gs[f].level) <= mid - 1 + 1
    BY <1>1 DEF RunsInside
  <2>2. Lo(gs[f].runs[k], gs[f].level) \in Nat /\ Hi(gs[f].runs[k], gs[f].level) \in Nat
    BY StackTypes
  <2>3. QED
    BY <2>1, <2>2
<1>7. \A k \in DOMAIN fr.runs : Lo(fr.runs[k], fr.level) \in Nat
  <2> SUFFICES ASSUME NEW k \in DOMAIN fr.runs PROVE Lo(fr.runs[k], fr.level) \in Nat
    OBVIOUS
  <2>1. fr.level \in Nat /\ fr.runs \in Seq(RunRecord)
    BY DEF Frame
  <2>2. fr.runs[k] \in RunRecord
    BY <2>1
  <2>3. fr.runs[k].start \in DOMAIN sa
    BY <2>2, TextSize DEF RunRecord, RunIsRight
  <2>4. Origin(fr.runs[k].start, fr.level) \in DOMAIN sa
    BY <2>1, <2>3, OriginType
  <2>5. QED
    BY <2>4, TextSize DEF Lo
<1>8. RunsInside(fs, first, next)
  <2> SUFFICES ASSUME NEW f \in DOMAIN fs, NEW k \in DOMAIN fs[f].runs
               PROVE  /\ first <= Lo(fs[f].runs[k], fs[f].level)
                      /\ Hi(fs[f].runs[k], fs[f].level) <= next + 1
    BY DEF RunsInside
  <2>1. CASE f = n
    <3>1. k \in DOMAIN fr.runs /\ fs[f] = fr
      BY <1>2, <2>1
    <3>2. QED
      BY <1>7, <3>1
  <2>2. CASE f # n
    <3>1. f \in DOMAIN gs /\ k \in DOMAIN gs[f].runs /\ fs[f] = gs[f]
      BY <1>3, <2>2
    <3>2. QED
      BY <1>6, <3>1
  <2>3. QED
    BY <2>1, <2>2
<1>9. RunsOrdered(fs)
  <2> SUFFICES ASSUME NEW f \in DOMAIN fs, NEW g \in DOMAIN fs,
                      NEW k \in DOMAIN fs[f].runs, NEW m \in DOMAIN fs[g].runs,
                      f < g \/ (f = g /\ k < m)
               PROVE  Hi(fs[f].runs[k], fs[f].level) <= Lo(fs[g].runs[m], fs[g].level)
    BY DEF RunsOrdered
  <2>1. f \in Nat /\ g \in Nat /\ f <= n /\ g <= n
    BY <1>2
  <2>2. CASE f = n /\ g = n
    <3>1. k \in DOMAIN fr.runs /\ m \in DOMAIN fr.runs /\ fs[f] = fr /\ fs[g] = fr /\ k < m
      BY <1>2, <2>1, <2>2
    <3>2. QED
      BY <3>1
  <2>3. CASE f # n /\ g = n
    <3>1. /\ f \in DOMAIN gs /\ k \in DOMAIN gs[f].runs /\ fs[f] = gs[f]
          /\ m \in DOMAIN fr.runs /\ fs[g] = fr
      BY <1>2, <1>3, <2>3
    <3>2. Hi(gs[f].runs[k], gs[f].level) <= mid /\ Hi(gs[f].runs[k], gs[f].level) \in Nat
      BY <1>6, <3>1
    <3>3. mid <= Lo(fr.runs[m], fr.level) /\ Lo(fr.runs[m], fr.level) \in Nat
      BY <1>7, <3>1
    <3>4. QED
      BY <3>1, <3>2, <3>3
  <2>4. CASE f # n /\ g # n
    <3>1. /\ f \in DOMAIN gs /\ k \in DOMAIN gs[f].runs /\ fs[f] = gs[f]
          /\ g \in DOMAIN gs /\ m \in DOMAIN gs[g].runs /\ fs[g] = gs[g]
      BY <1>3, <2>4
    <3>2. QED
      BY <1>1, <3>1 DEF RunsOrdered
  <2>5. CASE f = n /\ g # n
    BY <1>3, <2>1, <2>5
  <2>6. QED
    BY <2>2, <2>3, <2>4, <2>5
<1>10. RunsCover(fs, first, next)
  <2> SUFFICES ASSUME NEW p \in first .. next
               PROVE  \E f \in DOMAIN fs : \E k \in DOMAIN fs[f].runs :
                        Lo(fs[f].runs[k], fs[f].level) <= p /\ p < Hi(fs[f].runs[k], fs[f].level)
    BY DEF RunsCover
  <2>1. CASE p < mid
    <3>1. p \in first .. (mid - 1)
      BY <2>1
    <3>2. \E f \in DOMAIN gs : \E k \in DOMAIN gs[f].runs :
            Lo(gs[f].runs[k], gs[f].level) <= p /\ p < Hi(gs[f].runs[k], gs[f].level)
      BY <1>1, <3>1 DEF RunsCover
    <3>3. \A f \in DOMAIN gs : f \in DOMAIN fs /\ fs[f] = gs[f]
      BY <1>2
    <3>4. QED
      BY <3>2, <3>3
  <2>2. CASE ~(p < mid)
    <3>1. p \in mid .. next
      BY <2>2
    <3>2. \E k \in DOMAIN fr.runs : Lo(fr.runs[k], fr.level) <= p /\ p < Hi(fr.runs[k], fr.level)
      BY <3>1
    <3>3. QED
      BY <1>2, <1>4, <3>2
  <2>3. QED
    BY <2>1, <2>2
<1>11. QED
  BY <1>2, <1>5, <1>8, <1>9, <1>10 DEF StackInv, fs

-----------------------------------------------------------------------------
(* Visiting the run on top. *)

\* gs is fs with its last run shortened.
IsShrunk(fs, gs) ==
  /\ gs \in Seq(Frame) /\ DOMAIN gs = DOMAIN fs
  /\ \A f \in DOMAIN fs :
       /\ gs[f].level = fs[f].level /\ DOMAIN gs[f].runs = DOMAIN fs[f].runs
       /\ \A k \in DOMAIN fs[f].runs :
            gs[f].runs[k] = IF f = Len(fs) /\ k = Len(fs[f].runs) THEN UpdateRun(fs[f].runs[k])
                            ELSE fs[f].runs[k]

\* UpdateRun takes the last position of a run, and nothing else but its end mark.
LEMMA UpdateRunIs ==
  ASSUME NEW run \in RunRecord, run.start < run.end
  PROVE  /\ UpdateRun(run) \in RunRecord
         /\ UpdateRun(run).start = run.start /\ UpdateRun(run).end = run.end - 1
         /\ UpdateRun(run).rnk = run.rnk /\ UpdateRun(run).isEnd = FALSE
<1>1. DOMAIN run = {"start", "end", "rnk", "isEnd"} /\ run.start \in Nat /\ run.end \in Nat
      /\ run.rnk \in Nat
  BY DEF RunRecord
<1> DEFINE new == UpdateRun(run)
           same == [start |-> run.start, end |-> run.end - 1, rnk |-> run.rnk, isEnd |-> FALSE]
<1>2. same \in RunRecord
  BY <1>1 DEF RunRecord
<1>3. /\ DOMAIN new = {"start", "end", "rnk", "isEnd"}
      /\ new["start"] = run.start /\ new["end"] = run.end - 1
      /\ new["rnk"] = run.rnk /\ new["isEnd"] = FALSE
  BY <1>1, Zenon DEF UpdateRun
<1>4. new = same
  <2>1. new = [x \in DOMAIN new |-> new[x]]
    BY Zenon DEF UpdateRun
  <2>2. /\ same = [x \in DOMAIN same |-> same[x]]
        /\ DOMAIN same = {"start", "end", "rnk", "isEnd"}
        /\ same["start"] = run.start /\ same["end"] = run.end - 1
        /\ same["rnk"] = run.rnk /\ same["isEnd"] = FALSE
    BY Zenon
  <2> HIDE DEF new, same
  <2>3. QED
    BY <1>3, <2>1, <2>2
<1>5. QED
  BY <1>2, <1>4

\* ShrinkRun shortens the current run when it has more positions.
LEMMA ShrinkRunIs ==
  ASSUME frames \in Seq(Frame), frames # <<>>, Last(frames).runs # <<>>,
         Run.start < Run.end, Run.end - 1 # Run.start
  PROVE  IsShrunk(frames, ShrinkRun)
<1> DEFINE n == Len(frames)
           rs == frames[n].runs
           m == Len(rs)
           short == UpdateRun(rs[m])
           ss == [rs EXCEPT ![m] = short]
           fr == [frames[n] EXCEPT !.runs = ss]
           gs == [frames EXCEPT ![n] = fr]
<1>1. /\ n \in DOMAIN frames /\ n \in Nat /\ DOMAIN frames = 1..n /\ Top = frames[n]
      /\ \A f \in DOMAIN frames : f \in Nat /\ f <= n /\ frames[f] \in Frame
      /\ rs \in Seq(RunRecord) /\ m \in Nat /\ m \in DOMAIN rs /\ Run = rs[m] /\ rs[m] \in RunRecord
  <2>1. DOMAIN frames = 1..n /\ Top = Last(frames) /\ Run = Last(Top.runs)
    BY DEF Top, Run
  <2>2. QED
    BY <2>1, TopIs DEF TopRun
<1>2. ShrinkRun = gs
  BY <1>1, Zenon DEF ShrinkRun
<1>3. short \in RunRecord
  <2> HIDE DEF rs, m
  <2>1. rs[m].start < rs[m].end
    BY <1>1
  <2>2. QED
    BY <1>1, <2>1, UpdateRunIs
<1>4. /\ ss \in Seq(RunRecord) /\ DOMAIN ss = DOMAIN rs /\ ss[m] = short
      /\ \A k \in DOMAIN rs : k # m => ss[k] = rs[k]
  <2> HIDE DEF rs, m, short
  <2>1. /\ DOMAIN ss = DOMAIN rs /\ ss[m] = short /\ \A k \in DOMAIN rs : k # m => ss[k] = rs[k]
    BY <1>1
  <2>2. \A k \in DOMAIN rs : ss[k] \in RunRecord
    BY <1>1, <1>3, <2>1
  <2>3. DOMAIN rs = 1..Len(rs) /\ Len(rs) \in Nat
    BY <1>1
  <2>4. ss = [k \in 1..Len(rs) |-> ss[k]]
    BY <2>3
  <2>5. QED
    <3> HIDE DEF ss
    <3> QED BY <2>1, <2>2, <2>3, <2>4
<1>5. fr \in Frame /\ fr.level = frames[n].level /\ fr.runs = ss
  <2>1. frames[n] \in Frame
    BY <1>1
  <2> HIDE DEF ss, n
  <2>2. QED
    BY <1>4, <2>1, FrameUpdate
<1>6. /\ gs \in Seq(Frame) /\ DOMAIN gs = DOMAIN frames /\ gs[n] = fr
      /\ \A f \in DOMAIN frames : f # n => gs[f] = frames[f]
  <2> HIDE DEF fr
  <2>1. DOMAIN gs = DOMAIN frames /\ gs[n] = fr /\ \A f \in DOMAIN frames : f # n => gs[f] = frames[f]
    BY <1>1
  <2>2. \A f \in 1..n : gs[f] \in Frame
    BY <1>1, <1>5, <2>1
  <2>3. gs = [f \in 1..n |-> gs[f]]
    BY <1>1
  <2>4. QED
    <3> HIDE DEF gs
    <3> QED BY <1>1, <2>1, <2>2, <2>3
<1>short. short = UpdateRun(rs[m])
  OBVIOUS
<1> HIDE DEF gs, fr, ss, short
<1>7. ASSUME NEW f \in DOMAIN frames
      PROVE  /\ gs[f].level = frames[f].level /\ DOMAIN gs[f].runs = DOMAIN frames[f].runs
             /\ \A k \in DOMAIN frames[f].runs :
                  gs[f].runs[k] = IF f = n /\ k = Len(frames[f].runs) THEN UpdateRun(frames[f].runs[k])
                                  ELSE frames[f].runs[k]
  <2>1. CASE f = n
    BY <1>short, <1>4, <1>5, <1>6, <2>1
  <2>2. CASE f # n
    BY <1>6, <2>2
  <2>3. QED
    BY <2>1, <2>2
<1>8. QED
  BY <1>2, <1>6, <1>7 DEF IsShrunk

\* A stack with its last run shortened stands for one position fewer.
LEMMA ShortenKeeps ==
  ASSUME TextIsIndexed, NEW fs, NEW gs, NEW first \in Nat, NEW next \in Int,
         StackInv(fs, first, next), fs # <<>>, IsShrunk(fs, gs),
         TopRun(fs).end - 1 # TopRun(fs).start, RunsPartition
  PROVE  StackInv(gs, first, next - 1)
<1> DEFINE n == Len(fs)
           m == Len(fs[n].runs)
           run == TopRun(fs)
           level == TopLevel(fs)
<1>1. fs \in Seq(Frame) /\ RunsAreRight(fs) /\ RunsInside(fs, first, next)
      /\ RunsOrdered(fs) /\ RunsCover(fs, first, next)
  BY DEF StackInv
<1>2. /\ Last(fs).runs # <<>> /\ run \in RunRecord /\ level \in Nat /\ RunIsRight(run, level)
      /\ Lo(run, level) \in Nat /\ Hi(run, level) = next + 1
  BY TopEnds
<1>3. /\ n \in DOMAIN fs /\ n \in Nat /\ \A f \in DOMAIN fs : f \in Nat /\ f <= n
      /\ fs[n] = Last(fs) /\ m \in Nat /\ m \in DOMAIN fs[n].runs /\ fs[n].runs[m] = run
      /\ fs[n].level = level
  BY <1>1, <1>2, TopIs DEF TopLevel
<1>4. run.start \in Nat /\ run.end \in Nat /\ run.rnk \in Nat /\ run.start < run.end /\ run.end <= ix.n
      /\ UpdateRun(run).start = run.start /\ UpdateRun(run).end = run.end - 1
      /\ UpdateRun(run).rnk = run.rnk /\ UpdateRun(run).isEnd = FALSE
  BY <1>2, UpdateRunIs DEF RunRecord, RunIsRight
<1>5. RunIsRight(UpdateRun(run), level)
  <2>1. UpdateRun(run).start < UpdateRun(run).end /\ UpdateRun(run).end <= ix.n
    BY <1>2, <1>4, TextSize
  <2>2. level < ix.rate => PieceOf(UpdateRun(run))
    <3> SUFFICES ASSUME level < ix.rate PROVE PieceOf(UpdateRun(run))
      OBVIOUS
    <3>1. PieceOf(run)
      BY <1>2 DEF RunIsRight
    <3>2. run.rnk \in DOMAIN ix.run /\ ix.run[run.rnk].end \in Nat
          /\ ix.run[run.rnk].start <= run.start /\ run.end <= ix.run[run.rnk].end
      BY <3>1, RunTypes DEF PieceOf
    <3>3. QED
      BY <1>4, <3>2 DEF PieceOf
  <2>3. Image(run.start, run.end, level)
    BY <1>2 DEF RunIsRight
  <2>4. Image(run.start, run.end - 1, level)
    <3>1. \A q \in run.start .. (run.end - 1 - 1) : q \in run.start .. (run.end - 1)
      BY <1>4
    <3>2. QED
      BY <2>3, <3>1 DEF Image
  <2>5. QED
    BY <1>4, <2>1, <2>2, <2>4 DEF RunIsRight
<1>6. Lo(UpdateRun(run), level) = Lo(run, level) /\ Hi(UpdateRun(run), level) = next
  <2>1. Origin(run.start, level) \in Nat /\ Origin(run.start, level) + (run.end - run.start) = next + 1
    BY <1>2 DEF Lo, Hi
  <2>2. QED
    BY <1>4, <2>1 DEF Lo, Hi
<1>7. gs \in Seq(Frame) /\ DOMAIN gs = DOMAIN fs
      /\ \A f \in DOMAIN gs : gs[f].level = fs[f].level /\ DOMAIN gs[f].runs = DOMAIN fs[f].runs
  BY DEF IsShrunk
<1>8. gs[n].runs[m] = UpdateRun(run)
      /\ \A f \in DOMAIN gs : \A k \in DOMAIN gs[f].runs : f # n \/ k # m => gs[f].runs[k] = fs[f].runs[k]
  BY <1>3 DEF IsShrunk
<1>9. ASSUME NEW f \in DOMAIN gs, NEW k \in DOMAIN gs[f].runs
      PROVE  /\ RunIsRight(gs[f].runs[k], gs[f].level)
             /\ Lo(gs[f].runs[k], gs[f].level) = Lo(fs[f].runs[k], fs[f].level)
             /\ f # n \/ k # m => Hi(gs[f].runs[k], gs[f].level) = Hi(fs[f].runs[k], fs[f].level)
             /\ f = n /\ k = m => Hi(gs[f].runs[k], gs[f].level) = next
  <2>1. CASE f = n /\ k = m
    BY <1>3, <1>5, <1>6, <1>7, <1>8, <2>1
  <2>2. CASE f # n \/ k # m
    BY <1>1, <1>7, <1>8, <2>2 DEF RunsAreRight
  <2>3. QED
    BY <2>1, <2>2
<1>10. RunsAreRight(gs)
  <2>1. \A f \in DOMAIN gs : gs[f].level <= ix.rate /\ gs[f].runs # <<>>
    <3> SUFFICES ASSUME NEW f \in DOMAIN gs PROVE gs[f].level <= ix.rate /\ gs[f].runs # <<>>
      OBVIOUS
    <3>1. gs[f].level <= ix.rate /\ fs[f].runs # <<>>
      BY <1>1, <1>7 DEF RunsAreRight
    <3>2. gs[f] \in Frame /\ fs[f] \in Frame
      BY <1>1, <1>7
    <3> DEFINE a == fs[f].runs
               b == gs[f].runs
    <3>3. a \in Seq(RunRecord) /\ b \in Seq(RunRecord) /\ DOMAIN a = DOMAIN b /\ a # <<>>
      BY <1>7, <3>1, <3>2 DEF Frame
    <3> HIDE DEF a, b
    <3>4. DOMAIN a = 1..Len(a) /\ DOMAIN b = 1..Len(b) /\ Len(a) > 0 /\ Len(a) \in Nat /\ Len(b) \in Nat
      BY <3>3
    <3>5. 1 \in DOMAIN b
      BY <3>3, <3>4
    <3>6. b # <<>>
      BY <3>4, <3>5
    <3>7. QED
      BY <3>1, <3>6 DEF b
  <2>2. QED
    BY <1>9, <2>1 DEF RunsAreRight
<1>11. RunsInside(gs, first, next - 1)
  <2> SUFFICES ASSUME NEW f \in DOMAIN gs, NEW k \in DOMAIN gs[f].runs
               PROVE  /\ first <= Lo(gs[f].runs[k], gs[f].level)
                      /\ Hi(gs[f].runs[k], gs[f].level) <= next - 1 + 1
    BY DEF RunsInside
  <2>1. f \in DOMAIN fs /\ k \in DOMAIN fs[f].runs
    BY <1>7
  <2>2. first <= Lo(gs[f].runs[k], gs[f].level)
    BY <1>1, <1>9, <2>1 DEF RunsInside
  <2>3. CASE f = n /\ k = m
    BY <1>9, <2>2, <2>3
  <2>4. CASE f # n \/ k # m
    <3>1. k <= Len(fs[f].runs)
      <4> DEFINE a == fs[f].runs
      <4>1. fs[f] \in Frame /\ k \in DOMAIN a
        BY <1>1, <2>1
      <4>2. a \in Seq(RunRecord)
        BY <4>1 DEF Frame
      <4>3. k <= Len(a)
        <5> HIDE DEF a
        <5> QED BY <4>1, <4>2
      <4>4. QED
        BY <4>3
    <3>2. f < n \/ (f = n /\ k < m)
      <4>1. k \in Nat /\ f \in Nat /\ f <= n
        BY <1>3, <2>1, StackTypes
      <4>2. QED
        BY <1>3, <2>4, <3>1, <4>1
    <3>3. Hi(fs[f].runs[k], fs[f].level) <= Lo(run, level)
      BY <1>1, <1>3, <2>1, <3>2 DEF RunsOrdered
    <3>4. Lo(run, level) <= next
      <4>1. Lo(run, level) < Hi(run, level)
        BY TopEnds
      <4>2. QED
        BY <1>2, <4>1
    <3>5. Hi(fs[f].runs[k], fs[f].level) \in Nat
      BY <2>1, StackTypes
    <3>6. QED
      BY <1>2, <1>9, <2>2, <2>4, <3>3, <3>4, <3>5
  <2>5. QED
    BY <2>3, <2>4
<1>12. RunsOrdered(gs)
  <2> SUFFICES ASSUME NEW f \in DOMAIN gs, NEW g \in DOMAIN gs,
                      NEW k \in DOMAIN gs[f].runs, NEW j \in DOMAIN gs[g].runs,
                      f < g \/ (f = g /\ k < j)
               PROVE  Hi(gs[f].runs[k], gs[f].level) <= Lo(gs[g].runs[j], gs[g].level)
    BY DEF RunsOrdered
  <2>1. f \in DOMAIN fs /\ g \in DOMAIN fs /\ k \in DOMAIN fs[f].runs /\ j \in DOMAIN fs[g].runs
    BY <1>7
  <2>2. Hi(fs[f].runs[k], fs[f].level) <= Lo(fs[g].runs[j], fs[g].level)
    BY <1>1, <2>1 DEF RunsOrdered
  <2>3. CASE f # n \/ k # m
    BY <1>9, <2>2, <2>3
  <2>4. CASE f = n /\ k = m
    <3>1. next = Hi(run, level) - 1 /\ Hi(fs[f].runs[k], fs[f].level) = next + 1
      BY <1>2, <1>3, <2>4
    <3>2. Lo(fs[g].runs[j], fs[g].level) \in Nat
      BY <2>1, StackTypes
    <3>3. QED
      BY <1>9, <2>2, <2>4, <3>1, <3>2
  <2>5. QED
    BY <2>3, <2>4
<1>13. RunsCover(gs, first, next - 1)
  <2> SUFFICES ASSUME NEW p \in first .. (next - 1)
               PROVE  \E f \in DOMAIN gs : \E k \in DOMAIN gs[f].runs :
                        Lo(gs[f].runs[k], gs[f].level) <= p /\ p < Hi(gs[f].runs[k], gs[f].level)
    BY DEF RunsCover
  <2>1. p \in first .. next /\ p < next
    OBVIOUS
  <2>2. PICK f \in DOMAIN fs : \E k \in DOMAIN fs[f].runs :
          Lo(fs[f].runs[k], fs[f].level) <= p /\ p < Hi(fs[f].runs[k], fs[f].level)
    BY <1>1, <2>1 DEF RunsCover
  <2>3. PICK k \in DOMAIN fs[f].runs :
          Lo(fs[f].runs[k], fs[f].level) <= p /\ p < Hi(fs[f].runs[k], fs[f].level)
    BY <2>2
  <2>4. f \in DOMAIN gs /\ k \in DOMAIN gs[f].runs
    BY <1>7
  <2>5. QED
    BY <1>9, <2>1, <2>3, <2>4
<1>14. QED
  BY <1>7, <1>10, <1>11, <1>12, <1>13 DEF StackInv

\* update_run and the return of the calls that are done: one position fewer.
LEMMA ShrinkKeeps ==
  ASSUME TextIsIndexed, RunsPartition, NEW first \in Nat, NEW next \in Int,
         StackInv(frames, first, next), frames # <<>>
  PROVE  StackInv(ShrinkRun, first, next - 1)
<1>1. /\ frames \in Seq(Frame) /\ \A f \in DOMAIN frames : frames[f].runs # <<>>
  BY DEF StackInv, RunsAreRight
<1>2. /\ Last(frames).runs # <<>> /\ TopRun(frames) \in RunRecord
      /\ RunIsRight(TopRun(frames), TopLevel(frames))
      /\ Lo(TopRun(frames), TopLevel(frames)) \in Nat
      /\ Hi(TopRun(frames), TopLevel(frames)) = next + 1
  BY TopEnds
<1>3. Run = TopRun(frames)
  BY DEF Run, Top, TopRun
<1>4. Run.start \in Nat /\ Run.end \in Nat /\ Run.start < Run.end
  BY <1>2, <1>3 DEF RunRecord, RunIsRight
<1>5. CASE Run.end - 1 = Run.start
  <2>1. ShrinkRun = PopRun
    BY <1>5 DEF ShrinkRun
  <2>2. IsRest(frames, ShrinkRun)
    BY <1>1, <2>1, PopRunIs
  <2>3. Lo(TopRun(frames), TopLevel(frames)) = next
    <3>1. /\ Lo(Run, TopLevel(frames)) = Origin(Run.start, TopLevel(frames))
          /\ Hi(Run, TopLevel(frames)) = Origin(Run.start, TopLevel(frames)) + (Run.end - Run.start)
      BY DEF Lo, Hi
    <3>2. QED
      BY <1>2, <1>3, <1>4, <1>5, <3>1
  <2>4. QED
    BY <2>2, <2>3, PopKeeps
<1>6. CASE Run.end - 1 # Run.start
  <2>1. IsShrunk(frames, ShrinkRun)
    BY <1>1, <1>2, <1>4, <1>6, ShrinkRunIs
  <2>2. QED
    BY <1>3, <1>6, <2>1, ShortenKeeps
<1>7. QED
  BY <1>5, <1>6

\* A call over the runs of a range that LF reached extends the stack by the
\* positions the range is the image of.
LEMMA SplitPushes ==
  ASSUME TextIsIndexed, RunsPartition, NEW gs, NEW first \in Nat,
         NEW a \in Nat, NEW b \in Nat, a < b, b <= ix.n,
         NEW level \in Nat, level < ix.rate, ix.rate \in Nat, Image(a, b, level),
         StackInv(gs, first, Origin(a, level) - 1), first <= Origin(a, level)
  PROVE  StackInv(Append(gs, [level |-> level, runs |-> Split(a, b)]), first,
                  Origin(a, level) + (b - a) - 1)
<1> DEFINE mid == Origin(a, level)
           fr == [level |-> level, runs |-> Split(a, b)]
           next == mid + (b - a) - 1
<1>1. mid \in Nat /\ next \in Int /\ mid <= next + 1
  <2>1. a \in DOMAIN sa
    BY TextSize
  <2>2. mid \in DOMAIN sa
    BY <2>1, OriginType
  <2>3. mid \in Nat
    BY <2>2, TextSize
  <2> HIDE DEF mid
  <2>4. QED
    BY <2>3
<1>2. /\ Split(a, b) \in Seq(RunRecord) /\ Split(a, b) # <<>>
      /\ \A k \in DOMAIN Split(a, b) :
           /\ a <= Split(a, b)[k].start /\ Split(a, b)[k].start < Split(a, b)[k].end
           /\ Split(a, b)[k].end <= b /\ PieceOf(Split(a, b)[k])
      /\ \A k, m \in DOMAIN Split(a, b) :
           k < m => Split(a, b)[k].end <= Split(a, b)[m].start
      /\ \A p \in a .. (b - 1) : \E k \in DOMAIN Split(a, b) :
           Split(a, b)[k].start <= p /\ p < Split(a, b)[k].end
  BY SplitIs
<1> DEFINE rs == Split(a, b)
<1> HIDE DEF rs
<1>3. fr \in Frame /\ fr.level = level /\ fr.runs = rs
  BY <1>2 DEF Frame, rs
<1>4. ASSUME NEW k \in DOMAIN rs
      PROVE  /\ rs[k].start \in Nat /\ rs[k].end \in Nat
             /\ RunIsRight(rs[k], level)
             /\ Lo(rs[k], level) = mid + (rs[k].start - a)
             /\ Hi(rs[k], level) = mid + (rs[k].end - a)
  <2>1. rs \in Seq(RunRecord)
    BY <1>2 DEF rs
  <2>2. rs[k] \in RunRecord
    BY <2>1
  <2>3. /\ rs[k].start \in Nat /\ rs[k].end \in Nat
        /\ a <= rs[k].start /\ rs[k].start < rs[k].end /\ rs[k].end <= b /\ PieceOf(rs[k])
    BY <1>2, <2>2 DEF rs, RunRecord
  <2>4. Image(rs[k].start, rs[k].end, level) /\ Origin(rs[k].start, level) = mid + (rs[k].start - a)
    BY <2>3, ImagePart
  <2>5. RunIsRight(rs[k], level)
    <3>1. ix.n \in Nat
      BY TextSize
    <3>2. rs[k].end <= ix.n
      BY <2>3, <3>1
    <3>3. QED
      BY <2>3, <2>4, <3>2 DEF RunIsRight
  <2> HIDE DEF mid
  <2>6. Hi(rs[k], level) = mid + (rs[k].end - a)
    BY <1>1, <2>3, <2>4 DEF Hi
  <2>7. QED
    BY <2>3, <2>4, <2>5, <2>6 DEF Lo
<1> HIDE DEF fr, mid
<1>5. \A k \in DOMAIN fr.runs :
        /\ RunIsRight(fr.runs[k], fr.level)
        /\ mid <= Lo(fr.runs[k], fr.level) /\ Hi(fr.runs[k], fr.level) <= next + 1
  <2> SUFFICES ASSUME NEW k \in DOMAIN rs
               PROVE  /\ RunIsRight(rs[k], level)
                      /\ mid <= Lo(rs[k], level) /\ Hi(rs[k], level) <= next + 1
    BY <1>3
  <2>1. a <= rs[k].start /\ rs[k].end <= b
    BY <1>2 DEF rs
  <2>2. QED
    BY <1>1, <1>4, <2>1
<1>6. \A k, m \in DOMAIN fr.runs :
        k < m => Hi(fr.runs[k], fr.level) <= Lo(fr.runs[m], fr.level)
  <2> SUFFICES ASSUME NEW k \in DOMAIN rs, NEW m \in DOMAIN rs, k < m
               PROVE  Hi(rs[k], level) <= Lo(rs[m], level)
    BY <1>3
  <2>1. rs[k].end <= rs[m].start
    BY <1>2 DEF rs
  <2>2. QED
    BY <1>1, <1>4, <2>1
<1>7. \A p \in mid .. next : \E k \in DOMAIN fr.runs :
        Lo(fr.runs[k], fr.level) <= p /\ p < Hi(fr.runs[k], fr.level)
  <2> SUFFICES ASSUME NEW p \in mid .. next
               PROVE  \E k \in DOMAIN rs : Lo(rs[k], level) <= p /\ p < Hi(rs[k], level)
    BY <1>3
  <2> DEFINE q == a + (p - mid)
  <2>1. q \in a .. (b - 1) /\ p = mid + (q - a)
    BY <1>1
  <2>2. PICK k \in DOMAIN rs : rs[k].start <= q /\ q < rs[k].end
    BY <1>2, <2>1 DEF rs
  <2> HIDE DEF q
  <2>3. q \in Nat
    BY <2>1
  <2>4. QED
    BY <1>1, <1>4, <2>1, <2>2, <2>3
<1>8. fr.level <= ix.rate /\ fr.runs # <<>>
  BY <1>2, <1>3 DEF rs
<1>9. StackInv(Append(gs, fr), first, next)
  <2>1. StackInv(gs, first, mid - 1) /\ first <= mid
    BY DEF mid
  <2> HIDE DEF next
  <2>2. QED
    BY <1>1, <1>3, <1>5, <1>6, <1>7, <1>8, <2>1, PushKeeps
<1>10. QED
  BY <1>9 DEF fr, mid

\* The call over the rest of the range found.
LEMMA FirstCall ==
  ASSUME TextIsIndexed, RunsPartition, NEW first \in Nat, NEW last \in Nat,
         first < last, last <= ix.n, ix.rate \in Nat \ {0}
  PROVE  StackInv(<<[runs |-> Split(first, last), level |-> 0]>>, first, last - 1)
<1>1. Origin(first, 0) = first
  BY TextSize, OriginZero
<1>2. StackInv(<<>>, first, first - 1)
  <2>1. <<>> \in Seq(Frame) /\ DOMAIN <<>> = {}
    OBVIOUS
  <2>2. \A p \in first .. (first - 1) : FALSE
    OBVIOUS
  <2>3. QED
    BY <2>1, <2>2 DEF StackInv, RunsAreRight, RunsInside, RunsOrdered, RunsCover
<1> DEFINE fr == [level |-> 0, runs |-> Split(first, last)]
<1>3. StackInv(Append(<<>>, fr), first, first + (last - first) - 1)
  <2>1. Image(first, last, 0)
    BY ImageZero
  <2>2. StackInv(Append(<<>>, fr), first, Origin(first, 0) + (last - first) - 1)
    <3>1. StackInv(<<>>, first, Origin(first, 0) - 1) /\ first <= Origin(first, 0)
      BY <1>1, <1>2
    <3>2. 0 \in Nat /\ 0 < ix.rate /\ ix.rate \in Nat
      OBVIOUS
    <3>3. QED
      BY <2>1, <3>1, <3>2, SplitPushes
  <2>3. QED
    BY <1>1, <2>2
<1>4. Append(<<>>, fr) = <<fr>>
  <2>1. fr \in Frame
    BY SplitIs DEF Frame
  <2> HIDE DEF fr
  <2>2. QED
    BY <2>1
<1>5. fr = [runs |-> Split(first, last), level |-> 0]
  OBVIOUS
<1>6. first + (last - first) - 1 = last - 1
  OBVIOUS
<1>7. QED
  BY <1>3, <1>4, <1>5, <1>6

\* Descend leaves the stack for the same positions: the current run is replaced
\* by its image one LF step further, split in runs unless the limit is reached.
LEMMA DescendKeeps ==
  ASSUME TextIsIndexed, RunsPartition, LFIsRight, SamplesAreRight,
         NEW first \in Nat, NEW next \in Int, StackInv(frames, first, next), frames # <<>>,
         ix.rate \in Nat, ~AtLimit, Sampled(Run) = NoSample,
         NEW fs, fs = Append(PopRun,
                    [level |-> Top.level + 1,
                     runs  |-> IF ix.rate <= Top.level + 1 THEN <<LFRun(Run)>>
                               ELSE Split(LFRun(Run).start, LFRun(Run).end)])
  PROVE  StackInv(fs, first, next) /\ fs # <<>>
<1> DEFINE level == Top.level
           a == LFRun(Run).start
           b == LFRun(Run).end
           mid == Lo(Run, level)
<1>1. /\ frames \in Seq(Frame) /\ \A f \in DOMAIN frames : frames[f].runs # <<>>
  BY DEF StackInv, RunsAreRight
<1>2. /\ Run = TopRun(frames) /\ level = TopLevel(frames)
  BY DEF Run, Top, TopRun, TopLevel
<1>3. /\ Last(frames).runs # <<>> /\ Run \in RunRecord /\ level \in Nat
      /\ RunIsRight(Run, level) /\ mid \in Nat /\ first <= mid
      /\ mid < Hi(Run, level) /\ Hi(Run, level) = next + 1
  BY <1>2, TopEnds
<1>4. level < ix.rate
  BY <1>3 DEF AtLimit
<1>5. /\ Run.start \in Nat /\ Run.end \in Nat /\ Run.start < Run.end /\ Run.end <= ix.n
      /\ PieceOf(Run) /\ Image(Run.start, Run.end, level)
  BY <1>3, <1>4 DEF RunRecord, RunIsRight
<1>6. /\ LFRun(Run) \in RunRecord /\ a \in Nat /\ b \in Nat /\ b <= ix.n
      /\ b - a = Run.end - Run.start
  BY <1>3, <1>5, LFRunIs DEF RunRecord
<1>7. Image(a, b, level + 1) /\ Origin(a, level + 1) = Origin(Run.start, level)
  BY <1>3, <1>5, ImageOfLF
<1>8. mid = Origin(Run.start, level) /\ mid + (b - a) = next + 1 /\ a < b
  BY <1>3, <1>5, <1>6 DEF Lo, Hi
<1>9. StackInv(PopRun, first, mid - 1)
  <2>1. IsRest(frames, PopRun)
    BY <1>1, PopRunIs
  <2>2. QED
    BY <1>2, <2>1, PopKeeps
<1>10. CASE ~(ix.rate <= level + 1)
  <2>1. fs = Append(PopRun, [level |-> level + 1, runs |-> Split(a, b)])
    BY <1>10
  <2>2. level + 1 \in Nat /\ level + 1 < ix.rate
    BY <1>3, <1>10
  <2>3. StackInv(fs, first, Origin(a, level + 1) + (b - a) - 1)
    <3>1. /\ StackInv(PopRun, first, Origin(a, level + 1) - 1)
          /\ first <= Origin(a, level + 1)
      BY <1>3, <1>7, <1>8, <1>9
    <3> HIDE DEF a, b, level
    <3>2. QED
      BY <1>6, <1>7, <1>8, <2>1, <2>2, <3>1, SplitPushes
  <2>4. Origin(a, level + 1) + (b - a) - 1 = next
    <3>1. Origin(a, level + 1) = mid
      BY <1>7, <1>8
    <3>2. mid \in Int /\ a \in Int /\ b \in Int /\ mid + (b - a) = next + 1
      BY <1>3, <1>6, <1>8
    <3> HIDE DEF a, b, mid
    <3>3. mid + (b - a) - 1 = next
      BY <3>2
    <3>4. QED
      BY <3>1, <3>3
  <2>5. QED
    <3>1. PopRun \in Seq(Frame)
      BY <1>9 DEF StackInv
    <3>2. fs # <<>>
      BY <2>1, <3>1
    <3>3. QED
      BY <2>3, <2>4, <3>2
<1>11. CASE ix.rate <= level + 1
  <2> DEFINE fr == [level |-> level + 1, runs |-> <<LFRun(Run)>>]
  <2>1. fs = Append(PopRun, fr)
    BY <1>11
  <2>2. level + 1 \in Nat /\ level + 1 <= ix.rate
    BY <1>3, <1>4
  <2>3. fr \in Frame /\ fr.level = level + 1 /\ DOMAIN fr.runs = {1} /\ fr.runs[1] = LFRun(Run)
        /\ fr.runs # <<>>
    <3>1. <<LFRun(Run)>> \in Seq(RunRecord)
      BY <1>6
    <3>2. QED
      BY <2>2, <3>1 DEF Frame
  <2>4. RunIsRight(LFRun(Run), level + 1)
    BY <1>6, <1>7, <1>8, <1>11, <2>2 DEF RunIsRight
  <2>5. Lo(LFRun(Run), level + 1) = mid /\ Hi(LFRun(Run), level + 1) = next + 1
    BY <1>7, <1>8 DEF Lo, Hi
  <2> HIDE DEF fr, mid, level
  <2>6. \A k \in DOMAIN fr.runs :
          /\ RunIsRight(fr.runs[k], fr.level)
          /\ mid <= Lo(fr.runs[k], fr.level) /\ Hi(fr.runs[k], fr.level) <= next + 1
    BY <1>3, <2>3, <2>4, <2>5
  <2>7. \A k, m \in DOMAIN fr.runs :
          k < m => Hi(fr.runs[k], fr.level) <= Lo(fr.runs[m], fr.level)
    BY <2>3
  <2>8. \A p \in mid .. next : \E k \in DOMAIN fr.runs :
          Lo(fr.runs[k], fr.level) <= p /\ p < Hi(fr.runs[k], fr.level)
    BY <1>3, <2>3, <2>5
  <2>9. mid <= next + 1
    BY <1>3
  <2>10. StackInv(Append(PopRun, fr), first, next)
    BY <1>3, <1>9, <2>2, <2>3, <2>6, <2>7, <2>8, <2>9, PushKeeps
  <2>11. PopRun \in Seq(Frame)
    BY <1>9 DEF StackInv
  <2>12. QED
    BY <2>1, <2>10, <2>11
<1>12. QED
  BY <1>10, <1>11

-----------------------------------------------------------------------------
(* The actions. *)

\* The parts of IndexIsRight, and the text size, as the lemmas below need them.
LEMMA IndexFacts ==
  ASSUME IndexIsRight
  PROVE  /\ TextIsIndexed /\ RunsPartition /\ LFIsRight /\ SamplesAreRight
         /\ ix.n \in Nat \ {0} /\ DOMAIN sa = 0..(ix.n - 1)
         /\ \A p \in DOMAIN sa : sa[p] \in 0..(ix.n - 1)
         /\ ix.kind # "r" => ix.rate \in Nat \ {0}
<1>1. TextIsIndexed /\ RunsPartition /\ LFIsRight /\ SamplesAreRight
  BY DEF IndexIsRight
<1>2. /\ ix.n \in Nat \ {0} /\ DOMAIN sa = 0..(ix.n - 1)
      /\ \A p \in DOMAIN sa : sa[p] \in 0..(ix.n - 1)
  BY <1>1 DEF TextIsIndexed
<1>3. ix.kind # "r" => ix.rate \in Nat \ {0}
  BY <1>1 DEF SamplesAreRight
<1>4. QED
  BY <1>1, <1>2, <1>3

-----------------------------------------------------------------------------
(* A step of a query leaves the index alone, and what is said of it. *)

\* A step that leaves the index alone leaves phi alone.
LEMMA PhiStays ==
  ASSUME UNCHANGED data, NEW v
  PROVE  Phi(v)' = Phi(v)
<1>1. Predecessor(v)' = Predecessor(v)
  BY DEF Predecessor, data
<1>2. ASSUME NEW o, NEW d
      PROVE  SampleForPhi(o, d)' = SampleForPhi(o, d)
  <2>1. Validate(o, d)' = Validate(o, d)
    BY DEF Validate, InitialValidity, InArea, MarkIsValid, data
  <2>2. QED
    BY <2>1 DEF SampleForPhi, data
<1>3. QED
  BY <1>1, <1>2 DEF Phi, data

\* A step that leaves the index alone leaves it right.
LEMMA IndexStays ==
  ASSUME UNCHANGED data, IndexIsRight
  PROVE  IndexIsRight'
<1>1. TextIsIndexed'
  BY DEF IndexIsRight, TextIsIndexed, data
<1>2. RunsPartition'
  BY DEF IndexIsRight, RunsPartition, data
<1>3. LFIsRight'
  BY DEF IndexIsRight, LFIsRight, LF, Rank, data
<1>4. SamplesAreRight'
  BY DEF IndexIsRight, SamplesAreRight, TailBehind, TailOf, GetSample, data
<1>5. PhiRightWhenTrusted'
  BY PhiStays DEF IndexIsRight, PhiRightWhenTrusted, data
<1>6. PhiRightPastSamples'
  BY PhiStays DEF IndexIsRight, PhiRightPastSamples, TailBehind, TailOf, data
<1>7. QED
  BY <1>1, <1>2, <1>3, <1>4, <1>5, <1>6, PhiStays DEF IndexIsRight, data

\* What the stack of calls stands for depends on the index only.
LEMMA StackStays ==
  ASSUME UNCHANGED data, NEW fs, NEW first, NEW next, StackInv(fs, first, next)
  PROVE  StackInv(fs, first, next)'
<1>1. ASSUME NEW q, NEW level PROVE Origin(q, level)' = Origin(q, level)
  BY DEF Origin, data
<1>2. ASSUME NEW run, NEW level
      PROVE  Lo(run, level)' = Lo(run, level) /\ Hi(run, level)' = Hi(run, level)
  BY <1>1 DEF Lo, Hi
<1>3. ASSUME NEW run, NEW level, RunIsRight(run, level) PROVE RunIsRight(run, level)'
  <2>1. ASSUME NEW a, NEW b, Image(a, b, level) PROVE Image(a, b, level)'
    BY <1>1, <2>1 DEF Image, TailBehind, TailOf, data
  <2>2. PieceOf(run) => PieceOf(run)'
    BY DEF PieceOf, data
  <2>3. QED
    BY <1>3, <2>1, <2>2 DEF RunIsRight, data
<1>4. RunsAreRight(fs)'
  BY <1>3 DEF StackInv, RunsAreRight, data
<1>5. RunsInside(fs, first, next)' /\ RunsOrdered(fs)' /\ RunsCover(fs, first, next)'
  BY <1>2 DEF StackInv, RunsInside, RunsOrdered, RunsCover
<1>6. QED
  BY <1>4, <1>5 DEF StackInv

\* What the toehold data lead to depends on the index only.
LEMMA LeadsStays ==
  ASSUME UNCHANGED data, NEW t, NEW last, NEW steps, ToeholdLeads(t, last, steps)
  PROVE  ToeholdLeads(t, last, steps)'
<1>1. RunNamed(t)' = RunNamed(t)
  BY DEF RunNamed, SelectOnRuns, data
<1>2. QED
  BY <1>1 DEF ToeholdLeads, LF, Rank, TailOf, data

-----------------------------------------------------------------------------
(* The search. *)

\* A new query starts over the whole suffix array.
LEMMA QueryKeeps ==
  ASSUME QueryInv, Query
  PROVE  QueryInv'
<1>1. /\ IndexIsRight /\ UNCHANGED data /\ stage' = "search"
      /\ ix.n \in Nat \ {0} /\ DOMAIN sa = 0..(ix.n - 1) /\ TextIsIndexed
      /\ \A p \in DOMAIN sa : sa[p] \in 0..(ix.n - 1)
  BY IndexFacts DEF QueryInv, Query
<1>2. /\ text' = text /\ sa' = sa /\ ix' = ix /\ op' \in {"locate", "count"}
      /\ pat' \in Patterns(text, MaxPattern) /\ left' = Len(pat')
      /\ range' = [start |-> 0, end |-> ix.n] /\ toehold' = NoToehold
      /\ jump' = NoJump /\ frames' = <<>> /\ value' = 0 /\ valid' = FALSE
      /\ out' = <<>> /\ found' = NoRange
  BY DEF Query, data
<1>3. pat' \in Seq(Nat) /\ Len(pat') \in Nat
  BY <1>1, <1>2, PatternAssumption, PatternType
<1>4. Typed'
  <2>1. /\ range' \in [start : Nat, end : Nat] /\ found' \in [start : Nat, end : Nat]
        /\ toehold' \in [step : Nat, c : Nat, rnk : Nat, next : Nat]
        /\ jump' \in [rnk : Nat, isEnd : BOOLEAN, next : Nat, jumps : Nat]
    BY <1>1, <1>2 DEF NoRange, NoToehold, NoJump
  <2>2. frames' \in Seq(Frame) /\ DOMAIN frames' = {} /\ out' \in Seq(Nat)
    BY <1>2
  <2>3. left' \in 0..Len(pat')
    BY <1>2, <1>3
  <2>4. QED
    BY <1>1, <1>2, <1>3, <2>1, <2>2, <2>3 DEF Typed
<1>5. RangeIsSuffix'
  <2>1. ASSUME NEW p \in DOMAIN sa
        PROVE  sa[p] \in Occurrences(text, SubSeq(pat', Len(pat') + 1, Len(pat')))
    <3>1. Len(pat') \in 0..Len(pat') /\ sa[p] \in Int /\ sa[p] \in DOMAIN text
      BY <1>1, <1>3, TextSize
    <3>2. (Len(pat') + 1)..Len(pat') = {}
      BY <1>3
    <3>3. QED
      BY <1>3, <3>1, <3>2, OccurrencesIs
  <2>2. ASSUME NEW p \in DOMAIN sa
        PROVE  range'.start <= p /\ p < range'.end
    BY <1>1, <1>2
  <2>3. QED
    BY <1>2, <2>1, <2>2 DEF RangeIsSuffix
<1>6. SearchInv'
  BY <1>1, <1>2, <1>5 DEF SearchInv, NoToehold, NoJump
<1>7. ToeholdInv'
  BY <1>2, <1>3 DEF ToeholdInv
<1>8. FoundInv' /\ JumpInv' /\ WalkInv'
  BY <1>1 DEF FoundInv, JumpInv, WalkInv
<1>9. ReportInv' /\ BoundInv'
  BY <1>1, <1>2 DEF ReportInv, BoundInv, ReportsSuffixArray, NoRange, NoJump
<1>10. QED
  BY <1>1, <1>4, <1>6, <1>7, <1>8, <1>9, IndexStays DEF QueryInv

\* One symbol of the pattern: the range holds the suffixes that start with one
\* symbol more, and the toehold data lead to its last position.
LEMMA SearchStepKeeps ==
  ASSUME QueryInv, SearchStep
  PROVE  QueryInv'
<1> DEFINE c == Comp(text, pat[left])
           next == LFRange(range, c)
<1>1. /\ stage = "search" /\ left > 0 /\ range.start < range.end
      /\ range' = [start |-> next.start, end |-> next.end]
      /\ IF op = "locate" /\ (toehold.step = 0 \/ ~IsTrivial(next))
         THEN toehold' = ToeholdData(c, next)
         ELSE toehold' = toehold
      /\ left' = left - 1
      /\ UNCHANGED <<data, stage, query, jump, frames, value, valid, out, found>>
  BY DEF SearchStep, IsEmpty
<1>2. /\ Typed /\ IndexIsRight /\ SearchInv /\ ToeholdInv /\ FoundInv /\ JumpInv /\ WalkInv
      /\ ReportInv /\ BoundInv
  BY <1>1 DEF QueryInv
<1>3. /\ TextIsIndexed /\ RunsPartition /\ LFIsRight /\ ix.n \in Nat \ {0}
      /\ DOMAIN sa = 0..(ix.n - 1) /\ \A p \in DOMAIN sa : sa[p] \in 0..(ix.n - 1)
  BY <1>2, IndexFacts
<1>4. /\ pat \in Patterns(text, MaxPattern) /\ range.end <= ix.n /\ frames = <<>> /\ out = <<>>
      /\ jump.jumps = 0 /\ RangeIsSuffix
      /\ left = Len(pat) => range = [start |-> 0, end |-> ix.n] /\ toehold.step = 0
  BY <1>1, <1>2 DEF SearchInv
<1>5. /\ pat \in Seq(Nat) /\ Len(pat) \in Nat /\ left \in 1..Len(pat) /\ left \in DOMAIN pat
      /\ pat[left] \in Symbols(text) /\ pat[left] # 0
      /\ range \in [start : Nat, end : Nat] /\ range.start \in Nat /\ range.end \in Nat
      /\ toehold \in [step : Nat, c : Nat, rnk : Nat, next : Nat]
  <2>1. pat \in Seq(Nat) /\ Len(pat) \in Nat /\ DOMAIN pat = 1..Len(pat)
    BY <1>3, <1>4, PatternAssumption, PatternType
  <2>2. left \in 1..Len(pat)
    BY <1>1, <1>2, <2>1 DEF Typed
  <2>3. QED
    BY <1>2, <1>3, <1>4, <2>1, <2>2, PatternAssumption, PatternType DEF Typed
<1>6. /\ next.start \in Nat /\ next.end \in Nat /\ next.start <= next.end /\ next.end <= ix.n
      /\ next.end > 0 /\ next.run \in Nat /\ c \in Nat
  <2>1. /\ next.start \in Nat /\ next.end \in Nat /\ next.start <= next.end
        /\ next.start = ix.C[c] + Rank(c, range.start) /\ next.end = ix.C[c] + Rank(c, range.end)
        /\ next.run = RankReport(c, range.end - 1).run
        /\ ix.C[c] \in Nat /\ Rank(c, range.start) \in Nat /\ Rank(c, range.end) \in Nat
    BY <1>1, <1>3, <1>4, <1>5, LFRangeIs
  <2>2. next.end <= ix.n /\ ix.C[c] > 0
    BY <1>3, <1>5, <2>1, BlockInside, EndPositive
  <2>3. next.run \in Nat
    <3>1. IsFiniteSet(DOMAIN ix.run)
      <4>1. DOMAIN ix.run = 0..(Size(ix.run) - 1) /\ 0 \in Int /\ Size(ix.run) - 1 \in Int
        BY <1>3, RunTypes
      <4>2. QED
        BY <4>1, FS_Interval
    <3>2. IsFiniteSet({k \in DOMAIN ix.run : ix.run[k].c = c /\ ix.run[k].start <= range.end - 1})
      BY <3>1, FS_Subset
    <3>3. QED
      BY <2>1, <3>2, FS_CardinalityType DEF RankReport
  <2>4. c \in Nat
    BY <1>3, <1>5, SymbolsFinite, CompIs
  <2> HIDE DEF next, c
  <2>5. QED
    BY <2>1, <2>2, <2>3, <2>4
<1>7. /\ text' = text /\ sa' = sa /\ ix' = ix /\ op' = op /\ pat' = pat /\ stage' = "search"
      /\ jump' = jump /\ frames' = frames /\ value' = value /\ valid' = valid /\ out' = out
      /\ found' = found /\ range'.start = next.start /\ range'.end = next.end
  BY <1>1 DEF data, query
<1>8. /\ toehold' \in [step : Nat, c : Nat, rnk : Nat, next : Nat]
      /\ toehold' # toehold => toehold' = ToeholdData(c, next)
  <2> HIDE DEF next, c
  <2>1. ToeholdData(c, next) \in [step : Nat, c : Nat, rnk : Nat, next : Nat]
    <3>1. left - 1 \in Nat /\ next.end - 1 \in Nat
      BY <1>5, <1>6
    <3>2. QED
      BY <1>6, <3>1 DEF ToeholdData
  <2>2. QED
    BY <1>1, <1>5, <2>1
<1>9. Typed'
  <2>1. range' \in [start : Nat, end : Nat]
    BY <1>1, <1>6
  <2>2. left' \in 0..Len(pat')
    BY <1>1, <1>5, <1>7
  <2> HIDE DEF next, c
  <2>3. QED
    BY <1>2, <1>7, <1>8, <2>1, <2>2 DEF Typed
<1>10. SearchInv'
  <2>1. RangeIsSuffix'
    <3>1. ASSUME NEW r \in DOMAIN sa
          PROVE  InRange(next, r) <=> sa[r] \in Occurrences(text, SubSeq(pat, left, Len(pat)))
      <4>1. \A q \in DOMAIN sa :
              InRange(range, q) <=> sa[q] \in Occurrences(text, SubSeq(pat, left + 1, Len(pat)))
        BY <1>1, <1>4 DEF RangeIsSuffix, InRange
      <4>2. /\ next.start = ix.C[c] + Rank(c, range.start)
            /\ next.end = ix.C[c] + Rank(c, range.end)
        BY <1>1, <1>3, <1>4, <1>5, LFRangeIs
      <4> HIDE DEF next
      <4>3. QED
        BY <1>1, <1>3, <1>4, <1>5, <4>1, <4>2, PatternAssumption, SearchStepRight
    <3>2. left' + 1 = left
      BY <1>1, <1>5
    <3> HIDE DEF next, c
    <3>3. QED
      BY <1>7, <3>1, <3>2 DEF RangeIsSuffix, InRange
  <2>2. left' # Len(pat)
    BY <1>1, <1>5
  <2> HIDE DEF next, c
  <2>3. QED
    BY <1>4, <1>6, <1>7, <2>1, <2>2 DEF SearchInv
<1>11. ToeholdInv'
  <2> SUFFICES ASSUME op = "locate", next.start < next.end
               PROVE  toehold'.step >= left' /\ ToeholdLeads(toehold', next.end - 1, toehold'.step - left')
    <3>1. ASSUME op' = "locate", ~IsEmpty(range')
          PROVE  toehold'.step >= left' /\ ToeholdLeads(toehold, range.end - 1, toehold.step - left)'
      <4>1. op = "locate" /\ next.start < next.end
        BY <1>7, <3>1 DEF IsEmpty
      <4>2. toehold'.step >= left' /\ ToeholdLeads(toehold', range'.end - 1, toehold'.step - left')
        BY <1>7, <4>1
      <4> HIDE DEF next, c
      <4>3. QED
        BY <1>1, <4>2, LeadsStays
    <3> HIDE DEF next, c
    <3>2. QED
      BY <3>1 DEF ToeholdInv
  <2>1. next.end - 1 \in DOMAIN sa
    <3> HIDE DEF next, c
    <3> QED BY <1>3, <1>6
  <2>2. CASE toehold.step = 0 \/ ~next.cover
    <3>1. toehold' = ToeholdData(c, next)
      BY <1>1, <2>2 DEF IsTrivial
    <3>2. /\ toehold'.step = left' /\ toehold'.rnk = next.run /\ toehold'.c = c
          /\ toehold'.next = next.end - 1
      BY <1>1, <3>1 DEF ToeholdData
    <3>3. ~next.cover \/ range.end = ix.n
      <4>1. CASE left = Len(pat)
        BY <1>4, <4>1
      <4>2. CASE left < Len(pat)
        <5>1. toehold.step >= left
          BY <1>1, <1>2, <4>2 DEF ToeholdInv, IsEmpty
        <5>2. toehold.step # 0
          BY <1>5, <5>1
        <5>3. QED
          BY <2>2, <5>2
      <4>3. QED
        BY <1>5, <4>1, <4>2
    <3> DEFINE k == SelectOnRuns(next.run, c)
    <3>4. k \in DOMAIN ix.run /\ LF(TailOf(k)) = next.end - 1
      BY <1>1, <1>3, <1>4, <1>5, <3>3, SpecialStep
    <3>5. k = RunNamed(toehold')
      BY <3>2 DEF RunNamed
    <3> HIDE DEF next, c, k
    <3>6. (sa[next.end - 1] + (left' - left')) % ix.n = sa[next.end - 1]
      <4>1. sa[next.end - 1] \in 0..(ix.n - 1)
        BY <1>3, <2>1
      <4>2. left' - left' = 0
        BY <1>1, <1>5
      <4>3. sa[next.end - 1] + (left' - left') = sa[next.end - 1]
        BY <1>3, <4>1, <4>2
      <4>4. QED
        BY <1>3, <4>1, <4>3, ModSmall
    <3>7. left' >= left'
      BY <1>1, <1>5
    <3>8. QED
      BY <3>2, <3>4, <3>5, <3>6, <3>7 DEF ToeholdLeads
  <2>3. CASE toehold.step # 0 /\ next.cover
    <3>1. toehold' = toehold
      BY <1>1, <2>3 DEF IsTrivial
    <3>2. left < Len(pat)
      BY <1>4, <1>5, <2>3
    <3>3. toehold.step >= left /\ ToeholdLeads(toehold, range.end - 1, toehold.step - left)
      BY <1>1, <1>2, <3>2 DEF ToeholdInv, IsEmpty
    <3>4. range.end - 1 \in DOMAIN sa
      BY <1>1, <1>3, <1>4, <1>5
    <3>5. next.end - 1 = LF(range.end - 1)
      BY <1>1, <1>3, <1>4, <1>5, <2>3, TrivialStep
    <3>6. toehold.step \in Nat /\ toehold.step - left \in Int
          /\ toehold.step - left' = toehold.step - left + 1 /\ toehold.step >= left'
      <4>1. toehold.step \in Nat /\ left \in Nat /\ left' = left - 1
        BY <1>1, <1>5
      <4>2. QED
        BY <3>3, <4>1
    <3> HIDE DEF next, c
    <3>7. (sa[next.end - 1] + (toehold.step - left + 1)) % ix.n
            = (sa[range.end - 1] + (toehold.step - left)) % ix.n
      BY <1>3, <3>4, <3>5, <3>6, OneMore
    <3>8. ToeholdLeads(toehold, next.end - 1, toehold.step - left')
      BY <3>3, <3>6, <3>7 DEF ToeholdLeads
    <3>9. QED
      BY <3>1, <3>6, <3>8
  <2>4. QED
    BY <2>2, <2>3
<1>12. FoundInv' /\ JumpInv' /\ WalkInv'
  BY <1>7 DEF FoundInv, JumpInv, WalkInv
<1>13. ReportInv' /\ BoundInv'
  <2> HIDE DEF next, c
  <2> QED BY <1>2, <1>4, <1>7 DEF ReportInv, BoundInv, ReportsSuffixArray
<1>14. QED
  BY <1>1, <1>2, <1>9, <1>10, <1>11, <1>12, <1>13, IndexStays DEF QueryInv

\* The search is over: the range found is that of the occurrences, and the
\* toehold data lead to its last position.
LEMMA SearchEndKeeps ==
  ASSUME QueryInv, SearchEnd
  PROVE  QueryInv'
<1>1. /\ stage = "search" /\ (left = 0 \/ IsEmpty(range)) /\ found' = range
      /\ IF op = "count" \/ IsEmpty(range)
         THEN stage' = "answered" /\ jump' = jump
         ELSE /\ stage' = "toehold"
              /\ jump' = [rnk |-> RunNamed(toehold), isEnd |-> TRUE,
                          next |-> toehold.next, jumps |-> 0]
      /\ UNCHANGED <<data, query, left, range, toehold, frames, value, valid, out>>
  BY DEF SearchEnd, RunNamed
<1>2. /\ Typed /\ IndexIsRight /\ SearchInv /\ ToeholdInv /\ ReportInv /\ BoundInv
  BY <1>1 DEF QueryInv
<1>3. /\ TextIsIndexed /\ RunsPartition /\ LFIsRight /\ ix.n \in Nat \ {0}
      /\ DOMAIN sa = 0..(ix.n - 1) /\ \A p \in DOMAIN sa : sa[p] \in 0..(ix.n - 1)
  BY <1>2, IndexFacts
<1>4. /\ pat \in Patterns(text, MaxPattern) /\ range.start <= range.end /\ range.end <= ix.n
      /\ frames = <<>> /\ out = <<>> /\ jump.jumps = 0
      /\ left = Len(pat) => range = [start |-> 0, end |-> ix.n]
      /\ \A p \in DOMAIN sa :
           InRange(range, p) <=> sa[p] \in Occurrences(text, SubSeq(pat, left + 1, Len(pat)))
  BY <1>1, <1>2 DEF SearchInv, RangeIsSuffix, InRange
<1>5. /\ pat \in Seq(Nat) /\ Len(pat) \in Nat /\ Len(pat) > 0 /\ left \in 0..Len(pat)
      /\ range \in [start : Nat, end : Nat] /\ range.start \in Nat /\ range.end \in Nat
      /\ toehold \in [step : Nat, c : Nat, rnk : Nat, next : Nat]
      /\ jump \in [rnk : Nat, isEnd : BOOLEAN, next : Nat, jumps : Nat]
  BY <1>2, <1>3, <1>4, PatternAssumption, PatternType DEF Typed
<1>6. /\ text' = text /\ sa' = sa /\ ix' = ix /\ op' = op /\ pat' = pat /\ left' = left
      /\ range' = range /\ toehold' = toehold /\ frames' = <<>> /\ value' = value
      /\ valid' = valid /\ out' = <<>>
  BY <1>1, <1>4 DEF data, query
<1>7. \A p \in DOMAIN sa : InRange(range, p) <=> sa[p] \in Occurrences(text, pat)
  <2>1. CASE left = 0
    <3>1. SubSeq(pat, left + 1, Len(pat)) = pat
      BY <1>5, <2>1
    <3>2. QED
      BY <1>4, <3>1
  <2>2. CASE left # 0
    <3>1. IsEmpty(range)
      BY <1>1, <2>2
    <3>2. left # Len(pat)
      BY <1>3, <1>4, <3>1 DEF IsEmpty
    <3>3. \A p \in DOMAIN sa : ~InRange(range, p)
      BY <1>3, <1>5, <3>1 DEF IsEmpty, InRange
    <3>4. left \in 0..(Len(pat) - 1)
      BY <1>5, <3>2
    <3>5. Occurrences(text, pat) = {}
      BY <1>3, <1>4, <3>3, <3>4, PatternAssumption, EmptyMeansNone
    <3>6. QED
      BY <3>3, <3>5
  <2>3. QED
    BY <2>1, <2>2
<1>8. FoundInv'
  BY <1>1, <1>4, <1>6, <1>7 DEF FoundInv, InRange
<1>9. CASE op = "count" \/ IsEmpty(range)
  <2>1. stage' = "answered" /\ jump' = jump /\ found' = range
    BY <1>1, <1>9
  <2>2. Typed'
    BY <1>2, <1>5, <1>6, <2>1 DEF Typed
  <2>3. ReportInv'
    <3>1. op = "locate" => range.end - range.start = 0
      BY <1>4, <1>5, <1>9 DEF IsEmpty
    <3>2. range.end - range.start >= 0
      BY <1>4, <1>5
    <3>3. QED
      BY <1>6, <2>1, <3>1, <3>2 DEF ReportInv, ReportsSuffixArray
  <2>4. SearchInv' /\ ToeholdInv' /\ JumpInv' /\ WalkInv' /\ BoundInv'
    BY <1>4, <2>1 DEF SearchInv, ToeholdInv, JumpInv, WalkInv, BoundInv
  <2>5. QED
    BY <1>1, <1>2, <1>8, <2>2, <2>3, <2>4, IndexStays DEF QueryInv
<1>10. CASE ~(op = "count" \/ IsEmpty(range))
  <2>1. /\ stage' = "toehold" /\ found' = range
        /\ jump' = [rnk |-> RunNamed(toehold), isEnd |-> TRUE, next |-> toehold.next, jumps |-> 0]
    BY <1>1, <1>10
  <2>2. op = "locate" /\ left = 0 /\ ~IsEmpty(range)
    BY <1>1, <1>2, <1>10 DEF Typed
  <2>3. ToeholdLeads(toehold, range.end - 1, toehold.step)
    <3>1. toehold.step \in Nat /\ toehold.step - left = toehold.step
      BY <1>5, <2>2
    <3>2. QED
      BY <1>1, <1>2, <1>5, <2>2, <3>1 DEF ToeholdInv
  <2>4. /\ RunNamed(toehold) \in DOMAIN ix.run /\ toehold.next = LF(TailOf(RunNamed(toehold)))
        /\ RunNamed(toehold) \in Nat /\ toehold.next \in DOMAIN sa
    <3>1. RunNamed(toehold) \in DOMAIN ix.run /\ toehold.next = LF(TailOf(RunNamed(toehold)))
      BY <2>3 DEF ToeholdLeads
    <3>2. QED
      BY <1>3, <3>1, RunTypes, TailType DEF LFIsRight
  <2>5. jump' \in [rnk : Nat, isEnd : BOOLEAN, next : Nat, jumps : Nat]
    BY <1>5, <2>1, <2>4
  <2>6. Typed'
    BY <1>2, <1>5, <1>6, <2>1, <2>5 DEF Typed
  <2>7. JumpInv'
    <3>1. ToeholdLeads(toehold, found.end - 1, toehold.step)'
      BY <1>1, <1>6, <2>1, <2>3, LeadsStays
    <3>2. (sa[toehold.next] + 0) % ix.n = sa[toehold.next]
      <4>1. sa[toehold.next] \in 0..(ix.n - 1) /\ sa[toehold.next] + 0 = sa[toehold.next]
        BY <1>3, <2>4
      <4>2. QED
        BY <1>3, <4>1, ModSmall
    <3>3. (jump.jumps)' = 0 /\ (jump.next)' = toehold.next /\ (jump.rnk)' = RunNamed(toehold)
          /\ (jump.isEnd)' = TRUE
      BY <2>1
    <3>4. LF(TailOf(jump.rnk))' = LF(TailOf(RunNamed(toehold)))
      BY <1>6, <3>3 DEF LF, Rank, TailOf
    <3>5. \A l \in 0..((jump.jumps)' - 1) : FALSE
      BY <3>3
    <3>6. /\ (op = "locate" /\ range = found /\ ~IsEmpty(found) /\ frames = <<>> /\ out = <<>>)'
          /\ (jump.next \in DOMAIN sa /\ (sa[jump.next] + jump.jumps) % ix.n = sa[toehold.next])'
          /\ (jump.isEnd => jump.rnk \in DOMAIN ix.run /\ jump.next = LF(TailOf(jump.rnk)))'
          /\ (ix.kind = "r" => jump.isEnd /\ jump.jumps = 0)'
          /\ (~jump.isEnd => \A k \in DOMAIN ix.run : jump.next # LF(TailOf(k)))'
      BY <1>6, <2>1, <2>2, <2>4, <3>2, <3>3, <3>4 DEF IsEmpty
    <3>7. (\A k \in ix.sampled, l \in 0..(jump.jumps - 1) :
             ~TailBehind(k, l, TailOf(RunNamed(toehold))))'
      BY <3>5
    <3>8. QED
      BY <3>1, <3>6, <3>7 DEF JumpInv
  <2>8. SearchInv' /\ ToeholdInv' /\ WalkInv' /\ BoundInv'
    BY <2>1 DEF SearchInv, ToeholdInv, WalkInv, BoundInv
  <2>9. ReportInv'
    <3>1. range.end - range.start >= 0
      BY <1>4, <1>5
    <3>2. QED
      BY <1>6, <2>1, <3>1 DEF ReportInv, ReportsSuffixArray
  <2>10. QED
    BY <1>1, <1>2, <1>8, <2>6, <2>7, <2>8, <2>9, IndexStays DEF QueryInv
<1>11. QED
  BY <1>9, <1>10

-----------------------------------------------------------------------------
(* The toehold. *)

\* What a sample says of the position the jumps have reached.
LEMMA SampleSays ==
  ASSUME IndexIsRight, jump.isEnd => jump.rnk \in DOMAIN ix.run,
         ix.kind = "r" => jump.isEnd
  PROVE  /\ SampleAt(jump) # NoSample =>
              jump.isEnd /\ SampleAt(jump) = TextPos(sa, TailOf(jump.rnk))
         /\ SampleAt(jump) = NoSample => ix.kind # "r" /\ (jump.isEnd => jump.rnk \notin ix.sampled)
<1>1. SamplesAreRight /\ TextIsIndexed /\ RunsPartition
  BY IndexFacts
<1>2. \A k \in DOMAIN ix.run : TextPos(sa, TailOf(k)) # NoSample
  <2> SUFFICES ASSUME NEW k \in DOMAIN ix.run PROVE TextPos(sa, TailOf(k)) # NoSample
    OBVIOUS
  <2>1. TailOf(k) \in DOMAIN sa
    BY <1>1, TailType
  <2>2. TextPos(sa, TailOf(k)) \in 0..(ix.n - 1)
    BY <1>1, <2>1, TextSize
  <2> HIDE DEF NoSample
  <2>3. QED
    BY <2>2 DEF NoSample
<1>3. CASE ix.kind = "r"
  BY <1>1, <1>2, <1>3 DEF SampleAt, SampleOfRun, SamplesAreRight
<1>4. CASE ix.kind # "r"
  <2>1. SampleAt(jump) = IF jump.isEnd THEN GetSample(jump.rnk) ELSE NoSample
    BY <1>4 DEF SampleAt, Sampled
  <2>2. \A k \in ix.sampled : k \in DOMAIN ix.run /\ GetSample(k) = TextPos(sa, TailOf(k))
    BY <1>1 DEF SamplesAreRight
  <2>3. \A k : k \notin ix.sampled => GetSample(k) = NoSample
    BY DEF GetSample
  <2>4. QED
    BY <1>2, <1>4, <2>1, <2>2, <2>3
<1>5. QED
  BY <1>3, <1>4

\* No sample here: one LF step back, and no sampled tail was passed on the way.
LEMMA ToeholdJumpKeeps ==
  ASSUME QueryInv, ToeholdJump
  PROVE  QueryInv'
<1> DEFINE q == jump.next
           j == jump.jumps
           k == RunAt(q)
           T == TailOf(RunNamed(toehold))
<1>1. /\ stage = "toehold" /\ SampleAt(jump) = NoSample
      /\ jump' = [rnk |-> k, isEnd |-> q = ix.run[k].end - 1,
                  next |-> ix.C[ix.run[k].c] + Rank(ix.run[k].c, q), jumps |-> j + 1]
      /\ UNCHANGED <<data, stage, query, left, range, toehold, frames, value, valid, out, found>>
  BY DEF ToeholdJump
<1>2. /\ Typed /\ IndexIsRight /\ FoundInv /\ JumpInv /\ ReportInv /\ BoundInv
  BY <1>1 DEF QueryInv
<1>3. /\ TextIsIndexed /\ RunsPartition /\ LFIsRight /\ SamplesAreRight /\ ix.n \in Nat \ {0}
      /\ DOMAIN sa = 0..(ix.n - 1) /\ \A p \in DOMAIN sa : sa[p] \in 0..(ix.n - 1)
  BY <1>2, IndexFacts
<1>4. /\ op = "locate" /\ range = found /\ ~IsEmpty(found) /\ frames = <<>> /\ out = <<>>
      /\ ToeholdLeads(toehold, found.end - 1, toehold.step)
      /\ q \in DOMAIN sa /\ (sa[q] + j) % ix.n = sa[toehold.next]
      /\ jump.isEnd => jump.rnk \in DOMAIN ix.run /\ q = LF(TailOf(jump.rnk))
      /\ ix.kind = "r" => jump.isEnd /\ j = 0
      /\ ~jump.isEnd => \A m \in DOMAIN ix.run : q # LF(TailOf(m))
      /\ \A m \in ix.sampled, l \in 0..(j - 1) : ~TailBehind(m, l, T)
  BY <1>1, <1>2 DEF JumpInv
<1>5. /\ text' = text /\ sa' = sa /\ ix' = ix /\ op' = op /\ pat' = pat /\ left' = left
      /\ range' = range /\ toehold' = toehold /\ frames' = frames /\ value' = value
      /\ valid' = valid /\ out' = out /\ found' = found /\ stage' = "toehold"
  BY <1>1 DEF data, query
<1>6. j \in Nat /\ jump.isEnd \in BOOLEAN
  BY <1>2 DEF Typed
<1>7. ix.kind # "r" /\ (jump.isEnd => jump.rnk \notin ix.sampled)
  BY <1>1, <1>2, <1>4, SampleSays
<1>0. q \in DOMAIN sa /\ j \in Int
  BY <1>4, <1>6
<1>8. /\ k \in DOMAIN ix.run /\ k \in Nat /\ ix.bwt[q] = ix.run[k].c
      /\ ix.run[k].start <= q /\ q < ix.run[k].end
  <2> HIDE DEF q
  <2>1. /\ k \in DOMAIN ix.run /\ ix.bwt[q] = ix.run[k].c
        /\ ix.run[k].start <= q /\ q < ix.run[k].end
    BY <1>3, <1>0, RunAtIs
  <2> HIDE DEF k
  <2>2. k \in Nat
    BY <1>3, <2>1, RunTypes
  <2>3. QED
    BY <2>1, <2>2
<1>9. /\ (jump.next)' = LF(q) /\ (jump.jumps)' = j + 1 /\ (jump.rnk)' = k
      /\ (jump.isEnd)' = (q = TailOf(k))
  BY <1>1, <1>8 DEF LF, TailOf
<1>10. LF(q) \in DOMAIN sa /\ LF(q) \in Nat /\ (sa[LF(q)] + (j + 1)) % ix.n = sa[toehold.next]
  <2>1. LF(q) \in DOMAIN sa /\ (sa[LF(q)] + (j + 1)) % ix.n = (sa[q] + j) % ix.n
    <3> HIDE DEF q, j
    <3> QED BY <1>3, <1>0, OneMore
  <2>2. QED
    BY <1>3, <1>4, <2>1
<1>11. jump' \in [rnk : Nat, isEnd : BOOLEAN, next : Nat, jumps : Nat]
  <2>1. ix.C[ix.run[k].c] + Rank(ix.run[k].c, q) \in Nat
    BY <1>8, <1>10 DEF LF
  <2>2. j + 1 \in Nat
    BY <1>6
  <2>3. (q = ix.run[k].end - 1) \in BOOLEAN
    OBVIOUS
  <2> HIDE DEF q, j, k
  <2>4. QED
    BY <1>1, <1>8, <2>1, <2>2, <2>3
<1>12. Typed'
  BY <1>2, <1>5, <1>11 DEF Typed
<1>13. RunNamed(toehold) \in DOMAIN ix.run /\ T \in DOMAIN sa /\ toehold.next = LF(T)
       /\ toehold.next \in DOMAIN sa
  <2>1. RunNamed(toehold) \in DOMAIN ix.run /\ toehold.next = LF(T)
    BY <1>4 DEF ToeholdLeads
  <2>2. T \in DOMAIN sa
    BY <1>3, <2>1, TailType
  <2>3. QED
    BY <1>3, <2>1, <2>2 DEF LFIsRight
<1> HIDE DEF T
<1>14. ASSUME NEW m \in ix.sampled, TailBehind(m, j, T)
       PROVE  FALSE
  <2>1. m \in DOMAIN ix.run /\ TailOf(m) \in DOMAIN sa
    BY <1>3, TailType DEF SamplesAreRight
  <2>2. (sa[TailOf(m)] + j) % ix.n = sa[T]
    BY <1>14 DEF TailBehind
  <2>3. (sa[LF(TailOf(m))] + j) % ix.n = (sa[q] + j) % ix.n
    <3>1. j - 1 \in Int /\ (j - 1) + 1 = j
      BY <1>6
    <3>2. LF(TailOf(m)) \in DOMAIN sa
          /\ (sa[LF(TailOf(m))] + ((j - 1) + 1)) % ix.n = (sa[TailOf(m)] + (j - 1)) % ix.n
      BY <1>3, <2>1, <3>1, OneMore
    <3>3. (sa[TailOf(m)] + (j - 1)) % ix.n = (((sa[TailOf(m)] + j) % ix.n) + (-1)) % ix.n
      <4>1. sa[TailOf(m)] + j \in Int /\ -1 \in Int
            /\ (sa[TailOf(m)] + j) + (-1) = sa[TailOf(m)] + (j - 1)
        BY <1>3, <1>6, <2>1
      <4>2. QED
        BY <1>3, <4>1, ModMod
    <3>4. (sa[T] + (-1)) % ix.n = sa[LF(T)]
      BY <1>3, <1>13, TextPosIsBefore DEF LFIsRight
    <3>5. QED
      BY <1>4, <1>13, <2>2, <3>1, <3>2, <3>3, <3>4
  <2>4. LF(TailOf(m)) = q
    <3>1. LF(TailOf(m)) \in DOMAIN sa
      BY <1>3, <2>1 DEF LFIsRight
    <3>2. sa[LF(TailOf(m))] \in 0..(ix.n - 1) /\ sa[q] \in 0..(ix.n - 1) /\ j \in Int
      <4> HIDE DEF q, j
      <4> QED BY <1>3, <1>0, <3>1
    <3>3. sa[LF(TailOf(m))] = sa[q]
      BY <1>3, <2>3, <3>2, ModCancel
    <3>4. QED
      BY <1>3, <1>4, <3>1, <3>3 DEF TextIsIndexed
  <2>5. jump.isEnd /\ jump.rnk \in DOMAIN ix.run /\ LF(TailOf(jump.rnk)) = LF(TailOf(m))
    BY <1>4, <1>6, <2>1, <2>4
  <2>6. TailOf(jump.rnk) = TailOf(m)
    BY <1>3, <2>1, <2>5, LFInjective, TailType
  <2>7. jump.rnk = m
    <3>1. /\ ix.run[m].start <= TailOf(m) /\ TailOf(m) < ix.run[m].end
          /\ ix.run[jump.rnk].start <= TailOf(m) /\ TailOf(m) < ix.run[jump.rnk].end
      BY <1>3, <2>1, <2>5, <2>6, TailType
    <3>2. QED
      BY <1>3, <2>1, <2>5, <3>1, RunAtUnique
  <2>8. QED
    BY <1>7, <2>5, <2>7
<1>15. \A m \in ix.sampled, l \in 0..j : ~TailBehind(m, l, T)
  <2> SUFFICES ASSUME NEW m \in ix.sampled, NEW l \in 0..j, TailBehind(m, l, T) PROVE FALSE
    OBVIOUS
  <2>1. l \in 0..(j - 1) \/ l = j
    BY <1>6
  <2>2. QED
    BY <1>4, <1>14, <2>1 DEF T
<1>16. JumpInv'
  <2>1. ToeholdLeads(toehold, found.end - 1, toehold.step)'
    BY <1>1, <1>4, <1>5, LeadsStays
  <2>2. (\A m \in ix.sampled, l \in 0..(jump.jumps - 1) : ~TailBehind(m, l, TailOf(RunNamed(toehold))))'
    <3>1. TailOf(RunNamed(toehold))' = T
      BY <1>5 DEF TailOf, RunNamed, SelectOnRuns, T
    <3>2. (j + 1) - 1 = j
      BY <1>6
    <3>3. QED
      BY <1>5, <1>9, <1>15, <3>1, <3>2 DEF TailBehind, TailOf
  <2>3. (jump.isEnd => jump.rnk \in DOMAIN ix.run /\ jump.next = LF(TailOf(jump.rnk)))'
    <3>1. \A m : LF(TailOf(m))' = LF(TailOf(m))
      BY <1>5 DEF LF, Rank, TailOf
    <3> HIDE DEF q, j, k
    <3>2. (jump.isEnd)' => (jump.next)' = LF(TailOf(k))
      BY <1>9
    <3>3. LF(TailOf(jump.rnk))' = LF(TailOf(k))
      BY <1>9, <3>1
    <3>4. QED
      BY <1>5, <1>8, <1>9, <3>2, <3>3
  <2>4. (~jump.isEnd => \A m \in DOMAIN ix.run : jump.next # LF(TailOf(m)))'
    <3>1. ASSUME q # TailOf(k), NEW m \in DOMAIN ix.run, LF(q) = LF(TailOf(m))
          PROVE  FALSE
      <4>1. q = TailOf(m)
        BY <1>3, <1>4, <3>1, LFInjective, TailType
      <4>2. ix.run[m].start <= q /\ q < ix.run[m].end
        BY <1>3, <4>1, TailType
      <4>3. m = k
        BY <1>3, <1>4, <4>2, RunAtUnique
      <4>4. QED
        BY <3>1, <4>1, <4>3
    <3>2. \A m : LF(TailOf(m))' = LF(TailOf(m))
      BY <1>5 DEF LF, Rank, TailOf
    <3> HIDE DEF q, k
    <3>3. QED
      BY <1>5, <1>9, <3>1, <3>2
  <2>5. /\ (op = "locate" /\ range = found /\ ~IsEmpty(found) /\ frames = <<>> /\ out = <<>>)'
        /\ (jump.next \in DOMAIN sa /\ (sa[jump.next] + jump.jumps) % ix.n = sa[toehold.next])'
        /\ (ix.kind = "r" => jump.isEnd /\ jump.jumps = 0)'
    BY <1>4, <1>5, <1>7, <1>9, <1>10 DEF IsEmpty
  <2>6. QED
    BY <2>1, <2>2, <2>3, <2>4, <2>5 DEF JumpInv
<1>17. BoundInv'
  <2>1. PICK m \in ix.sampled, l \in 0..(ix.rate - 1) : TailBehind(m, l, T)
    BY <1>3, <1>7, <1>13 DEF SamplesAreRight, T
  <2>2. l \notin 0..j
    BY <1>15, <2>1
  <2>3. ix.rate \in Nat
    BY <1>2, <1>7, IndexFacts
  <2>4. j + 1 < ix.rate
    BY <1>6, <2>1, <2>2, <2>3
  <2>5. QED
    BY <1>5, <1>9, <2>4 DEF BoundInv
<1>18. FoundInv'
  BY <1>1, <1>2, <1>5 DEF FoundInv, InRange
<1>19. ReportInv'
  BY <1>2, <1>4, <1>5 DEF ReportInv, ReportsSuffixArray
<1>20. SearchInv' /\ ToeholdInv' /\ WalkInv'
  BY <1>5 DEF SearchInv, ToeholdInv, WalkInv
<1>21. QED
  BY <1>1, <1>2, <1>12, <1>16, <1>17, <1>18, <1>19, <1>20, IndexStays DEF QueryInv

\* phi of a value, and phi where it is trusted.
LEMMA PhiIs ==
  ASSUME IndexIsRight, NEW p \in DOMAIN sa
  PROVE  /\ Phi(sa[p]).value \in DOMAIN sa /\ Phi(sa[p]).valid \in BOOLEAN
         /\ ix.kind # "sr" /\ p # 0 /\ Phi(sa[p]).valid => Phi(sa[p]).value = sa[p - 1]
<1>1. sa[p] \in DOMAIN sa
  BY IndexFacts
<1>2. Phi(sa[p]) \in [value : DOMAIN sa, valid : BOOLEAN]
  BY <1>1 DEF IndexIsRight
<1>3. QED
  BY <1>2 DEF IndexIsRight, PhiRightWhenTrusted

\* What a step of the walk has to establish, said of the values it leaves.
LEMMA WalkFrom ==
  ASSUME UNCHANGED data, found' = found, op' = "locate", stage' = "phi",
         NEW next, next = found.end - 1 - Len(out'), Len(out') \in 1..(found.end - found.start),
         value' \in DOMAIN sa,
         ix.kind = "r" =>
           /\ frames' = <<>> /\ value' = sa[next + 1]
           /\ range'.start <= range'.end /\ range'.end - range'.start = next + 1 - found.start,
         ix.kind # "r" => StackInv(frames', found.start, next),
         ix.kind = "sr" => value' = sa[next + 1],
         HasValidity /\ frames' # <<>> =>
           IF valid' THEN value' = sa[next] ELSE value' = Phi(sa[next + 1]).value
  PROVE  WalkInv'
<1>1. text' = text /\ sa' = sa /\ ix' = ix
  BY DEF data
<1>2. NextPosition' = next
  BY DEF NextPosition
<1>3. ix.kind # "r" => StackInv(frames, found.start, NextPosition)'
  BY <1>2, StackStays
<1>4. Phi(sa[NextPosition + 1])' = Phi(sa[next + 1])
  BY <1>1, <1>2, PhiStays
<1>5. HasValidity' = HasValidity
  BY <1>1 DEF HasValidity
<1>6. (HasValidity /\ frames # <<>> =>
         IF valid THEN value = sa[NextPosition] ELSE value = Phi(sa[NextPosition + 1]).value)'
  BY <1>1, <1>2, <1>4, <1>5
<1>7. QED
  BY <1>1, <1>2, <1>3, <1>6 DEF WalkInv

\* The sample found gives the value of the last position of the range, and the
\* walk starts over the rest.
LEMMA ToeholdReportKeeps ==
  ASSUME QueryInv, ToeholdReport
  PROVE  /\ QueryInv' /\ out' = <<sa[found.end - 1]>>
<1> DEFINE last == found.end - 1
           v == sa[last]
<1>1. /\ stage = "toehold" /\ SampleAt(jump) # NoSample /\ out' = <<Toehold>>
      /\ range' = UpdateRange(range)
      /\ IF HasValidity THEN StartWithValidity(Toehold, range') ELSE StartPlain(Toehold, range')
      /\ stage' = "phi"
      /\ UNCHANGED <<data, query, left, toehold, jump, found>>
  BY DEF ToeholdReport
<1>2. /\ Typed /\ IndexIsRight /\ FoundInv /\ JumpInv /\ ReportInv /\ BoundInv
  BY <1>1 DEF QueryInv
<1>3. /\ TextIsIndexed /\ RunsPartition /\ LFIsRight /\ SamplesAreRight /\ ix.n \in Nat \ {0}
      /\ DOMAIN sa = 0..(ix.n - 1) /\ \A p \in DOMAIN sa : sa[p] \in 0..(ix.n - 1)
      /\ ix.kind # "r" => ix.rate \in Nat \ {0}
      /\ ix.kind \in {"r", "sr", "vm", "va"}
  BY <1>2, IndexFacts DEF IndexIsRight
<1>4. /\ op = "locate" /\ range = found /\ found.start < found.end /\ frames = <<>>
      /\ ToeholdLeads(toehold, last, toehold.step)
      /\ jump.next \in DOMAIN sa /\ (sa[jump.next] + jump.jumps) % ix.n = sa[toehold.next]
      /\ jump.isEnd => jump.rnk \in DOMAIN ix.run /\ jump.next = LF(TailOf(jump.rnk))
      /\ ix.kind = "r" => jump.isEnd
  BY <1>1, <1>2 DEF JumpInv, IsEmpty
<1>5. /\ text' = text /\ sa' = sa /\ ix' = ix /\ op' = op /\ pat' = pat /\ left' = left
      /\ toehold' = toehold /\ jump' = jump /\ found' = found
  BY <1>1 DEF data, query
<1>6. /\ found \in [start : Nat, end : Nat] /\ found.start \in Nat /\ found.end \in Nat
      /\ found.end <= ix.n /\ jump.jumps \in Nat /\ toehold.step \in Nat
  BY <1>1, <1>2 DEF Typed, FoundInv
<1>7. last \in DOMAIN sa /\ v \in 0..(ix.n - 1) /\ v \in DOMAIN sa
  <2>1. last \in 0..(ix.n - 1)
    BY <1>3, <1>4, <1>6
  <2> HIDE DEF last
  <2>2. QED
    BY <1>3, <2>1
<1>8. Toehold = v
  <2>1. jump.isEnd /\ SampleAt(jump) = TextPos(sa, TailOf(jump.rnk))
    BY <1>1, <1>2, <1>4, SampleSays
  <2>2. SampleAt(jump) = sa[jump.next]
    BY <1>3, <1>4, <2>1, TailType DEF LFIsRight
  <2>3. toehold.next \in DOMAIN sa
    BY <1>3, <1>4, TailType DEF ToeholdLeads, LFIsRight
  <2>4. (v + toehold.step) % ix.n = sa[toehold.next]
    BY <1>4 DEF ToeholdLeads
  <2>5. sa[jump.next] \in 0..(ix.n - 1) /\ sa[toehold.next] \in 0..(ix.n - 1)
    BY <1>3, <1>4, <2>3
  <2> HIDE DEF v
  <2>6. (((sa[jump.next] + 1 + ix.n + jump.jumps) % ix.n) + ix.n - toehold.step - 1) % ix.n = v
    <3>1. (sa[jump.next] + jump.jumps) % ix.n = sa[toehold.next]
      BY <1>4
    <3>2. ix.n \in Nat \ {0} /\ v \in 0..(ix.n - 1) /\ jump.jumps \in Nat /\ toehold.step \in Nat
      BY <1>3, <1>6, <1>7
    <3> DEFINE n == ix.n
               r == sa[jump.next]
               w == sa[toehold.next]
               j == jump.jumps
               steps == toehold.step
    <3>3. /\ n \in Nat \ {0} /\ r \in 0..(n - 1) /\ v \in 0..(n - 1) /\ w \in 0..(n - 1)
          /\ j \in Nat /\ steps \in Nat /\ (r + j) % n = w /\ (v + steps) % n = w
      BY <2>4, <2>5, <3>1, <3>2
    <3> HIDE DEF n, r, w, j, steps
    <3>4. (((r + 1 + n + j) % n) + n - steps - 1) % n = v
      BY <3>3, ToeholdValue
    <3>5. QED
      BY <3>4 DEF n, r, w, j, steps
  <2>7. QED
    BY <2>2, <2>6 DEF Toehold
<1>9. /\ range'.start = found.start /\ range'.end = last /\ range' \in [start : Nat, end : Nat]
  <2>1. last \in Nat
    BY <1>3, <1>7
  <2>2. range' = [found EXCEPT !.end = last]
    BY <1>1, <1>4 DEF UpdateRange
  <2> HIDE DEF last
  <2>3. QED
    BY <1>6, <2>1, <2>2
<1>10. IsEmpty(range') => last = found.start
  BY <1>4, <1>6, <1>9 DEF IsEmpty
<1> DEFINE fs == <<[runs |-> Split(found.start, last), level |-> 0]>>
<1>11. ASSUME ix.kind # "r", ~IsEmpty(range')
       PROVE  /\ StackInv(fs, found.start, last - 1) /\ last # 0
              /\ Split(range'.start, range'.end) = Split(found.start, last)
  <2>1. found.start < last /\ last \in Nat /\ last <= ix.n
    BY <1>3, <1>6, <1>7, <1>9, <1>11 DEF IsEmpty
  <2> HIDE DEF last
  <2>2. QED
    BY <1>3, <1>6, <1>9, <1>11, <2>1, FirstCall
<1>12. IsEmpty(range') => StackInv(<<>>, found.start, last - 1)
  <2>1. <<>> \in Seq(Frame) /\ DOMAIN <<>> = {}
    OBVIOUS
  <2>2. \A p \in found.start .. (found.start - 1) : FALSE
    BY <1>6
  <2>3. QED
    BY <1>10, <2>1, <2>2 DEF StackInv, RunsAreRight, RunsInside, RunsOrdered, RunsCover
<1> HIDE DEF fs
<1>13. /\ ix.kind = "r" => frames' = <<>>
       /\ ix.kind # "r" => (frames' = IF IsEmpty(range') THEN <<>> ELSE fs)
       /\ ~HasValidity \/ IsEmpty(range') => value' = v /\ valid' = valid
       /\ HasValidity /\ ~IsEmpty(range') => value' = Phi(v).value /\ valid' = Phi(v).valid
  <2>1. CASE HasValidity
    <3>1. ix.kind # "r"
      BY <2>1 DEF HasValidity
    <3>2. CASE IsEmpty(range')
      BY <1>1, <1>8, <2>1, <3>1, <3>2 DEF StartWithValidity
    <3>3. CASE ~IsEmpty(range')
      BY <1>1, <1>8, <1>11, <2>1, <3>1, <3>3 DEF StartWithValidity, fs
    <3>4. QED
      BY <3>2, <3>3
  <2>2. CASE ~HasValidity
    <3>1. CASE ix.kind = "r" \/ IsEmpty(range')
      BY <1>1, <1>8, <2>2, <3>1 DEF StartPlain
    <3>2. CASE ix.kind # "r" /\ ~IsEmpty(range')
      BY <1>1, <1>8, <1>11, <2>2, <3>2 DEF StartPlain, fs
    <3>3. QED
      BY <3>1, <3>2
  <2>3. QED
    BY <2>1, <2>2
<1>14. value' \in DOMAIN sa /\ valid' \in BOOLEAN
  <2>1. Phi(v).value \in DOMAIN sa /\ Phi(v).valid \in BOOLEAN
    BY <1>2, <1>7, PhiIs
  <2>2. QED
    BY <1>2, <1>7, <1>13, <2>1 DEF Typed
<1>15. ix.kind # "r" => StackInv(frames', found.start, last - 1)
  BY <1>11, <1>12, <1>13
<1>16. out' = <<v>> /\ Len(out') = 1 /\ out' \in Seq(Nat)
  BY <1>1, <1>7, <1>8
<1>17. WalkInv'
  <2> DEFINE next == last - 1
  <2>1. next = found.end - 1 - Len(out') /\ Len(out') \in 1..(found.end - found.start)
    BY <1>4, <1>6, <1>16
  <2>2. ix.kind = "r" =>
           /\ frames' = <<>> /\ value' = sa[next + 1]
           /\ range'.start <= range'.end /\ range'.end - range'.start = next + 1 - found.start
    <3>1. ix.kind = "r" => ~HasValidity
      BY DEF HasValidity
    <3>2. next + 1 = last /\ found.start <= last
      BY <1>4, <1>6
    <3>3. QED
      BY <1>9, <1>13, <3>1, <3>2
  <2>3. ix.kind = "sr" => value' = sa[next + 1]
    <3>1. ix.kind = "sr" => ~HasValidity
      BY DEF HasValidity
    <3>2. next + 1 = last
      BY <1>6
    <3>3. QED
      BY <1>13, <3>1, <3>2
  <2>4. HasValidity /\ frames' # <<>> =>
           IF valid' THEN value' = sa[next] ELSE value' = Phi(sa[next + 1]).value
    <3> SUFFICES ASSUME HasValidity, frames' # <<>>
                 PROVE  IF valid' THEN value' = sa[next] ELSE value' = Phi(sa[next + 1]).value
      OBVIOUS
    <3>1. ix.kind # "sr" /\ ix.kind # "r"
      BY DEF HasValidity
    <3>2. ~IsEmpty(range') /\ value' = Phi(v).value /\ valid' = Phi(v).valid
      BY <1>13, <3>1
    <3>3. last # 0 /\ next + 1 = last
      BY <1>6, <1>11, <3>1, <3>2
    <3>4. Phi(v).valid => Phi(v).value = sa[last - 1]
      BY <1>2, <1>7, <3>1, <3>3, PhiIs
    <3>5. QED
      BY <3>2, <3>3, <3>4
  <2> HIDE DEF next
  <2>5. QED
    BY <1>1, <1>4, <1>5, <1>14, <1>15, <2>1, <2>2, <2>3, <2>4, WalkFrom DEF next
<1>18. Typed'
  <2>1. frames' \in Seq(Frame)
        /\ \A f \in DOMAIN frames' : \A k \in DOMAIN frames'[f].runs : ~IsEmpty(frames'[f].runs[k])
    <3>1. CASE frames' = <<>>
      BY <3>1
    <3>2. CASE frames' # <<>>
      <4>1. StackInv(frames', found.start, last - 1)
        BY <1>13, <1>15, <3>2
      <4>2. QED
        BY <4>1 DEF StackInv, RunsAreRight, RunIsRight, IsEmpty
    <3>3. QED
      BY <3>1, <3>2
  <2>2. value' \in Nat
    BY <1>3, <1>14
  <2>3. QED
    BY <1>1, <1>2, <1>5, <1>9, <1>14, <1>16, <2>1, <2>2 DEF Typed
<1>19. ReportInv'
  <2>1. found.end - found.start >= 1
    BY <1>4, <1>6
  <2>2. DOMAIN out' = {1} /\ out'[1] = sa[found.end - 1]
    BY <1>16
  <2>3. QED
    BY <1>1, <1>5, <1>16, <2>1, <2>2 DEF ReportInv, ReportsSuffixArray
<1>20. FoundInv' /\ BoundInv'
  BY <1>1, <1>2, <1>5 DEF FoundInv, InRange, BoundInv
<1>21. SearchInv' /\ ToeholdInv' /\ JumpInv'
  BY <1>1 DEF SearchInv, ToeholdInv, JumpInv
<1>22. QED
  BY <1>1, <1>2, <1>16, <1>17, <1>18, <1>19, <1>20, <1>21, IndexStays DEF QueryInv

-----------------------------------------------------------------------------
(* The walk. *)

\* What every step of the walk starts from.
LEMMA WalkFacts ==
  ASSUME QueryInv, stage = "phi"
  PROVE  /\ Typed /\ IndexIsRight /\ FoundInv /\ WalkInv /\ ReportInv /\ BoundInv
         /\ op = "locate" /\ found.start \in Nat /\ found.end \in Nat /\ found.end <= ix.n
         /\ Len(out) \in Nat /\ Len(out) >= 1 /\ Len(out) <= found.end - found.start
         /\ NextPosition \in Int /\ NextPosition + 1 \in DOMAIN sa
         /\ NextPosition = found.end - 1 - Len(out) /\ found.start <= NextPosition + 1
         /\ out \in Seq(Nat) /\ ReportsSuffixArray
         /\ ix.kind \in {"r", "sr", "vm", "va"} /\ (HasValidity <=> ix.kind \in {"vm", "va"})
<1>1. /\ Typed /\ IndexIsRight /\ FoundInv /\ WalkInv /\ ReportInv /\ BoundInv
  BY DEF QueryInv
<1>2. /\ op = "locate" /\ found.start \in Nat /\ found.end \in Nat /\ found.end <= ix.n
      /\ Len(out) \in 1..(found.end - found.start) /\ out \in Seq(Nat)
      /\ ReportsSuffixArray
  BY <1>1 DEF Typed, FoundInv, WalkInv, ReportInv
<1>3. /\ Len(out) \in Nat /\ Len(out) >= 1 /\ Len(out) <= found.end - found.start
  BY <1>2
<1>4. DOMAIN sa = 0..(ix.n - 1) /\ ix.n \in Nat
  BY <1>1, IndexFacts
<1>5. /\ NextPosition \in Int /\ NextPosition + 1 \in DOMAIN sa
      /\ NextPosition = found.end - 1 - Len(out) /\ found.start <= NextPosition + 1
  BY <1>2, <1>3, <1>4 DEF NextPosition
<1>6. ix.kind \in {"r", "sr", "vm", "va"} /\ (HasValidity <=> ix.kind \in {"vm", "va"})
  BY <1>1 DEF IndexIsRight, HasValidity
<1>7. QED
  BY <1>1, <1>2, <1>3, <1>5, <1>6

\* The current run ends with the image of the position visited next, and no LF
\* step from there passed a sampled tail.
LEMMA RunFacts ==
  ASSUME QueryInv, Pending
  PROVE  /\ ix.kind # "r" /\ ix.rate \in Nat \ {0} /\ StackInv(frames, found.start, NextPosition)
         /\ NextPosition \in DOMAIN sa /\ NextPosition \in Nat /\ found.start <= NextPosition
         /\ Run \in RunRecord /\ Top.level \in Nat /\ Top.level <= ix.rate
         /\ Run.end - 1 \in DOMAIN sa
         /\ ~AtLimit => PieceOf(Run)
         /\ sa[NextPosition] = (sa[Run.end - 1] + Top.level) % ix.n
         /\ \A k \in ix.sampled, l \in 0..(Top.level - 1) : ~TailBehind(k, l, NextPosition)
<1>1. stage = "phi" /\ frames # <<>>
  BY DEF Pending
<1>2. IndexIsRight /\ WalkInv /\ found.start \in Nat /\ NextPosition \in Int
      /\ NextPosition + 1 \in DOMAIN sa
  BY <1>1, WalkFacts
<1>3. ix.kind # "r" /\ StackInv(frames, found.start, NextPosition)
  BY <1>1, <1>2 DEF WalkInv
<1>4. TextIsIndexed /\ ix.rate \in Nat \ {0} /\ ix.n \in Nat /\ DOMAIN sa = 0..(ix.n - 1)
  BY <1>2, <1>3, IndexFacts
<1> DEFINE level == Top.level
           lo == Lo(Run, level)
<1>5. Run = TopRun(frames) /\ level = TopLevel(frames)
  BY DEF Run, Top, TopRun, TopLevel
<1>6. /\ Run \in RunRecord /\ level \in Nat /\ level <= ix.rate /\ RunIsRight(Run, level)
      /\ lo \in Nat /\ found.start <= lo
      /\ lo < Hi(Run, level) /\ Hi(Run, level) = NextPosition + 1
  BY <1>1, <1>2, <1>3, <1>4, <1>5, TopEnds
<1>7. Run.start \in Nat /\ Run.end \in Nat /\ Run.start < Run.end /\ Run.end <= ix.n
      /\ Image(Run.start, Run.end, level)
  BY <1>6 DEF RunRecord, RunIsRight
<1>8. Run.end - 1 \in DOMAIN sa /\ Run.end - 1 \in Run.start .. (Run.end - 1)
  BY <1>4, <1>7
<1>9. Origin(Run.end - 1, level) = NextPosition
  <2>1. Origin(Run.end - 1, level) = Origin(Run.start, level) + ((Run.end - 1) - Run.start)
    BY <1>7, <1>8 DEF Image
  <2>2. lo = Origin(Run.start, level) /\ lo + (Run.end - Run.start) = NextPosition + 1
    BY <1>6 DEF Lo, Hi
  <2> HIDE DEF lo
  <2>3. lo + ((Run.end - 1) - Run.start) = NextPosition
    BY <1>2, <1>6, <1>7, <2>2
  <2>4. QED
    BY <2>1, <2>2, <2>3
<1>10. NextPosition \in DOMAIN sa /\ sa[NextPosition] = (sa[Run.end - 1] + level) % ix.n
  BY <1>4, <1>6, <1>8, <1>9, OriginType
<1>11. \A k \in ix.sampled, l \in 0..(level - 1) : ~TailBehind(k, l, NextPosition)
  BY <1>7, <1>8, <1>9 DEF Image
<1>12. ~AtLimit => PieceOf(Run)
  BY <1>4, <1>6 DEF AtLimit, RunIsRight
<1>13. NextPosition \in Nat /\ found.start <= NextPosition
  <2> HIDE DEF lo
  <2> QED BY <1>2, <1>4, <1>6, <1>10
<1>14. QED
  BY <1>3, <1>4, <1>6, <1>8, <1>10, <1>11, <1>12, <1>13

\* A sampled tail gives the value of the position visited next.
LEMMA SampleIsRight ==
  ASSUME QueryInv, Pending, ~AtLimit, Sampled(Run) # NoSample
  PROVE  (Sampled(Run) + 1 + Top.level) % ix.n = sa[NextPosition]
<1>1. /\ PieceOf(Run) /\ Run.end - 1 \in DOMAIN sa /\ Top.level \in Nat
      /\ sa[NextPosition] = (sa[Run.end - 1] + Top.level) % ix.n
  BY RunFacts
<1>2. IndexIsRight /\ SamplesAreRight /\ TextIsIndexed /\ ix.n \in Nat \ {0}
  BY IndexFacts, WalkFacts DEF Pending
<1>3. Run.isEnd /\ Run.rnk \in ix.sampled /\ Sampled(Run) = GetSample(Run.rnk)
  BY DEF Sampled, GetSample
<1>4. TailOf(Run.rnk) = Run.end - 1
  BY <1>1, <1>3 DEF PieceOf, TailOf
<1>5. Sampled(Run) = (sa[Run.end - 1] + (-1)) % ix.n
  BY <1>1, <1>2, <1>3, <1>4, TextPosIsBefore DEF SamplesAreRight
<1> DEFINE v == sa[Run.end - 1]
           s == Sampled(Run)
           level == Top.level
<1>6. v \in Int /\ s = (v + (-1)) % ix.n /\ level \in Int
  BY <1>1, <1>2, <1>5, TextSize
<1> HIDE DEF v, s, level
<1>7. v + (-1) \in Int /\ 1 + level \in Int
  BY <1>6
<1>8. (((v + (-1)) % ix.n) + (1 + level)) % ix.n = ((v + (-1)) + (1 + level)) % ix.n
  BY <1>2, <1>7, ModMod
<1>9. (v + (-1)) + (1 + level) = v + level
  BY <1>6
<1>10. s + 1 + level = s + (1 + level)
  <2>1. s \in Int
    BY <1>2, <1>6, <1>7, ModDef
  <2>2. QED
    BY <1>6, <2>1
<1>11. QED
  BY <1>1, <1>6, <1>8, <1>9, <1>10 DEF v, s, level

\* At the limit no LF step passed a sampled tail, so phi is right.
LEMMA LimitIsRight ==
  ASSUME QueryInv, Pending, AtLimit
  PROVE  Phi(sa[NextPosition + 1]).value = sa[NextPosition]
<1>1. /\ ix.kind # "r" /\ ix.rate \in Nat /\ Top.level \in Nat /\ Top.level <= ix.rate
      /\ NextPosition \in Nat
      /\ \A k \in ix.sampled, l \in 0..(Top.level - 1) : ~TailBehind(k, l, NextPosition)
  BY RunFacts
<1>2. IndexIsRight /\ NextPosition + 1 \in DOMAIN sa
  BY WalkFacts DEF Pending
<1>3. Top.level = ix.rate
  BY <1>1 DEF AtLimit
<1>4. NextPosition + 1 # 0 /\ (NextPosition + 1) - 1 = NextPosition
  BY <1>1
<1>5. QED
  BY <1>1, <1>2, <1>3, <1>4 DEF IndexIsRight, PhiRightPastSamples


\* The values reported after a step that reports the entry of the next position.
LEMMA ReportIs ==
  ASSUME QueryInv, stage = "phi", found.start <= NextPosition, found' = found, UNCHANGED data,
         out' = Append(out, sa[NextPosition])
  PROVE  /\ out' \in Seq(Nat) /\ ReportsSuffixArray'
         /\ Len(out') \in 1..(found.end - found.start)
         /\ NextPosition - 1 = found.end - 1 - Len(out')
<1>1. /\ found.start \in Nat /\ found.end \in Nat /\ found.end <= ix.n
      /\ Len(out) \in Nat /\ Len(out) >= 1 /\ Len(out) <= found.end - found.start
      /\ NextPosition = found.end - 1 - Len(out) /\ out \in Seq(Nat) /\ ReportsSuffixArray
  BY WalkFacts
<1>2. NextPosition \in DOMAIN sa /\ sa[NextPosition] \in Nat
  BY <1>1, IndexFacts, WalkFacts
<1>3. out' \in Seq(Nat) /\ Len(out') = Len(out) + 1
  BY <1>1, <1>2
<1>4. Len(out') \in 1..(found.end - found.start) /\ NextPosition - 1 = found.end - 1 - Len(out')
  BY <1>1, <1>3
<1>5. ASSUME NEW k \in DOMAIN out' PROVE out'[k] = sa[found.end - k]
  <2>1. CASE k = Len(out) + 1
    <3>1. out'[k] = sa[NextPosition]
      BY <1>1, <1>2, <2>1
    <3>2. NextPosition = found.end - k
      BY <1>1, <2>1
    <3>3. QED
      BY <3>1, <3>2
  <2>2. CASE k # Len(out) + 1
    <3>1. k \in DOMAIN out /\ out'[k] = out[k]
      BY <1>1, <1>2, <1>3, <2>2
    <3>2. QED
      BY <1>1, <3>1 DEF ReportsSuffixArray
  <2>3. QED
    BY <2>1, <2>2
<1>6. ReportsSuffixArray'
  BY <1>5 DEF ReportsSuffixArray, data
<1>7. QED
  BY <1>3, <1>4, <1>6

\* A step of the walk leaves QueryInv when its registers stand for the position
\* that is next after it.
LEMMA WalkKeeps ==
  ASSUME QueryInv, stage = "phi", stage' = "phi",
         UNCHANGED <<data, query, left, toehold, jump, found>>,
         range' \in [start : Nat, end : Nat], valid' \in BOOLEAN, value' \in DOMAIN sa,
         NEW next,
         \/ out' = out /\ next = NextPosition
         \/ /\ out' = Append(out, sa[NextPosition]) /\ next = NextPosition - 1
            /\ found.start <= NextPosition,
         ix.kind = "r" =>
           /\ frames' = <<>> /\ value' = sa[next + 1]
           /\ range'.start <= range'.end /\ range'.end - range'.start = next + 1 - found.start,
         ix.kind # "r" => StackInv(frames', found.start, next),
         ix.kind = "sr" => value' = sa[next + 1],
         HasValidity /\ frames' # <<>> =>
           IF valid' THEN value' = sa[next] ELSE value' = Phi(sa[next + 1]).value
  PROVE  QueryInv'
<1>1. /\ Typed /\ IndexIsRight /\ FoundInv /\ WalkInv /\ ReportInv /\ BoundInv
      /\ op = "locate" /\ found.start \in Nat /\ found.end \in Nat
      /\ Len(out) \in Nat /\ Len(out) >= 1 /\ Len(out) <= found.end - found.start
      /\ NextPosition = found.end - 1 - Len(out)
      /\ out \in Seq(Nat) /\ ReportsSuffixArray
  BY WalkFacts
<1>2. /\ text' = text /\ sa' = sa /\ ix' = ix /\ op' = op /\ pat' = pat /\ left' = left
      /\ toehold' = toehold /\ jump' = jump /\ found' = found /\ UNCHANGED data
  BY DEF data, query
<1>3. /\ out' \in Seq(Nat) /\ ReportsSuffixArray'
      /\ Len(out') \in 1..(found.end - found.start)
      /\ next = found.end - 1 - Len(out')
  <2>1. CASE out' = out /\ next = NextPosition
    <3>1. ReportsSuffixArray'
      BY <1>1, <1>2, <2>1 DEF ReportsSuffixArray
    <3>2. Len(out) \in 1..(found.end - found.start)
      BY <1>1
    <3>3. QED
      BY <1>1, <2>1, <3>1, <3>2
  <2>2. CASE /\ out' = Append(out, sa[NextPosition]) /\ next = NextPosition - 1
             /\ found.start <= NextPosition
    BY <1>2, <2>2, ReportIs
  <2>3. QED
    BY <2>1, <2>2
<1>4. WalkInv'
  BY <1>1, <1>2, <1>3, WalkFrom
<1>5. frames' \in Seq(Frame)
      /\ \A f \in DOMAIN frames' : \A k \in DOMAIN frames'[f].runs : ~IsEmpty(frames'[f].runs[k])
  <2>1. CASE ix.kind = "r"
    BY <2>1
  <2>2. CASE ix.kind # "r"
    <3>1. StackInv(frames', found.start, next)
      BY <2>2
    <3>2. QED
      BY <3>1 DEF StackInv, RunsAreRight, RunIsRight, IsEmpty
  <2>3. QED
    BY <2>1, <2>2
<1>6. value' \in Nat
  BY <1>1, IndexFacts
<1>7. Typed'
  BY <1>1, <1>2, <1>3, <1>5, <1>6 DEF Typed
<1>8. ReportInv'
  <2>1. Len(out') <= found.end - found.start
    BY <1>3
  <2>2. QED
    BY <1>2, <1>3, <2>1 DEF ReportInv
<1>9. FoundInv' /\ BoundInv'
  BY <1>1, <1>2 DEF FoundInv, InRange, BoundInv
<1>10. SearchInv' /\ ToeholdInv' /\ JumpInv'
  BY DEF SearchInv, ToeholdInv, JumpInv
<1>11. QED
  BY <1>1, <1>2, <1>4, <1>7, <1>8, <1>9, <1>10, IndexStays DEF QueryInv

\* One phi of the plain loop of RIndex: phi is right wherever an r-index uses it.
LEMMA PhiStepKeeps ==
  ASSUME QueryInv, PhiStep
  PROVE  QueryInv' /\ out' = Append(out, sa[NextPosition]) /\ found.start <= NextPosition
<1>1. /\ stage = "phi" /\ ix.kind = "r" /\ range.start < range.end
      /\ value' = Phi(value).value /\ out' = Append(out, value')
      /\ range' = [range EXCEPT !.start = @ + 1]
      /\ UNCHANGED <<data, stage, query, left, toehold, jump, frames, valid, found>>
  BY DEF PhiStep, Report, IsEmpty
<1>2. /\ Typed /\ IndexIsRight /\ WalkInv /\ found.start \in Nat
      /\ NextPosition \in Int /\ NextPosition + 1 \in DOMAIN sa
  BY <1>1, WalkFacts
<1>3. /\ frames = <<>> /\ value = sa[NextPosition + 1]
      /\ range.end - range.start = NextPosition + 1 - found.start
  BY <1>1, <1>2 DEF WalkInv
<1>4. range.start \in Nat /\ range.end \in Nat /\ range \in [start : Nat, end : Nat]
      /\ valid \in BOOLEAN
  BY <1>2 DEF Typed
<1>5. found.start <= NextPosition /\ NextPosition + 1 # 0 /\ (NextPosition + 1) - 1 = NextPosition
  <2> DEFINE a == range.start
             b == range.end
             f == found.start
             p == NextPosition
  <2>1. a \in Nat /\ b \in Nat /\ f \in Nat /\ p \in Int /\ a < b /\ b - a = p + 1 - f
    BY <1>1, <1>2, <1>3, <1>4
  <2> HIDE DEF a, b, f, p
  <2>2. f <= p /\ p + 1 # 0 /\ (p + 1) - 1 = p
    BY <2>1
  <2>3. QED
    BY <2>2 DEF f, p
<1>6. Phi(value).valid
  BY <1>1 DEF Phi, SampleForPhi, Validate, InitialValidity
<1>7. value' = sa[NextPosition] /\ value' \in DOMAIN sa
  BY <1>1, <1>2, <1>3, <1>5, <1>6, PhiIs
<1>8. /\ range' \in [start : Nat, end : Nat] /\ range'.start = range.start + 1
      /\ range'.end = range.end
  BY <1>1, <1>4
<1> DEFINE next == NextPosition - 1
<1>9. /\ range'.start <= range'.end /\ range'.end - range'.start = next + 1 - found.start
      /\ next + 1 = NextPosition
  BY <1>1, <1>2, <1>3, <1>4, <1>8
<1>10. ~HasValidity
  BY <1>1 DEF HasValidity
<1> HIDE DEF next
<1>11. QED
  BY <1>1, <1>3, <1>4, <1>5, <1>7, <1>8, <1>9, <1>10, WalkKeeps DEF next

\* What reporting the next position leaves of the stack and of the registers
\* that the walk does not touch.
LEMMA ShrunkFacts ==
  ASSUME QueryInv, Pending
  PROVE  /\ StackInv(ShrinkRun, found.start, NextPosition - 1)
         /\ ShrinkRun # <<>> => NextPosition # 0
         /\ (NextPosition - 1) + 1 = NextPosition
         /\ range \in [start : Nat, end : Nat] /\ valid \in BOOLEAN
         /\ sa[NextPosition] \in DOMAIN sa
<1>1. /\ StackInv(frames, found.start, NextPosition) /\ NextPosition \in DOMAIN sa
      /\ NextPosition \in Nat
  BY RunFacts
<1>2. /\ Typed /\ IndexIsRight /\ found.start \in Nat /\ frames # <<>>
  BY WalkFacts DEF Pending
<1>3. TextIsIndexed /\ RunsPartition /\ \A p \in DOMAIN sa : sa[p] \in DOMAIN sa
  BY <1>2, IndexFacts
<1> DEFINE next == NextPosition
<1>4. next \in Nat /\ next \in Int /\ next - 1 \in Int
  BY <1>1
<1>5. StackInv(ShrinkRun, found.start, next - 1)
  BY <1>1, <1>2, <1>3, <1>4, ShrinkKeeps
<1>6. ASSUME ShrinkRun # <<>> PROVE next # 0
  <2> DEFINE fs == ShrinkRun
             lo == Lo(TopRun(fs), TopLevel(fs))
             hi == Hi(TopRun(fs), TopLevel(fs))
  <2>1. lo \in Nat /\ lo < hi /\ hi = (next - 1) + 1
    BY <1>2, <1>3, <1>4, <1>5, <1>6, TopEnds
  <2> HIDE DEF lo, hi, fs, next
  <2>2. QED
    BY <1>4, <2>1
<1>7. (next - 1) + 1 = next
  BY <1>4
<1>8. range \in [start : Nat, end : Nat] /\ valid \in BOOLEAN
  BY <1>2 DEF Typed
<1> HIDE DEF next
<1>9. QED
  BY <1>1, <1>3, <1>5, <1>6, <1>7, <1>8 DEF next

\* A step of an SrIndex that reports the entry of the next position.
LEMMA PlainReport ==
  ASSUME QueryInv, Pending, ~HasValidity, value' = sa[NextPosition],
         out' = Append(out, value'), frames' = ShrinkRun,
         UNCHANGED <<data, stage, query, left, range, toehold, jump, valid, found>>
  PROVE  QueryInv' /\ out' = Append(out, sa[NextPosition])
<1>1. /\ ix.kind # "r" /\ stage = "phi" /\ found.start <= NextPosition
  BY RunFacts DEF Pending
<1> DEFINE next == NextPosition - 1
<1>2. /\ StackInv(frames', found.start, next) /\ next + 1 = NextPosition
      /\ range' \in [start : Nat, end : Nat] /\ valid' \in BOOLEAN /\ value' \in DOMAIN sa
  BY ShrunkFacts
<1>3. next = NextPosition - 1
  OBVIOUS
<1> HIDE DEF next
<1>4. QED
  BY <1>1, <1>2, <1>3, WalkKeeps

\* A step of an SrIndex that finds a sample.
LEMMA TakeSampleKeeps ==
  ASSUME QueryInv, TakeSample
  PROVE  QueryInv' /\ out' = Append(out, sa[NextPosition])
<1>1. /\ Pending /\ ~HasValidity /\ ~AtLimit /\ Sampled(Run) # NoSample
      /\ value' = (Sampled(Run) + 1 + Top.level) % ix.n /\ out' = Append(out, value')
      /\ frames' = ShrinkRun
      /\ UNCHANGED <<data, stage, query, left, range, toehold, jump, valid, found>>
  BY DEF TakeSample, Report
<1>2. value' = sa[NextPosition]
  BY <1>1, SampleIsRight
<1>3. QED
  BY <1>1, <1>2, PlainReport

\* A step of an SrIndex at the limit, where only phi is left.
LEMMA TakePhiKeeps ==
  ASSUME QueryInv, TakePhi
  PROVE  QueryInv' /\ out' = Append(out, sa[NextPosition])
<1>1. /\ Pending /\ ~HasValidity /\ AtLimit
      /\ value' = Phi(value).value /\ out' = Append(out, value')
      /\ frames' = ShrinkRun
      /\ UNCHANGED <<data, stage, query, left, range, toehold, jump, valid, found>>
  BY DEF TakePhi, Report
<1>2. WalkInv /\ stage = "phi" /\ ix.kind \in {"r", "sr", "vm", "va"}
      /\ (HasValidity <=> ix.kind \in {"vm", "va"}) /\ ix.kind # "r"
  BY <1>1, WalkFacts, RunFacts DEF Pending
<1>3. value = sa[NextPosition + 1]
  BY <1>1, <1>2 DEF WalkInv
<1>4. value' = sa[NextPosition]
  BY <1>1, <1>3, LimitIsRight
<1>5. QED
  BY <1>1, <1>4, PlainReport

\* A value that is trusted, or that phi computed at the limit, is right.
LEMMA TrustedIsRight ==
  ASSUME QueryInv, Pending, HasValidity, valid \/ AtLimit
  PROVE  value = sa[NextPosition]
<1>1. WalkInv /\ stage = "phi" /\ frames # <<>>
  BY WalkFacts DEF Pending
<1>2. IF valid THEN value = sa[NextPosition] ELSE value = Phi(sa[NextPosition + 1]).value
  BY <1>1 DEF WalkInv
<1>3. CASE valid
  BY <1>2, <1>3
<1>4. CASE ~valid
  BY <1>2, <1>4, LimitIsRight
<1>5. QED
  BY <1>3, <1>4

\* SrIndexValidMark and SrIndexValidArea report a value they trust and compute
\* the next one.
LEMMA ReportTrustedKeeps ==
  ASSUME QueryInv, ReportTrusted
  PROVE  QueryInv' /\ out' = Append(out, sa[NextPosition])
<1>1. /\ Pending /\ HasValidity /\ (valid \/ AtLimit) /\ out' = Append(out, value)
      /\ frames' = ShrinkRun /\ value' = Phi(value).value /\ valid' = Phi(value).valid
      /\ UNCHANGED <<data, stage, query, left, range, toehold, jump, found>>
  BY DEF ReportTrusted, Report
<1>2. value = sa[NextPosition]
  BY <1>1, TrustedIsRight
<1>3. /\ ix.kind # "r" /\ ix.kind # "sr" /\ stage = "phi" /\ found.start <= NextPosition
      /\ NextPosition \in DOMAIN sa /\ IndexIsRight
  BY <1>1, RunFacts, WalkFacts DEF Pending, HasValidity
<1> DEFINE next == NextPosition - 1
<1>4. /\ StackInv(frames', found.start, next) /\ next + 1 = NextPosition
      /\ frames' # <<>> => NextPosition # 0
      /\ range' \in [start : Nat, end : Nat]
  BY <1>1, ShrunkFacts
<1>5. /\ value' \in DOMAIN sa /\ valid' \in BOOLEAN
      /\ NextPosition # 0 /\ valid' => value' = sa[next]
  BY <1>1, <1>2, <1>3, PhiIs
<1>6. next = NextPosition - 1
  OBVIOUS
<1> HIDE DEF next
<1>7. HasValidity /\ frames' # <<>> =>
        IF valid' THEN value' = sa[next] ELSE value' = Phi(sa[next + 1]).value
  BY <1>1, <1>2, <1>4, <1>5
<1>8. QED
  BY <1>1, <1>2, <1>3, <1>4, <1>5, <1>6, <1>7, WalkKeeps

\* A sample replaces a value that is not trusted.
LEMMA UseSampleKeeps ==
  ASSUME QueryInv, UseSample
  PROVE  QueryInv' /\ out' = out
<1>1. /\ Pending /\ HasValidity /\ ~AtLimit /\ Sampled(Run) # NoSample
      /\ value' = (Sampled(Run) + 1 + Top.level) % ix.n /\ valid' = TRUE
      /\ frames' = frames /\ out' = out
      /\ UNCHANGED <<data, stage, query, left, range, toehold, jump, found>>
  BY DEF UseSample
<1>2. value' = sa[NextPosition]
  BY <1>1, SampleIsRight
<1>3. /\ ix.kind # "r" /\ ix.kind # "sr" /\ stage = "phi" /\ stage' = "phi"
      /\ StackInv(frames', found.start, NextPosition)
  BY <1>1, RunFacts DEF Pending, HasValidity
<1>4. value' \in DOMAIN sa /\ range' \in [start : Nat, end : Nat] /\ valid' \in BOOLEAN
  BY <1>1, <1>2, ShrunkFacts
<1>5. QED
  BY <1>1, <1>2, <1>3, <1>4, WalkKeeps

\* One LF step of the recursion: the run on top is replaced by its image.
LEMMA DescendStepKeeps ==
  ASSUME QueryInv, Descend
  PROVE  QueryInv' /\ out' = out
<1>1. /\ Pending /\ ~AtLimit /\ Sampled(Run) = NoSample
      /\ frames' = Append(PopRun,
                    [level |-> Top.level + 1,
                     runs  |-> IF ix.rate <= Top.level + 1 THEN <<LFRun(Run)>>
                               ELSE Split(LFRun(Run).start, LFRun(Run).end)])
      /\ value' = value /\ valid' = valid /\ out' = out
      /\ UNCHANGED <<data, stage, query, left, range, toehold, jump, found>>
  BY DEF Descend
<1>2. /\ stage = "phi" /\ stage' = "phi" /\ frames # <<>>
  BY <1>1 DEF Pending
<1>3. /\ ix.kind # "r" /\ ix.rate \in Nat /\ StackInv(frames, found.start, NextPosition)
  BY <1>1, RunFacts
<1>4. /\ Typed /\ IndexIsRight /\ WalkInv /\ found.start \in Nat /\ NextPosition \in Int
  BY <1>2, WalkFacts
<1>5. TextIsIndexed /\ RunsPartition /\ LFIsRight /\ SamplesAreRight
  BY <1>4, IndexFacts
<1>6. StackInv(frames', found.start, NextPosition)
  BY <1>1, <1>2, <1>3, <1>4, <1>5, DescendKeeps
<1>7. /\ value' \in DOMAIN sa
      /\ ix.kind = "sr" => value' = sa[NextPosition + 1]
      /\ HasValidity =>
           IF valid' THEN value' = sa[NextPosition] ELSE value' = Phi(sa[NextPosition + 1]).value
  BY <1>1, <1>2, <1>4 DEF WalkInv
<1>8. range' \in [start : Nat, end : Nat] /\ valid' \in BOOLEAN
  BY <1>1, <1>4 DEF Typed
<1>9. QED
  BY <1>1, <1>2, <1>3, <1>6, <1>7, <1>8, WalkKeeps

\* When every call has returned every position of the range was reported.
LEMMA AnswerKeeps ==
  ASSUME QueryInv, Answer
  PROVE  /\ QueryInv' /\ out' = out /\ found' = found
         /\ Len(out) = found.end - found.start
<1>1. /\ stage = "phi" /\ frames = <<>> /\ (ix.kind = "r" => ~(range.start < range.end))
      /\ stage' = "answered"
      /\ UNCHANGED <<data, query, left, range, toehold, jump, frames, value, valid, out, found>>
  BY DEF Answer, IsEmpty
<1>2. /\ Typed /\ IndexIsRight /\ FoundInv /\ WalkInv /\ ReportInv /\ BoundInv
      /\ found.start \in Nat /\ found.end \in Nat
      /\ Len(out) \in Nat /\ Len(out) <= found.end - found.start
      /\ NextPosition = found.end - 1 - Len(out) /\ found.start <= NextPosition + 1
  BY <1>1, WalkFacts
<1> DEFINE next == NextPosition
<1>3. next + 1 = found.start
  <2>1. CASE ix.kind = "r"
    <3> DEFINE a == range.start
               b == range.end
               f == found.start
    <3>1. /\ a \in Nat /\ b \in Nat /\ f \in Nat /\ next \in Int /\ ~(a < b) /\ a <= b
          /\ b - a = next + 1 - f
      BY <1>1, <1>2, <2>1 DEF WalkInv, Typed
    <3> HIDE DEF a, b, f, next
    <3>2. next + 1 = f
      BY <3>1
    <3>3. QED
      BY <3>2 DEF f
  <2>2. CASE ix.kind # "r"
    <3>1. RunsCover(<<>>, found.start, next)
      BY <1>1, <1>2, <2>2 DEF WalkInv, StackInv
    <3>2. \A p \in found.start .. next : FALSE
      BY <3>1 DEF RunsCover
    <3>3. next \in Int
      BY <1>2
    <3> HIDE DEF next
    <3>4. ~(found.start <= next)
      BY <1>2, <3>2, <3>3
    <3>5. found.start <= next + 1
      BY <1>2 DEF next
    <3>6. QED
      BY <1>2, <3>3, <3>4, <3>5
  <2>3. QED
    BY <2>1, <2>2
<1>4. Len(out) = found.end - found.start
  <2> DEFINE a == found.start
             b == found.end
             l == Len(out)
  <2>1. a \in Nat /\ b \in Nat /\ l \in Nat /\ next = b - 1 - l /\ next + 1 = a
    BY <1>2, <1>3
  <2> HIDE DEF a, b, l, next
  <2>2. l = b - a
    BY <2>1
  <2>3. QED
    BY <2>2 DEF a, b, l
<1>5. /\ text' = text /\ sa' = sa /\ ix' = ix /\ op' = op /\ pat' = pat /\ left' = left
      /\ toehold' = toehold /\ jump' = jump /\ found' = found /\ UNCHANGED data
  BY <1>1 DEF data, query
<1>6. Typed'
  BY <1>1, <1>2, <1>5 DEF Typed
<1>7. ReportInv'
  BY <1>1, <1>2, <1>4, <1>5 DEF ReportInv, ReportsSuffixArray
<1>8. FoundInv' /\ BoundInv'
  BY <1>1, <1>2, <1>5 DEF FoundInv, InRange, BoundInv
<1>9. SearchInv' /\ ToeholdInv' /\ JumpInv' /\ WalkInv'
  BY <1>1 DEF SearchInv, ToeholdInv, JumpInv, WalkInv
<1>10. QED
  BY <1>1, <1>2, <1>4, <1>5, <1>6, <1>7, <1>8, <1>9, IndexStays DEF QueryInv

-----------------------------------------------------------------------------
(* Every step. *)

\* A step that changes no register of the query and nothing of the index.
LEMMA NothingKeeps ==
  ASSUME QueryInv, UNCHANGED vars
  PROVE  QueryInv'
<1>1. /\ text' = text /\ sa' = sa /\ ix' = ix /\ stage' = stage /\ op' = op /\ pat' = pat
      /\ left' = left /\ range' = range /\ toehold' = toehold /\ jump' = jump
      /\ frames' = frames /\ value' = value /\ valid' = valid /\ out' = out /\ found' = found
      /\ UNCHANGED data
  BY DEF vars, data, query
<1>2. /\ Typed /\ SearchInv /\ ToeholdInv /\ FoundInv /\ JumpInv /\ WalkInv
      /\ ReportInv /\ BoundInv
  BY DEF QueryInv
<1>3. Typed'
  BY <1>1, <1>2 DEF Typed
<1>4. SearchInv' /\ FoundInv' /\ ReportInv' /\ BoundInv'
  BY <1>1, <1>2 DEF SearchInv, RangeIsSuffix, FoundInv, InRange, ReportInv, ReportsSuffixArray,
                    BoundInv
<1>5. ToeholdInv'
  <2> DEFINE last == range.end - 1
             steps == toehold.step - left
  <2> SUFFICES ASSUME stage = "search" /\ op = "locate" /\ left < Len(pat) /\ ~IsEmpty(range)
               PROVE  toehold.step >= left /\ ToeholdLeads(toehold, last, steps)'
    BY <1>1 DEF ToeholdInv, IsEmpty
  <2>1. toehold.step >= left /\ ToeholdLeads(toehold, last, steps)
    BY <1>2 DEF ToeholdInv
  <2>2. QED
    BY <1>1, <2>1, LeadsStays
<1>6. JumpInv'
  <2> SUFFICES ASSUME stage = "toehold" PROVE JumpInv'
    BY <1>1 DEF JumpInv
  <2>1. ToeholdLeads(toehold, found.end - 1, toehold.step)'
    BY <1>1, <1>2, LeadsStays DEF JumpInv
  <2>2. RunNamed(toehold)' = RunNamed(toehold)
    BY <1>1 DEF RunNamed, SelectOnRuns
  <2>3. \A m : LF(TailOf(m))' = LF(TailOf(m))
    BY <1>1 DEF LF, Rank, TailOf
  <2>4. /\ op = "locate" /\ range = found /\ ~IsEmpty(found) /\ frames = <<>> /\ out = <<>>
        /\ jump.next \in DOMAIN sa /\ (sa[jump.next] + jump.jumps) % ix.n = sa[toehold.next]
        /\ jump.isEnd => jump.rnk \in DOMAIN ix.run /\ jump.next = LF(TailOf(jump.rnk))
        /\ ix.kind = "r" => jump.isEnd /\ jump.jumps = 0
        /\ ~jump.isEnd => \A k \in DOMAIN ix.run : jump.next # LF(TailOf(k))
        /\ \A k \in ix.sampled, l \in 0..(jump.jumps - 1) :
             ~TailBehind(k, l, TailOf(RunNamed(toehold)))
    BY <1>2 DEF JumpInv
  <2>5. (\A k \in ix.sampled, l \in 0..(jump.jumps - 1) :
           ~TailBehind(k, l, TailOf(RunNamed(toehold))))'
    BY <1>1, <2>2, <2>4 DEF TailBehind, TailOf
  <2>6. /\ (~jump.isEnd => \A k \in DOMAIN ix.run : jump.next # LF(TailOf(k)))'
        /\ (jump.isEnd => jump.rnk \in DOMAIN ix.run /\ jump.next = LF(TailOf(jump.rnk)))'
    BY <1>1, <2>3, <2>4
  <2>7. QED
    BY <1>1, <2>1, <2>4, <2>5, <2>6 DEF JumpInv, IsEmpty
<1>7. WalkInv'
  <2> SUFFICES ASSUME stage = "phi" PROVE WalkInv'
    BY <1>1 DEF WalkInv
  <2>1. /\ Len(out) \in 1..(found.end - found.start) /\ value \in DOMAIN sa /\ op = "locate"
        /\ ix.kind = "r" =>
             /\ frames = <<>> /\ value = sa[NextPosition + 1]
             /\ range.start <= range.end
             /\ range.end - range.start = NextPosition + 1 - found.start
        /\ ix.kind # "r" => StackInv(frames, found.start, NextPosition)
        /\ ix.kind = "sr" => value = sa[NextPosition + 1]
        /\ HasValidity /\ frames # <<>> =>
             IF valid THEN value = sa[NextPosition] ELSE value = Phi(sa[NextPosition + 1]).value
    BY <1>2 DEF WalkInv
  <2>2. NextPosition = found.end - 1 - Len(out)
    BY DEF NextPosition
  <2>3. QED
    BY <1>1, <2>1, <2>2, WalkFrom
<1>8. QED
  BY <1>1, <1>2, <1>3, <1>4, <1>5, <1>6, <1>7, IndexStays DEF QueryInv

\* QueryInv is preserved by every step of a query on an index that is right.
THEOREM StepKeeps ==
  ASSUME QueryInv, [Next]_vars
  PROVE  QueryInv'
<1>1. CASE Query
  BY <1>1, QueryKeeps
<1>2. CASE SearchStep
  BY <1>2, SearchStepKeeps
<1>3. CASE SearchEnd
  BY <1>3, SearchEndKeeps
<1>4. CASE ToeholdJump
  BY <1>4, ToeholdJumpKeeps
<1>5. CASE ToeholdReport
  BY <1>5, ToeholdReportKeeps
<1>6. CASE PhiStep
  BY <1>6, PhiStepKeeps
<1>7. CASE TakeSample
  BY <1>7, TakeSampleKeeps
<1>8. CASE TakePhi
  BY <1>8, TakePhiKeeps
<1>9. CASE ReportTrusted
  BY <1>9, ReportTrustedKeeps
<1>10. CASE UseSample
  BY <1>10, UseSampleKeeps
<1>11. CASE Descend
  BY <1>11, DescendStepKeeps
<1>12. CASE Answer
  BY <1>12, AnswerKeeps
<1>13. CASE UNCHANGED vars
  BY <1>13, NothingKeeps
<1>14. QED
  BY <1>1, <1>2, <1>3, <1>4, <1>5, <1>6, <1>7, <1>8, <1>9, <1>10, <1>11, <1>12, <1>13
     DEF Next, Step

-----------------------------------------------------------------------------
(* What QueryInv says of a query. *)

\* The registers have their types and no pending run is empty.
LEMMA TypesFollow ==
  ASSUME QueryInv
  PROVE  TypeOK
<1>1. Typed
  BY DEF QueryInv
<1>2. ASSUME NEW f \in DOMAIN frames
      PROVE  /\ DOMAIN frames[f] = {"level", "runs"} /\ frames[f].level \in Nat
             /\ \A k \in DOMAIN frames[f].runs :
                  frames[f].runs[k] \in [start : Nat, end : Nat, rnk : Nat, isEnd : BOOLEAN]
  <2>1. frames[f] \in Frame
    BY <1>1 DEF Typed
  <2>2. DOMAIN frames[f] = {"level", "runs"} /\ frames[f].level \in Nat
        /\ frames[f].runs \in Seq(RunRecord)
    BY <2>1 DEF Frame
  <2> DEFINE runs == frames[f].runs
  <2>3. \A k \in DOMAIN runs : runs[k] \in RunRecord
    <3>1. runs \in Seq(RunRecord)
      BY <2>2
    <3> HIDE DEF runs
    <3>2. QED
      BY <3>1
  <2>4. QED
    BY <2>2, <2>3 DEF RunRecord
<1>3. \A k \in DOMAIN out : out[k] \in Nat
  BY <1>1 DEF Typed
<1>4. QED
  BY <1>1, <1>2, <1>3 DEF Typed, TypeOK

\* The runs pending stand for exactly the positions not reported yet.
LEMMA RestFollows ==
  ASSUME QueryInv
  PROVE  PendingIsRest
<1> SUFFICES ASSUME stage = "phi", ix.kind # "r"
             PROVE  PendingIsRest
  BY DEF PendingIsRest
<1> DEFINE first == found.start
           next == NextPosition
           Seen(f, k) == {(sa[q] + frames[f].level) % ix.n :
                            q \in frames[f].runs[k].start .. (frames[f].runs[k].end - 1)}
           Rest == {sa[p] : p \in first .. next}
<1>1. /\ WalkInv /\ IndexIsRight /\ first \in Nat /\ next \in Int
  BY WalkFacts
<1>2. /\ StackInv(frames, first, next) /\ TextIsIndexed /\ ix.n \in Nat
      /\ DOMAIN sa = 0..(ix.n - 1)
  BY <1>1, IndexFacts DEF WalkInv
<1>3. ASSUME NEW f \in DOMAIN frames, NEW k \in DOMAIN frames[f].runs,
             NEW q \in frames[f].runs[k].start .. (frames[f].runs[k].end - 1)
      PROVE  /\ q \in DOMAIN sa
             /\ Origin(q, frames[f].level) = Lo(frames[f].runs[k], frames[f].level)
                                               + (q - frames[f].runs[k].start)
             /\ sa[Origin(q, frames[f].level)] = (sa[q] + frames[f].level) % ix.n
             /\ Origin(q, frames[f].level) \in first .. next
  <2> DEFINE run == frames[f].runs[k]
             level == frames[f].level
  <2>1. /\ run \in RunRecord /\ RunIsRight(run, level) /\ level \in Nat
        /\ Lo(run, level) \in Nat /\ Hi(run, level) \in Nat
    BY <1>2, <1>3, StackTypes
  <2>2. first <= Lo(run, level) /\ Hi(run, level) <= next + 1
    BY <1>2 DEF StackInv, RunsInside
  <2>3. q \in run.start .. (run.end - 1)
    BY <1>3
  <2> HIDE DEF run, level
  <2>4. /\ run.start \in Nat /\ run.end \in Nat /\ run.end <= ix.n
        /\ Origin(q, level) = Origin(run.start, level) + (q - run.start)
    BY <2>1, <2>3 DEF RunRecord, RunIsRight, Image
  <2>5. q \in DOMAIN sa
    BY <1>2, <2>3, <2>4
  <2>6. sa[Origin(q, level)] = (sa[q] + level) % ix.n /\ Origin(q, level) \in DOMAIN sa
    BY <1>2, <2>1, <2>5, OriginType
  <2>7. Origin(q, level) = Lo(run, level) + (q - run.start)
    BY <2>4 DEF Lo
  <2>8. Hi(run, level) = Lo(run, level) + (run.end - run.start)
    BY DEF Lo, Hi
  <2> DEFINE o == Origin(q, level)
             lo == Lo(run, level)
             hi == Hi(run, level)
  <2>9. /\ lo \in Nat /\ hi \in Nat /\ o = lo + (q - run.start) /\ q \in Int
        /\ hi = lo + (run.end - run.start) /\ first <= lo /\ hi <= next + 1
    BY <2>1, <2>2, <2>3, <2>4, <2>7, <2>8
  <2> HIDE DEF o, lo, hi, first, next
  <2>10. o \in first .. next
    BY <1>1, <2>3, <2>4, <2>9
  <2>11. QED
    BY <2>5, <2>6, <2>7, <2>10 DEF run, level, o
<1>4. ASSUME NEW f \in DOMAIN frames, NEW k \in DOMAIN frames[f].runs, NEW v \in Seen(f, k)
      PROVE  v \in Rest
  BY <1>3
<1>5. ASSUME NEW p \in first .. next
      PROVE  \E f \in DOMAIN frames : \E k \in DOMAIN frames[f].runs : sa[p] \in Seen(f, k)
  <2>1. PICK f \in DOMAIN frames : \E k \in DOMAIN frames[f].runs :
          Lo(frames[f].runs[k], frames[f].level) <= p
          /\ p < Hi(frames[f].runs[k], frames[f].level)
    BY <1>2, <1>5 DEF StackInv, RunsCover
  <2>2. PICK k \in DOMAIN frames[f].runs :
          Lo(frames[f].runs[k], frames[f].level) <= p
          /\ p < Hi(frames[f].runs[k], frames[f].level)
    BY <2>1
  <2> DEFINE run == frames[f].runs[k]
             level == frames[f].level
             lo == Lo(run, level)
             q == run.start + (p - lo)
  <2>3. run \in RunRecord /\ Lo(run, level) \in Nat /\ RunIsRight(run, level)
    BY <1>2, StackTypes
  <2>4. lo \in Nat /\ run.start \in Nat /\ run.end \in Nat /\ lo <= p /\ p \in Int
        /\ p < lo + (run.end - run.start)
    BY <1>1, <2>2, <2>3 DEF RunRecord, Lo, Hi
  <2> HIDE DEF run, level, lo
  <2>5. q \in run.start .. (run.end - 1) /\ lo + (q - run.start) = p
    BY <2>4
  <2>6. sa[p] = (sa[q] + level) % ix.n
    BY <1>3, <2>5 DEF run, level, lo
  <2>7. sa[p] \in Seen(f, k)
    BY <2>5, <2>6 DEF run, level
  <2>8. QED
    BY <2>7
<1>6. UNION {UNION {Seen(f, k) : k \in DOMAIN frames[f].runs} : f \in DOMAIN frames} = Rest
  <2> HIDE DEF Seen
  <2>1. ASSUME NEW v \in Rest
        PROVE  v \in UNION {UNION {Seen(f, k) : k \in DOMAIN frames[f].runs} : f \in DOMAIN frames}
    <3>1. PICK p \in first .. next : v = sa[p]
      OBVIOUS
    <3>2. QED
      BY <1>5, <3>1
  <2> HIDE DEF Rest
  <2>2. QED
    BY <1>4, <2>1
<1>7. frames # <<>> => (sa[Run.end - 1] + Top.level) % ix.n = sa[NextPosition]
  BY RunFacts DEF Pending
<1>8. QED
  BY <1>6, <1>7 DEF PendingIsRest

\* QueryInv gives every safety property of the queries.
THEOREM SafetyFollows ==
  ASSUME QueryInv
  PROVE  /\ TypeOK /\ RangeIsSuffix /\ ReportsSuffixArray /\ PendingIsRest /\ TrustIsRight
         /\ ToeholdBounded
<1>1. RangeIsSuffix /\ ReportsSuffixArray
  BY DEF QueryInv, SearchInv, ReportInv, RangeIsSuffix
<1>2. TrustIsRight
  BY TrustedIsRight DEF TrustIsRight
<1>3. ToeholdBounded
  BY DEF QueryInv, BoundInv, ToeholdBounded
<1>4. QED
  BY <1>1, <1>2, <1>3, TypesFollow, RestFollows

-----------------------------------------------------------------------------
(* phi through a mark. *)

MarkOf(k) == TextPos(sa, ix.run[k].start)
SampleOf(k) == TextPos(sa, TailOf(k))

\* Inside a run, LF takes neighbours to neighbours.
LEMMA Neighbours ==
  ASSUME TextIsIndexed, RunsPartition, NEW p \in DOMAIN sa,
         \A k \in DOMAIN ix.run : ix.run[k].start # p
  PROVE  /\ p - 1 \in DOMAIN sa /\ LF(p) = LF(p - 1) + 1
         /\ \A k \in DOMAIN ix.run : TailOf(k) # p - 1
<1> DEFINE k == RunAt(p)
<1>1. /\ k \in DOMAIN ix.run /\ ix.run[k].start <= p /\ p < ix.run[k].end
      /\ ix.run[k].start \in Nat /\ ix.run[k].end \in Nat /\ ix.bwt[p] = ix.run[k].c
      /\ p \in 0..(ix.n - 1) /\ DOMAIN sa = 0..(ix.n - 1) /\ ix.n \in Nat
  BY RunAtIs, RunTypes, TextSize
<1>2. ix.run[k].start # p
  BY <1>1
<1> HIDE DEF k
<1>3. p - 1 \in DOMAIN sa /\ ix.run[k].start <= p - 1 /\ p - 1 < ix.run[k].end /\ (p - 1) + 1 = p
  BY <1>1, <1>2
<1>4. RunAt(p - 1) = k
  BY <1>1, <1>3, RunAtUnique
<1>5. ix.bwt[p - 1] = ix.bwt[p]
  BY <1>1, <1>3, <1>4, RunAtIs
<1>6. LF(p) = LF(p - 1) + 1
  <2>1. Rank(ix.bwt[p], (p - 1) + 1) = Rank(ix.bwt[p], p - 1) + 1
    BY <1>3, <1>5, RankStep
  <2>2. Rank(ix.bwt[p], p - 1) \in Nat /\ ix.C[ix.bwt[p]] \in Nat
    BY RankType, BwtType
  <2>3. QED
    BY <1>3, <1>5, <2>1, <2>2 DEF LF
<1>7. ASSUME NEW m \in DOMAIN ix.run, TailOf(m) = p - 1
      PROVE  FALSE
  <2>1. ix.run[m].start <= p - 1 /\ p - 1 < ix.run[m].end /\ ix.run[m].end = (p - 1) + 1
    BY <1>7, TailType
  <2>2. p - 1 \in Int
    BY <1>1
  <2>3. m = k
    BY <1>1, <1>3, <2>1, <2>2, RunsDisjoint
  <2>4. QED
    BY <1>1, <1>3, <2>1, <2>3
<1>8. QED
  BY <1>3, <1>6, <1>7

\* The position of the suffix l symbols before that of p.
BackBy(p, l) == CHOOSE q \in DOMAIN sa : sa[q] = (sa[p] + (-l)) % ix.n

\* LF takes one step further back.
LEMMA BackIs ==
  ASSUME TextIsIndexed, LFIsRight, NEW p \in DOMAIN sa, NEW l \in Nat
  PROVE  /\ BackBy(p, l) \in DOMAIN sa /\ sa[BackBy(p, l)] = (sa[p] + (-l)) % ix.n
         /\ BackBy(p, 0) = p
         /\ TextPos(sa, BackBy(p, l)) = (sa[p] + (-(l + 1))) % ix.n
         /\ BackBy(p, l + 1) = LF(BackBy(p, l))
<1>1. ix.n \in Nat \ {0} /\ sa[p] \in 0..(ix.n - 1) /\ DOMAIN sa = 0..(ix.n - 1)
  BY TextSize
<1>2. \A m \in Nat : BackBy(p, m) \in DOMAIN sa /\ sa[BackBy(p, m)] = (sa[p] + (-m)) % ix.n
  <2> TAKE m \in Nat
  <2>1. sa[p] + (-m) \in Int
    BY <1>1
  <2>2. (sa[p] + (-m)) % ix.n \in 0..(ix.n - 1)
    BY <1>1, <2>1, ModDef
  <2>3. \E q \in DOMAIN sa : sa[q] = (sa[p] + (-m)) % ix.n
    BY <2>2, SaIsOnto
  <2>4. QED
    BY <2>3 DEF BackBy
<1>3. \A q, s \in DOMAIN sa : sa[q] = sa[s] => q = s
  BY DEF TextIsIndexed
<1>4. BackBy(p, 0) = p
  <2>1. (sa[p] + (-0)) % ix.n = sa[p]
    <3>1. sa[p] + (-0) = sa[p]
      BY <1>1
    <3>2. QED
      BY <1>1, <3>1, ModSmall
  <2>2. QED
    BY <1>2, <1>3, <2>1
<1>5. TextPos(sa, BackBy(p, l)) = (sa[p] + (-(l + 1))) % ix.n
  <2>1. TextPos(sa, BackBy(p, l)) = (sa[BackBy(p, l)] + (-1)) % ix.n
    BY <1>2, TextPosIsBefore
  <2>2. sa[p] + (-l) \in Int /\ (sa[p] + (-l)) + (-1) = sa[p] + (-(l + 1)) /\ -1 \in Int
    BY <1>1
  <2>3. (((sa[p] + (-l)) % ix.n) + (-1)) % ix.n = ((sa[p] + (-l)) + (-1)) % ix.n
    BY <1>1, <2>2, ModMod
  <2>4. QED
    BY <1>2, <2>1, <2>2, <2>3
<1>6. BackBy(p, l + 1) = LF(BackBy(p, l))
  <2>1. LF(BackBy(p, l)) \in DOMAIN sa /\ sa[LF(BackBy(p, l))] = TextPos(sa, BackBy(p, l))
    BY <1>2 DEF LFIsRight
  <2>2. l + 1 \in Nat
    OBVIOUS
  <2>3. QED
    BY <1>2, <1>3, <1>5, <2>1, <2>2
<1>7. QED
  BY <1>2, <1>4, <1>5, <1>6

\* phi is right through a mark if no other mark lies between it and the value:
\* the sample of the run before the mark's follows it as the value follows the mark,
\* and no other sample lies between them.
LEMMA PhiThrough ==
  ASSUME TextIsIndexed, RunsPartition, LFIsRight, NEW p \in DOMAIN sa, p # 0,
         NEW k \in DOMAIN ix.run, NEW delta \in 1..ix.n,
         sa[p] = (MarkOf(k) + delta) % ix.n,
         \A j \in DOMAIN ix.run, l \in 1..(delta - 1) : MarkOf(j) # (MarkOf(k) + l) % ix.n
  PROVE  /\ k > 0 /\ k - 1 \in DOMAIN ix.run
         /\ sa[p - 1] = (SampleOf(k - 1) + delta) % ix.n
         /\ \A j \in DOMAIN ix.run, l \in 1..(delta - 1) :
              SampleOf(j) # (SampleOf(k - 1) + l) % ix.n
<1> DEFINE n == ix.n
           a(l) == BackBy(p, l)
           b(l) == BackBy(p - 1, l)
           v == sa[p]
           w == sa[p - 1]
<1>1. /\ n \in Nat \ {0} /\ DOMAIN sa = 0..(n - 1) /\ p - 1 \in DOMAIN sa /\ p \in Int
      /\ v \in 0..(n - 1) /\ w \in 0..(n - 1)
  BY TextSize
<1>2. \A l \in Nat : /\ a(l) \in DOMAIN sa /\ b(l) \in DOMAIN sa
                     /\ TextPos(sa, a(l)) = (v + (-(l + 1))) % n
                     /\ TextPos(sa, b(l)) = (w + (-(l + 1))) % n
                     /\ a(l + 1) = LF(a(l)) /\ b(l + 1) = LF(b(l))
  BY <1>1, BackIs
<1>3. a(0) = p /\ b(0) = p - 1
  BY <1>1, BackIs
<1>4. MarkOf(k) \in 0..(n - 1) /\ \A j \in DOMAIN ix.run : ix.run[j].start \in DOMAIN sa /\ ix.run[j].start \in Nat
  <2>1. \A j \in DOMAIN ix.run : ix.run[j].start \in DOMAIN sa /\ ix.run[j].start \in Nat
    <3> TAKE j \in DOMAIN ix.run
    <3>1. /\ ix.run[j].start \in Nat /\ ix.run[j].end \in Nat
          /\ ix.run[j].start < ix.run[j].end /\ ix.run[j].end <= n
      BY RunTypes DEF RunsPartition
    <3>2. QED
      BY <1>1, <3>1
  <2>2. QED
    BY <2>1, TextSize DEF MarkOf
<1>5. \A l \in 0..(delta - 1) : TextPos(sa, a(l)) = (MarkOf(k) + (delta - l - 1)) % n
  <2> TAKE l \in 0..(delta - 1)
  <2>1. /\ MarkOf(k) + delta \in Int /\ -(l + 1) \in Int /\ l \in Nat
        /\ (MarkOf(k) + delta) + (-(l + 1)) = MarkOf(k) + (delta - l - 1)
    BY <1>4
  <2>2. (((MarkOf(k) + delta) % n) + (-(l + 1))) % n = ((MarkOf(k) + delta) + (-(l + 1))) % n
    BY <1>1, <2>1, ModMod
  <2>3. QED
    BY <1>2, <2>1, <2>2
<1> HIDE DEF a, b, v, w, n
<1>6. ASSUME NEW l \in 0..(delta - 2)
      PROVE  \A j \in DOMAIN ix.run : ix.run[j].start # a(l)
  <2> TAKE j \in DOMAIN ix.run
  <2>1. l \in 0..(delta - 1) /\ delta - l - 1 \in 1..(delta - 1)
    OBVIOUS
  <2>2. ix.run[j].start = a(l) => MarkOf(j) = (MarkOf(k) + (delta - l - 1)) % n
    BY <1>5, <2>1 DEF MarkOf
  <2>3. QED
    BY <2>1, <2>2 DEF n
<1>7. \A l \in 0..(delta - 1) : b(l) = a(l) - 1
  <2> DEFINE T == {l \in 0..(delta - 1) : b(l) # a(l) - 1}
  <2>1. SUFFICES ASSUME T # {} PROVE FALSE
    OBVIOUS
  <2>2. T \in SUBSET Nat
    OBVIOUS
  <2>3. PICK l \in T : \A m \in T : l <= m
    BY <2>1, <2>2, MinExists
  <2>4. l \in Nat /\ l <= delta - 1 /\ b(l) # a(l) - 1
    BY <2>3
  <2>5. l # 0
    BY <1>3, <2>4
  <2>6. l - 1 \in 0..(delta - 1) /\ l - 1 \in 0..(delta - 2) /\ ~(l <= l - 1) /\ l - 1 \in Nat /\ (l - 1) + 1 = l
    BY <2>4, <2>5
  <2>7. b(l - 1) = a(l - 1) - 1
    BY <2>3, <2>6
  <2>8. LF(a(l - 1)) = LF(a(l - 1) - 1) + 1
    BY <1>2, <1>6, <2>6, Neighbours
  <2>9. a(l) = LF(a(l - 1)) /\ b(l) = LF(b(l - 1)) /\ a(l) \in Int /\ b(l) \in Int
    <3>1. a((l - 1) + 1) = LF(a(l - 1)) /\ b((l - 1) + 1) = LF(b(l - 1))
      BY <1>2, <2>6
    <3>2. a(l) \in 0..(n - 1) /\ b(l) \in 0..(n - 1)
      BY <1>1, <1>2, <2>4
    <3>3. QED
      BY <2>6, <3>1, <3>2
  <2>10. QED
    BY <2>4, <2>7, <2>8, <2>9
<1>8. a(delta - 1) = ix.run[k].start
  <2>1. delta - 1 \in 0..(delta - 1) /\ delta - (delta - 1) - 1 = 0 /\ MarkOf(k) + 0 = MarkOf(k) /\ delta - 1 \in Nat
    BY <1>4
  <2>2. TextPos(sa, a(delta - 1)) = MarkOf(k) % n
    BY <1>5, <2>1
  <2>3. TextPos(sa, a(delta - 1)) = TextPos(sa, ix.run[k].start)
    BY <1>1, <1>4, <2>2, ModSmall DEF MarkOf
  <2>4. QED
    BY <1>2, <1>4, <2>1, <2>3, TextPosIsInjective
<1>9. b(delta - 1) = ix.run[k].start - 1 /\ b(delta - 1) \in Nat /\ delta - 1 \in Nat
  <2>1. delta - 1 \in 0..(delta - 1) /\ delta - 1 \in Nat
    OBVIOUS
  <2>2. b(delta - 1) \in 0..(n - 1)
    BY <1>1, <1>2, <2>1
  <2>3. b(delta - 1) = a(delta - 1) - 1
    BY <1>7, <2>1
  <2>4. QED
    BY <1>8, <2>1, <2>2, <2>3
<1>10. k > 0 /\ k - 1 \in DOMAIN ix.run /\ TailOf(k - 1) = b(delta - 1)
  <2>1. DOMAIN ix.run = 0..(Size(ix.run) - 1) /\ Size(ix.run) \in Nat /\ ix.run[0].start = 0
    BY RunTypes DEF RunsPartition
  <2>2. k # 0
    BY <1>9, <2>1
  <2>3. k > 0 /\ k - 1 \in DOMAIN ix.run
    BY <2>1, <2>2
  <2>4. ix.run[k].start = ix.run[k - 1].end
    BY <2>3 DEF RunsPartition
  <2>5. QED
    BY <1>9, <2>3, <2>4 DEF TailOf
<1>11. SampleOf(k - 1) = (w + (-delta)) % n
  <2>1. TextPos(sa, b(delta - 1)) = (w + (-((delta - 1) + 1))) % n /\ (delta - 1) + 1 = delta
    BY <1>2, <1>9
  <2>2. QED
    BY <1>10, <2>1 DEF SampleOf
<1>12. ASSUME NEW l \in 0..delta
       PROVE  (SampleOf(k - 1) + l) % n = (w + (-(delta - l))) % n
  <2>1. w + (-delta) \in Int /\ (w + (-delta)) + l = w + (-(delta - l)) /\ l \in Int
    BY <1>1
  <2>2. (((w + (-delta)) % n) + l) % n = ((w + (-delta)) + l) % n
    BY <1>1, <2>1, ModMod
  <2>3. QED
    BY <1>11, <2>1, <2>2
<1>13. w = (SampleOf(k - 1) + delta) % n
  <2>1. delta \in 0..delta /\ w + (-(delta - delta)) = w
    BY <1>1
  <2>2. w % n = w
    BY <1>1, ModSmall
  <2>3. QED
    BY <1>12, <2>1, <2>2
<1>14. ASSUME NEW j \in DOMAIN ix.run, NEW l \in 1..(delta - 1), SampleOf(j) = (SampleOf(k - 1) + l) % n
       PROVE  FALSE
  <2> DEFINE m == delta - 1 - l
  <2>1. m \in 0..(delta - 2) /\ m \in 0..(delta - 1) /\ m \in Nat /\ l \in 0..delta /\ delta - l = m + 1
    OBVIOUS
  <2> HIDE DEF m
  <2>2. SampleOf(j) = TextPos(sa, b(m))
    BY <1>2, <1>12, <1>14, <2>1
  <2>3. TailOf(j) = b(m)
    <3>1. TailOf(j) \in DOMAIN sa /\ b(m) \in DOMAIN sa
      BY <1>2, <2>1, TailType
    <3>2. QED
      BY <2>2, <3>1, TextPosIsInjective DEF SampleOf
  <2>4. TailOf(j) # a(m) - 1
    BY <1>2, <1>6, <2>1, Neighbours
  <2>5. QED
    BY <1>7, <2>1, <2>3, <2>4
<1>15. QED
  BY <1>10, <1>13, <1>14 DEF w, n

-----------------------------------------------------------------------------
(* phi on the marks and samples an index keeps. *)

RunBefore(k) == (k + Size(ix.run) - 1) % Size(ix.run)
RunAfter(k) == (k + 1) % Size(ix.run)

\* The marks are sorted marks of the text with its first and its last among them,
\* and each leads to the sample of the run before its own.
MarksAreRight ==
  /\ Size(ix.marks) \in Nat \ {0} /\ DOMAIN ix.marks = 0..(Size(ix.marks) - 1)
  /\ \A o, q \in DOMAIN ix.marks : o < q => ix.marks[o] < ix.marks[q]
  /\ \A o \in DOMAIN ix.marks : \E k \in DOMAIN ix.run :
       ix.marks[o] = MarkOf(k) /\ ix.samples[ix.markToSample[o]] = SampleOf(RunBefore(k))
  /\ \A k \in DOMAIN ix.run :
       ix.marks[0] <= MarkOf(k) /\ MarkOf(k) <= ix.marks[Size(ix.marks) - 1]

\* Between mark o and the next one kept there is another.
LostAfter(o, k) == ix.marks[o] < MarkOf(k) /\ MarkOf(k) < ix.marks[o + 1]

\* A mark that is valid lost no neighbour; an invalid one is not the last, and lost
\* none within its area.
ValidityIsRight ==
  ix.kind \in {"vm", "va"} =>
    /\ \A o \in DOMAIN ix.marks :
         o \in ix.invalid => o + 1 \in DOMAIN ix.marks
    /\ \A o \in DOMAIN ix.marks, k \in DOMAIN ix.run :
         o + 1 \in DOMAIN ix.marks /\ LostAfter(o, k) =>
           /\ o \in ix.invalid
           /\ ix.marks[o] + ix.area[Cardinality({x \in ix.invalid : x < o})] <= MarkOf(k)
    /\ \A o \in ix.invalid : ix.area[Cardinality({x \in ix.invalid : x < o})] \in Nat

\* A kept sample keeps the mark linked to it; one that was dropped lies behind a
\* kept one that is at most rate before the sample after it.
SamplesCover ==
  IF ix.kind = "r"
  THEN \A k \in DOMAIN ix.run : \E o \in DOMAIN ix.marks : ix.marks[o] = MarkOf(k)
  ELSE /\ ix.rate \in Nat \ {0}
       /\ \A k \in DOMAIN ix.run :
            \/ k \in ix.sampled /\ \E o \in DOMAIN ix.marks : ix.marks[o] = MarkOf(RunAfter(k))
            \/ \E m \in ix.sampled, j \in DOMAIN ix.run :
                 /\ SampleOf(m) < SampleOf(k) /\ SampleOf(k) < SampleOf(j)
                 /\ SampleOf(j) - SampleOf(m) <= ix.rate

\* Marks and samples are text positions.
LEMMA MarkTypes ==
  ASSUME TextIsIndexed, RunsPartition, NEW k \in DOMAIN ix.run
  PROVE  /\ MarkOf(k) \in 0..(ix.n - 1) /\ SampleOf(k) \in 0..(ix.n - 1)
         /\ ix.run[k].start \in DOMAIN sa
<1>1. /\ ix.run[k].start \in Nat /\ ix.run[k].end \in Nat
      /\ ix.run[k].start < ix.run[k].end /\ ix.run[k].end <= ix.n
  BY RunTypes DEF RunsPartition
<1>2. ix.run[k].start \in DOMAIN sa /\ TailOf(k) \in DOMAIN sa
  BY <1>1, TailType, TextSize
<1>3. QED
  BY <1>2, TextSize DEF MarkOf, SampleOf

\* The runs before and after one, around the end.
LEMMA RunBeforeIs ==
  ASSUME RunsPartition, NEW k \in DOMAIN ix.run
  PROVE  /\ RunBefore(k) \in DOMAIN ix.run /\ RunAfter(k) \in DOMAIN ix.run
         /\ k > 0 => RunBefore(k) = k - 1
         /\ k > 0 => RunAfter(k - 1) = k
<1> DEFINE r == Size(ix.run)
<1>1. r \in Nat \ {0} /\ DOMAIN ix.run = 0..(r - 1)
  BY RunTypes
<1> HIDE DEF r
<1>2. RunBefore(k) \in 0..(r - 1) /\ RunAfter(k) \in 0..(r - 1)
  <2>1. k + r - 1 \in Int /\ k + 1 \in Int
    BY <1>1
  <2>2. QED
    BY <1>1, <2>1, ModDef DEF RunBefore, RunAfter, r
<1>3. ASSUME k > 0
      PROVE  RunBefore(k) = k - 1 /\ RunAfter(k - 1) = k
  <2>1. k + r - 1 = r * 1 + (k - 1) /\ k - 1 \in 0..(r - 1) /\ k + r - 1 \in Int /\ 1 \in Int
    BY <1>1, <1>3
  <2>2. (k + r - 1) % r = k - 1
    BY <1>1, <2>1, ModUnique
  <2>3. (k - 1) + 1 = k /\ k % r = k
    BY <1>1, ModSmall
  <2>4. QED
    BY <2>2, <2>3 DEF RunBefore, RunAfter, r
<1>4. QED
  BY <1>1, <1>2, <1>3

\* The circular predecessor over the marks (sequence_ops.h) is the last mark before
\* the value, or the last mark of all if there is none.
LEMMA PredecessorIs ==
  ASSUME MarksAreRight, TextIsIndexed, RunsPartition, NEW v \in 0..(ix.n - 1)
  PROVE  /\ Predecessor(v) \in DOMAIN ix.marks
         /\ \/ /\ ix.marks[Predecessor(v)] < v
               /\ \A q \in DOMAIN ix.marks : ix.marks[q] < v => q <= Predecessor(v)
            \/ /\ Predecessor(v) = Size(ix.marks) - 1
               /\ \A q \in DOMAIN ix.marks : v <= ix.marks[q]
<1> DEFINE w == Size(ix.marks)
           L == {q \in DOMAIN ix.marks : ix.marks[q] < v}
<1>1. /\ w \in Nat \ {0} /\ DOMAIN ix.marks = 0..(w - 1)
      /\ \A o, q \in DOMAIN ix.marks : o < q => ix.marks[o] < ix.marks[q]
  BY DEF MarksAreRight
<1>2. \A q \in DOMAIN ix.marks : ix.marks[q] \in Int
  <2> TAKE q \in DOMAIN ix.marks
  <2>1. PICK k \in DOMAIN ix.run : ix.marks[q] = MarkOf(k)
    BY DEF MarksAreRight
  <2>2. QED
    BY <2>1, MarkTypes
<1>3. Predecessor(v) = (Cardinality(L) + w - 1) % w
  BY DEF Predecessor
<1> HIDE DEF w
<1>4. CASE L = {}
  <2>1. Cardinality(L) = 0
    BY <1>4, FS_EmptySet
  <2>2. (0 + w - 1) % w = w - 1
    <3>1. 0 + w - 1 = w - 1 /\ w - 1 \in 0..(w - 1)
      BY <1>1
    <3>2. QED
      BY <1>1, <3>1, ModSmall
  <2>3. Predecessor(v) = w - 1 /\ w - 1 \in DOMAIN ix.marks
    BY <1>1, <1>3, <2>1, <2>2
  <2>4. \A q \in DOMAIN ix.marks : v <= ix.marks[q]
    BY <1>2, <1>4
  <2>5. QED
    BY <2>3, <2>4 DEF w
<1>5. CASE L # {}
  <2>1. L \in SUBSET (0..(w - 1)) /\ w - 1 \in Nat
    BY <1>1
  <2>2. PICK m \in L : \A y \in L : y <= m
    <3> HIDE DEF L
    <3> QED BY <1>5, <2>1, MaxExists
  <2>3. m \in 0..(w - 1) /\ ix.marks[m] < v
    BY <1>1, <2>2
  <2>4. L = 0..m
    <3>1. \A q \in L : q \in 0..m
      BY <1>1, <2>2, <2>3
    <3>2. \A q \in 0..m : q \in L
      <4> TAKE q \in 0..m
      <4>1. q \in DOMAIN ix.marks /\ m \in DOMAIN ix.marks /\ (q < m \/ q = m)
        BY <1>1, <2>3
      <4>2. ix.marks[q] <= ix.marks[m] /\ ix.marks[q] \in Int /\ ix.marks[m] \in Int
        BY <1>1, <1>2, <4>1
      <4>3. QED
        BY <2>3, <4>1, <4>2
    <3>3. QED
      BY <3>1, <3>2
  <2>5. Cardinality(L) = m + 1
    <3>1. 0 \in Int /\ m \in Int /\ ~(0 > m) /\ m - 0 + 1 = m + 1
      BY <2>3
    <3>2. Cardinality(0..m) = IF 0 > m THEN 0 ELSE m - 0 + 1
      BY <3>1, FS_Interval
    <3>3. QED
      BY <2>4, <3>1, <3>2
  <2>6. (m + 1 + w - 1) % w = m
    <3>1. m + 1 + w - 1 = w * 1 + m /\ m + 1 + w - 1 \in Int /\ 1 \in Int
      BY <1>1, <2>3
    <3>2. QED
      BY <1>1, <2>3, <3>1, ModUnique
  <2>7. Predecessor(v) = m
    BY <1>3, <2>5, <2>6
  <2>8. QED
    BY <1>1, <2>2, <2>3, <2>7
<1>6. QED
  BY <1>4, <1>5

\* The terminator is the last mark of the text: it is a run of its own.
LEMMA LastMarkEnds ==
  ASSUME TextIsIndexed, RunsPartition
  PROVE  \E k \in DOMAIN ix.run : MarkOf(k) = ix.n - 1
  BY TerminatorRun DEF MarkOf

Delta(v) == IF ix.marks[Predecessor(v)] < v THEN v - ix.marks[Predecessor(v)] ELSE v + 1

\* phi leads through the predecessor mark to the sample it is linked to.
LEMMA PhiLinks ==
  ASSUME TextIsIndexed, RunsPartition, MarksAreRight, NEW v \in 0..(ix.n - 1)
  PROVE  \E k \in DOMAIN ix.run :
           /\ ix.marks[Predecessor(v)] = MarkOf(k)
           /\ Delta(v) \in 1..ix.n /\ (MarkOf(k) + Delta(v)) % ix.n = v
           /\ Phi(v).value = (SampleOf(RunBefore(k)) + Delta(v)) % ix.n
           /\ Phi(v).valid = Validate(Predecessor(v), Delta(v))
           /\ Phi(v) = [value |-> (SampleOf(RunBefore(k)) + Delta(v)) % ix.n,
                        valid |-> Validate(Predecessor(v), Delta(v))]
           /\ MarkOf(k) < v => Delta(v) = v - MarkOf(k)
           /\ ~(MarkOf(k) < v) => MarkOf(k) = ix.n - 1 /\ Delta(v) = v + 1
<1> DEFINE o == Predecessor(v)
           n == ix.n
<1>1. /\ o \in DOMAIN ix.marks
      /\ \/ ix.marks[o] < v
         \/ o = Size(ix.marks) - 1 /\ \A q \in DOMAIN ix.marks : v <= ix.marks[q]
  BY PredecessorIs
<1>2. n \in Nat \ {0} /\ v \in 0..(n - 1)
  BY TextSize
<1>3. PICK k \in DOMAIN ix.run :
        ix.marks[o] = MarkOf(k) /\ ix.samples[ix.markToSample[o]] = SampleOf(RunBefore(k))
  BY <1>1 DEF MarksAreRight
<1>4. MarkOf(k) \in 0..(n - 1)
  BY MarkTypes
<1>5. Delta(v) = IF MarkOf(k) < v THEN v - MarkOf(k) ELSE v + 1
  BY <1>3 DEF Delta
<1>6. ~(MarkOf(k) < v) => MarkOf(k) = n - 1
  <2>1. HAVE ~(MarkOf(k) < v)
  <2>2. o = Size(ix.marks) - 1
    BY <1>1, <1>3, <2>1
  <2>3. PICK j \in DOMAIN ix.run : MarkOf(j) = n - 1
    BY LastMarkEnds
  <2>4. MarkOf(j) <= ix.marks[o]
    BY <2>2 DEF MarksAreRight
  <2>5. QED
    BY <1>2, <1>3, <1>4, <2>3, <2>4
<1>7. Phi(v) = [value |-> (SampleOf(RunBefore(k)) + Delta(v)) % n, valid |-> Validate(o, Delta(v))]
  BY <1>3 DEF Phi, SampleForPhi, Delta
<1> HIDE DEF n, o
<1>8. Delta(v) \in 1..n
  BY <1>2, <1>4, <1>5
<1>9. (MarkOf(k) + Delta(v)) % n = v
  <2>1. CASE MarkOf(k) < v
    <3>1. MarkOf(k) + Delta(v) = v
      BY <1>2, <1>4, <1>5, <2>1
    <3>2. QED
      BY <1>2, <3>1, ModSmall
  <2>2. CASE ~(MarkOf(k) < v)
    <3>1. MarkOf(k) + Delta(v) = n * 1 + v /\ MarkOf(k) + Delta(v) \in Int /\ 1 \in Int
      BY <1>2, <1>4, <1>5, <1>6, <2>2
    <3>2. QED
      BY <1>2, <3>1, ModUnique
  <2>3. QED
    BY <2>1, <2>2
<1>10. Phi(v).value = (SampleOf(RunBefore(k)) + Delta(v)) % n /\ Phi(v).valid = Validate(o, Delta(v))
  BY <1>7
<1>11. QED
  BY <1>3, <1>5, <1>6, <1>7, <1>8, <1>9, <1>10 DEF n, o

\* If no mark lies between the predecessor mark and the value, phi is right.
LEMMA PhiIsRight ==
  ASSUME TextIsIndexed, RunsPartition, LFIsRight, MarksAreRight,
         NEW p \in DOMAIN sa \ {0},
         \A k \in DOMAIN ix.run : ~(ix.marks[Predecessor(sa[p])] < MarkOf(k) /\ MarkOf(k) < sa[p])
  PROVE  Phi(sa[p]).value = sa[p - 1]
<1> DEFINE v == sa[p]
           n == ix.n
<1>1. n \in Nat \ {0} /\ v \in 0..(n - 1)
  BY TextSize
<1>2. PICK k \in DOMAIN ix.run :
        /\ ix.marks[Predecessor(v)] = MarkOf(k)
        /\ Delta(v) \in 1..n /\ (MarkOf(k) + Delta(v)) % n = v
        /\ Phi(v).value = (SampleOf(RunBefore(k)) + Delta(v)) % n
        /\ MarkOf(k) < v => Delta(v) = v - MarkOf(k)
        /\ ~(MarkOf(k) < v) => MarkOf(k) = n - 1 /\ Delta(v) = v + 1
  BY <1>1, PhiLinks
<1>3. MarkOf(k) \in 0..(n - 1) /\ \A j \in DOMAIN ix.run : MarkOf(j) \in 0..(n - 1)
  BY MarkTypes
<1>4. \A j \in DOMAIN ix.run : ~(MarkOf(k) < MarkOf(j) /\ MarkOf(j) < v)
  BY <1>2
<1>5. ~(MarkOf(k) < v) => \A j \in DOMAIN ix.run : v <= MarkOf(j)
  <2>1. HAVE ~(MarkOf(k) < v)
  <2>2. ~(ix.marks[Predecessor(v)] < v)
    BY <1>2, <2>1
  <2>3. \A q \in DOMAIN ix.marks : v <= ix.marks[q]
    BY <1>1, <2>2, PredecessorIs
  <2>4. 0 \in DOMAIN ix.marks
    BY DEF MarksAreRight
  <2>5. v <= ix.marks[0] /\ \E i \in DOMAIN ix.run : ix.marks[0] = MarkOf(i)
    BY <2>3, <2>4 DEF MarksAreRight
  <2>6. \A j \in DOMAIN ix.run : ix.marks[0] <= MarkOf(j)
    BY DEF MarksAreRight
  <2>7. QED
    BY <1>1, <1>3, <2>5, <2>6
<1> HIDE DEF v, n
<1>6. ASSUME NEW j \in DOMAIN ix.run, NEW l \in 1..(Delta(v) - 1), MarkOf(j) = (MarkOf(k) + l) % n
      PROVE  FALSE
  <2>1. MarkOf(j) \in 0..(n - 1) /\ l \in Nat /\ l >= 1 /\ l <= Delta(v) - 1
    BY <1>2, <1>3
  <2>2. CASE MarkOf(k) < v
    <3>1. MarkOf(k) + l \in 0..(n - 1) /\ MarkOf(k) + l < v
      BY <1>1, <1>2, <1>3, <2>1, <2>2
    <3>2. MarkOf(j) = MarkOf(k) + l
      BY <1>1, <1>6, <3>1, ModSmall
    <3>3. QED
      BY <1>3, <1>4, <2>1, <3>1, <3>2
  <2>3. CASE ~(MarkOf(k) < v)
    <3>1. /\ MarkOf(k) + l = n * 1 + (l - 1) /\ MarkOf(k) + l \in Int /\ 1 \in Int
          /\ l - 1 \in 0..(n - 1) /\ l - 1 < v
      BY <1>1, <1>2, <1>3, <2>1, <2>3
    <3>2. (MarkOf(k) + l) % n = l - 1
      BY <1>1, <3>1, ModUnique
    <3>3. v <= MarkOf(j)
      BY <1>5, <2>3
    <3>4. QED
      BY <1>1, <1>6, <2>1, <3>1, <3>2, <3>3
  <2>4. QED
    BY <2>2, <2>3
<1>7. k > 0 /\ sa[p - 1] = (SampleOf(k - 1) + Delta(v)) % n
  <2>1. p \in DOMAIN sa /\ p # 0
    OBVIOUS
  <2>2. Delta(v) \in 1..ix.n /\ sa[p] = (MarkOf(k) + Delta(v)) % ix.n
    BY <1>2 DEF v, n
  <2>3. \A j \in DOMAIN ix.run, l \in 1..(Delta(v) - 1) : MarkOf(j) # (MarkOf(k) + l) % ix.n
    BY <1>6 DEF n
  <2>4. QED
    BY <2>1, <2>2, <2>3, PhiThrough DEF n
<1>8. RunBefore(k) = k - 1
  BY <1>7, RunBeforeIs
<1>9. QED
  BY <1>2, <1>7, <1>8 DEF v

\* A mark after the predecessor and before the value lies before the mark kept next.
LEMMA LostMark ==
  ASSUME TextIsIndexed, RunsPartition, MarksAreRight, NEW v \in 0..(ix.n - 1),
         NEW k \in DOMAIN ix.run, ix.marks[Predecessor(v)] < MarkOf(k), MarkOf(k) < v
  PROVE  Predecessor(v) + 1 \in DOMAIN ix.marks /\ LostAfter(Predecessor(v), k)
         /\ Delta(v) = v - ix.marks[Predecessor(v)]
<1> DEFINE o == Predecessor(v)
           w == Size(ix.marks)
<1>1. /\ w \in Nat \ {0} /\ DOMAIN ix.marks = 0..(w - 1) /\ o \in DOMAIN ix.marks
      /\ \A q \in DOMAIN ix.marks : \E j \in DOMAIN ix.run : ix.marks[q] = MarkOf(j)
      /\ MarkOf(k) <= ix.marks[w - 1]
  BY PredecessorIs DEF MarksAreRight
<1>2. v \in Int /\ MarkOf(k) \in Int /\ \A q \in DOMAIN ix.marks : ix.marks[q] \in Int
  BY <1>1, MarkTypes
<1>3. ix.marks[o] < v
  BY <1>1, <1>2
<1>4. \A q \in DOMAIN ix.marks : ix.marks[q] < v => q <= o
  <2>1. \/ \A q \in DOMAIN ix.marks : ix.marks[q] < v => q <= o
        \/ \A q \in DOMAIN ix.marks : v <= ix.marks[q]
    BY PredecessorIs
  <2>2. ~(v <= ix.marks[o])
    BY <1>1, <1>2, <1>3
  <2>3. QED
    BY <1>1, <2>1, <2>2
<1>5. o # w - 1
  BY <1>1, <1>2
<1> HIDE DEF o, w
<1>6. o + 1 \in DOMAIN ix.marks /\ ~(o + 1 <= o)
  BY <1>1, <1>5
<1>7. v <= ix.marks[o + 1]
  BY <1>2, <1>4, <1>6
<1>8. MarkOf(k) < ix.marks[o + 1]
  BY <1>2, <1>6, <1>7
<1>9. Delta(v) = v - ix.marks[o]
  BY <1>3 DEF Delta, o
<1>10. QED
  BY <1>6, <1>8, <1>9 DEF LostAfter, o

\* phi gives a text position and a validity; where the validity is true it is right.
LEMMA PhiTrusted ==
  ASSUME TextIsIndexed, RunsPartition, LFIsRight, MarksAreRight, ValidityIsRight, SamplesCover,
         ix.kind \in {"r", "sr", "vm", "va"}
  PROVE  /\ \A v \in DOMAIN sa : Phi(v) \in [value : DOMAIN sa, valid : BOOLEAN]
         /\ PhiRightWhenTrusted
<1>1. ix.n \in Nat \ {0} /\ DOMAIN sa = 0..(ix.n - 1) /\ \A p \in DOMAIN sa : sa[p] \in 0..(ix.n - 1)
  BY TextSize
<1>2. ASSUME NEW v \in DOMAIN sa
      PROVE  Phi(v) \in [value : DOMAIN sa, valid : BOOLEAN]
  <2>1. PICK k \in DOMAIN ix.run :
          /\ Delta(v) \in 1..ix.n
          /\ Phi(v) = [value |-> (SampleOf(RunBefore(k)) + Delta(v)) % ix.n,
                       valid |-> Validate(Predecessor(v), Delta(v))]
    BY <1>1, <1>2, PhiLinks
  <2>2. (SampleOf(RunBefore(k)) + Delta(v)) % ix.n \in 0..(ix.n - 1)
    <3>1. SampleOf(RunBefore(k)) \in 0..(ix.n - 1)
      BY RunBeforeIs, MarkTypes
    <3>2. SampleOf(RunBefore(k)) + Delta(v) \in Int
      BY <1>1, <2>1, <3>1
    <3>3. QED
      BY <1>1, <3>2, ModDef
  <2>3. Validate(Predecessor(v), Delta(v)) \in BOOLEAN
    BY DEF Validate
  <2>4. QED
    BY <1>1, <2>1, <2>2, <2>3
<1>3. ASSUME ix.kind # "sr", NEW p \in DOMAIN sa \ {0}, Phi(sa[p]).valid
      PROVE  Phi(sa[p]).value = sa[p - 1]
  <2> DEFINE v == sa[p]
             o == Predecessor(v)
  <2>1. v \in 0..(ix.n - 1)
    BY <1>1
  <2>2. ASSUME NEW k \in DOMAIN ix.run, ix.marks[o] < MarkOf(k), MarkOf(k) < v
        PROVE  FALSE
    <3>1. o \in DOMAIN ix.marks /\ o + 1 \in DOMAIN ix.marks /\ LostAfter(o, k) /\ Delta(v) = v - ix.marks[o]
      BY <2>1, <2>2, LostMark, PredecessorIs
    <3>2. Validate(o, Delta(v))
      <4>1. Phi(v).valid = Validate(o, Delta(v))
        BY <2>1, PhiLinks
      <4>2. QED
        BY <1>3, <4>1
    <3>3. ix.marks[o] \in Int /\ MarkOf(k) \in Int /\ v \in Int
      <4>1. \E j \in DOMAIN ix.run : ix.marks[o] = MarkOf(j)
        BY <3>1 DEF MarksAreRight
      <4>2. QED
        BY <2>1, <4>1, MarkTypes
    <3> HIDE DEF v, o
    <3>4. CASE ix.kind = "r"
      <4>1. PICK q \in DOMAIN ix.marks : ix.marks[q] = MarkOf(k)
        BY <3>4 DEF SamplesCover
      <4>2. \A x, y \in DOMAIN ix.marks : x < y => ix.marks[x] < ix.marks[y]
        BY DEF MarksAreRight
      <4>3. o < q /\ q < o + 1
        <5>1. o \in Int /\ q \in Int
          BY <3>1, <4>1 DEF MarksAreRight
        <5>2. ix.marks[o] < ix.marks[q] /\ ix.marks[q] < ix.marks[o + 1]
          BY <3>1, <4>1 DEF LostAfter
        <5>3. ix.marks[q] \in Int /\ ix.marks[o + 1] \in Int
          <6>1. \E j \in DOMAIN ix.run : ix.marks[o + 1] = MarkOf(j)
            BY <3>1 DEF MarksAreRight
          <6>2. QED
            BY <3>3, <4>1, <6>1, MarkTypes
        <5>4. ~(q < o) /\ q # o /\ ~(o + 1 < q) /\ q # o + 1
          BY <3>1, <3>3, <4>1, <4>2, <5>2, <5>3
        <5>5. QED
          BY <5>1, <5>4
      <4>4. QED
        BY <3>1, <4>1, <4>3 DEF MarksAreRight
    <3>5. CASE ix.kind \in {"vm", "va"}
      <4>1. /\ o \in ix.invalid
            /\ ix.marks[o] + ix.area[Cardinality({x \in ix.invalid : x < o})] <= MarkOf(k)
            /\ ix.area[Cardinality({x \in ix.invalid : x < o})] \in Nat
        BY <3>1, <3>5 DEF ValidityIsRight
      <4>2. InArea(o, Delta(v))
        BY <3>2, <3>5, <4>1 DEF Validate, InitialValidity, MarkIsValid
      <4>3. v - ix.marks[o] < ix.area[Cardinality({x \in ix.invalid : x < o})]
        BY <3>1, <4>2 DEF InArea
      <4>4. MarkOf(k) < v
        BY <2>2 DEF v
      <4>5. QED
        BY <3>3, <4>1, <4>3, <4>4
    <3>6. QED
      BY <1>3, <3>4, <3>5
  <2>3. QED
    BY <2>2, PhiIsRight
<1>4. QED
  BY <1>2, <1>3 DEF PhiRightWhenTrusted

\* The last mark of the text before a value, or the last of all if there is none.
LEMMA NearestMark ==
  ASSUME TextIsIndexed, RunsPartition, NEW v \in 0..(ix.n - 1)
  PROVE  \E k \in DOMAIN ix.run, delta \in 1..ix.n :
           /\ v = (MarkOf(k) + delta) % ix.n
           /\ \A j \in DOMAIN ix.run, l \in 1..(delta - 1) : MarkOf(j) # (MarkOf(k) + l) % ix.n
           /\ \A j \in DOMAIN ix.run : MarkOf(j) < v => MarkOf(j) <= MarkOf(k) /\ MarkOf(k) < v
<1> DEFINE n == ix.n
           M == {MarkOf(j) : j \in {i \in DOMAIN ix.run : MarkOf(i) < v}}
<1>1. n \in Nat \ {0} /\ v \in 0..(n - 1) /\ n - 1 \in Nat
  BY TextSize
<1>2. \A j \in DOMAIN ix.run : MarkOf(j) \in 0..(n - 1)
  BY MarkTypes
<1>3. \A j \in DOMAIN ix.run : MarkOf(j) < v <=> MarkOf(j) \in M
  OBVIOUS
<1>4. M \in SUBSET (0..(n - 1)) /\ \A x \in M : \E j \in DOMAIN ix.run : MarkOf(j) = x /\ x < v
  BY <1>2
<1> HIDE DEF n, M
<1>5. CASE M # {}
  <2>1. PICK x \in M : \A y \in M : y <= x
    BY <1>1, <1>4, <1>5, MaxExists
  <2>2. PICK k \in DOMAIN ix.run : MarkOf(k) = x /\ x < v
    BY <1>4, <2>1
  <2>3. v - x \in 1..n /\ v = (x + (v - x)) % n /\ x \in 0..(n - 1)
    <3>1. x \in 0..(n - 1)
      BY <1>2, <2>2
    <3>2. v - x \in 1..n /\ x + (v - x) = v
      BY <1>1, <2>2, <3>1
    <3>3. QED
      BY <1>1, <3>1, <3>2, ModSmall
  <2>4. ASSUME NEW j \in DOMAIN ix.run, NEW l \in 1..((v - x) - 1), MarkOf(j) = (x + l) % n
        PROVE  FALSE
    <3>1. x + l \in 0..(n - 1) /\ x + l < v /\ ~(x + l <= x)
      BY <1>1, <2>3
    <3>2. MarkOf(j) = x + l
      BY <1>1, <2>4, <3>1, ModSmall
    <3>3. QED
      BY <1>3, <2>1, <3>1, <3>2
  <2>5. \A j \in DOMAIN ix.run : MarkOf(j) < v => MarkOf(j) <= x
    BY <1>3, <2>1
  <2>6. QED
    BY <2>2, <2>3, <2>4, <2>5 DEF n
<1>6. CASE M = {}
  <2>1. PICK k \in DOMAIN ix.run : MarkOf(k) = n - 1
    BY LastMarkEnds DEF n
  <2>2. v + 1 \in 1..n /\ v = (MarkOf(k) + (v + 1)) % n
    <3>1. v + 1 \in 1..n /\ MarkOf(k) + (v + 1) = n * 1 + v /\ MarkOf(k) + (v + 1) \in Int /\ 1 \in Int
      BY <1>1, <2>1
    <3>2. QED
      BY <1>1, <3>1, ModUnique
  <2>3. ASSUME NEW j \in DOMAIN ix.run, NEW l \in 1..((v + 1) - 1), MarkOf(j) = (MarkOf(k) + l) % n
        PROVE  FALSE
    <3>1. /\ MarkOf(k) + l = n * 1 + (l - 1) /\ MarkOf(k) + l \in Int /\ 1 \in Int
          /\ l - 1 \in 0..(n - 1) /\ l - 1 < v
      BY <1>1, <2>1
    <3>2. MarkOf(j) = l - 1
      BY <1>1, <2>3, <3>1, ModUnique
    <3>3. QED
      BY <1>3, <1>6, <3>1, <3>2
  <2>4. \A j \in DOMAIN ix.run : ~(MarkOf(j) < v)
    BY <1>3, <1>6
  <2>5. QED
    BY <2>2, <2>3, <2>4 DEF n
<1>7. QED
  BY <1>5, <1>6

\* A sampled tail that is at most rate before a later sample is fewer than rate LF
\* steps away from every suffix that follows a sample between them closely.
LEMMA TailNear ==
  ASSUME TextIsIndexed, RunsPartition,
         NEW m \in DOMAIN ix.run, NEW a \in 0..(ix.n - 1), NEW delta \in Nat, NEW p \in DOMAIN sa,
         SampleOf(m) <= a, sa[p] = (a + delta) % ix.n, delta >= 1
  PROVE  a + delta - SampleOf(m) - 1 \in Nat /\ TailBehind(m, a + delta - SampleOf(m) - 1, p)
<1> DEFINE n == ix.n
           s == SampleOf(m)
           l == a + delta - s - 1
           u == sa[TailOf(m)]
<1>1. /\ n \in Nat \ {0} /\ DOMAIN sa = 0..(n - 1) /\ Size(sa) = n /\ s \in 0..(n - 1)
      /\ TailOf(m) \in DOMAIN sa /\ u \in 0..(n - 1)
  BY TextSize, MarkTypes, TailType
<1>2. s = IF 0 < u THEN u - 1 ELSE n - 1
  BY <1>1 DEF SampleOf, TextPos
<1> HIDE DEF n, s, u
<1>3. l \in Nat
  BY <1>1 DEF n, s
<1>4. (u + l) % n = (a + delta) % n
  <2>1. CASE 0 < u
    <3>1. u + l = a + delta
      BY <1>1, <1>2, <2>1 DEF n
    <3>2. QED
      BY <3>1
  <2>2. CASE u = 0
    <3>1. s = n - 1
      BY <1>2, <2>2
    <3>2. (u + l) + n = a + delta /\ u + l \in Int /\ n \in Int /\ a + delta \in Int
      BY <1>1, <2>2, <3>1 DEF n
    <3>3. ((n % n) + (u + l)) % n = (n + (u + l)) % n
      BY <1>1, <3>2, ModMod
    <3>4. n % n = 0
      <4>1. n = n * 1 + 0 /\ 0 \in 0..(n - 1) /\ 1 \in Int /\ n \in Int
        BY <1>1
      <4>2. QED
        BY <1>1, <4>1, ModUnique
    <3>5. 0 + (u + l) = u + l /\ n + (u + l) = a + delta
      BY <3>2
    <3>6. QED
      BY <3>3, <3>4, <3>5
  <2>3. QED
    BY <1>1, <2>1, <2>2
<1>5. QED
  BY <1>3, <1>4 DEF TailBehind, n, s, u

\* Where fewer than rate LF steps lead to no sampled tail, no mark was lost that
\* matters: phi is right at the level limit of the walk.
LEMMA PhiPastSamples ==
  ASSUME TextIsIndexed, RunsPartition, LFIsRight, MarksAreRight, SamplesCover,
         ix.sampled \subseteq DOMAIN ix.run
  PROVE  PhiRightPastSamples
<1> SUFFICES ASSUME ix.kind # "r", NEW p \in DOMAIN sa \ {0},
                    \A k \in ix.sampled, l \in 0..(ix.rate - 1) : ~TailBehind(k, l, p - 1)
             PROVE  Phi(sa[p]).value = sa[p - 1]
  BY DEF PhiRightPastSamples
<1> DEFINE v == sa[p]
           n == ix.n
<1>1. n \in Nat \ {0} /\ v \in 0..(n - 1) /\ p - 1 \in DOMAIN sa /\ p \in DOMAIN sa /\ p # 0
  BY TextSize
<1>2. PICK k \in DOMAIN ix.run, delta \in 1..n :
        /\ v = (MarkOf(k) + delta) % n
        /\ \A j \in DOMAIN ix.run, l \in 1..(delta - 1) : MarkOf(j) # (MarkOf(k) + l) % n
        /\ \A j \in DOMAIN ix.run : MarkOf(j) < v => MarkOf(j) <= MarkOf(k) /\ MarkOf(k) < v
  BY <1>1, NearestMark
<1>3. /\ k > 0 /\ k - 1 \in DOMAIN ix.run
      /\ sa[p - 1] = (SampleOf(k - 1) + delta) % n
      /\ \A j \in DOMAIN ix.run, l \in 1..(delta - 1) : SampleOf(j) # (SampleOf(k - 1) + l) % n
  BY <1>1, <1>2, PhiThrough
<1>4. \A j \in DOMAIN ix.run : MarkOf(j) \in 0..(n - 1) /\ SampleOf(j) \in 0..(n - 1)
  BY MarkTypes
<1>5. CASE \E o \in DOMAIN ix.marks : ix.marks[o] = MarkOf(RunAfter(k - 1))
  <2>1. PICK o \in DOMAIN ix.marks : ix.marks[o] = MarkOf(k)
    BY <1>3, <1>5, RunBeforeIs
  <2> HIDE DEF v, n
  <2>2. ASSUME NEW j \in DOMAIN ix.run, ix.marks[Predecessor(v)] < MarkOf(j), MarkOf(j) < v
        PROVE  FALSE
    <3>1. MarkOf(j) <= MarkOf(k) /\ MarkOf(k) < v
      BY <1>2, <2>2
    <3>2. PICK i \in DOMAIN ix.run : ix.marks[Predecessor(v)] = MarkOf(i)
      BY <1>1, PredecessorIs DEF MarksAreRight, n
    <3>3. ix.marks[Predecessor(v)] < v
      BY <1>1, <1>4, <2>2, <3>2
    <3>4. o <= Predecessor(v)
      <4>1. \/ \A q \in DOMAIN ix.marks : ix.marks[q] < v => q <= Predecessor(v)
            \/ \A q \in DOMAIN ix.marks : v <= ix.marks[q]
        BY <1>1, PredecessorIs DEF n
      <4>2. ~(v <= ix.marks[o])
        BY <1>1, <1>4, <2>1, <3>1
      <4>3. QED
        BY <2>1, <3>1, <4>1, <4>2
    <3>5. ix.marks[o] <= ix.marks[Predecessor(v)]
      <4>1. Predecessor(v) \in DOMAIN ix.marks /\ \A x \in DOMAIN ix.marks : x \in Int
        BY <1>1, PredecessorIs DEF MarksAreRight, n
      <4>2. o < Predecessor(v) \/ o = Predecessor(v)
        BY <3>4, <4>1
      <4>3. o < Predecessor(v) => ix.marks[o] < ix.marks[Predecessor(v)]
        BY <4>1 DEF MarksAreRight
      <4>4. QED
        BY <1>4, <2>1, <3>2, <4>2, <4>3
    <3>6. QED
      BY <1>4, <2>1, <2>2, <3>1, <3>2, <3>5
  <2>3. QED
    BY <1>1, <2>2, PhiIsRight DEF v
<1>6. CASE \E m \in ix.sampled, j \in DOMAIN ix.run :
             /\ SampleOf(m) < SampleOf(k - 1) /\ SampleOf(k - 1) < SampleOf(j)
             /\ SampleOf(j) - SampleOf(m) <= ix.rate
  <2>1. PICK m \in ix.sampled, j \in DOMAIN ix.run :
             /\ SampleOf(m) < SampleOf(k - 1) /\ SampleOf(k - 1) < SampleOf(j)
             /\ SampleOf(j) - SampleOf(m) <= ix.rate
    BY <1>6
  <2> DEFINE a == SampleOf(k - 1)
             l == a + delta - SampleOf(m) - 1
  <2>2. /\ a \in 0..(n - 1) /\ SampleOf(j) \in 0..(n - 1) /\ SampleOf(m) \in 0..(n - 1)
        /\ m \in DOMAIN ix.run
    BY <1>3, <1>4
  <2>3. delta \in Nat /\ delta >= 1
    OBVIOUS
  <2>4. l \in Nat /\ TailBehind(m, l, p - 1)
    <3>1. SampleOf(m) <= a
      BY <2>1, <2>2
    <3>2. sa[p - 1] = (a + delta) % ix.n
      BY <1>3
    <3> HIDE DEF a
    <3>3. QED
      BY <1>1, <2>2, <2>3, <3>1, <3>2, TailNear
  <2> HIDE DEF v, n
  <2>5. a + delta <= SampleOf(j)
    <3>1. SUFFICES ASSUME SampleOf(j) < a + delta PROVE FALSE
      BY <2>2, <2>3
    <3>2. SampleOf(j) - a \in 1..(delta - 1) /\ a + (SampleOf(j) - a) = SampleOf(j)
      BY <2>1, <2>2, <2>3, <3>1
    <3>3. SampleOf(j) % n = SampleOf(j)
      BY <1>1, <2>2, ModSmall
    <3>4. QED
      BY <1>3, <3>2, <3>3
  <2>6. ix.rate \in Nat
    BY DEF SamplesCover
  <2>7. l \in 0..(ix.rate - 1)
    BY <2>1, <2>2, <2>3, <2>4, <2>5, <2>6
  <2>8. QED
    BY <2>4, <2>7
<1>7. QED
  BY <1>3, <1>5, <1>6 DEF SamplesCover

-----------------------------------------------------------------------------
(* The items of the r-index: constructIndexBaseItems and its links. *)

\* An array written as a sequence has the same elements, one place later.
LEMMA AsSeqIs ==
  ASSUME NEW r \in Nat, NEW S, NEW a \in [0..(r - 1) -> S]
  PROVE  /\ AsSeq(a) \in Seq(S) /\ Len(AsSeq(a)) = r /\ DOMAIN AsSeq(a) = 1..r
         /\ \A k \in 1..r : AsSeq(a)[k] = a[k - 1]
<1>1. Size(a) = r /\ AsSeq(a) = [k \in 1..r |-> a[k - 1]]
  BY SizeIs DEF AsSeq
<1>2. \A k \in 1..r : a[k - 1] \in S
  OBVIOUS
<1>3. QED
  BY <1>1, <1>2

\* The BWT and its runs, the text positions of the heads and the tails of the
\* runs, and both sorted by text position.
ItemsAreRight ==
  LET n == Size(text)
      r == Size(base.run)
  IN /\ base.bwt = BWT(text, sa) /\ base.C = Cumulative(base.bwt) /\ base.run = RunsOf(base.bwt)
     /\ n \in Nat \ {0} /\ r \in Nat \ {0} /\ DOMAIN base.run = 0..(r - 1)
     /\ base.head \in [0..(r - 1) -> 0..(n - 1)]
     /\ base.tail \in [0..(r - 1) -> 0..(n - 1)]
     /\ \A k \in 0..(r - 1) : /\ base.head[k] = TextPos(sa, base.run[k].start)
                              /\ base.tail[k] = TextPos(sa, base.run[k].end - 1)
     /\ \A k, m \in 0..(r - 1) : base.head[k] = base.head[m] => k = m
     /\ Sorts(base.sortedMarks, base.head, r)
     /\ Sorts(base.sortedSamples, base.tail, r)
     /\ base.markToSample = [o \in 0..(r - 1) |-> (base.sortedMarks[o] + r - 1) % r]

\* What the construction computes of the text is right: the items say of its
\* BWT what they should.
LEMMA ItemsAre ==
  ASSUME TextIsBuilt, base = RIndexItems
  PROVE  ItemsAreRight
<1> DEFINE n == Size(text)
           run == base.run
           r == Size(run)
           D == 0..(n - 1)
<1>1. /\ base.bwt = BWT(text, sa) /\ base.C = Cumulative(base.bwt) /\ base.run = RunsOf(base.bwt)
      /\ base.head = [k \in DOMAIN run |-> TextPos(sa, run[k].start)]
      /\ base.tail = [k \in DOMAIN run |-> TextPos(sa, run[k].end - 1)]
      /\ base.sortedMarks = SortIndices(base.head) /\ base.sortedSamples = SortIndices(base.tail)
      /\ base.markToSample = [o \in DOMAIN run |-> (base.sortedMarks[o] + r - 1) % r]
  BY DEF RIndexItems
<1> HIDE DEF n
<1>2. n \in Nat \ {0} /\ Terminated(text, n)
  BY DEF TextIsBuilt, Terminated, n
<1>3. sa \in [D -> D] /\ \A p, q \in D : sa[p] = sa[q] => p = q
  <2>1. sa = SuffixArray(text)
    BY DEF TextIsBuilt
  <2>2. QED
    BY <1>2, <2>1, SuffixArrayIs
<1>4. base.bwt \in [D -> Nat]
  <2>1. BWT(text, sa) \in [0..(n - 1) -> Nat]
    BY <1>2, <1>3, BwtOfText
  <2>2. QED
    BY <1>1, <2>1
<1>5. /\ r \in Nat \ {0} /\ run \in [0..(r - 1) -> [start : Nat, end : Nat, c : Nat]]
      /\ \A k \in DOMAIN run :
           /\ run[k].start < run[k].end /\ run[k].end <= n
           /\ \A m \in DOMAIN run : k < m => run[k].end <= run[m].start
  BY <1>1, <1>2, <1>4, RunsOfIs
<1> HIDE DEF r, run
<1>6. /\ DOMAIN run = 0..(r - 1)
      /\ \A k \in 0..(r - 1) : run[k].start \in Nat /\ run[k].end \in Nat
  BY <1>5
<1>7. \A k \in 0..(r - 1) : run[k].start \in D /\ run[k].end - 1 \in D
  BY <1>2, <1>5, <1>6
<1>8. \A k, m \in 0..(r - 1) : k # m => run[k].start # run[m].start /\ run[k].end - 1 # run[m].end - 1
  <2> TAKE k, m \in 0..(r - 1)
  <2>1. k < m => run[k].end <= run[m].start /\ run[k].start < run[k].end /\ run[m].start < run[m].end
    BY <1>5, <1>6
  <2>2. m < k => run[m].end <= run[k].start /\ run[k].start < run[k].end /\ run[m].start < run[m].end
    BY <1>5, <1>6
  <2>3. k # m => k < m \/ m < k
    BY <1>5
  <2>4. QED
    BY <1>6, <2>1, <2>2, <2>3
<1>9. /\ \A p \in D : TextPos(sa, p) \in D
      /\ \A p, q \in D : TextPos(sa, p) = TextPos(sa, q) => p = q
  <2>1. Size(sa) = n
    BY <1>2, <1>3, SizeIs
  <2>2. \A p \in D : TextPos(sa, p) \in D
    BY <1>2, <1>3, <2>1 DEF TextPos
  <2>3. ASSUME NEW p \in D, NEW q \in D, TextPos(sa, p) = TextPos(sa, q)
        PROVE  sa[p] = sa[q]
    <3>1. sa[p] \in 0..(n - 1) /\ sa[q] \in 0..(n - 1)
      BY <1>3
    <3>2. QED
      BY <1>2, <2>1, <2>3, <3>1 DEF TextPos
  <2>4. QED
    BY <1>3, <2>2, <2>3
<1> HIDE DEF D
<1>10. /\ base.head \in [0..(r - 1) -> D] /\ base.tail \in [0..(r - 1) -> D]
       /\ \A k \in 0..(r - 1) : /\ base.head[k] = TextPos(sa, run[k].start)
                                /\ base.tail[k] = TextPos(sa, run[k].end - 1)
  BY <1>1, <1>6, <1>7, <1>9
<1>11. \A k, m \in 0..(r - 1) :
         (base.head[k] = base.head[m] => k = m) /\ (base.tail[k] = base.tail[m] => k = m)
  <2> TAKE k, m \in 0..(r - 1)
  <2>1. base.head[k] = base.head[m] => run[k].start = run[m].start
    BY <1>7, <1>9, <1>10
  <2>2. base.tail[k] = base.tail[m] => run[k].end - 1 = run[m].end - 1
    BY <1>7, <1>9, <1>10
  <2>3. QED
    BY <1>8, <2>1, <2>2
<1>12. base.head \in [0..(r - 1) -> Int] /\ base.tail \in [0..(r - 1) -> Int] /\ r \in Nat
  <2>1. \A x \in D : x \in Int
    BY DEF D
  <2>2. QED
    BY <1>5, <1>10, <2>1
<1>13. Sorts(base.sortedMarks, base.head, r) /\ Sorts(base.sortedSamples, base.tail, r)
  <2>1. /\ \A k, m \in 0..(r - 1) : base.head[k] = base.head[m] => k = m
        /\ \A k, m \in 0..(r - 1) : base.tail[k] = base.tail[m] => k = m
    BY <1>11
  <2>2. Sorts(SortIndices(base.head), base.head, r)
    BY <1>12, <2>1, SortsIs
  <2>3. Sorts(SortIndices(base.tail), base.tail, r)
    BY <1>12, <2>1, SortsIs
  <2>4. QED
    BY <1>1, <2>2, <2>3
<1>14. base.markToSample = [o \in 0..(r - 1) |-> (base.sortedMarks[o] + r - 1) % r]
  BY <1>1, <1>6
<1>15. base.bwt = BWT(text, sa) /\ base.C = Cumulative(base.bwt) /\ base.run = RunsOf(base.bwt)
  BY <1>1
<1>16. QED
  BY <1>2, <1>5, <1>6, <1>10, <1>11, <1>13, <1>14, <1>15 DEF ItemsAreRight, n, r, run, D

-----------------------------------------------------------------------------
(* The two loops, with what Subsampling_proofs and SubmarksValidity_proofs *)
(* say of every call of them.                                              *)

SamplingProofs == INSTANCE Subsampling_proofs WITH
  Jobs <- {}, job <- sJob, kept <- sKept, last <- sLast, prev <- sPrev, pc <- sPc

ValidityProofs == INSTANCE SubmarksValidity_proofs WITH
  Jobs <- {}, job <- vJob, read <- vRead, i <- vI, validity <- vReports, pc <- vPc

\* The registers of the loops before they start.
SamplingFresh == sKept = {} /\ sLast = 1 /\ sPrev = 2 /\ sPc = "first"
ValidityFresh == vRead = 0 /\ vI = 0 /\ vReports = <<>> /\ vPc = "start"

\* A loop that has not started satisfies its invariant, now ...
LEMMA FreshLoops ==
  /\ SamplingFresh /\ Sampling!LegalJob(sJob) => SamplingProofs!IInv
  /\ ValidityFresh /\ Validity!LegalJob(vJob) => ValidityProofs!IInv
<1>1. ASSUME SamplingFresh, Sampling!LegalJob(sJob)
      PROVE  SamplingProofs!IInv
  <2>1. SamplingProofs!LegalJob(sJob)
    BY <1>1 DEF Sampling!LegalJob, SamplingProofs!LegalJob, Sampling!Increasing,
       SamplingProofs!Increasing, Sampling!Decreasing, SamplingProofs!Decreasing
  <2>2. QED
    BY <1>1, <2>1 DEF SamplingFresh, SamplingProofs!IInv, SamplingProofs!TypeOK,
       SamplingProofs!Frontier, SamplingProofs!GapBounded, SamplingProofs!Justified
<1>2. ASSUME ValidityFresh, Validity!LegalJob(vJob)
      PROVE  ValidityProofs!IInv
  <2>1. ValidityProofs!LegalJob(vJob)
    BY <1>2 DEF Validity!LegalJob, ValidityProofs!LegalJob, Validity!StrictlyIncreasing,
       ValidityProofs!StrictlyIncreasing
  <2>2. ValidityProofs!TypeOK
    BY <1>2, <2>1 DEF ValidityFresh, ValidityProofs!TypeOK, ValidityProofs!LegalJob
  <2>3. QED
    BY <1>2, <2>2 DEF ValidityFresh, ValidityProofs!IInv,
       ValidityProofs!Position, ValidityProofs!ReportsPassed, ValidityProofs!ReportsSound,
       ValidityProofs!PassedReported, ValidityProofs!InOrder, ValidityProofs!Passed
<1>3. QED
  BY <1>1, <1>2

\* ... and after a step that leads there.
LEMMA FreshLoopsNext ==
  /\ SamplingFresh' /\ Sampling!LegalJob(sJob)' => SamplingProofs!IInv'
  /\ ValidityFresh' /\ Validity!LegalJob(vJob)' => ValidityProofs!IInv'
<1>1. ASSUME SamplingFresh', Sampling!LegalJob(sJob)'
      PROVE  SamplingProofs!IInv'
  <2>1. SamplingProofs!LegalJob(sJob)'
    BY <1>1 DEF Sampling!LegalJob, SamplingProofs!LegalJob, Sampling!Increasing,
       SamplingProofs!Increasing, Sampling!Decreasing, SamplingProofs!Decreasing
  <2>2. QED
    BY <1>1, <2>1 DEF SamplingFresh, SamplingProofs!IInv, SamplingProofs!TypeOK,
       SamplingProofs!Frontier, SamplingProofs!GapBounded, SamplingProofs!Justified
<1>2. ASSUME ValidityFresh', Validity!LegalJob(vJob)'
      PROVE  ValidityProofs!IInv'
  <2>1. ValidityProofs!LegalJob(vJob)'
    BY <1>2 DEF Validity!LegalJob, ValidityProofs!LegalJob, Validity!StrictlyIncreasing,
       ValidityProofs!StrictlyIncreasing
  <2>2. ValidityProofs!TypeOK'
    BY <1>2, <2>1 DEF ValidityFresh, ValidityProofs!TypeOK, ValidityProofs!LegalJob
  <2>3. QED
    BY <1>2, <2>2 DEF ValidityFresh, ValidityProofs!IInv,
       ValidityProofs!Position, ValidityProofs!ReportsPassed, ValidityProofs!ReportsSound,
       ValidityProofs!PassedReported, ValidityProofs!InOrder, ValidityProofs!Passed
<1>3. QED
  BY <1>1, <1>2

\* A step of a loop keeps its invariant and its call; a step of the rest of the
\* construction leaves both alone.
LEMMA SamplingKeeps ==
  ASSUME SamplingProofs!IInv, Sampling!Step \/ UNCHANGED sVars
  PROVE  SamplingProofs!IInv' /\ sJob' = sJob
<1>1. [SamplingProofs!Next]_(SamplingProofs!vars)
  BY DEF sVars, SamplingProofs!Next, SamplingProofs!vars, SamplingProofs!Step, Sampling!Step,
     Sampling!NoSamples, SamplingProofs!NoSamples, Sampling!KeepFirst, SamplingProofs!KeepFirst,
     Sampling!Scan, SamplingProofs!Scan, Sampling!KeepLast, SamplingProofs!KeepLast,
     Sampling!MustKeep, SamplingProofs!MustKeep, Sampling!Span, SamplingProofs!Span,
     Sampling!Dist, SamplingProofs!Dist
<1>2. sJob' = sJob
  BY DEF sVars, Sampling!Step, Sampling!NoSamples, Sampling!KeepFirst, Sampling!Scan, Sampling!KeepLast
<1>3. QED
  BY <1>1, <1>2, SamplingProofs!StepFrontier, SamplingProofs!StepGap, SamplingProofs!StepJustified
     DEF SamplingProofs!IInv

\* The same for the merge of marks and sub-marks.
LEMMA ValidityKeeps ==
  ASSUME ValidityProofs!IInv, Validity!Step \/ UNCHANGED vVars
  PROVE  ValidityProofs!IInv' /\ vJob' = vJob
<1>1. [ValidityProofs!Next]_(ValidityProofs!vars)
  BY DEF vVars, ValidityProofs!Next, ValidityProofs!vars, ValidityProofs!Step, Validity!Step,
     Validity!Start, ValidityProofs!Start, Validity!Adjacent, ValidityProofs!Adjacent,
     Validity!ReportInvalid, ValidityProofs!ReportInvalid, Validity!Skip, ValidityProofs!Skip,
     Validity!Finish, ValidityProofs!Finish, Validity!NextMark, ValidityProofs!NextMark,
     Validity!NextSubmark, ValidityProofs!NextSubmark, Validity!Submark, ValidityProofs!Submark
<1>2. vJob' = vJob
  BY DEF vVars, Validity!Step, Validity!Start, Validity!Adjacent, Validity!ReportInvalid,
     Validity!Skip, Validity!Finish
<1>3. QED
  BY <1>1, <1>2, ValidityProofs!StepType, ValidityProofs!StepPosition,
     ValidityProofs!StepReportsPassed, ValidityProofs!StepSound,
     ValidityProofs!StepPassedReported, ValidityProofs!StepInOrder
     DEF ValidityProofs!IInv

\* constructSRI calls computeSampling as it must be called: the samples in the
\* order of the text, and the required ones among them.
LEMMA SamplingJobIs ==
  ASSUME ItemsAreRight, NEW rate \in Nat
  PROVE  /\ Sampling!LegalJob(SamplingJob(base, rate))
         /\ SamplingJob(base, rate).s = rate
         /\ SamplingJob(base, rate).v \in Seq(Nat)
         /\ Len(SamplingJob(base, rate).v) = Size(base.run)
         /\ DOMAIN SamplingJob(base, rate).v = 1..Size(base.run)
         /\ \A k \in 1..Size(base.run) :
              /\ SamplingJob(base, rate).v[k] = base.tail[base.sortedSamples[k - 1]]
              /\ base.sortedSamples[k - 1] \in RequiredSamples(base)
                   => k \in SamplingJob(base, rate).req
<1> DEFINE r == Size(base.run)
           job == SamplingJob(base, rate)
           a == [k \in DOMAIN base.tail |-> base.tail[base.sortedSamples[k]]]
           T == {m \in DOMAIN base.tail : base.sortedSamples[m] \in RequiredSamples(base)}
           N == Size(text)
<1>1. /\ r \in Nat \ {0} /\ N \in Nat \ {0} /\ base.tail \in [0..(r - 1) -> 0..(N - 1)]
      /\ Sorts(base.sortedSamples, base.tail, r)
  BY DEF ItemsAreRight
<1>2. job = [s |-> rate, v |-> AsSeq(a), req |-> {k + 1 : k \in T}]
  BY DEF SamplingJob
<1> HIDE DEF r, job, T, N
<1>3. /\ base.sortedSamples \in [0..(r - 1) -> 0..(r - 1)]
      /\ \A k, m \in 0..(r - 1) : k < m <=> base.tail[base.sortedSamples[k]] < base.tail[base.sortedSamples[m]]
  BY <1>1 DEF Sorts
<1>4. /\ DOMAIN base.tail = 0..(r - 1)
      /\ a \in [0..(r - 1) -> Nat]
      /\ \A k \in 0..(r - 1) : a[k] = base.tail[base.sortedSamples[k]]
  <2>1. \A k \in 0..(r - 1) : base.tail[base.sortedSamples[k]] \in Nat
    <3>1. \A k \in 0..(r - 1) : base.tail[k] \in Nat
      BY <1>1
    <3>2. \A k \in 0..(r - 1) : base.sortedSamples[k] \in 0..(r - 1)
      BY <1>3
    <3>3. QED
      BY <3>1, <3>2
  <2>2. DOMAIN base.tail = 0..(r - 1)
    BY <1>1
  <2>3. QED
    BY <2>1, <2>2
<1> HIDE DEF a
<1>5. /\ job.s = rate /\ job.v = AsSeq(a) /\ job.req = {k + 1 : k \in T}
      /\ DOMAIN job = {"s", "v", "req"}
  BY <1>2
<1>6. /\ job.v \in Seq(Nat) /\ Len(job.v) = r /\ DOMAIN job.v = 1..r
      /\ \A k \in 1..r : job.v[k] = a[k - 1]
  <2>1. r \in Nat
    BY <1>1
  <2>2. /\ AsSeq(a) \in Seq(Nat) /\ Len(AsSeq(a)) = r /\ DOMAIN AsSeq(a) = 1..r
        /\ \A k \in 1..r : AsSeq(a)[k] = a[k - 1]
    BY <1>4, <2>1, AsSeqIs
  <2>3. QED
    BY <1>5, <2>2
<1>7. \A k \in 1..r : k - 1 \in 0..(r - 1) /\ job.v[k] = base.tail[base.sortedSamples[k - 1]]
  BY <1>1, <1>4, <1>6
<1>8. Sampling!Increasing(job.v)
  <2>1. SUFFICES ASSUME NEW i \in 1..r, NEW j \in 1..r, i < j
                 PROVE  job.v[i] < job.v[j]
    BY <1>6 DEF Sampling!Increasing
  <2>2. i - 1 \in 0..(r - 1) /\ j - 1 \in 0..(r - 1) /\ i - 1 < j - 1
    BY <1>1, <2>1
  <2>3. QED
    BY <1>3, <1>7, <2>2
<1>9. job.req \in SUBSET (1..r)
  <2>1. \A k \in T : k + 1 \in 1..r
    BY <1>1, <1>4 DEF T
  <2>2. QED
    BY <1>5, <2>1
<1>10. \A k \in 1..r : base.sortedSamples[k - 1] \in RequiredSamples(base) => k \in job.req
  <2> TAKE k \in 1..r
  <2>1. HAVE base.sortedSamples[k - 1] \in RequiredSamples(base)
  <2>2. k - 1 \in T /\ k = (k - 1) + 1
    BY <1>4, <1>7, <2>1 DEF T
  <2>3. QED
    BY <1>5, <2>2
<1>11. Sampling!LegalJob(job)
  BY <1>5, <1>6, <1>8, <1>9 DEF Sampling!LegalJob
<1>12. QED
  BY <1>5, <1>6, <1>7, <1>10, <1>11 DEF r, job

-----------------------------------------------------------------------------
(* What is stored of the items. *)

\* The index has the BWT, the runs and the counts of the items.
HasItems ==
  /\ ix.n = Size(text) /\ ix.bwt = base.bwt /\ ix.C = base.C /\ ix.run = base.run

\* The text is indexed, its runs partition the BWT and LF is right; marks and
\* samples are those of the items.
LEMMA ItemsServe ==
  ASSUME TextIsBuilt, ItemsAreRight, HasItems
  PROVE  /\ TextIsIndexed /\ RunsPartition /\ LFIsRight
         /\ \A k \in DOMAIN ix.run : MarkOf(k) = base.head[k] /\ SampleOf(k) = base.tail[k]
<1> DEFINE n == Size(text)
           r == Size(base.run)
<1>1. /\ base.bwt = BWT(text, sa) /\ base.C = Cumulative(base.bwt) /\ base.run = RunsOf(base.bwt)
      /\ n \in Nat \ {0} /\ r \in Nat \ {0} /\ DOMAIN base.run = 0..(r - 1)
      /\ \A k \in 0..(r - 1) : /\ base.head[k] = TextPos(sa, base.run[k].start)
                               /\ base.tail[k] = TextPos(sa, base.run[k].end - 1)
  BY DEF ItemsAreRight
<1>2. /\ ix.n = n /\ ix.bwt = base.bwt /\ ix.C = base.C /\ ix.run = base.run
  BY DEF HasItems
<1> HIDE DEF n, r
<1>3. Terminated(text, n) /\ sa = SuffixArray(text)
  BY DEF TextIsBuilt, n
<1>4. sa \in [0..(n - 1) -> 0..(n - 1)] /\ \A p, q \in 0..(n - 1) : sa[p] = sa[q] => p = q
  BY <1>1, <1>3, SuffixArrayIs
<1>5. TextIsIndexed
  <2>1. DOMAIN sa = 0..(n - 1)
    BY <1>4
  <2>2. n \in Nat \ {0} /\ text \in [0..(n - 1) -> Nat] /\ DOMAIN text = 0..(n - 1)
        /\ \A i \in 0..(n - 1) : text[i] = 0 <=> i = n - 1
    BY <1>3 DEF Terminated
  <2>3. QED
    BY <1>1, <1>2, <1>4, <2>1, <2>2 DEF TextIsIndexed
<1>6. RunsPartition
  <2>1. base.bwt \in [0..(n - 1) -> Nat]
    <3>1. BWT(text, sa) \in [0..(n - 1) -> Nat]
      BY <1>3, <1>4, BwtOfText
    <3>2. QED
      BY <1>1, <3>1
  <2>2. /\ r \in Nat \ {0} /\ base.run \in [0..(r - 1) -> [start : Nat, end : Nat, c : Nat]]
        /\ base.run[0].start = 0 /\ base.run[r - 1].end = n
        /\ \A k \in DOMAIN base.run :
             /\ base.run[k].start < base.run[k].end /\ base.run[k].end <= n
             /\ k > 0 => base.run[k].start = base.run[k - 1].end
             /\ \A m \in DOMAIN base.run : k < m => base.run[k].end <= base.run[m].start
             /\ \A p \in base.run[k].start .. (base.run[k].end - 1) : base.bwt[p] = base.run[k].c
    <3> DEFINE run == RunsOf(base.bwt)
               m == Size(run)
    <3>1. /\ m \in Nat \ {0} /\ run \in [0..(m - 1) -> [start : Nat, end : Nat, c : Nat]]
          /\ run[0].start = 0 /\ run[m - 1].end = n
          /\ \A k \in DOMAIN run :
               /\ run[k].start < run[k].end /\ run[k].end <= n
               /\ k > 0 => run[k].start = run[k - 1].end
               /\ \A j \in DOMAIN run : k < j => run[k].end <= run[j].start
               /\ \A p \in run[k].start .. (run[k].end - 1) : base.bwt[p] = run[k].c
      BY <1>1, <2>1, RunsOfIs
    <3>2. base.run = run /\ r = m
      BY <1>1 DEF r
    <3> HIDE DEF run, m
    <3>3. QED
      BY <3>1, <3>2
  <2>3. QED
    BY <1>2, <2>2 DEF RunsPartition, r
<1>7. LFIsRight
  BY <1>3, <1>5, LFRight
<1>8. \A k \in DOMAIN ix.run : MarkOf(k) = base.head[k] /\ SampleOf(k) = base.tail[k]
  BY <1>1, <1>2 DEF MarkOf, SampleOf, TailOf
<1>9. QED
  BY <1>5, <1>6, <1>7, <1>8

\* GetSample finds the sample of a sampled run by the rank of the run.
LEMMA SamplesFound ==
  ASSUME TextIsBuilt, ItemsAreRight, HasItems, ix.sampled \subseteq DOMAIN ix.run,
         ix.samples = [k \in DOMAIN Ascending(ix.sampled) |-> base.tail[Ascending(ix.sampled)[k]]],
         NEW x \in ix.sampled
  PROVE  /\ Cardinality({k \in ix.sampled : k < x}) \in DOMAIN Ascending(ix.sampled)
         /\ ix.samples[Cardinality({k \in ix.sampled : k < x})] = SampleOf(x)
         /\ GetSample(x) = SampleOf(x)
<1> DEFINE S == ix.sampled
           o == Cardinality({k \in S : k < x})
<1>1. RunsPartition /\ SampleOf(x) = base.tail[x]
  BY ItemsServe
<1>2. DOMAIN ix.run = 0..(Size(ix.run) - 1) /\ Size(ix.run) \in Nat
  BY <1>1, RunTypes
<1>3. S \in SUBSET Int /\ IsFiniteSet(S)
  <2>1. 0 \in Int /\ Size(ix.run) - 1 \in Int
    BY <1>2
  <2>2. IsFiniteSet(0..(Size(ix.run) - 1))
    BY <2>1, FS_Interval
  <2>3. S \in SUBSET (0..(Size(ix.run) - 1))
    BY <1>2
  <2>4. IsFiniteSet(S)
    BY <2>2, <2>3, FS_Subset
  <2>5. QED
    BY <1>2, <2>3, <2>4
<1>4. o \in DOMAIN Ascending(S) /\ Ascending(S)[o] = x
  BY <1>3, AscendingIs
<1>5. ix.samples[o] = base.tail[x]
  BY <1>4
<1>6. QED
  BY <1>1, <1>4, <1>5 DEF GetSample

\* Samples that cover the text answer every query that reaches for one.
LEMMA SamplesServe ==
  ASSUME TextIsIndexed, RunsPartition, SamplesCover, ix.sampled \subseteq DOMAIN ix.run,
         \A k \in ix.sampled : GetSample(k) = SampleOf(k),
         ix.kind = "r" => \A k \in DOMAIN ix.run : ix.samples[k] = SampleOf(k)
  PROVE  SamplesAreRight
<1>1. ASSUME ix.kind # "r", NEW k \in DOMAIN ix.run
      PROVE  \E m \in ix.sampled, l \in 0..(ix.rate - 1) : TailBehind(m, l, TailOf(k))
  <2> DEFINE n == ix.n
             p == TailOf(k)
             a == SampleOf(k)
  <2>1. /\ n \in Nat \ {0} /\ p \in DOMAIN sa /\ sa[p] \in 0..(n - 1) /\ a \in 0..(n - 1)
        /\ Size(sa) = n /\ ix.rate \in Nat \ {0}
    BY <1>1, TextSize, TailType, MarkTypes DEF SamplesCover
  <2>2. sa[p] = (a + 1) % n
    <3>1. a = IF 0 < sa[p] THEN sa[p] - 1 ELSE n - 1
      BY <2>1 DEF SampleOf, TextPos
    <3> HIDE DEF a, n, p
    <3>2. CASE 0 < sa[p]
      <4>1. a + 1 = sa[p]
        BY <2>1, <3>1, <3>2
      <4>2. QED
        BY <2>1, <4>1, ModSmall
    <3>3. CASE sa[p] = 0
      <4>1. a + 1 = n * 1 + 0 /\ a + 1 \in Int /\ 1 \in Int /\ 0 \in 0..(n - 1)
        BY <2>1, <3>1, <3>3
      <4>2. (a + 1) % n = 0
        BY <2>1, <4>1, ModUnique
      <4>3. QED
        BY <3>3, <4>2
    <3>4. QED
      BY <2>1, <3>2, <3>3
  <2>3. CASE k \in ix.sampled
    <3>1. sa[p] + 0 = sa[p]
      BY <2>1
    <3>2. (sa[p] + 0) % n = sa[p]
      BY <2>1, <3>1, ModSmall
    <3>3. TailBehind(k, 0, p) /\ 0 \in 0..(ix.rate - 1)
      BY <2>1, <3>2 DEF TailBehind
    <3>4. QED
      BY <2>3, <3>3
  <2>4. CASE \E m \in ix.sampled, j \in DOMAIN ix.run :
               /\ SampleOf(m) < SampleOf(k) /\ SampleOf(k) < SampleOf(j)
               /\ SampleOf(j) - SampleOf(m) <= ix.rate
    <3>1. PICK m \in ix.sampled, j \in DOMAIN ix.run :
               /\ SampleOf(m) < a /\ a < SampleOf(j)
               /\ SampleOf(j) - SampleOf(m) <= ix.rate
      BY <2>4
    <3>2. SampleOf(m) \in 0..(n - 1) /\ SampleOf(j) \in 0..(n - 1) /\ m \in DOMAIN ix.run
      BY MarkTypes
    <3> DEFINE d == a + 1 - SampleOf(m) - 1
    <3>3. TailBehind(m, d, p)
      <4>1. SampleOf(m) <= a /\ 1 \in Nat /\ 1 >= 1
        BY <2>1, <3>1, <3>2
      <4> HIDE DEF a, p
      <4>2. QED
        BY <2>1, <2>2, <3>2, <4>1, TailNear
    <3>4. d \in 0..(ix.rate - 1)
      <4> HIDE DEF a
      <4> QED BY <2>1, <3>1, <3>2
    <3>5. QED
      BY <3>3, <3>4
  <2>5. QED
    BY <1>1, <2>3, <2>4 DEF SamplesCover
<1>2. ix.kind # "r" => ix.rate \in Nat \ {0}
  BY DEF SamplesCover
<1>3. \A k \in ix.sampled : GetSample(k) = TextPos(sa, TailOf(k))
  BY DEF SampleOf
<1>4. ix.kind = "r" => \A k \in DOMAIN ix.run : ix.samples[k] = TextPos(sa, TailOf(k))
  BY DEF SampleOf
<1>5. QED
  BY <1>1, <1>2, <1>3, <1>4 DEF SamplesAreRight

-----------------------------------------------------------------------------
(* The sub-samples (constructSRI). *)

\* The runs whose samples the sub-sampling keeps.
KeptRuns == {base.sortedSamples[k - 1] : k \in sKept}

\* The sub-sampling of the items is over.
SamplingDone == sPc = "done" /\ sJob = SamplingJob(base, ix.rate) /\ ix.rate \in Nat

\* The samples that the first and the last mark lead to are kept, and every other
\* one that is not lies between a kept one and a sample that is at most rate after it.
LEMMA KeptIs ==
  ASSUME ItemsAreRight, SamplingProofs!IInv, SamplingDone
  PROVE  /\ KeptRuns \subseteq 0..(Size(base.run) - 1) /\ KeptRuns # {}
         /\ RequiredSamples(base) \cap (0..(Size(base.run) - 1)) \subseteq KeptRuns
         /\ \A x \in 0..(Size(base.run) - 1) :
              \/ x \in KeptRuns
              \/ \E m \in KeptRuns, j \in 0..(Size(base.run) - 1) :
                   /\ base.tail[m] < base.tail[x] /\ base.tail[x] < base.tail[j]
                   /\ base.tail[j] - base.tail[m] <= ix.rate
<1> DEFINE r == Size(base.run)
           v == sJob.v
           ss == base.sortedSamples
<1>1. r \in Nat \ {0} /\ Sorts(ss, base.tail, r)
  BY DEF ItemsAreRight
<1>2. /\ ss \in [0..(r - 1) -> 0..(r - 1)]
      /\ \A k, m \in 0..(r - 1) : k < m <=> base.tail[ss[k]] < base.tail[ss[m]]
      /\ \A i \in 0..(r - 1) : \E k \in 0..(r - 1) : ss[k] = i
  BY <1>1 DEF Sorts
<1>3. /\ sJob.s = ix.rate /\ v \in Seq(Nat) /\ Len(v) = r /\ DOMAIN v = 1..r
      /\ \A k \in 1..r : /\ v[k] = base.tail[ss[k - 1]]
                         /\ ss[k - 1] \in RequiredSamples(base) => k \in sJob.req
  BY SamplingJobIs DEF SamplingDone
<1>4. /\ sKept \in SUBSET DOMAIN v /\ sPc = "done"
      /\ (sJob.req \cup {1, Len(v)}) \cap DOMAIN v \subseteq sKept
      /\ Len(v) > 1 => sPrev = Len(v)
      /\ \A k \in {x \in DOMAIN v : x < sPrev /\ x \notin sKept} :
           \E j \in sKept : j < k /\ SamplingProofs!Dist(v[k + 1], v[j]) <= sJob.s
  BY DEF SamplingDone, SamplingProofs!IInv, SamplingProofs!TypeOK, SamplingProofs!Frontier,
     SamplingProofs!GapBounded, SamplingProofs!Dropped
<1> HIDE DEF r, v, ss
<1>5. \A k \in 1..r : k - 1 \in 0..(r - 1) /\ ss[k - 1] \in 0..(r - 1)
  <2>1. r \in Nat
    BY <1>1
  <2>2. \A k \in 1..r : k - 1 \in 0..(r - 1)
    BY <2>1
  <2>3. \A i \in 0..(r - 1) : ss[i] \in 0..(r - 1)
    BY <1>2
  <2>4. QED
    BY <2>2, <2>3
<1>6. KeptRuns \subseteq 0..(r - 1)
  <2>1. \A k \in sKept : k \in 1..r
    BY <1>3, <1>4
  <2>2. \A k \in sKept : ss[k - 1] \in 0..(r - 1)
    BY <1>5, <2>1
  <2>3. KeptRuns = {ss[k - 1] : k \in sKept}
    BY DEF KeptRuns, ss
  <2>4. QED
    BY <2>2, <2>3
<1>7. \A k \in sKept : ss[k - 1] \in KeptRuns
  BY DEF KeptRuns, ss
<1>8. KeptRuns # {}
  <2>1. 1 \in sKept
    BY <1>1, <1>3, <1>4
  <2>2. QED
    BY <1>7, <2>1
<1>9. ASSUME NEW x \in 0..(r - 1)
      PROVE  /\ x \in RequiredSamples(base) => x \in KeptRuns
             /\ \/ x \in KeptRuns
                \/ \E m \in KeptRuns, j \in 0..(r - 1) :
                     /\ base.tail[m] < base.tail[x] /\ base.tail[x] < base.tail[j]
                     /\ base.tail[j] - base.tail[m] <= ix.rate
  <2>1. PICK q \in 0..(r - 1) : ss[q] = x
    BY <1>2
  <2>2. q + 1 \in 1..r /\ (q + 1) - 1 = q
    BY <1>1
  <2>3. x \in RequiredSamples(base) => x \in KeptRuns
    <3>1. HAVE x \in RequiredSamples(base)
    <3>2. q + 1 \in sJob.req /\ q + 1 \in DOMAIN v
      BY <1>3, <2>1, <2>2, <3>1
    <3>3. QED
      BY <1>4, <1>7, <2>1, <2>2, <3>2
  <2>4. CASE q + 1 \in sKept
    BY <1>7, <2>1, <2>2, <2>3, <2>4
  <2>5. CASE q + 1 \notin sKept
    <3>1. q + 1 # 1 /\ q + 1 # r
      BY <1>3, <1>4, <2>2, <2>5
    <3>2. q + 1 < r /\ r > 1 /\ q + 1 \in 1..r /\ q + 2 \in 1..r
      BY <1>1, <2>2, <3>1
    <3>3. sPrev = r
      BY <1>3, <1>4, <3>2
    <3>4. PICK j \in sKept : j < q + 1 /\ SamplingProofs!Dist(v[(q + 1) + 1], v[j]) <= sJob.s
      <4>1. q + 1 \in {y \in DOMAIN v : y < sPrev /\ y \notin sKept}
        BY <1>3, <2>5, <3>2, <3>3
      <4>2. QED
        BY <1>4, <4>1
    <3>5. j \in 1..r /\ j - 1 \in 0..(r - 1) /\ j - 1 < q /\ q + 1 \in 0..(r - 1) /\ q < q + 1
          /\ (q + 1) + 1 = q + 2 /\ (q + 2) - 1 = q + 1
      BY <1>1, <1>3, <1>4, <2>2, <3>2, <3>4
    <3>6. /\ v[j] = base.tail[ss[j - 1]] /\ v[q + 2] = base.tail[ss[q + 1]]
          /\ v[j] \in Nat /\ v[q + 2] \in Nat
      <4>1. v[j] \in Nat /\ v[q + 2] \in Nat
        BY <1>3, <3>2, <3>5
      <4>2. v[j] = base.tail[ss[j - 1]] /\ v[q + 2] = base.tail[ss[(q + 2) - 1]]
        BY <1>3, <3>2, <3>5
      <4>3. QED
        BY <3>5, <4>1, <4>2
    <3>7. base.tail[ss[j - 1]] < base.tail[x] /\ base.tail[x] < base.tail[ss[q + 1]]
      BY <1>2, <2>1, <3>5
    <3>8. base.tail[x] \in Nat
      <4>1. v[q + 1] \in Nat /\ v[q + 1] = base.tail[ss[q]]
        BY <1>3, <2>2
      <4>2. QED
        BY <2>1, <4>1
    <3>9. v[q + 2] - v[j] <= ix.rate
      <4>1. ~(v[q + 2] < v[j])
        BY <3>6, <3>7, <3>8
      <4>2. SamplingProofs!Dist(v[q + 2], v[j]) = v[q + 2] - v[j]
        BY <4>1 DEF SamplingProofs!Dist
      <4>3. QED
        BY <1>3, <3>4, <3>5, <4>2
    <3>10. ss[j - 1] \in KeptRuns /\ ss[q + 1] \in 0..(r - 1)
      BY <1>2, <1>7, <3>5
    <3>11. QED
      BY <2>3, <3>6, <3>7, <3>9, <3>10
  <2>6. QED
    BY <2>4, <2>5
<1>10. QED
  BY <1>6, <1>8, <1>9 DEF r

\* The run after and the run before are inverse to each other.
LEMMA RunAfterIs ==
  ASSUME RunsPartition, NEW k \in DOMAIN ix.run
  PROVE  /\ RunAfter(k) \in DOMAIN ix.run /\ RunBefore(k) \in DOMAIN ix.run
         /\ RunBefore(RunAfter(k)) = k /\ RunAfter(RunBefore(k)) = k
<1> DEFINE r == Size(ix.run)
<1>1. r \in Nat \ {0} /\ k \in 0..(r - 1)
  BY RunTypes
<1>2. RunAfter(k) \in DOMAIN ix.run /\ RunBefore(k) \in DOMAIN ix.run
  BY RunBeforeIs
<1>3. RunAfter(k) = (k + 1) % r /\ RunBefore(k) = (k + r - 1) % r
      /\ RunBefore(RunAfter(k)) = (RunAfter(k) + r - 1) % r
      /\ RunAfter(RunBefore(k)) = (RunBefore(k) + 1) % r
  BY DEF RunAfter, RunBefore
<1> HIDE DEF r
<1>4. (r * 1 + k) % r = k
  <2>1. r * 1 + k \in Int /\ 1 \in Int
    BY <1>1
  <2>2. QED
    BY <1>1, <2>1, ModUnique
<1>5. RunBefore(RunAfter(k)) = k
  <2>1. k + 1 \in Int /\ r - 1 \in Int /\ (k + 1) + (r - 1) = r * 1 + k
    BY <1>1
  <2>2. (((k + 1) % r) + (r - 1)) % r = ((k + 1) + (r - 1)) % r
    BY <1>1, <2>1, ModMod
  <2>3. RunAfter(k) + r - 1 = RunAfter(k) + (r - 1)
    <3>1. RunAfter(k) \in Int
      BY <1>1, <1>3, <2>1, ModDef
    <3>2. QED
      BY <1>1, <3>1
  <2>4. QED
    BY <1>3, <1>4, <2>1, <2>2, <2>3
<1>6. RunAfter(RunBefore(k)) = k
  <2>1. k + r - 1 \in Int /\ 1 \in Int /\ (k + r - 1) + 1 = r * 1 + k
    BY <1>1
  <2>2. (((k + r - 1) % r) + 1) % r = ((k + r - 1) + 1) % r
    BY <1>1, <2>1, ModMod
  <2>3. QED
    BY <1>3, <1>4, <2>1, <2>2
<1>7. QED
  BY <1>2, <1>5, <1>6

\* What constructRIndex stores: all marks and all samples.
AllStored ==
  /\ HasItems
  /\ ix.sampled = DOMAIN base.run
  /\ ix.samples = [k \in DOMAIN Ascending(ix.sampled) |-> base.tail[Ascending(ix.sampled)[k]]]
  /\ ix.marks = [o \in DOMAIN base.run |-> base.head[base.sortedMarks[o]]]
  /\ ix.markToSample = base.markToSample

\* An RIndex has every mark and every sample, linked run by run.
LEMMA AllServes ==
  ASSUME TextIsBuilt, ItemsAreRight, AllStored, ix.kind = "r"
  PROVE  /\ MarksAreRight /\ SamplesCover /\ ix.sampled \subseteq DOMAIN ix.run
         /\ \A k \in ix.sampled : GetSample(k) = SampleOf(k)
         /\ \A k \in DOMAIN ix.run : ix.samples[k] = SampleOf(k)
<1> DEFINE r == Size(base.run)
           sm == base.sortedMarks
<1>1. /\ RunsPartition /\ HasItems
      /\ \A k \in DOMAIN ix.run : MarkOf(k) = base.head[k] /\ SampleOf(k) = base.tail[k]
  BY ItemsServe DEF AllStored
<1>2. /\ ix.run = base.run /\ ix.sampled = DOMAIN ix.run /\ ix.markToSample = base.markToSample
      /\ ix.samples = [k \in DOMAIN Ascending(ix.sampled) |-> base.tail[Ascending(ix.sampled)[k]]]
      /\ ix.marks = [o \in DOMAIN base.run |-> base.head[sm[o]]]
  BY DEF AllStored, HasItems
<1>3. /\ r \in Nat \ {0} /\ DOMAIN base.run = 0..(r - 1)
      /\ base.head \in [0..(r - 1) -> 0..(Size(text) - 1)]
      /\ base.markToSample = [o \in 0..(r - 1) |-> (sm[o] + r - 1) % r]
      /\ Sorts(sm, base.head, r)
  BY DEF ItemsAreRight
<1>4. /\ sm \in [0..(r - 1) -> 0..(r - 1)]
      /\ \A k, m \in 0..(r - 1) : k < m <=> base.head[sm[k]] < base.head[sm[m]]
      /\ \A i \in 0..(r - 1) : \E k \in 0..(r - 1) : sm[k] = i
  BY <1>3 DEF Sorts
<1>5. DOMAIN ix.run = 0..(r - 1) /\ r = Size(ix.run) /\ DOMAIN ix.marks = 0..(r - 1) /\ Size(ix.marks) = r
  <2>1. DOMAIN ix.run = 0..(r - 1) /\ r = Size(ix.run)
    BY <1>2, <1>3
  <2>2. DOMAIN ix.marks = 0..(r - 1)
    BY <1>2, <1>3
  <2>3. QED
    BY <1>3, <2>1, <2>2, SizeIs
<1> HIDE DEF r, sm
<1>6. \A o \in 0..(r - 1) : /\ sm[o] \in 0..(r - 1) /\ ix.marks[o] = MarkOf(sm[o])
                            /\ ix.markToSample[o] = RunBefore(sm[o])
  <2> TAKE o \in 0..(r - 1)
  <2>1. sm[o] \in 0..(r - 1)
    BY <1>4
  <2>2. ix.marks[o] = base.head[sm[o]] /\ ix.markToSample[o] = (sm[o] + r - 1) % r
    BY <1>2, <1>3
  <2>3. QED
    BY <1>1, <1>5, <2>1, <2>2 DEF RunBefore
<1>7. \A x \in ix.sampled : /\ ix.samples[Cardinality({k \in ix.sampled : k < x})] = SampleOf(x)
                            /\ GetSample(x) = SampleOf(x)
  BY <1>1, <1>2, SamplesFound
<1>8. \A x \in DOMAIN ix.run : ix.samples[x] = SampleOf(x)
  <2> TAKE x \in DOMAIN ix.run
  <2>1. x \in 0..(r - 1) /\ x \in Nat
    BY <1>3, <1>5
  <2>2. {k \in ix.sampled : k < x} = 0..(x - 1)
    <3>1. \A k : k \in {y \in 0..(r - 1) : y < x} <=> k \in 0..(x - 1)
      BY <1>3, <2>1
    <3>2. {k \in ix.sampled : k < x} = {y \in 0..(r - 1) : y < x}
      BY <1>2, <1>5
    <3>3. QED
      BY <3>1, <3>2
  <2>3. Cardinality(0..(x - 1)) = x
    <3>1. 0 \in Int /\ x - 1 \in Int
      BY <2>1
    <3>2. Cardinality(0..(x - 1)) = IF 0 > x - 1 THEN 0 ELSE (x - 1) - 0 + 1
      BY <3>1, FS_Interval
    <3>3. QED
      BY <2>1, <3>2
  <2>4. QED
    BY <1>2, <1>7, <2>2, <2>3
<1>9. \A x, y \in 0..(r - 1) : MarkOf(x) \in Int
  BY <1>1, <1>3, <1>5
<1>10. MarksAreRight
  <2>1. \A o, q \in 0..(r - 1) : o < q => ix.marks[o] < ix.marks[q]
    <3> TAKE o, q \in 0..(r - 1)
    <3>1. ix.marks[o] = base.head[sm[o]] /\ ix.marks[q] = base.head[sm[q]]
      BY <1>1, <1>5, <1>6
    <3>2. QED
      BY <1>4, <3>1
  <2>2. \A o \in 0..(r - 1) : \E k \in DOMAIN ix.run :
          ix.marks[o] = MarkOf(k) /\ ix.samples[ix.markToSample[o]] = SampleOf(RunBefore(k))
    <3> TAKE o \in 0..(r - 1)
    <3>1. sm[o] \in DOMAIN ix.run /\ RunBefore(sm[o]) \in DOMAIN ix.run
      BY <1>1, <1>5, <1>6, RunBeforeIs
    <3>2. QED
      BY <1>6, <1>8, <3>1
  <2>3. \A k \in DOMAIN ix.run : ix.marks[0] <= MarkOf(k) /\ MarkOf(k) <= ix.marks[r - 1]
    <3> TAKE k \in DOMAIN ix.run
    <3>1. PICK q \in 0..(r - 1) : sm[q] = k
      BY <1>4, <1>5
    <3>2. ix.marks[q] = MarkOf(k) /\ 0 \in 0..(r - 1) /\ r - 1 \in 0..(r - 1)
      BY <1>3, <1>6, <3>1
    <3>3. ix.marks[0] \in Int /\ ix.marks[r - 1] \in Int /\ ix.marks[q] \in Int
      BY <1>6, <1>9, <3>2
    <3>4. (0 < q \/ 0 = q) /\ (q < r - 1 \/ q = r - 1)
      BY <1>3
    <3>5. ix.marks[0] <= ix.marks[q] /\ ix.marks[q] <= ix.marks[r - 1]
      BY <2>1, <3>2, <3>3, <3>4
    <3>6. QED
      BY <3>2, <3>5
  <2>4. QED
    BY <1>3, <1>5, <2>1, <2>2, <2>3 DEF MarksAreRight
<1>11. SamplesCover
  <2>1. \A k \in DOMAIN ix.run : \E o \in DOMAIN ix.marks : ix.marks[o] = MarkOf(k)
    <3> TAKE k \in DOMAIN ix.run
    <3>1. PICK q \in 0..(r - 1) : sm[q] = k
      BY <1>4, <1>5
    <3>2. QED
      BY <1>5, <1>6, <3>1
  <2>2. QED
    BY <2>1 DEF SamplesCover
<1>12. QED
  BY <1>2, <1>7, <1>8, <1>10, <1>11

\* The sub-marks of the kept runs, in the order of the BWT.
Submarks ==
  [k \in DOMAIN Ascending(KeptRuns) |-> base.head[(Ascending(KeptRuns)[k] + 1) % Size(base.run)]]

\* The fields of a complete index.
Fields ==
  {"kind", "rate", "n", "bwt", "C", "run", "sampled", "samples", "marks", "markToSample",
   "invalid", "area"}

\* What constructSRI stores: the kept samples, and their sub-marks sorted.
SubStored ==
  /\ HasItems /\ DOMAIN ix = Fields
  /\ ix.sampled = KeptRuns
  /\ ix.samples = [k \in DOMAIN Ascending(ix.sampled) |-> base.tail[Ascending(ix.sampled)[k]]]
  /\ ix.marks = [o \in DOMAIN SortIndices(Submarks) |-> Submarks[SortIndices(Submarks)[o]]]
  /\ ix.markToSample = SortIndices(Submarks)

\* Each kept run has one sub-mark, and sorted they still lead to its sample.
LEMMA SubmarksAre ==
  ASSUME TextIsBuilt, ItemsAreRight, SubStored, KeptRuns \subseteq DOMAIN base.run
  PROVE  /\ DOMAIN ix.marks = 0..(Cardinality(KeptRuns) - 1)
         /\ Size(ix.marks) = Cardinality(KeptRuns) /\ Cardinality(KeptRuns) \in Nat
         /\ \A o, q \in DOMAIN ix.marks : o < q => ix.marks[o] < ix.marks[q]
         /\ \A o \in DOMAIN ix.marks : \E x \in KeptRuns :
              ix.marks[o] = MarkOf(RunAfter(x)) /\ ix.samples[ix.markToSample[o]] = SampleOf(x)
         /\ \A x \in KeptRuns : \E o \in DOMAIN ix.marks : ix.marks[o] = MarkOf(RunAfter(x))
<1> DEFINE S == KeptRuns
           A == Ascending(S)
           m == Cardinality(S)
           r == Size(base.run)
           sub == Submarks
           srt == SortIndices(sub)
<1>1. /\ RunsPartition /\ HasItems
      /\ \A k \in DOMAIN ix.run : MarkOf(k) = base.head[k] /\ SampleOf(k) = base.tail[k]
  BY ItemsServe DEF SubStored
<1>2. /\ ix.run = base.run /\ ix.sampled = S /\ ix.markToSample = srt
      /\ ix.samples = [k \in DOMAIN A |-> base.tail[A[k]]]
      /\ ix.marks = [o \in DOMAIN srt |-> sub[srt[o]]]
      /\ sub = [k \in DOMAIN A |-> base.head[(A[k] + 1) % r]]
  BY DEF SubStored, HasItems, Submarks
<1>3. /\ r \in Nat \ {0} /\ DOMAIN base.run = 0..(r - 1)
      /\ base.head \in [0..(r - 1) -> 0..(Size(text) - 1)]
      /\ \A k, l \in 0..(r - 1) : base.head[k] = base.head[l] => k = l
  BY DEF ItemsAreRight
<1> HIDE DEF S, A, m, r, sub, srt
<1>4. S \in SUBSET Int /\ IsFiniteSet(S) /\ \A x \in S : x \in DOMAIN ix.run /\ x \in 0..(r - 1)
  <2>1. 0 \in Int /\ r - 1 \in Int /\ S \in SUBSET (0..(r - 1))
    BY <1>3 DEF S
  <2>2. IsFiniteSet(0..(r - 1))
    BY <2>1, FS_Interval
  <2>3. IsFiniteSet(S)
    BY <2>1, <2>2, FS_Subset
  <2>4. \A x \in S : x \in 0..(r - 1)
    BY <2>1
  <2>5. DOMAIN ix.run = 0..(r - 1)
    BY <1>2, <1>3
  <2>6. \A x \in 0..(r - 1) : x \in Int
    BY <2>1
  <2>7. S \in SUBSET Int
    BY <2>4, <2>6
  <2>8. QED
    BY <2>3, <2>4, <2>5, <2>7
<1>5. /\ m \in Nat /\ DOMAIN A = 0..(m - 1)
      /\ \A k \in 0..(m - 1) : A[k] \in S
      /\ \A k, l \in 0..(m - 1) : k < l <=> A[k] < A[l]
      /\ \A x \in S : \E k \in 0..(m - 1) : A[k] = x
  <2>1. /\ DOMAIN A = 0..(m - 1) /\ m \in Nat
        /\ \A k \in DOMAIN A : A[k] \in S
        /\ \A k, l \in DOMAIN A : k < l <=> A[k] < A[l]
        /\ \A x \in S : /\ Cardinality({y \in S : y < x}) \in DOMAIN A
                        /\ A[Cardinality({y \in S : y < x})] = x
    BY <1>4, AscendingIs DEF A, m
  <2>2. QED
    BY <2>1
<1>6. \A k \in 0..(m - 1) : /\ A[k] \in DOMAIN ix.run /\ RunAfter(A[k]) \in 0..(r - 1)
                            /\ sub[k] = base.head[RunAfter(A[k])]
                            /\ sub[k] = MarkOf(RunAfter(A[k])) /\ sub[k] \in Int
                            /\ ix.samples[k] = SampleOf(A[k])
  <2> TAKE k \in 0..(m - 1)
  <2>1. A[k] \in DOMAIN ix.run
    BY <1>4, <1>5
  <2>2. RunAfter(A[k]) \in DOMAIN ix.run
    BY <1>1, <2>1, RunAfterIs
  <2>3. sub[k] = base.head[RunAfter(A[k])]
    BY <1>2, <1>5 DEF RunAfter, r
  <2>4. sub[k] \in Int
    BY <1>2, <1>3, <2>2, <2>3
  <2>5. ix.samples[k] = base.tail[A[k]]
    BY <1>2, <1>5
  <2>6. QED
    BY <1>1, <1>2, <1>3, <2>1, <2>2, <2>3, <2>4, <2>5
<1>7. sub \in [0..(m - 1) -> Int] /\ \A k, l \in 0..(m - 1) : sub[k] = sub[l] => k = l
  <2>1. sub \in [0..(m - 1) -> Int]
    <3>1. DOMAIN sub = 0..(m - 1) /\ sub = [k \in 0..(m - 1) |-> sub[k]]
      BY <1>2, <1>5
    <3>2. QED
      BY <1>6, <3>1
  <2>2. ASSUME NEW k \in 0..(m - 1), NEW l \in 0..(m - 1), sub[k] = sub[l]
        PROVE  k = l
    <3>1. RunAfter(A[k]) = RunAfter(A[l])
      BY <1>3, <1>6, <2>2
    <3>2. RunBefore(RunAfter(A[k])) = A[k] /\ RunBefore(RunAfter(A[l])) = A[l]
      BY <1>1, <1>6, RunAfterIs
    <3>3. A[k] = A[l] /\ A[k] \in Int
      BY <1>4, <1>5, <3>1, <3>2
    <3>4. ~(k < l) /\ ~(l < k)
      BY <1>5, <3>3
    <3>5. QED
      BY <3>4
  <2>3. QED
    BY <2>1, <2>2
<1>8. /\ srt \in [0..(m - 1) -> 0..(m - 1)]
      /\ \A k, l \in 0..(m - 1) : k < l <=> sub[srt[k]] < sub[srt[l]]
      /\ \A i \in 0..(m - 1) : \E k \in 0..(m - 1) : srt[k] = i
  <2>1. Sorts(srt, sub, m)
    BY <1>5, <1>7, SortsIs DEF srt
  <2>2. QED
    BY <2>1 DEF Sorts
<1>9. DOMAIN ix.marks = 0..(m - 1) /\ \A o \in 0..(m - 1) : ix.marks[o] = sub[srt[o]]
  BY <1>2, <1>8
<1>10. Size(ix.marks) = m
  BY <1>5, <1>9, SizeIs
<1>11. \A o, q \in DOMAIN ix.marks : o < q => ix.marks[o] < ix.marks[q]
  <2> TAKE o, q \in DOMAIN ix.marks
  <2>1. o \in 0..(m - 1) /\ q \in 0..(m - 1)
    BY <1>9
  <2>2. ix.marks[o] = sub[srt[o]] /\ ix.marks[q] = sub[srt[q]]
    BY <1>9, <2>1
  <2>3. o < q => sub[srt[o]] < sub[srt[q]]
    BY <1>8, <2>1
  <2>4. QED
    BY <2>2, <2>3
<1>12. ASSUME NEW o \in DOMAIN ix.marks
       PROVE  \E x \in S : ix.marks[o] = MarkOf(RunAfter(x)) /\ ix.samples[ix.markToSample[o]] = SampleOf(x)
  <2>1. srt[o] \in 0..(m - 1)
    BY <1>8, <1>9
  <2>2. A[srt[o]] \in S /\ ix.marks[o] = MarkOf(RunAfter(A[srt[o]]))
        /\ ix.samples[ix.markToSample[o]] = SampleOf(A[srt[o]])
    BY <1>2, <1>5, <1>6, <1>9, <2>1
  <2>3. QED
    BY <2>2
<1>13. ASSUME NEW x \in S
       PROVE  \E o \in DOMAIN ix.marks : ix.marks[o] = MarkOf(RunAfter(x))
  <2>1. PICK k \in 0..(m - 1) : A[k] = x
    BY <1>5
  <2>2. PICK o \in 0..(m - 1) : srt[o] = k
    BY <1>8
  <2>3. QED
    BY <1>6, <1>9, <2>1, <2>2
<1>14. QED
  BY <1>5, <1>9, <1>10, <1>11, <1>12, <1>13 DEF S, m

\* An index with kept samples has sub-marks with the first and the last mark of the
\* text among them, and its samples cover the text.
LEMMA SubServes ==
  ASSUME TextIsBuilt, ItemsAreRight, SamplingProofs!IInv, SamplingDone, SubStored,
         ix.kind # "r", ix.rate \in Nat \ {0}
  PROVE  /\ MarksAreRight /\ SamplesCover /\ ix.sampled \subseteq DOMAIN ix.run
         /\ \A k \in ix.sampled : GetSample(k) = SampleOf(k)
<1> DEFINE r == Size(base.run)
           w == Size(ix.marks)
<1>1. /\ RunsPartition /\ HasItems /\ TextIsIndexed
      /\ \A k \in DOMAIN ix.run : MarkOf(k) = base.head[k] /\ SampleOf(k) = base.tail[k]
  BY ItemsServe DEF SubStored
<1>2. /\ ix.run = base.run /\ ix.sampled = KeptRuns
      /\ ix.samples = [k \in DOMAIN Ascending(ix.sampled) |-> base.tail[Ascending(ix.sampled)[k]]]
  BY DEF SubStored, HasItems
<1>3. /\ r \in Nat \ {0} /\ DOMAIN base.run = 0..(r - 1)
      /\ base.markToSample = [o \in 0..(r - 1) |-> (base.sortedMarks[o] + r - 1) % r]
      /\ Sorts(base.sortedMarks, base.head, r)
  BY DEF ItemsAreRight
<1>4. /\ KeptRuns \subseteq 0..(r - 1) /\ KeptRuns # {}
      /\ RequiredSamples(base) \cap (0..(r - 1)) \subseteq KeptRuns
      /\ \A x \in 0..(r - 1) :
           \/ x \in KeptRuns
           \/ \E m \in KeptRuns, j \in 0..(r - 1) :
                /\ base.tail[m] < base.tail[x] /\ base.tail[x] < base.tail[j]
                /\ base.tail[j] - base.tail[m] <= ix.rate
  BY KeptIs
<1>5. KeptRuns \subseteq DOMAIN base.run /\ ix.sampled \subseteq DOMAIN ix.run
  BY <1>2, <1>3, <1>4
<1>6. /\ DOMAIN ix.marks = 0..(Cardinality(KeptRuns) - 1)
      /\ w = Cardinality(KeptRuns) /\ Cardinality(KeptRuns) \in Nat
      /\ \A o, q \in DOMAIN ix.marks : o < q => ix.marks[o] < ix.marks[q]
      /\ \A o \in DOMAIN ix.marks : \E x \in KeptRuns :
           ix.marks[o] = MarkOf(RunAfter(x)) /\ ix.samples[ix.markToSample[o]] = SampleOf(x)
      /\ \A x \in KeptRuns : \E o \in DOMAIN ix.marks : ix.marks[o] = MarkOf(RunAfter(x))
  BY <1>5, SubmarksAre
<1> HIDE DEF r, w
<1>7. w \in Nat \ {0} /\ DOMAIN ix.marks = 0..(w - 1)
  <2>1. PICK x \in KeptRuns : TRUE
    BY <1>4
  <2>2. PICK o \in DOMAIN ix.marks : TRUE
    BY <1>6, <2>1
  <2>3. QED
    BY <1>6, <2>2
<1>8. DOMAIN ix.run = 0..(r - 1) /\ r = Size(ix.run)
  BY <1>2, <1>3 DEF r
<1>9. \A o \in DOMAIN ix.marks : \E k \in DOMAIN ix.run :
        ix.marks[o] = MarkOf(k) /\ ix.samples[ix.markToSample[o]] = SampleOf(RunBefore(k))
  <2> TAKE o \in DOMAIN ix.marks
  <2>1. PICK x \in KeptRuns :
          ix.marks[o] = MarkOf(RunAfter(x)) /\ ix.samples[ix.markToSample[o]] = SampleOf(x)
    BY <1>6
  <2>2. RunAfter(x) \in DOMAIN ix.run /\ RunBefore(RunAfter(x)) = x
    BY <1>1, <1>2, <1>5, RunAfterIs
  <2>3. QED
    BY <2>1, <2>2
<1>10. \A q \in 0..(r - 1) : q = 0 \/ q = r - 1 =>
         \E o \in DOMAIN ix.marks : ix.marks[o] = base.head[base.sortedMarks[q]]
  <2> TAKE q \in 0..(r - 1)
  <2>1. HAVE q = 0 \/ q = r - 1
  <2> DEFINE k == base.sortedMarks[q]
  <2>2. k \in DOMAIN ix.run
    BY <1>3, <1>8 DEF Sorts
  <2>3. base.markToSample[q] = RunBefore(k)
    BY <1>3, <1>8 DEF RunBefore
  <2>4. base.markToSample[q] \in RequiredSamples(base)
    <3>1. Size(base.markToSample) = r
      <4>1. DOMAIN base.markToSample = 0..(r - 1) /\ r \in Nat
        BY <1>3
      <4>2. QED
        BY <4>1, SizeIs
    <3>2. QED
      BY <2>1, <3>1 DEF RequiredSamples
  <2> HIDE DEF k
  <2>5. RunBefore(k) \in 0..(r - 1) /\ RunAfter(RunBefore(k)) = k
    BY <1>1, <1>8, <2>2, RunAfterIs
  <2>6. RunBefore(k) \in KeptRuns
    BY <1>4, <2>3, <2>4, <2>5
  <2>7. PICK o \in DOMAIN ix.marks : ix.marks[o] = MarkOf(k)
    BY <1>6, <2>5, <2>6
  <2>8. QED
    BY <1>1, <2>2, <2>7 DEF k
<1>11. \A k \in DOMAIN ix.run : MarkOf(k) \in Int
  BY <1>1, MarkTypes
<1>12. \A o \in DOMAIN ix.marks : ix.marks[o] \in Int
  BY <1>9, <1>11
<1>13. \A o \in DOMAIN ix.marks : ix.marks[0] <= ix.marks[o] /\ ix.marks[o] <= ix.marks[w - 1]
  <2> TAKE o \in DOMAIN ix.marks
  <2>1. 0 \in DOMAIN ix.marks /\ w - 1 \in DOMAIN ix.marks /\ (0 < o \/ 0 = o) /\ (o < w - 1 \/ o = w - 1)
    BY <1>7
  <2>2. ix.marks[0] \in Int /\ ix.marks[o] \in Int /\ ix.marks[w - 1] \in Int
    BY <1>12, <2>1
  <2>3. (0 < o => ix.marks[0] < ix.marks[o]) /\ (o < w - 1 => ix.marks[o] < ix.marks[w - 1])
    BY <1>6, <2>1
  <2>4. \A x, y, z \in Int : (x < y \/ x = y) /\ (y < z \/ y = z) => x <= y /\ y <= z
    OBVIOUS
  <2>5. (ix.marks[0] < ix.marks[o] \/ ix.marks[0] = ix.marks[o])
        /\ (ix.marks[o] < ix.marks[w - 1] \/ ix.marks[o] = ix.marks[w - 1])
    BY <2>1, <2>3
  <2>6. QED
    BY <2>2, <2>4, <2>5
<1>14. \A k \in DOMAIN ix.run : ix.marks[0] <= MarkOf(k) /\ MarkOf(k) <= ix.marks[w - 1]
  <2> TAKE k \in DOMAIN ix.run
  <2> DEFINE sm == base.sortedMarks
  <2>1. /\ sm \in [0..(r - 1) -> 0..(r - 1)]
        /\ \A i, j \in 0..(r - 1) : i < j <=> base.head[sm[i]] < base.head[sm[j]]
        /\ \A i \in 0..(r - 1) : \E j \in 0..(r - 1) : sm[j] = i
    BY <1>3 DEF Sorts
  <2> HIDE DEF sm
  <2>2. PICK q \in 0..(r - 1) : sm[q] = k
    BY <1>8, <2>1
  <2>3. 0 \in 0..(r - 1) /\ r - 1 \in 0..(r - 1) /\ (0 < q \/ 0 = q) /\ (q < r - 1 \/ q = r - 1)
    BY <1>3
  <2>4. \A i \in 0..(r - 1) : base.head[sm[i]] \in Int
    <3> TAKE i \in 0..(r - 1)
    <3>1. sm[i] \in DOMAIN ix.run
      BY <1>8, <2>1
    <3>2. MarkOf(sm[i]) = base.head[sm[i]] /\ MarkOf(sm[i]) \in Int
      BY <1>1, <1>11, <3>1
    <3>3. QED
      BY <3>2
  <2>5. base.head[sm[0]] <= base.head[sm[q]] /\ base.head[sm[q]] <= base.head[sm[r - 1]]
    <3>1. 0 < q => base.head[sm[0]] < base.head[sm[q]]
      BY <2>1, <2>3
    <3>2. q < r - 1 => base.head[sm[q]] < base.head[sm[r - 1]]
      BY <2>1, <2>3
    <3>3. base.head[sm[0]] \in Int /\ base.head[sm[q]] \in Int /\ base.head[sm[r - 1]] \in Int
      BY <2>3, <2>4
    <3>4. QED
      BY <2>3, <3>1, <3>2, <3>3
  <2>6. PICK a \in DOMAIN ix.marks : ix.marks[a] = base.head[sm[0]]
    BY <1>10, <2>3 DEF sm
  <2>7. PICK b \in DOMAIN ix.marks : ix.marks[b] = base.head[sm[r - 1]]
    BY <1>10, <2>3 DEF sm
  <2>8. MarkOf(k) = base.head[sm[q]]
    BY <1>1, <2>2
  <2>9. ix.marks[0] <= ix.marks[a] /\ ix.marks[b] <= ix.marks[w - 1]
    BY <1>13
  <2>10. ix.marks[0] \in Int /\ ix.marks[w - 1] \in Int /\ MarkOf(k) \in Int
    BY <1>7, <1>11, <1>12
  <2>11. QED
    BY <1>12, <2>5, <2>6, <2>7, <2>8, <2>9, <2>10
<1>15. MarksAreRight
  BY <1>6, <1>7, <1>9, <1>14 DEF MarksAreRight, w
<1>16. SamplesCover
  <2>1. ASSUME NEW x \in DOMAIN ix.run
        PROVE  \/ x \in ix.sampled /\ \E o \in DOMAIN ix.marks : ix.marks[o] = MarkOf(RunAfter(x))
               \/ \E m \in ix.sampled, j \in DOMAIN ix.run :
                    /\ SampleOf(m) < SampleOf(x) /\ SampleOf(x) < SampleOf(j)
                    /\ SampleOf(j) - SampleOf(m) <= ix.rate
    <3>1. CASE x \in KeptRuns
      BY <1>2, <1>6, <3>1
    <3>2. CASE \E m \in KeptRuns, j \in 0..(r - 1) :
                 /\ base.tail[m] < base.tail[x] /\ base.tail[x] < base.tail[j]
                 /\ base.tail[j] - base.tail[m] <= ix.rate
      <4>1. PICK m \in KeptRuns, j \in 0..(r - 1) :
                 /\ base.tail[m] < base.tail[x] /\ base.tail[x] < base.tail[j]
                 /\ base.tail[j] - base.tail[m] <= ix.rate
        BY <3>2
      <4>2. m \in ix.sampled /\ m \in DOMAIN ix.run /\ j \in DOMAIN ix.run
        BY <1>2, <1>5, <1>8
      <4>3. SampleOf(m) = base.tail[m] /\ SampleOf(j) = base.tail[j] /\ SampleOf(x) = base.tail[x]
        BY <1>1, <4>2
      <4>4. QED
        BY <4>1, <4>2, <4>3
    <3>3. QED
      BY <1>4, <1>8, <3>1, <3>2
  <2>2. QED
    BY <2>1 DEF SamplesCover
<1>17. \A k \in ix.sampled : GetSample(k) = SampleOf(k)
  BY <1>1, <1>2, <1>5, SamplesFound
<1>18. QED
  BY <1>5, <1>15, <1>16, <1>17


-----------------------------------------------------------------------------
(* The validity of the sub-marks (constructSRIValidMark). *)

\* The call of computeSubmarksValidity for the items and the sub-marks stored.
ValidityJob ==
  [marks    |-> AsSeq([o \in DOMAIN base.head |-> base.head[base.sortedMarks[o]]]),
   submarks |-> AsSeq(ix.marks)]

\* computeSubmarksValidity is called as it must be: with sub-marks that are marks
\* in the order of the text, the first one with the first.
LEMMA ValidityJobIs ==
  ASSUME TextIsBuilt, ItemsAreRight, HasItems, MarksAreRight
  PROVE  /\ Validity!LegalJob(ValidityJob)
         /\ Len(ValidityJob.submarks) = Size(ix.marks)
         /\ \A o \in DOMAIN ix.marks : ValidityJob.submarks[o + 1] = ix.marks[o]
         /\ \A k \in DOMAIN ix.run : \E j \in DOMAIN ValidityJob.marks : ValidityJob.marks[j] = MarkOf(k)
<1> DEFINE r == Size(base.run)
           w == Size(ix.marks)
           sm == base.sortedMarks
           a == [o \in DOMAIN base.head |-> base.head[sm[o]]]
           M == AsSeq(a)
           U == AsSeq(ix.marks)
<1>1. /\ RunsPartition /\ TextIsIndexed
      /\ \A k \in DOMAIN ix.run : MarkOf(k) = base.head[k] /\ SampleOf(k) = base.tail[k]
  BY ItemsServe
<1>2. /\ r \in Nat \ {0} /\ DOMAIN base.run = 0..(r - 1)
      /\ base.head \in [0..(r - 1) -> 0..(Size(text) - 1)]
      /\ Sorts(sm, base.head, r)
  BY DEF ItemsAreRight
<1>3. /\ sm \in [0..(r - 1) -> 0..(r - 1)]
      /\ \A i, j \in 0..(r - 1) : i < j <=> base.head[sm[i]] < base.head[sm[j]]
      /\ \A i \in 0..(r - 1) : \E j \in 0..(r - 1) : sm[j] = i
  BY <1>2 DEF Sorts
<1>4. DOMAIN ix.run = 0..(r - 1)
  BY <1>2 DEF HasItems
<1>5. /\ w \in Nat \ {0} /\ DOMAIN ix.marks = 0..(w - 1)
      /\ \A o, q \in DOMAIN ix.marks : o < q => ix.marks[o] < ix.marks[q]
      /\ \A o \in DOMAIN ix.marks : \E k \in DOMAIN ix.run : ix.marks[o] = MarkOf(k)
      /\ \A k \in DOMAIN ix.run : ix.marks[0] <= MarkOf(k)
  BY DEF MarksAreRight
<1>6. DOMAIN base.head = 0..(r - 1)
  BY <1>2
<1> HIDE DEF r, w, sm
<1>7. \A k \in DOMAIN ix.run : MarkOf(k) \in Nat
  <2> TAKE k \in DOMAIN ix.run
  <2>1. MarkOf(k) \in 0..(ix.n - 1) /\ ix.n \in Nat
    BY <1>1, MarkTypes, TextSize
  <2>2. QED
    BY <2>1
<1>8. \A i \in 0..(r - 1) : a[i] = MarkOf(sm[i]) /\ sm[i] \in DOMAIN ix.run /\ a[i] \in Nat
  <2> TAKE i \in 0..(r - 1)
  <2>1. sm[i] \in DOMAIN ix.run
    BY <1>3, <1>4
  <2>2. a[i] = base.head[sm[i]]
    BY <1>6
  <2>3. QED
    BY <1>1, <1>7, <2>1, <2>2
<1>9. a \in [0..(r - 1) -> Nat]
  <2>1. a = [i \in 0..(r - 1) |-> a[i]]
    BY <1>6
  <2>2. \A i \in 0..(r - 1) : a[i] \in Nat
    BY <1>8
  <2> HIDE DEF a
  <2>3. QED
    BY <2>1, <2>2
<1>10. \A i, j \in 0..(r - 1) : i < j => a[i] < a[j]
  <2> TAKE i, j \in 0..(r - 1)
  <2>1. a[i] = base.head[sm[i]] /\ a[j] = base.head[sm[j]]
    BY <1>6
  <2>2. QED
    BY <1>3, <2>1
<1> HIDE DEF a
<1>11. /\ M \in Seq(Nat) /\ Len(M) = r /\ DOMAIN M = 1..r
       /\ \A k \in 1..r : M[k] = a[k - 1]
  <2>1. r \in Nat
    BY <1>2
  <2>2. QED
    BY <1>9, <2>1, AsSeqIs
<1>12. \A o \in DOMAIN ix.marks : ix.marks[o] \in Nat
  BY <1>5, <1>7
<1>13. /\ U \in Seq(Nat) /\ Len(U) = w /\ DOMAIN U = 1..w
       /\ \A k \in 1..w : U[k] = ix.marks[k - 1]
  <2>1. /\ Size(ix.marks) = w /\ w \in Nat
    BY <1>5 DEF w
  <2>2. U = [k \in 1..w |-> ix.marks[k - 1]]
    BY <2>1 DEF AsSeq
  <2>3. \A k \in 1..w : k - 1 \in DOMAIN ix.marks
    BY <1>5
  <2>4. \A k \in 1..w : ix.marks[k - 1] \in Nat
    BY <1>12, <2>3
  <2>5. QED
    BY <2>1, <2>2, <2>4
<1> HIDE DEF M, U
<1>14. \A k \in DOMAIN ix.run : \E j \in 1..r : M[j] = MarkOf(k)
  <2> TAKE k \in DOMAIN ix.run
  <2>1. PICK q \in 0..(r - 1) : sm[q] = k
    BY <1>3, <1>4
  <2>2. q + 1 \in 1..r /\ (q + 1) - 1 = q
    BY <1>2
  <2>3. M[q + 1] = a[q] /\ a[q] = MarkOf(k)
    BY <1>8, <1>11, <2>1, <2>2
  <2>4. QED
    BY <2>2, <2>3
<1>15. Validity!StrictlyIncreasing(M)
  <2>1. SUFFICES ASSUME NEW i \in 1..r, NEW j \in 1..r, i < j
                 PROVE  M[i] < M[j]
    BY <1>11 DEF Validity!StrictlyIncreasing
  <2>2. i - 1 \in 0..(r - 1) /\ j - 1 \in 0..(r - 1) /\ i - 1 < j - 1
    BY <1>2, <2>1
  <2>3. M[i] = a[i - 1] /\ M[j] = a[j - 1]
    BY <1>11
  <2>4. QED
    BY <1>10, <2>2, <2>3
<1>16. Validity!StrictlyIncreasing(U)
  <2>1. SUFFICES ASSUME NEW i \in 1..w, NEW j \in 1..w, i < j
                 PROVE  U[i] < U[j]
    BY <1>13 DEF Validity!StrictlyIncreasing
  <2>2. i - 1 \in DOMAIN ix.marks /\ j - 1 \in DOMAIN ix.marks /\ i - 1 < j - 1
    BY <1>5, <2>1
  <2>3. U[i] = ix.marks[i - 1] /\ U[j] = ix.marks[j - 1]
    BY <1>13
  <2>4. QED
    BY <1>5, <2>2, <2>3
<1>17. \A i \in 1..w : \E j \in 1..r : U[i] = M[j]
  <2> TAKE i \in 1..w
  <2>1. i - 1 \in DOMAIN ix.marks /\ U[i] = ix.marks[i - 1]
    BY <1>5, <1>13
  <2>2. PICK k \in DOMAIN ix.run : ix.marks[i - 1] = MarkOf(k)
    BY <1>5, <2>1
  <2>3. QED
    BY <1>14, <2>1, <2>2
<1>18. 1 \in 1..w /\ 1 \in 1..r /\ U[1] = M[1]
  <2>1. 1 \in 1..w /\ 1 \in 1..r /\ 1 - 1 = 0 /\ 0 \in DOMAIN ix.marks /\ 0 \in 0..(r - 1)
    BY <1>2, <1>5
  <2>2. U[1] = ix.marks[0] /\ M[1] = a[0] /\ sm[0] \in DOMAIN ix.run /\ a[0] = MarkOf(sm[0])
    BY <1>8, <1>11, <1>13, <2>1
  <2>3. U[1] <= M[1]
    BY <1>5, <2>2
  <2>4. PICK j \in 1..r : U[1] = M[j]
    BY <1>17, <2>1
  <2>5. 1 < j => M[1] < M[j]
    BY <1>11, <1>15, <2>1 DEF Validity!StrictlyIncreasing
  <2>6. 1 = j \/ 1 < j
    BY <2>4
  <2>7. M[1] \in Int /\ M[j] \in Int
    BY <1>11, <2>1
  <2>8. QED
    BY <2>1, <2>3, <2>4, <2>5, <2>6, <2>7
<1>19. ValidityJob = [marks |-> M, submarks |-> U]
  BY DEF ValidityJob, M, U, a, sm
<1>20. /\ ValidityJob.marks = M /\ ValidityJob.submarks = U
       /\ DOMAIN ValidityJob = {"marks", "submarks"}
  BY <1>19
<1>21. Validity!LegalJob(ValidityJob)
  <2>1. \A i \in DOMAIN U : \E j \in DOMAIN M : U[i] = M[j]
    BY <1>11, <1>13, <1>17
  <2>2. 1 \in DOMAIN U /\ 1 \in DOMAIN M /\ U[1] = M[1]
    BY <1>11, <1>13, <1>18
  <2>3. M \in Seq(Nat) /\ U \in Seq(Nat)
    BY <1>11, <1>13
  <2>4. QED
    BY ONLY <1>15, <1>16, <1>20, <2>1, <2>2, <2>3 DEF Validity!LegalJob
<1>22. \A o \in DOMAIN ix.marks : U[o + 1] = ix.marks[o]
  <2> TAKE o \in DOMAIN ix.marks
  <2>1. o + 1 \in 1..w /\ (o + 1) - 1 = o
    BY <1>5
  <2>2. QED
    BY <1>13, <2>1
<1>23. Len(U) = Size(ix.marks)
  BY <1>13 DEF w
<1>24. QED
  BY <1>11, <1>14, <1>20, <1>21, <1>22, <1>23

\* The merge is over, and what it reported is stored.
ValidityStored ==
  /\ vPc = "done" /\ vJob = ValidityJob
  /\ ix.invalid = {vReports[e][1] : e \in DOMAIN vReports}
  /\ ix.area = [e \in 0..(Len(vReports) - 1) |-> vReports[e + 1][2]]

\* The validities and areas stored are right: what is trusted lost no mark.
LEMMA ValidityServes ==
  ASSUME TextIsBuilt, ItemsAreRight, HasItems, MarksAreRight,
         ValidityProofs!IInv, ValidityStored
  PROVE  ValidityIsRight
<1> DEFINE w == Size(ix.marks)
           m == Len(vReports)
           s == [e \in 1..m |-> vReports[e][1]]
<1>1. /\ RunsPartition /\ TextIsIndexed
  BY ItemsServe
<1>2. /\ Len(vJob.submarks) = w
      /\ \A o \in DOMAIN ix.marks : vJob.submarks[o + 1] = ix.marks[o]
      /\ \A k \in DOMAIN ix.run : \E j \in DOMAIN vJob.marks : vJob.marks[j] = MarkOf(k)
  BY ValidityJobIs DEF ValidityStored
<1>3. /\ w \in Nat \ {0} /\ DOMAIN ix.marks = 0..(w - 1)
      /\ \A o \in DOMAIN ix.marks : \E k \in DOMAIN ix.run : ix.marks[o] = MarkOf(k)
  BY DEF MarksAreRight
<1>4. \A k \in DOMAIN ix.run : MarkOf(k) \in Int
  BY <1>1, MarkTypes
<1>5. \A o \in DOMAIN ix.marks : ix.marks[o] \in Int
  BY <1>3, <1>4
<1> HIDE DEF w
<1>6. vReports \in Seq(Nat \X Nat) /\ vI = w - 1
  BY <1>2 DEF ValidityStored, ValidityProofs!IInv, ValidityProofs!TypeOK, ValidityProofs!Position
<1>7. m \in Nat /\ DOMAIN vReports = 1..m /\ \A e \in 1..m : vReports[e][1] \in Nat /\ vReports[e][2] \in Nat
  BY <1>6
<1>8. \A e \in 1..m : vReports[e][1] < w - 1
  <2>1. \A e \in DOMAIN vReports : vReports[e][1] < Len(vJob.submarks) - 1
    BY DEF ValidityProofs!IInv, ValidityProofs!ReportsPassed
  <2>2. QED
    BY <1>2, <1>7, <2>1
<1>9. \A d, e \in 1..m : d < e => vReports[d][1] < vReports[e][1]
  BY <1>7 DEF ValidityProofs!IInv, ValidityProofs!InOrder
<1> HIDE DEF m
<1>10. \A e \in 1..m : s[e] = vReports[e][1]
  OBVIOUS
<1>11. ix.invalid = {s[e] : e \in 1..m}
  BY <1>7, <1>10 DEF ValidityStored
<1>12. (\A e \in 1..m : s[e] \in Int) /\ (\A d, e \in 1..m : d < e => s[d] < s[e])
  BY <1>7, <1>9, <1>10
<1> HIDE DEF s
<1>13. \A e \in 1..m : ix.area[Cardinality({x \in ix.invalid : x < s[e]})] = vReports[e][2]
  <2> TAKE e \in 1..m
  <2>1. Cardinality({x \in {s[d] : d \in 1..m} : x < s[e]}) = e - 1
    BY <1>7, <1>12, RankOfReport
  <2>2. ix.area = [d \in 0..(m - 1) |-> vReports[d + 1][2]]
    BY DEF ValidityStored, m
  <2>3. e - 1 \in 0..(m - 1) /\ (e - 1) + 1 = e
    BY <1>7
  <2>4. ix.area[e - 1] = vReports[e][2]
    BY <2>2, <2>3
  <2>5. QED
    BY <1>11, <2>1, <2>4
<1>14. ASSUME NEW o \in ix.invalid
       PROVE  \E e \in 1..m : o = vReports[e][1] /\ ix.area[Cardinality({x \in ix.invalid : x < o})] = vReports[e][2]
  <2>1. PICK e \in 1..m : o = s[e]
    BY <1>11
  <2>2. QED
    BY <1>10, <1>13, <2>1
<1>15. ASSUME NEW o \in DOMAIN ix.marks, o \in ix.invalid
       PROVE  o + 1 \in DOMAIN ix.marks
  <2>1. PICK e \in 1..m : o = vReports[e][1]
    BY <1>14, <1>15
  <2>2. o \in Nat /\ o < w - 1
    BY <1>7, <1>8, <2>1
  <2>3. QED
    BY <1>3, <2>2
<1>16. \A o \in ix.invalid : ix.area[Cardinality({x \in ix.invalid : x < o})] \in Nat
  <2> TAKE o \in ix.invalid
  <2>1. PICK e \in 1..m : ix.area[Cardinality({x \in ix.invalid : x < o})] = vReports[e][2]
    BY <1>14
  <2>2. QED
    BY <1>7, <2>1
<1>17. ASSUME NEW o \in DOMAIN ix.marks, NEW k \in DOMAIN ix.run,
              o + 1 \in DOMAIN ix.marks, LostAfter(o, k)
       PROVE  /\ o \in ix.invalid
              /\ ix.marks[o] + ix.area[Cardinality({x \in ix.invalid : x < o})] <= MarkOf(k)
  <2>1. PICK j \in DOMAIN vJob.marks : vJob.marks[j] = MarkOf(k)
    BY <1>2
  <2>2. /\ vJob.submarks[o + 1] = ix.marks[o] /\ vJob.submarks[o + 2] = ix.marks[o + 1]
        /\ o \in 0..(w - 2) /\ o < w - 1
    <3>1. (o + 1) + 1 = o + 2 /\ o \in 0..(w - 2) /\ o < w - 1
      BY <1>3, <1>17
    <3>2. vJob.submarks[(o + 1) + 1] = ix.marks[o + 1] /\ vJob.submarks[o + 1] = ix.marks[o]
      BY <1>2, <1>17
    <3>3. QED
      BY <3>1, <3>2
  <2>3. j \in ValidityProofs!DroppedAfter(o)
    BY <1>17, <2>1, <2>2 DEF ValidityProofs!DroppedAfter, LostAfter
  <2>4. ValidityProofs!Passed(o)
    BY <1>6, <2>2 DEF ValidityProofs!Passed
  <2>5. PICK e \in DOMAIN vReports : vReports[e][1] = o
    <3>1. o \in 0..(Len(vJob.submarks) - 2)
      BY <1>2, <2>2
    <3>2. ValidityProofs!DroppedAfter(o) # {}
      BY <2>3
    <3>3. QED
      BY <2>4, <3>1, <3>2 DEF ValidityProofs!IInv, ValidityProofs!PassedReported
  <2>6. e \in 1..m /\ o = s[e] /\ o \in ix.invalid
    BY <1>7, <1>10, <1>11, <2>5
  <2>7. PICK c \in ValidityProofs!DroppedAfter(o) :
          /\ vJob.marks[c] = vJob.submarks[o + 1] + vReports[e][2]
          /\ \A other \in ValidityProofs!DroppedAfter(o) : vJob.marks[c] <= vJob.marks[other]
    BY <2>5 DEF ValidityProofs!IInv, ValidityProofs!ReportsSound
  <2>8. vJob.marks[c] <= vJob.marks[j]
    BY <2>3, <2>7
  <2>9. ix.area[Cardinality({x \in ix.invalid : x < o})] = vReports[e][2]
    BY <1>13, <2>6
  <2>10. QED
    BY <2>1, <2>2, <2>6, <2>7, <2>8, <2>9
<1>18. QED
  BY <1>15, <1>16, <1>17 DEF ValidityIsRight

-----------------------------------------------------------------------------
(* The inductive invariant of the construction. *)

\* The sub-samples are stored, by now or before.
HasSubsamples == phase \in {"submarks", "validity"} \/ (phase = "done" /\ ix.kind # "r")

\* What is built, stage by stage: each stage finds what the ones before it left.
Inputs ==
  /\ TextIsBuilt
  /\ ix.kind \in {"r", "sr", "vm", "va"} /\ (ix.kind # "r" => ix.rate \in Nat \ {0})

Stages ==
  /\ phase \in {"base", "load", "sort", "samples", "submarks", "validity", "done"}
  /\ phase = "load" => ix.kind = "r"
  /\ phase \in {"sort", "samples"} => ix.kind # "r"
  /\ phase \in {"submarks", "validity"} => ix.kind \in {"vm", "va"}
  /\ stage # "off" => phase = "done"

ItemsInv == phase # "base" => base = RIndexItems

SamplingInv ==
  /\ SamplingProofs!IInv
  /\ phase \in {"base", "load", "sort"} => SamplingFresh
  /\ phase = "samples" => sJob = SamplingJob(base, ix.rate)
  /\ HasSubsamples => sPc = "done" /\ sJob = SamplingJob(base, ix.rate) /\ SubStored

ValidityInv ==
  /\ ValidityProofs!IInv
  /\ phase \in {"base", "load", "sort", "samples", "submarks"} => ValidityFresh
  /\ phase = "validity" => vJob = ValidityJob
  /\ phase = "done" /\ ix.kind \in {"vm", "va"} => ValidityStored

RIndexInv == phase = "done" /\ ix.kind = "r" => AllStored

BuildInv == Inputs /\ Stages /\ ItemsInv /\ SamplingInv /\ ValidityInv /\ RIndexInv

\* Before the construction there is only the text and its suffix array.
LEMMA BuildInvInit ==
  ASSUME SystemInit
  PROVE  BuildInv
<1>1. BuildInit /\ stage = "off"
  BY DEF SystemInit, Init
<1>2. TextIsBuilt
  <2>1. PICK s \in Texts : text = WithSentinel(s)
    BY <1>1 DEF BuildInit
  <2>2. s \in Seq(Nat \ {0})
    BY BuildAssumption
  <2>3. Size(WithSentinel(s)) = Len(s) + 1 /\ Terminated(WithSentinel(s), Len(s) + 1)
    BY <2>2, SentinelIs
  <2>4. Terminated(WithSentinel(s), Size(WithSentinel(s)))
    BY <2>3
  <2>5. QED
    BY <1>1, <2>1, <2>4 DEF BuildInit, TextIsBuilt
<1>3. phase = "base"
  BY <1>1 DEF BuildInit
<1>4. ix.kind \in {"r", "sr", "vm", "va"} /\ (ix.kind # "r" => ix.rate \in Nat \ {0})
  <2>1. PICK kind \in Kinds, rate \in Rates :
          ix = [NoIndex EXCEPT !.kind = kind, !.rate = IF kind = "r" THEN 0 ELSE rate]
    BY <1>1 DEF BuildInit
  <2>2. ix.kind = kind /\ ix.rate = IF kind = "r" THEN 0 ELSE rate
    BY <2>1 DEF NoIndex
  <2>3. kind \in {"r", "sr", "vm", "va"} /\ rate \in Nat \ {0}
    BY BuildAssumption
  <2>4. QED
    BY <2>2, <2>3
<1>5. SamplingFresh /\ ValidityFresh /\ sJob = NoSamplingJob /\ vJob = NoValidityJob
  BY <1>1 DEF BuildInit, SamplingFresh, ValidityFresh
<1>6. Sampling!LegalJob(NoSamplingJob)
  BY DEF NoSamplingJob, Sampling!LegalJob, Sampling!Increasing
<1>7. Validity!LegalJob(NoValidityJob)
  <2>1. <<0>> \in Seq(Nat) /\ DOMAIN <<0>> = {1} /\ <<0>>[1] = 0
    OBVIOUS
  <2>2. Validity!StrictlyIncreasing(<<0>>)
    BY <2>1 DEF Validity!StrictlyIncreasing
  <2>3. /\ NoValidityJob.marks = <<0>> /\ NoValidityJob.submarks = <<0>>
        /\ DOMAIN NoValidityJob = {"marks", "submarks"}
    BY DEF NoValidityJob
  <2>4. QED
    BY <2>1, <2>2, <2>3 DEF Validity!LegalJob
<1>8. SamplingProofs!IInv /\ ValidityProofs!IInv
  BY <1>5, <1>6, <1>7, FreshLoops
<1>9. Inputs /\ Stages /\ ItemsInv /\ RIndexInv
  BY <1>1, <1>2, <1>3, <1>4 DEF Inputs, Stages, ItemsInv, RIndexInv
<1>10. SamplingInv /\ ValidityInv
  BY <1>3, <1>5, <1>8 DEF SamplingInv, ValidityInv, HasSubsamples
<1>11. QED
  BY <1>9, <1>10 DEF BuildInv

\* What depends only on the text, the items, the index and the samples kept stays
\* as long as they do.
LEMMA StoredStays ==
  ASSUME UNCHANGED <<text, sa, ix, base, sKept>>
  PROVE  /\ TextIsBuilt => TextIsBuilt'
         /\ RIndexItems' = RIndexItems
         /\ SamplingJob(base, ix.rate)' = SamplingJob(base, ix.rate)
         /\ ValidityJob' = ValidityJob
         /\ SubStored => SubStored'
         /\ AllStored => AllStored'
<1>1. text' = text /\ sa' = sa /\ ix' = ix /\ base' = base /\ sKept' = sKept
  OBVIOUS
<1>2. TextIsBuilt => TextIsBuilt'
  BY <1>1 DEF TextIsBuilt
<1>3. RIndexItems' = RIndexItems
  BY <1>1 DEF RIndexItems
<1>4. SamplingJob(base, ix.rate)' = SamplingJob(base, ix.rate)
  BY <1>1 DEF SamplingJob, AsSeq, RequiredSamples
<1>5. ValidityJob' = ValidityJob
  BY <1>1 DEF ValidityJob, AsSeq
<1>6. SubStored => SubStored'
  <2>1. KeptRuns' = KeptRuns
    BY <1>1 DEF KeptRuns
  <2>2. Submarks' = Submarks
    BY <1>1, <2>1 DEF Submarks
  <2>3. HasItems => HasItems'
    BY <1>1 DEF HasItems
  <2>4. QED
    BY <1>1, <2>1, <2>2, <2>3 DEF SubStored
<1>7. AllStored => AllStored'
  BY <1>1 DEF AllStored, HasItems
<1>8. QED
  BY <1>2, <1>3, <1>4, <1>5, <1>6, <1>7

\* Once they are there, the items are right and both loops are at legal calls.
LEMMA ItemsReady ==
  ASSUME BuildInv, phase # "base"
  PROVE  ItemsAreRight /\ TextIsBuilt
  BY ItemsAre DEF BuildInv, Inputs, ItemsInv

\* constructRIndex leaves the items of the text.
LEMMA BuildBaseKeeps ==
  ASSUME BuildInv, BuildBase, UNCHANGED queryVars
  PROVE  BuildInv'
<1>1. /\ phase = "base" /\ base' = RIndexItems /\ phase' = IF ix.kind = "r" THEN "load" ELSE "sort"
      /\ text' = text /\ sa' = sa /\ ix' = ix /\ UNCHANGED sVars /\ UNCHANGED vVars /\ stage' = stage
  BY DEF BuildBase, data, queryVars
<1>2. TextIsBuilt' /\ RIndexItems' = RIndexItems
  BY <1>1 DEF BuildInv, Inputs, TextIsBuilt, RIndexItems
<1>3. Inputs' /\ ItemsInv'
  BY <1>1, <1>2 DEF BuildInv, Inputs, ItemsInv
<1>4. Stages' /\ RIndexInv'
  BY <1>1 DEF BuildInv, Inputs, Stages, RIndexInv
<1>5. SamplingProofs!IInv' /\ ValidityProofs!IInv'
  BY <1>1, SamplingKeeps, ValidityKeeps DEF BuildInv, SamplingInv, ValidityInv
<1>6. SamplingFresh' /\ ValidityFresh'
  BY <1>1 DEF BuildInv, SamplingInv, ValidityInv, SamplingFresh, ValidityFresh, sVars, vVars
<1>7. SamplingInv' /\ ValidityInv'
  BY <1>1, <1>5, <1>6 DEF SamplingInv, ValidityInv, HasSubsamples
<1>8. QED
  BY <1>3, <1>4, <1>7 DEF BuildInv

\* An RIndex is stored with all marks and samples.
LEMMA StoreRIndexKeeps ==
  ASSUME BuildInv, StoreRIndex, UNCHANGED queryVars
  PROVE  BuildInv'
<1>1. /\ phase = "load" /\ phase' = "done" /\ ix.kind = "r" /\ base = RIndexItems
      /\ text' = text /\ sa' = sa /\ base' = base /\ UNCHANGED sVars /\ UNCHANGED vVars /\ stage' = stage
  BY DEF BuildInv, Stages, ItemsInv, StoreRIndex, queryVars
<1>2. ix' = IndexOn(base, DOMAIN base.run, [o \in DOMAIN base.run |-> base.head[base.sortedMarks[o]]],
                    base.markToSample)
  BY DEF StoreRIndex
<1>3. /\ ix'.kind = ix.kind /\ ix'.rate = ix.rate /\ ix'.n = Size(text)
      /\ ix'.bwt = base.bwt /\ ix'.C = base.C /\ ix'.run = base.run
      /\ ix'.sampled = DOMAIN base.run
      /\ ix'.samples = [k \in DOMAIN Ascending(DOMAIN base.run) |-> base.tail[Ascending(DOMAIN base.run)[k]]]
      /\ ix'.marks = [o \in DOMAIN base.run |-> base.head[base.sortedMarks[o]]]
      /\ ix'.markToSample = base.markToSample
  BY <1>2 DEF IndexOn
<1>4. AllStored'
  BY <1>1, <1>3 DEF AllStored, HasItems
<1>5. TextIsBuilt' /\ RIndexItems' = RIndexItems
  BY <1>1 DEF BuildInv, Inputs, TextIsBuilt, RIndexItems
<1>6. Inputs' /\ ItemsInv' /\ Stages' /\ RIndexInv'
  BY <1>1, <1>3, <1>4, <1>5 DEF BuildInv, Inputs, ItemsInv, Stages, RIndexInv
<1>7. SamplingProofs!IInv' /\ ValidityProofs!IInv'
  BY <1>1, SamplingKeeps, ValidityKeeps DEF BuildInv, SamplingInv, ValidityInv
<1>8. SamplingInv' /\ ValidityInv'
  BY <1>1, <1>3, <1>7 DEF SamplingInv, ValidityInv, HasSubsamples
<1>9. QED
  BY <1>6, <1>8 DEF BuildInv

\* constructSRI calls computeSampling as it must be called.
LEMMA StartSamplingKeeps ==
  ASSUME BuildInv, StartSampling, UNCHANGED queryVars
  PROVE  BuildInv'
<1>1. /\ phase = "sort" /\ phase' = "samples" /\ sJob' = SamplingJob(base, ix.rate)
      /\ UNCHANGED <<text, sa, ix, base, sKept>> /\ sLast' = sLast /\ sPrev' = sPrev /\ sPc' = sPc
      /\ UNCHANGED vVars /\ stage' = stage
  BY DEF StartSampling, data, queryVars
<1>2. ItemsAreRight /\ ix.rate \in Nat /\ ix.kind # "r"
  BY <1>1, ItemsReady DEF BuildInv, Inputs, Stages
<1>3. Sampling!LegalJob(SamplingJob(base, ix.rate))
  BY <1>2, SamplingJobIs
<1>4. Sampling!LegalJob(sJob)'
  BY <1>1, <1>3 DEF Sampling!LegalJob, Sampling!Increasing, Sampling!Decreasing
<1>5. SamplingFresh'
  BY <1>1 DEF BuildInv, SamplingInv, SamplingFresh
<1>6. SamplingProofs!IInv' /\ ValidityProofs!IInv'
  BY <1>1, <1>4, <1>5, FreshLoopsNext, ValidityKeeps DEF BuildInv, ValidityInv
<1>7. TextIsBuilt' /\ RIndexItems' = RIndexItems /\ SamplingJob(base, ix.rate)' = SamplingJob(base, ix.rate)
  BY <1>1, StoredStays DEF BuildInv, Inputs
<1>8. Inputs' /\ ItemsInv' /\ Stages' /\ RIndexInv'
  BY <1>1, <1>7 DEF BuildInv, Inputs, ItemsInv, Stages, RIndexInv
<1>9. ValidityFresh'
  BY <1>1 DEF BuildInv, ValidityInv, ValidityFresh, vVars
<1>10. SamplingInv' /\ ValidityInv'
  BY <1>1, <1>6, <1>7, <1>9 DEF SamplingInv, ValidityInv, HasSubsamples
<1>11. QED
  BY <1>8, <1>10 DEF BuildInv

\* A step of computeSampling keeps what Subsampling_proofs says of it.
LEMMA SampleStepKeeps ==
  ASSUME BuildInv, SampleStep, UNCHANGED queryVars
  PROVE  BuildInv'
<1>1. /\ phase = "samples" /\ phase' = phase /\ Sampling!Step
      /\ text' = text /\ sa' = sa /\ ix' = ix /\ base' = base /\ UNCHANGED vVars /\ stage' = stage
  BY DEF SampleStep, data, queryVars
<1>2. SamplingProofs!IInv' /\ sJob' = sJob /\ ValidityProofs!IInv'
  BY <1>1, SamplingKeeps, ValidityKeeps DEF BuildInv, SamplingInv, ValidityInv
<1>3. /\ TextIsBuilt' /\ RIndexItems' = RIndexItems
      /\ SamplingJob(base, ix.rate)' = SamplingJob(base, ix.rate)
  BY <1>1 DEF BuildInv, Inputs, TextIsBuilt, RIndexItems, SamplingJob, AsSeq, RequiredSamples
<1>4. Inputs' /\ ItemsInv' /\ Stages' /\ RIndexInv'
  BY <1>1, <1>3 DEF BuildInv, Inputs, ItemsInv, Stages, RIndexInv
<1>5. ValidityFresh'
  BY <1>1 DEF BuildInv, ValidityInv, ValidityFresh, vVars
<1>6. sJob = SamplingJob(base, ix.rate)
  BY <1>1 DEF BuildInv, SamplingInv
<1>7. SamplingInv' /\ ValidityInv'
  BY <1>1, <1>2, <1>3, <1>5, <1>6 DEF SamplingInv, ValidityInv, HasSubsamples
<1>8. QED
  BY <1>4, <1>7 DEF BuildInv

\* constructSRI stores the kept samples and their sub-marks.
LEMMA StoreSubsamplesKeeps ==
  ASSUME BuildInv, StoreSubsamples, UNCHANGED queryVars
  PROVE  BuildInv'
<1>1. /\ phase = "samples" /\ phase' = (IF ix.kind = "sr" THEN "done" ELSE "submarks")
      /\ sPc = "done" /\ ix' = SubIndex
      /\ text' = text /\ sa' = sa /\ base' = base /\ UNCHANGED sVars /\ UNCHANGED vVars /\ stage' = stage
  BY DEF StoreSubsamples, queryVars
<1>2. SubIndex = IndexOn(base, KeptRuns, [o \in DOMAIN SortIndices(Submarks) |-> Submarks[SortIndices(Submarks)[o]]],
                         SortIndices(Submarks))
  BY DEF SubIndex, KeptRuns, Submarks
<1>3. /\ ix'.kind = ix.kind /\ ix'.rate = ix.rate /\ ix'.n = Size(text)
      /\ ix'.bwt = base.bwt /\ ix'.C = base.C /\ ix'.run = base.run
      /\ ix'.sampled = KeptRuns
      /\ ix'.samples = [k \in DOMAIN Ascending(KeptRuns) |-> base.tail[Ascending(KeptRuns)[k]]]
      /\ ix'.marks = [o \in DOMAIN SortIndices(Submarks) |-> Submarks[SortIndices(Submarks)[o]]]
      /\ ix'.markToSample = SortIndices(Submarks)
      /\ DOMAIN ix' = Fields
  BY <1>1, <1>2 DEF IndexOn, Fields
<1>4. SubStored'
  <2>1. KeptRuns' = KeptRuns
    BY <1>1 DEF KeptRuns, sVars
  <2>2. Submarks' = Submarks
    BY <1>1, <2>1 DEF Submarks
  <2>3. HasItems'
    BY <1>1, <1>3 DEF HasItems
  <2>4. QED
    BY <1>3, <1>1, <2>1, <2>2, <2>3 DEF SubStored
<1>5. TextIsBuilt' /\ RIndexItems' = RIndexItems
  BY <1>1 DEF BuildInv, Inputs, TextIsBuilt, RIndexItems
<1>6. SamplingJob(base, ix.rate)' = SamplingJob(base, ix.rate)
  BY <1>1, <1>3 DEF SamplingJob, AsSeq, RequiredSamples
<1>7. ix.kind \in {"sr", "vm", "va"}
  BY <1>1 DEF BuildInv, Inputs, Stages
<1>8. Inputs' /\ ItemsInv' /\ Stages' /\ RIndexInv'
  BY <1>1, <1>3, <1>5, <1>7 DEF BuildInv, Inputs, ItemsInv, Stages, RIndexInv
<1>9. /\ SamplingProofs!IInv' /\ ValidityProofs!IInv' /\ sJob' = sJob /\ sPc' = sPc
      /\ sJob = SamplingJob(base, ix.rate)
  BY <1>1, SamplingKeeps, ValidityKeeps DEF BuildInv, SamplingInv, ValidityInv, sVars
<1>10. ValidityFresh'
  BY <1>1 DEF BuildInv, ValidityInv, ValidityFresh, vVars
<1>11. SamplingInv'
  BY <1>1, <1>4, <1>6, <1>9 DEF SamplingInv
<1>12. ValidityInv'
  BY <1>1, <1>3, <1>7, <1>9, <1>10 DEF ValidityInv
<1>13. QED
  BY <1>8, <1>11, <1>12 DEF BuildInv

\* An index with sub-samples has right marks and covering samples.
LEMMA SubsamplesReady ==
  ASSUME BuildInv, HasSubsamples
  PROVE  /\ TextIsBuilt /\ ItemsAreRight /\ HasItems
         /\ MarksAreRight /\ SamplesCover /\ ix.sampled \subseteq DOMAIN ix.run
         /\ \A k \in ix.sampled : GetSample(k) = SampleOf(k)
<1>1. phase # "base" /\ ix.kind # "r" /\ ix.rate \in Nat \ {0} /\ ix.rate \in Nat
  BY DEF BuildInv, Inputs, Stages, HasSubsamples
<1>2. TextIsBuilt /\ ItemsAreRight
  BY <1>1, ItemsReady
<1>3. SamplingProofs!IInv /\ SamplingDone /\ SubStored /\ HasItems
  BY <1>1 DEF BuildInv, SamplingInv, SamplingDone, SubStored
<1>4. QED
  BY <1>1, <1>2, <1>3, SubServes

\* constructSRIValidMark calls computeSubmarksValidity as it must be called.
LEMMA StartValidityKeeps ==
  ASSUME BuildInv, StartValidity, UNCHANGED queryVars
  PROVE  BuildInv'
<1>1. /\ phase = "submarks" /\ phase' = "validity" /\ vJob' = ValidityJob
      /\ UNCHANGED <<text, sa, ix, base, sKept>> /\ UNCHANGED sVars
      /\ vRead' = vRead /\ vI' = vI /\ vReports' = vReports /\ vPc' = vPc /\ stage' = stage
  BY DEF StartValidity, ValidityJob, data, queryVars, sVars
<1>2. HasSubsamples /\ HasSubsamples'
  BY <1>1 DEF HasSubsamples
<1>3. TextIsBuilt /\ ItemsAreRight /\ HasItems /\ MarksAreRight
  BY <1>2, SubsamplesReady
<1>4. Validity!LegalJob(ValidityJob)
  BY <1>3, ValidityJobIs
<1>5. Validity!LegalJob(vJob)'
  BY <1>1, <1>4 DEF Validity!LegalJob, Validity!StrictlyIncreasing
<1>6. ValidityFresh'
  BY <1>1 DEF BuildInv, ValidityInv, ValidityFresh
<1>7. SamplingProofs!IInv' /\ sJob' = sJob /\ sPc' = sPc /\ ValidityProofs!IInv'
  BY <1>1, <1>5, <1>6, FreshLoopsNext, SamplingKeeps DEF BuildInv, SamplingInv, sVars
<1>8. /\ TextIsBuilt' /\ RIndexItems' = RIndexItems /\ ValidityJob' = ValidityJob
      /\ SamplingJob(base, ix.rate)' = SamplingJob(base, ix.rate)
  BY <1>1, <1>3, StoredStays
<1>9. SubStored' /\ sPc = "done" /\ sJob = SamplingJob(base, ix.rate)
  BY <1>1, <1>2, StoredStays DEF BuildInv, SamplingInv
<1>10. Inputs' /\ ItemsInv' /\ Stages' /\ RIndexInv'
  BY <1>1, <1>8 DEF BuildInv, Inputs, ItemsInv, Stages, RIndexInv
<1>11. SamplingInv'
  BY <1>1, <1>7, <1>8, <1>9 DEF SamplingInv
<1>12. ValidityInv'
  BY <1>1, <1>7, <1>8 DEF ValidityInv
<1>13. QED
  BY <1>10, <1>11, <1>12 DEF BuildInv

\* A step of computeSubmarksValidity keeps what SubmarksValidity_proofs says of it.
LEMMA ValidityStepKeeps ==
  ASSUME BuildInv, ValidityStep, UNCHANGED queryVars
  PROVE  BuildInv'
<1>1. /\ phase = "validity" /\ phase' = phase /\ Validity!Step
      /\ UNCHANGED <<text, sa, ix, base, sKept>> /\ UNCHANGED sVars /\ stage' = stage
  BY DEF ValidityStep, data, queryVars, sVars
<1>2. HasSubsamples
  BY <1>1 DEF HasSubsamples
<1>3. ValidityProofs!IInv' /\ vJob' = vJob /\ SamplingProofs!IInv' /\ sJob' = sJob /\ sPc' = sPc
  BY <1>1, SamplingKeeps, ValidityKeeps DEF BuildInv, SamplingInv, ValidityInv, sVars
<1>4. /\ TextIsBuilt' /\ RIndexItems' = RIndexItems /\ ValidityJob' = ValidityJob
      /\ SamplingJob(base, ix.rate)' = SamplingJob(base, ix.rate)
  BY <1>1, StoredStays DEF BuildInv, Inputs
<1>5. SubStored' /\ sPc = "done" /\ sJob = SamplingJob(base, ix.rate) /\ vJob = ValidityJob
  BY <1>1, <1>2, StoredStays DEF BuildInv, SamplingInv, ValidityInv
<1>6. Inputs' /\ ItemsInv' /\ Stages' /\ RIndexInv'
  BY <1>1, <1>4 DEF BuildInv, Inputs, ItemsInv, Stages, RIndexInv
<1>7. SamplingInv'
  BY <1>1, <1>3, <1>4, <1>5 DEF SamplingInv
<1>8. ValidityInv'
  BY <1>1, <1>3, <1>4, <1>5 DEF ValidityInv
<1>9. QED
  BY <1>6, <1>7, <1>8 DEF BuildInv


\* The reports are stored next to the sub-samples.
LEMMA StoreValidityKeeps ==
  ASSUME BuildInv, StoreValidity, UNCHANGED queryVars
  PROVE  BuildInv'
<1>1. /\ phase = "validity" /\ phase' = "done" /\ vPc = "done"
      /\ ix' = [ix EXCEPT !.invalid = {vReports[e][1] : e \in DOMAIN vReports},
                          !.area    = [e \in 0..(Len(vReports) - 1) |-> vReports[e + 1][2]]]
      /\ text' = text /\ sa' = sa /\ base' = base /\ sKept' = sKept
      /\ UNCHANGED sVars /\ UNCHANGED vVars /\ stage' = stage
  BY DEF StoreValidity, queryVars, sVars
<1>2. HasSubsamples /\ ix.kind \in {"vm", "va"}
  BY <1>1 DEF HasSubsamples, BuildInv, Stages
<1>3. /\ SubStored /\ sPc = "done" /\ sJob = SamplingJob(base, ix.rate) /\ vJob = ValidityJob
  BY <1>1, <1>2 DEF BuildInv, SamplingInv, ValidityInv
<1>4. /\ DOMAIN ix' = Fields
      /\ ix'.kind = ix.kind /\ ix'.rate = ix.rate /\ ix'.n = ix.n
      /\ ix'.bwt = ix.bwt /\ ix'.C = ix.C /\ ix'.run = ix.run
      /\ ix'.sampled = ix.sampled /\ ix'.samples = ix.samples
      /\ ix'.marks = ix.marks /\ ix'.markToSample = ix.markToSample
      /\ ix'.invalid = {vReports[e][1] : e \in DOMAIN vReports}
      /\ ix'.area = [e \in 0..(Len(vReports) - 1) |-> vReports[e + 1][2]]
  <2>1. DOMAIN ix = Fields
    BY <1>3 DEF SubStored
  <2>2. QED
    BY <1>1, <2>1 DEF Fields
<1>5. SubStored'
  <2>1. KeptRuns' = KeptRuns
    BY <1>1 DEF KeptRuns
  <2>2. Submarks' = Submarks
    BY <1>1, <2>1 DEF Submarks
  <2>3. HasItems'
    BY <1>1, <1>3, <1>4 DEF HasItems, SubStored
  <2>4. QED
    BY <1>1, <1>3, <1>4, <2>1, <2>2, <2>3 DEF SubStored
<1>6. TextIsBuilt' /\ RIndexItems' = RIndexItems
  BY <1>1 DEF BuildInv, Inputs, TextIsBuilt, RIndexItems
<1>7. SamplingJob(base, ix.rate)' = SamplingJob(base, ix.rate) /\ ValidityJob' = ValidityJob
  BY <1>1, <1>4 DEF SamplingJob, AsSeq, RequiredSamples, ValidityJob
<1>8. /\ SamplingProofs!IInv' /\ ValidityProofs!IInv' /\ sJob' = sJob /\ sPc' = sPc
      /\ vJob' = vJob /\ vPc' = vPc /\ vReports' = vReports
  BY <1>1, SamplingKeeps, ValidityKeeps DEF BuildInv, SamplingInv, ValidityInv, sVars, vVars
<1>9. Inputs' /\ ItemsInv' /\ Stages' /\ RIndexInv'
  BY <1>1, <1>2, <1>4, <1>6 DEF BuildInv, Inputs, ItemsInv, Stages, RIndexInv
<1>10. SamplingInv'
  BY <1>1, <1>3, <1>5, <1>7, <1>8 DEF SamplingInv
<1>11. ValidityStored'
  BY <1>1, <1>3, <1>4, <1>7, <1>8 DEF ValidityStored
<1>12. ValidityInv'
  BY <1>1, <1>8, <1>11 DEF ValidityInv
<1>13. QED
  BY <1>9, <1>10, <1>12 DEF BuildInv

\* Loading, queries and stuttering leave the construction as it is.
LEMMA RestKeeps ==
  ASSUME BuildInv, UNCHANGED data, UNCHANGED jobVars, stage' # "off" => phase = "done"
  PROVE  BuildInv'
<1>1. /\ UNCHANGED <<text, sa, ix, base, sKept>> /\ phase' = phase
      /\ UNCHANGED sVars /\ UNCHANGED vVars
  BY DEF data, jobVars, sVars
<1>2. /\ SamplingProofs!IInv' /\ ValidityProofs!IInv' /\ sJob' = sJob /\ sPc' = sPc
      /\ vJob' = vJob /\ vPc' = vPc /\ vReports' = vReports
  BY <1>1, SamplingKeeps, ValidityKeeps DEF BuildInv, SamplingInv, ValidityInv, sVars, vVars
<1>3. /\ TextIsBuilt' /\ RIndexItems' = RIndexItems /\ ValidityJob' = ValidityJob
      /\ SamplingJob(base, ix.rate)' = SamplingJob(base, ix.rate)
      /\ (SubStored => SubStored') /\ (AllStored => AllStored')
  BY <1>1, StoredStays DEF BuildInv, Inputs
<1>4. Inputs' /\ ItemsInv' /\ Stages' /\ RIndexInv'
  BY <1>1, <1>3 DEF BuildInv, Inputs, ItemsInv, Stages, RIndexInv
<1>5. (SamplingFresh => SamplingFresh') /\ (ValidityFresh => ValidityFresh')
  BY <1>1 DEF SamplingFresh, ValidityFresh, sVars, vVars
<1>6. HasSubsamples' => HasSubsamples
  BY <1>1 DEF HasSubsamples
<1>7. SamplingInv'
  BY <1>1, <1>2, <1>3, <1>5, <1>6 DEF BuildInv, SamplingInv
<1>8. ValidityStored => ValidityStored'
  BY <1>1, <1>2, <1>3 DEF ValidityStored
<1>9. ValidityInv'
  BY <1>1, <1>2, <1>3, <1>5, <1>8 DEF BuildInv, ValidityInv
<1>10. QED
  BY <1>4, <1>7, <1>9 DEF BuildInv

\* Every step of the system keeps the invariant of the construction.
LEMMA BuildInvStep ==
  ASSUME BuildInv, [SystemNext]_systemVars
  PROVE  BuildInv'
<1>1. stage # "off" => phase = "done"
  BY DEF BuildInv, Stages
<1>2. CASE Build
  <2>1. BuildStep /\ UNCHANGED queryVars
    BY <1>2 DEF Build
  <2>2. QED
    BY <2>1, BuildBaseKeeps, StoreRIndexKeeps, StartSamplingKeeps, SampleStepKeeps,
       StoreSubsamplesKeeps, StartValidityKeeps, ValidityStepKeeps, StoreValidityKeeps
       DEF BuildStep, IndexStep
<1>3. CASE Load
  <2>1. UNCHANGED data /\ UNCHANGED jobVars /\ phase = "done"
    BY <1>3 DEF Load
  <2>2. QED
    BY <2>1, RestKeeps
<1>4. CASE OnIndex(Query) \/ Answering
  <2>1. UNCHANGED data /\ UNCHANGED jobVars
    BY <1>4 DEF OnIndex, Answering, Query, Step, SearchStep, SearchEnd, ToeholdJump, ToeholdReport,
       PhiStep, TakeSample, TakePhi, ReportTrusted, UseSample, Descend, Answer
  <2>2. stage # "off"
    BY <1>4 DEF OnIndex, Answering, Query, Step, SearchStep, SearchEnd, ToeholdJump, ToeholdReport,
       PhiStep, TakeSample, TakePhi, ReportTrusted, UseSample, Descend, Answer, Pending
  <2>3. QED
    BY <1>1, <2>1, <2>2, RestKeeps
<1>5. CASE UNCHANGED systemVars
  <2>1. UNCHANGED data /\ UNCHANGED jobVars /\ stage' = stage
    BY <1>5 DEF systemVars, queryVars
  <2>2. QED
    BY <1>1, <2>1, RestKeeps
<1>6. QED
  BY <1>2, <1>3, <1>4, <1>5 DEF SystemNext

\* A complete index of any class has the items of its text, right marks and
\* samples that cover the text.
LEMMA BuiltHas ==
  ASSUME BuildInv, phase = "done"
  PROVE  /\ TextIsBuilt /\ ItemsAreRight /\ HasItems
         /\ ix.kind \in {"r", "sr", "vm", "va"}
         /\ MarksAreRight /\ SamplesCover /\ ix.sampled \subseteq DOMAIN ix.run
         /\ \A k \in ix.sampled : GetSample(k) = SampleOf(k)
         /\ ix.kind = "r" => \A k \in DOMAIN ix.run : ix.samples[k] = SampleOf(k)
<1>1. TextIsBuilt /\ ItemsAreRight /\ ix.kind \in {"r", "sr", "vm", "va"}
  BY ItemsReady DEF BuildInv, Inputs
<1>2. CASE ix.kind = "r"
  <2>1. AllStored
    BY <1>2 DEF BuildInv, RIndexInv
  <2>2. HasItems
    BY <2>1 DEF AllStored
  <2>3. QED
    BY <1>1, <1>2, <2>1, <2>2, AllServes
<1>3. CASE ix.kind # "r"
  <2>1. HasSubsamples
    BY <1>3 DEF HasSubsamples
  <2>2. QED
    BY <1>1, <1>3, <2>1, SubsamplesReady
<1>4. QED
  BY <1>2, <1>3

\* What construction leaves is right for the queries: the text is indexed, its runs
\* and LF are right, the samples are within reach, and phi is right where trusted.
LEMMA BuiltIsRight ==
  ASSUME BuildInv, phase = "done"
  PROVE  IndexIsRight
<1>1. TextIsBuilt /\ ItemsAreRight /\ ix.kind \in {"r", "sr", "vm", "va"}
  BY BuiltHas
<1>2. /\ HasItems /\ MarksAreRight /\ SamplesCover /\ ix.sampled \subseteq DOMAIN ix.run
      /\ \A k \in ix.sampled : GetSample(k) = SampleOf(k)
      /\ ix.kind = "r" => \A k \in DOMAIN ix.run : ix.samples[k] = SampleOf(k)
  BY BuiltHas
<1>3. TextIsIndexed /\ RunsPartition /\ LFIsRight
  BY <1>1, <1>2, ItemsServe
<1>4. ValidityIsRight
  <2>1. CASE ix.kind \in {"vm", "va"}
    <3>1. ValidityProofs!IInv /\ ValidityStored
      BY <2>1 DEF BuildInv, ValidityInv
    <3>2. QED
      BY <1>1, <1>2, <3>1, ValidityServes
  <2>2. CASE ix.kind \notin {"vm", "va"}
    BY <2>2 DEF ValidityIsRight
  <2>3. QED
    BY <2>1, <2>2
<1>5. SamplesAreRight
  BY <1>2, <1>3, SamplesServe
<1>6. (\A v \in DOMAIN sa : Phi(v) \in [value : DOMAIN sa, valid : BOOLEAN]) /\ PhiRightWhenTrusted
  BY <1>1, <1>2, <1>3, <1>4, PhiTrusted
<1>7. PhiRightPastSamples
  BY <1>2, <1>3, PhiPastSamples
<1>8. QED
  BY <1>1, <1>3, <1>5, <1>6, <1>7 DEF IndexIsRight

-----------------------------------------------------------------------------
(* The theorems. *)

\* Each stage of constructRIndex, constructSRI and constructSRIValidMark finds what
\* the stages before it left: the inductive invariant the theorems below follow from.
THEOREM BuildIsRight == Spec => []BuildInv
<1>1. SystemInit => BuildInv
  BY BuildInvInit
<1>2. BuildInv /\ [SystemNext]_systemVars => BuildInv'
  BY BuildInvStep
<1>3. QED
  BY <1>1, <1>2, PTL DEF Spec

\* What is loaded is right for the queries, whatever the text, the class and the rate.
THEOREM LoadedIsRight == Spec => []LoadedIndexIsRight
<1>1. BuildInv => LoadedIndexIsRight
  <2>1. BuildInv /\ stage = "ready" => phase = "done"
    BY DEF BuildInv, Stages
  <2>2. QED
    BY <2>1, BuiltIsRight DEF LoadedIndexIsRight
<1>2. QED
  BY <1>1, BuildIsRight, PTL

\* The calls and the registers of the two loops have their types at every stage.
LEMMA LoopTypes ==
  ASSUME BuildInv
  PROVE  /\ Sampling!LegalJob(sJob) /\ Sampling!TypeOK
         /\ Validity!LegalJob(vJob) /\ Validity!TypeOK
<1>1. SamplingProofs!TypeOK /\ ValidityProofs!TypeOK
  BY DEF BuildInv, SamplingInv, ValidityInv, SamplingProofs!IInv, ValidityProofs!IInv
<1>2. SamplingProofs!LegalJob(sJob) <=> Sampling!LegalJob(sJob)
  BY DEF Sampling!LegalJob, SamplingProofs!LegalJob, Sampling!Increasing,
     SamplingProofs!Increasing, Sampling!Decreasing, SamplingProofs!Decreasing
<1>3. ValidityProofs!LegalJob(vJob) <=> Validity!LegalJob(vJob)
  BY DEF Validity!LegalJob, ValidityProofs!LegalJob, Validity!StrictlyIncreasing,
     ValidityProofs!StrictlyIncreasing
<1>4. Sampling!LegalJob(sJob) /\ Sampling!TypeOK
  BY <1>1, <1>2 DEF Sampling!TypeOK, SamplingProofs!TypeOK
<1>5. Validity!LegalJob(vJob) /\ Validity!TypeOK
  BY <1>1, <1>3 DEF Validity!TypeOK, ValidityProofs!TypeOK
<1>6. QED
  BY <1>4, <1>5

\* The construction is well typed at every stage: neither loop leaves its lists.
THEOREM BuildIsTyped == Spec => []BuildTypeOK
<1>1. BuildInv => BuildTypeOK
  BY LoopTypes DEF BuildTypeOK, BuildInv, Stages
<1>2. QED
  BY <1>1, BuildIsRight, PTL

\* computeSampling and computeSubmarksValidity are called with what they were
\* written for: sorted samples, and sub-marks that are marks with the first among them.
THEOREM CallsAreLegal == Spec => []LoopsCalledLegally
<1>1. BuildInv => LoopsCalledLegally
  BY LoopTypes DEF LoopsCalledLegally
<1>2. QED
  BY <1>1, BuildIsRight, PTL

\* The first and the last mark in the text survive the sub-sampling of any index.
THEOREM ExtremesSurvive == Spec => []ExtremeMarksSurvive
<1>1. ASSUME BuildInv, phase = "done",
             NEW m \in {base.head[k] : k \in DOMAIN base.head},
             \/ \A x \in {base.head[k] : k \in DOMAIN base.head} : m <= x
             \/ \A x \in {base.head[k] : k \in DOMAIN base.head} : x <= m
      PROVE  m \in {ix.marks[o] : o \in DOMAIN ix.marks}
  <2>1. TextIsBuilt /\ ItemsAreRight /\ HasItems /\ MarksAreRight
    BY <1>1, BuiltHas
  <2>2. /\ TextIsIndexed /\ RunsPartition
        /\ \A k \in DOMAIN ix.run : MarkOf(k) = base.head[k]
    BY <2>1, ItemsServe
  <2>3. DOMAIN base.head = DOMAIN ix.run
    BY <2>1 DEF ItemsAreRight, HasItems
  <2>4. \A k \in DOMAIN ix.run : MarkOf(k) \in Int
    BY <2>2, MarkTypes
  <2> DEFINE w == Size(ix.marks)
  <2>5. /\ 0 \in DOMAIN ix.marks /\ w - 1 \in DOMAIN ix.marks
        /\ \A o \in DOMAIN ix.marks : \E k \in DOMAIN ix.run : ix.marks[o] = MarkOf(k)
        /\ \A k \in DOMAIN ix.run : ix.marks[0] <= MarkOf(k) /\ MarkOf(k) <= ix.marks[w - 1]
    BY <2>1 DEF MarksAreRight
  <2> HIDE DEF w
  <2>6. PICK k \in DOMAIN ix.run : m = MarkOf(k)
    BY <1>1, <2>2, <2>3
  <2>7. PICK a \in DOMAIN ix.run : ix.marks[0] = MarkOf(a)
    BY <2>5
  <2>8. PICK b \in DOMAIN ix.run : ix.marks[w - 1] = MarkOf(b)
    BY <2>5
  <2>9. m <= MarkOf(a) \/ MarkOf(b) <= m
    BY <1>1, <2>2, <2>3, <2>7, <2>8
  <2>10. MarkOf(a) <= m /\ m <= MarkOf(b)
    BY <2>5, <2>6, <2>7, <2>8
  <2>11. m = ix.marks[0] \/ m = ix.marks[w - 1]
    BY <2>4, <2>6, <2>7, <2>8, <2>9, <2>10
  <2>12. QED
    BY <2>5, <2>11
<1>2. BuildInv => ExtremeMarksSurvive
  BY <1>1 DEF ExtremeMarksSurvive
<1>3. QED
  BY <1>2, BuildIsRight, PTL

\* From the tail of any run of a sub-sampled index fewer than rate LF steps lead to
\* a sampled tail: the distance computeSampling keeps between samples is enough.
THEOREM SamplesWithinReach == Spec => []SampleWithinRate
<1>1. ASSUME BuildInv, phase = "done", ix.kind # "r", NEW k \in DOMAIN base.tail
      PROVE  \E m \in ix.sampled :
               base.tail[m] <= base.tail[k] /\ base.tail[k] - base.tail[m] < ix.rate
  <2>1. TextIsBuilt /\ ItemsAreRight /\ HasItems /\ SamplesCover /\ ix.sampled \subseteq DOMAIN ix.run
    BY <1>1, BuiltHas
  <2>2. /\ TextIsIndexed /\ RunsPartition
        /\ \A j \in DOMAIN ix.run : SampleOf(j) = base.tail[j]
    BY <2>1, ItemsServe
  <2>3. DOMAIN base.tail = DOMAIN ix.run
    BY <2>1 DEF ItemsAreRight, HasItems
  <2>4. \A j \in DOMAIN ix.run : base.tail[j] \in Int
    <3> TAKE j \in DOMAIN ix.run
    <3>1. SampleOf(j) \in 0..(ix.n - 1)
      BY <2>2, MarkTypes
    <3>2. QED
      BY <2>2, <3>1
  <2>5. /\ ix.rate \in Nat \ {0}
        /\ \/ k \in ix.sampled
           \/ \E m \in ix.sampled, j \in DOMAIN ix.run :
                /\ SampleOf(m) < SampleOf(k) /\ SampleOf(k) < SampleOf(j)
                /\ SampleOf(j) - SampleOf(m) <= ix.rate
    BY <1>1, <2>1, <2>3 DEF SamplesCover
  <2>6. CASE k \in ix.sampled
    <3>1. base.tail[k] <= base.tail[k] /\ base.tail[k] - base.tail[k] < ix.rate
      BY <2>3, <2>4, <2>5
    <3>2. QED
      BY <2>6, <3>1
  <2>7. ASSUME NEW m \in ix.sampled, NEW j \in DOMAIN ix.run,
               SampleOf(m) < SampleOf(k), SampleOf(k) < SampleOf(j),
               SampleOf(j) - SampleOf(m) <= ix.rate
        PROVE  base.tail[m] <= base.tail[k] /\ base.tail[k] - base.tail[m] < ix.rate
    <3>1. m \in DOMAIN ix.run /\ k \in DOMAIN ix.run
      BY <2>1, <2>3
    <3>2. base.tail[m] < base.tail[k] /\ base.tail[k] < base.tail[j]
          /\ base.tail[j] - base.tail[m] <= ix.rate
      BY <2>2, <2>7, <3>1
    <3>3. base.tail[m] \in Int /\ base.tail[k] \in Int /\ base.tail[j] \in Int /\ ix.rate \in Int
      BY <2>4, <2>5, <3>1
    <3>4. QED
      BY <3>2, <3>3
  <2>8. QED
    BY <2>5, <2>6, <2>7
<1>2. BuildInv => SampleWithinRate
  BY <1>1 DEF SampleWithinRate
<1>3. QED
  BY <1>2, BuildIsRight, PTL

-----------------------------------------------------------------------------
(* Construction and queries together. *)

\* A query is asked only of an index whose construction has ended.
SystemInv == QueryInv /\ (stage # "off" => phase = "done")

\* Construction reads and writes the index, never the text or its suffix array,
\* and is over when its last phase is.
LEMMA BuildIs ==
  ASSUME Build
  PROVE  /\ phase # "done" /\ text' = text /\ sa' = sa /\ UNCHANGED queryVars
<1>1. BuildStep /\ UNCHANGED queryVars
  BY DEF Build
<1>2. phase # "done" /\ text' = text /\ sa' = sa
  BY <1>1 DEF BuildStep, IndexStep, BuildBase,
     StoreRIndex, StartSampling, SampleStep,
     StoreSubsamples, StartValidity, ValidityStep,
     StoreValidity, data
<1>3. QED
  BY <1>1, <1>2

\* Before the index is loaded QueryInv only says that no query was asked.
LEMMA OffKeeps ==
  ASSUME QueryInv, stage = "off", text' = text, sa' = sa,
         UNCHANGED <<query, left, range, toehold, jump, frames, value, valid, out, found>>,
         stage' \in {"off", "ready"}, stage' # "off" => IndexIsRight'
  PROVE  QueryInv'
<1>1. op' = op /\ pat' = pat
  BY DEF query
<1>2. Typed' /\ ReportInv' /\ BoundInv'
  BY <1>1 DEF QueryInv, Typed, ReportInv, ReportsSuffixArray, BoundInv
<1>3. SearchInv' /\ ToeholdInv' /\ FoundInv' /\ JumpInv' /\ WalkInv'
  BY DEF SearchInv, ToeholdInv, FoundInv, JumpInv, WalkInv
<1>4. QED
  BY <1>2, <1>3 DEF QueryInv

\* Before the construction no query is pending: the invariant holds of idle registers.
LEMMA InvInit ==
  ASSUME SystemInit
  PROVE  SystemInv
<1>1. Init
  BY DEF SystemInit
<1>2. Typed
  <2>1. /\ range \in [start : Nat, end : Nat] /\ found \in [start : Nat, end : Nat]
        /\ toehold \in [step : Nat, c : Nat, rnk : Nat, next : Nat]
        /\ jump \in [rnk : Nat, isEnd : BOOLEAN, next : Nat, jumps : Nat]
    BY <1>1 DEF Init, NoRange, NoToehold, NoJump
  <2>2. /\ frames \in Seq(Frame) /\ DOMAIN frames = {} /\ out \in Seq(Nat)
        /\ pat \in Seq(Nat) /\ left \in 0..Len(pat)
    BY <1>1 DEF Init
  <2>3. QED
    BY <1>1, <2>1, <2>2 DEF Init, Typed
<1>3. ReportInv /\ BoundInv
  BY <1>1 DEF Init, ReportInv, ReportsSuffixArray, BoundInv, NoJump, NoRange
<1>4. SearchInv /\ ToeholdInv /\ FoundInv /\ JumpInv /\ WalkInv /\ stage = "off"
  BY <1>1 DEF Init, SearchInv, ToeholdInv, FoundInv, JumpInv, WalkInv
<1>5. QED
  BY <1>2, <1>3, <1>4 DEF SystemInv, QueryInv

\* Every step of the construction, the load and the queries keeps the invariant, as
\* long as what it loads is right (LoadedIndexIsRight of the state it leads to).
LEMMA InvStep ==
  ASSUME SystemInv, LoadedIndexIsRight', [SystemNext]_systemVars
  PROVE  SystemInv'
<1>1. QueryInv /\ (stage # "off" => phase = "done")
  BY DEF SystemInv
<1>2. CASE Build
  <2>1. stage = "off" /\ stage' = "off" /\ text' = text /\ sa' = sa
        /\ UNCHANGED <<query, left, range, toehold, jump, frames, value, valid, out, found>>
    BY <1>1, <1>2, BuildIs DEF queryVars
  <2>2. QED
    BY <1>1, <2>1, OffKeeps DEF SystemInv
<1>3. CASE Load
  <2>1. stage = "off" /\ stage' = "ready" /\ text' = text /\ sa' = sa /\ phase' = "done"
        /\ UNCHANGED <<query, left, range, toehold, jump, frames, value, valid, out, found>>
    BY <1>3 DEF Load, data, jobVars
  <2>2. IndexIsRight'
    BY <2>1 DEF LoadedIndexIsRight
  <2>3. QED
    BY <1>1, <2>1, <2>2, OffKeeps DEF SystemInv
<1>4. CASE OnIndex(Query) \/ Answering
  <2>1. Next /\ phase' = phase
    BY <1>4 DEF OnIndex, Answering, Next, jobVars
  <2>2. stage # "off"
    BY <2>1 DEF Next, Query, Step, SearchStep, SearchEnd, ToeholdJump, ToeholdReport, PhiStep,
       TakeSample, TakePhi, ReportTrusted, UseSample, Descend, Answer, Pending
  <2>3. QueryInv'
    BY <1>1, <2>1, StepKeeps
  <2>4. QED
    BY <1>1, <2>1, <2>2, <2>3 DEF SystemInv
<1>5. CASE UNCHANGED systemVars
  <2>1. UNCHANGED vars /\ stage' = stage /\ phase' = phase
    BY <1>5 DEF systemVars, queryVars, jobVars, vars
  <2>2. QED
    BY <1>1, <2>1, NothingKeeps DEF SystemInv
<1>6. QED
  BY <1>2, <1>3, <1>4, <1>5 DEF SystemNext

\* A query is asked of an index that was built, and QueryInv holds: the loaded
\* index is right.
THEOREM QueriesKeepInvariant == Spec => []SystemInv
<1>1. SystemInit => SystemInv
  BY InvInit
<1>2. SystemInv /\ LoadedIndexIsRight' /\ [SystemNext]_systemVars => SystemInv'
  BY InvStep
<1>3. QED
  BY <1>1, <1>2, LoadedIsRight, PTL DEF Spec

\* What every register of a query stands for, from the search to the walk: the
\* inductive invariant the theorems below follow from.
THEOREM QueriesAreRight == Spec => []QueryInv
<1>1. SystemInv => QueryInv
  BY DEF SystemInv
<1>2. QED
  BY <1>1, QueriesKeepInvariant, PTL

\* Construction and queries are well typed: every register has its type at every
\* step, and no run of a pending call is empty.
THEOREM SystemIsTyped == Spec => []SystemTypeOK
<1>1. SystemInv => TypeOK
  BY SafetyFollows DEF SystemInv
<1>2. TypeOK /\ BuildTypeOK => SystemTypeOK
  BY DEF SystemTypeOK
<1>3. QED
  BY <1>1, <1>2, QueriesKeepInvariant, BuildIsTyped, PTL

\* The backward search of RIndexBase: after each symbol the range is exactly the
\* suffixes that start with the symbols searched so far.
THEOREM SearchIsRight == Spec => []RangeIsSuffix
<1>1. SystemInv => RangeIsSuffix
  BY SafetyFollows DEF SystemInv
<1>2. QED
  BY <1>1, QueriesKeepInvariant, PTL

\* Every value a Locate reports, toehold, sample or phi, is the suffix-array
\* entry of its position.
THEOREM ReportsAreRight == Spec => []ReportsSuffixArray
<1>1. SystemInv => ReportsSuffixArray
  BY SafetyFollows DEF SystemInv
<1>2. QED
  BY <1>1, QueriesKeepInvariant, PTL

\* The recursion of phi.h never loses a position or visits one twice: its
\* pending runs are the images of exactly the positions not reported yet.
THEOREM NothingIsLost == Spec => []PendingIsRest
<1>1. SystemInv => PendingIsRest
  BY SafetyFollows DEF SystemInv
<1>2. QED
  BY <1>1, QueriesKeepInvariant, PTL

\* A value trusted by its validity flag or by the level limit is right.
THEOREM TrustedValuesAreRight == Spec => []TrustIsRight
<1>1. SystemInv => TrustIsRight
  BY SafetyFollows DEF SystemInv
<1>2. QED
  BY <1>1, QueriesKeepInvariant, PTL

\* The loop of ComputeSAValue, which has no bound of its own, makes fewer LF
\* steps than the sampling rate.
THEOREM ToeholdLoopEnds == Spec => []ToeholdBounded
<1>1. SystemInv => ToeholdBounded
  BY SafetyFollows DEF SystemInv
<1>2. QED
  BY <1>1, QueriesKeepInvariant, PTL

-----------------------------------------------------------------------------
(* The refinement of LocateSpec. *)

\* What the range found says of the occurrences of the pattern.
LEMMA FoundSays ==
  ASSUME QueryInv, stage \in {"toehold", "phi", "answered"}
  PROVE  /\ TextIsIndexed /\ found \in [start : Nat, end : Nat]
         /\ found.start <= found.end /\ found.end <= ix.n
         /\ \A p \in DOMAIN sa : InRange(found, p) <=> sa[p] \in Occurrences(text, pat)
  BY IndexFacts DEF QueryInv, Typed, FoundInv

\* The entry reported next is an occurrence that was not reported yet.
LEMMA NextIsNew ==
  ASSUME QueryInv, stage \in {"toehold", "phi"}, found.start <= NextPosition,
         Len(out) \in Nat, Len(out) <= found.end - found.start
  PROVE  /\ sa[NextPosition] \in Occurrences(text, pat)
         /\ sa[NextPosition] \notin {out[k] : k \in DOMAIN out}
<1>1. /\ TextIsIndexed /\ found.start \in Nat /\ found.end \in Nat /\ found.end <= ix.n
      /\ ReportsSuffixArray /\ out \in Seq(Nat)
  BY IndexFacts DEF QueryInv, Typed, FoundInv, ReportInv
<1>2. DOMAIN sa = 0..(ix.n - 1) /\ ix.n \in Nat /\ \A p, q \in DOMAIN sa : sa[p] = sa[q] => p = q
  BY <1>1, TextSize DEF TextIsIndexed
<1> DEFINE next == NextPosition
<1>3. next \in Int /\ next = found.end - 1 - Len(out) /\ next \in DOMAIN sa
      /\ InRange(found, next)
  BY <1>1, <1>2 DEF NextPosition, InRange
<1>4. ASSUME NEW k \in DOMAIN out PROVE out[k] # sa[next]
  <2>1. out[k] = sa[found.end - k]
    BY <1>1 DEF ReportsSuffixArray
  <2>2. k \in 1..Len(out) /\ k \in Nat
    BY <1>1
  <2> HIDE DEF next
  <2>3. found.end - k \in DOMAIN sa /\ found.end - k # next
    BY <1>1, <1>2, <1>3, <2>2
  <2>4. QED
    BY <1>2, <1>3, <2>1, <2>3
<1>5. QED
  BY <1>3, <1>4, FoundSays

\* When every position of the range was reported, every occurrence was.
LEMMA AllReported ==
  ASSUME TextIsIndexed, NEW rng \in [start : Nat, end : Nat],
         rng.start <= rng.end, rng.end <= ix.n, NEW occ \in SUBSET DOMAIN text,
         \A p \in DOMAIN sa : InRange(rng, p) <=> sa[p] \in occ,
         NEW o \in Seq(Nat), Len(o) = rng.end - rng.start,
         \A k \in DOMAIN o : o[k] = sa[rng.end - k]
  PROVE  {o[k] : k \in DOMAIN o} = occ
<1>1. /\ rng.start \in Nat /\ rng.end \in Nat
      /\ DOMAIN sa = 0..(ix.n - 1) /\ ix.n \in Nat /\ DOMAIN o = 1..(rng.end - rng.start)
  BY TextSize
<1>2. ASSUME NEW k \in DOMAIN o PROVE o[k] \in occ
  <2>1. rng.end - k \in DOMAIN sa /\ InRange(rng, rng.end - k)
    BY <1>1 DEF InRange
  <2>2. QED
    BY <2>1
<1>3. ASSUME NEW v \in occ PROVE \E k \in DOMAIN o : o[k] = v
  <2>1. PICK p \in rng.start .. (rng.end - 1) : p \in DOMAIN sa /\ sa[p] = v
    BY RangeCounts
  <2>2. rng.end - p \in DOMAIN o /\ rng.end - (rng.end - p) = p
    BY <1>1
  <2>3. QED
    BY <2>1, <2>2
<1>4. QED
  BY <1>2, <1>3

\* LocateSpec counts and looks for occurrences with the same operators.
LEMMA SameOperators ==
  /\ \A t, p : Promise!Occurrences(t, p) = Occurrences(t, p)
  /\ \A t, m : Promise!Patterns(t, m) = Patterns(t, m)
  /\ \A S : Promise!Cardinality(S) = Cardinality(S)
<1>1. \A t, p : Promise!Occurrences(t, p) = Occurrences(t, p)
  BY DEF Promise!Occurrences, Occurrences
<1>2. \A t, m : Promise!Patterns(t, m) = Patterns(t, m)
  BY DEF Promise!Patterns, Patterns
<1>3. ASSUME NEW S PROVE Promise!Cardinality(S) = Cardinality(S)
  BY DEF Promise!Cardinality, Cardinality
<1>4. QED
  BY <1>1, <1>2, <1>3

\* The state of LocateSpec and its answer to a Count.
SpecState == IF stage \in {"off", "ready", "answered"} THEN "idle" ELSE op
SpecCount == IF op = "count" /\ stage = "answered" THEN found.end - found.start ELSE 0

\* A step that reports the entry of the next position is a Report of LocateSpec.
LEMMA ReportImplements ==
  ASSUME QueryInv, stage \in {"toehold", "phi"}, stage' = "phi", op = "locate",
         found.start <= NextPosition, Len(out) \in Nat, Len(out) <= found.end - found.start,
         out' = Append(out, sa[NextPosition]), text' = text, UNCHANGED query
  PROVE  Promise!Report
<1>1. op' = op /\ pat' = pat
  BY DEF query
<1>2. SpecState = "locate" /\ SpecState' = SpecState /\ SpecCount' = SpecCount
  BY <1>1 DEF SpecState, SpecCount
<1>3. \E v \in Promise!Occurrences(text, pat) \ Promise!Reported : out' = Append(out, v)
  BY NextIsNew, SameOperators DEF Promise!Reported
<1>4. QED
  BY <1>1, <1>2, <1>3 DEF Promise!Report, SpecState, SpecCount

\* A step of the search or the walk that reports nothing is not seen.
LEMMA SilentStep ==
  ASSUME stage \in {"search", "toehold", "phi"}, stage' \in {"search", "toehold", "phi"},
         out' = out, text' = text, UNCHANGED query
  PROVE  UNCHANGED Promise!vars
<1>1. op' = op /\ pat' = pat
  BY DEF query
<1>2. SpecState' = SpecState /\ SpecCount' = SpecCount
  BY <1>1 DEF SpecState, SpecCount
<1>3. QED
  BY <1>1, <1>2 DEF Promise!vars, SpecState, SpecCount

\* A query that is answered answers what LocateSpec asks for.
LEMMA AnswerImplements ==
  ASSUME QueryInv, QueryInv', stage \in {"search", "phi"}, stage' = "answered",
         stage = "phi" => op = "locate",
         out' = out, UNCHANGED data, UNCHANGED query
  PROVE  Promise!AnswerLocate \/ Promise!AnswerCount
<1>1. /\ op' = op /\ pat' = pat /\ op \in {"locate", "count"}
      /\ text' = text /\ sa' = sa /\ ix' = ix
  BY DEF data, query, QueryInv, Typed
<1>2. SpecState = op /\ SpecState' = "idle" /\ SpecCount = 0
  BY <1>1 DEF SpecState, SpecCount
<1> DEFINE occ == Occurrences(text, pat)
<1>3. /\ TextIsIndexed /\ found' \in [start : Nat, end : Nat]
      /\ found'.start <= found'.end /\ found'.end <= ix.n
      /\ \A p \in DOMAIN sa : InRange(found', p) <=> sa[p] \in occ
      /\ out \in Seq(Nat) /\ \A k \in DOMAIN out : out[k] = sa[found'.end - k]
      /\ op = "locate" => Len(out) = found'.end - found'.start
  <2>1. TextIsIndexed
    BY IndexFacts DEF QueryInv
  <2>2. /\ found' \in [start : Nat, end : Nat]
        /\ found'.start <= found'.end /\ found'.end <= ix.n
        /\ \A p \in DOMAIN sa : InRange(found', p) <=> sa[p] \in occ
    BY <1>1 DEF QueryInv, Typed, FoundInv, InRange
  <2>3. /\ out \in Seq(Nat) /\ \A k \in DOMAIN out : out[k] = sa[found'.end - k]
        /\ op = "locate" => Len(out) = found'.end - found'.start
    BY <1>1 DEF QueryInv, Typed, ReportInv, ReportsSuffixArray
  <2>4. QED
    BY <2>1, <2>2, <2>3
<1>4. occ \in SUBSET DOMAIN text
  BY DEF Occurrences
<1> HIDE DEF occ
<1>5. CASE op = "locate"
  <2>1. SpecCount' = 0
    BY <1>1, <1>5 DEF SpecCount
  <2>2. {out[k] : k \in DOMAIN out} = occ
    BY <1>3, <1>4, <1>5, AllReported
  <2>3. Promise!Reported = Promise!Occurrences(text, pat)
    BY <2>2, SameOperators DEF Promise!Reported, occ
  <2>4. Promise!AnswerLocate
    BY <1>1, <1>2, <1>5, <2>1, <2>3 DEF Promise!AnswerLocate, SpecState, SpecCount
  <2>5. QED
    BY <2>4
<1>6. CASE op = "count"
  <2>1. Cardinality(occ) = found'.end - found'.start
    BY <1>3, <1>4, RangeCounts
  <2>2. SpecCount' = Promise!Cardinality(Promise!Occurrences(text, pat))
    BY <1>1, <1>6, <2>1, SameOperators DEF SpecCount, occ
  <2>3. Promise!AnswerCount
    BY <1>1, <1>2, <1>6, <2>2 DEF Promise!AnswerCount, SpecState, SpecCount
  <2>4. QED
    BY <2>3
<1>7. QED
  BY <1>1, <1>5, <1>6


\* Every step of a query is a step of LocateSpec or not seen by it.
LEMMA StepImplements ==
  ASSUME QueryInv, QueryInv', Next
  PROVE  [Promise!Next]_(Promise!vars)
<1>1. CASE Query
  <2>1. /\ stage \in {"ready", "answered"} /\ stage' = "search" /\ op' \in {"locate", "count"}
        /\ pat' \in Patterns(text, MaxPattern) /\ out' = <<>> /\ text' = text
    BY <1>1 DEF Query, data
  <2>2. SpecState = "idle" /\ SpecState' = op' /\ SpecCount' = 0
    BY <2>1 DEF SpecState, SpecCount
  <2>3. Promise!Query
    BY <2>1, <2>2, SameOperators DEF Promise!Query, SpecState, SpecCount
  <2>4. QED
    BY <2>3 DEF Promise!Next
<1>2. CASE SearchStep
  <2>1. stage = "search" /\ stage' = "search" /\ out' = out /\ text' = text /\ UNCHANGED query
    BY <1>2 DEF SearchStep, data
  <2>2. QED
    BY <2>1, SilentStep
<1>3. CASE SearchEnd
  <2>1. /\ stage = "search" /\ stage' \in {"answered", "toehold"} /\ out' = out
        /\ UNCHANGED data /\ text' = text /\ UNCHANGED query
    BY <1>3 DEF SearchEnd, data
  <2>2. CASE stage' = "answered"
    BY <2>1, <2>2, AnswerImplements DEF Promise!Next
  <2>3. CASE stage' = "toehold"
    BY <2>1, <2>3, SilentStep
  <2>4. QED
    BY <2>1, <2>2, <2>3
<1>4. CASE ToeholdJump
  <2>1. stage = "toehold" /\ stage' = "toehold" /\ out' = out /\ text' = text /\ UNCHANGED query
    BY <1>4 DEF ToeholdJump, data
  <2>2. QED
    BY <2>1, SilentStep
<1>5. CASE ToeholdReport
  <2>1. stage = "toehold" /\ stage' = "phi" /\ text' = text /\ UNCHANGED query
    BY <1>5 DEF ToeholdReport, data
  <2>2. op = "locate" /\ out = <<>> /\ found.start < found.end
        /\ found.start \in Nat /\ found.end \in Nat
    BY <2>1 DEF QueryInv, JumpInv, IsEmpty, Typed
  <2>3. out' = <<sa[found.end - 1]>>
    BY <1>5, ToeholdReportKeeps
  <2>4. Len(out) = 0 /\ NextPosition = found.end - 1 /\ found.start <= NextPosition
    BY <2>2 DEF NextPosition
  <2>5. out' = Append(out, sa[NextPosition])
    BY <2>2, <2>3, <2>4
  <2>6. Len(out) \in Nat /\ Len(out) <= found.end - found.start
    BY <2>2, <2>4
  <2>7. Promise!Report
    BY <2>1, <2>2, <2>4, <2>5, <2>6, ReportImplements
  <2>8. QED
    BY <2>7 DEF Promise!Next
<1>6. CASE PhiStep \/ TakeSample \/ TakePhi \/ ReportTrusted
  <2>1. stage = "phi" /\ stage' = "phi" /\ text' = text /\ UNCHANGED query
    BY <1>6 DEF PhiStep, TakeSample, TakePhi, ReportTrusted, Pending, data
  <2>2. out' = Append(out, sa[NextPosition])
    BY <1>6, PhiStepKeeps, TakeSampleKeeps, TakePhiKeeps, ReportTrustedKeeps
  <2>3. found.start <= NextPosition
    <3>1. CASE PhiStep
      BY <3>1, PhiStepKeeps
    <3>2. CASE TakeSample \/ TakePhi \/ ReportTrusted
      BY <3>2, RunFacts DEF TakeSample, TakePhi, ReportTrusted
    <3>3. QED
      BY <1>6, <3>1, <3>2
  <2>4. Promise!Report
    BY <2>1, <2>2, <2>3, WalkFacts, ReportImplements
  <2>5. QED
    BY <2>4 DEF Promise!Next
<1>7. CASE UseSample \/ Descend
  <2>1. stage = "phi" /\ stage' = "phi" /\ out' = out /\ text' = text /\ UNCHANGED query
    BY <1>7 DEF UseSample, Descend, Pending, data
  <2>2. QED
    BY <2>1, SilentStep
<1>8. CASE Answer
  <2>1. stage = "phi" /\ stage' = "answered" /\ out' = out /\ UNCHANGED data /\ UNCHANGED query
    BY <1>8 DEF Answer
  <2>2. op = "locate"
    BY <2>1, WalkFacts
  <2>3. QED
    BY <2>1, <2>2, AnswerImplements DEF Promise!Next
<1>9. QED
  BY <1>1, <1>2, <1>3, <1>4, <1>5, <1>6, <1>7, <1>8 DEF Next, Step

\* The index from its input to its answers implements LocateSpec: a Locate
\* reports every occurrence once and nothing else, a Count returns their number.
THEOREM Implements == Spec => ImplementsPromise
<1>1. SystemInit => Promise!Init
  BY DEF SystemInit, Init, Promise!Init
<1>2. ASSUME SystemInv, SystemInv', [SystemNext]_systemVars
      PROVE  [Promise!Next]_(Promise!vars)
  <2>1. QueryInv /\ QueryInv' /\ (stage # "off" => phase = "done")
    BY <1>2 DEF SystemInv
  <2>2. CASE Build \/ Load \/ UNCHANGED systemVars
    <3>1. /\ text' = text /\ pat' = pat /\ out' = out /\ op' = op /\ found' = found
          /\ stage' = stage \/ (stage = "off" /\ stage' = "ready")
      BY <2>2, BuildIs DEF Load, systemVars, queryVars, data, query
    <3>2. SpecState' = SpecState /\ SpecCount' = SpecCount
      BY <3>1 DEF SpecState, SpecCount
    <3>3. QED
      BY <3>1, <3>2 DEF Promise!vars, SpecState, SpecCount
  <2>3. CASE OnIndex(Query) \/ Answering
    <3>1. Next
      BY <2>3 DEF OnIndex, Answering, Next
    <3>2. QED
      BY <2>1, <3>1, StepImplements
  <2>4. QED
    BY <1>2, <2>2, <2>3 DEF SystemNext
<1>3. QED
  BY <1>1, <1>2, QueriesKeepInvariant, PTL DEF Spec, ImplementsPromise, Promise!Spec
=============================================================================
