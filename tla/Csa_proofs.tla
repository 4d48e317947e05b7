------------------------------ MODULE Csa_proofs ------------------------------
(***************************************************************************)
(* Proofs about the psi-based indexes, for every text, class, rate and     *)
(* pattern.  What the construction leaves comes first: the items, the kept *)
(* samples in the three layouts, and the validity of the marks (BuildInv,  *)
(* CsaIsBuiltRight).  On that rests phi: where it is trusted it is right.  *)
(* Then the queries: the backward search, the toehold and the stack of the *)
(* walk, with one lemma per action (QueryInv, StepKeeps).  What was built  *)
(* is what the queries take for granted (IndexBecomesRight); and the       *)
(* whole, from the input to the answers, implements LocateSpec             *)
(* (CsaImplementsPromise).                                                 *)
(***************************************************************************)
EXTENDS CsaInvariant, Csa, TextLemmas

-----------------------------------------------------------------------------
(* The text, its suffix array and its BWT as the construction has them.    *)

-----------------------------------------------------------------------------
(* The two loops that the construction runs.                               *)

SamplingProofs == INSTANCE Subsampling_proofs WITH
  Jobs <- {}, job <- sJob, kept <- sKept, last <- sLast, prev <- sPrev, pc <- sPc

ValidityProofs == INSTANCE SubmarksValidity_proofs WITH
  Jobs <- {}, job <- vJob, read <- vRead, i <- vI, validity <- vReports, pc <- vPc

\* The registers of the loops before they start.
SamplingFresh == sKept = {} /\ sLast = 1 /\ sPrev = 2 /\ sPc = "first"
ValidityFresh == vRead = 0 /\ vI = 0 /\ vReports = <<>> /\ vPc = "start"

\* A loop that has not started satisfies its invariant, now ...
LEMMA FreshLoops ==
  /\ SamplingFresh /\ Sampling!LegalJob(sJob) => SamplingProofs!IInv
  /\ ValidityFresh /\ Validity!LegalJob(vJob) => ValidityProofs!IInv
<1>1. ASSUME SamplingFresh, Sampling!LegalJob(sJob)
      PROVE  SamplingProofs!IInv
  <2>1. SamplingProofs!LegalJob(sJob)
    BY <1>1 DEF Sampling!LegalJob, SamplingProofs!LegalJob, Sampling!Increasing,
       SamplingProofs!Increasing, Sampling!Decreasing, SamplingProofs!Decreasing
  <2>2. QED
    BY <1>1, <2>1 DEF SamplingFresh, SamplingProofs!IInv, SamplingProofs!TypeOK,
       SamplingProofs!Frontier, SamplingProofs!GapBounded, SamplingProofs!Justified
<1>2. ASSUME ValidityFresh, Validity!LegalJob(vJob)
      PROVE  ValidityProofs!IInv
  <2>1. ValidityProofs!LegalJob(vJob)
    BY <1>2 DEF Validity!LegalJob, ValidityProofs!LegalJob, Validity!StrictlyIncreasing,
       ValidityProofs!StrictlyIncreasing
  <2>2. ValidityProofs!TypeOK
    BY <1>2, <2>1 DEF ValidityFresh, ValidityProofs!TypeOK, ValidityProofs!LegalJob
  <2>3. QED
    BY <1>2, <2>2 DEF ValidityFresh, ValidityProofs!IInv,
       ValidityProofs!Position, ValidityProofs!ReportsPassed, ValidityProofs!ReportsSound,
       ValidityProofs!PassedReported, ValidityProofs!InOrder, ValidityProofs!Passed
<1>3. QED
  BY <1>1, <1>2

\* ... and after a step that leads there.
LEMMA FreshLoopsNext ==
  /\ SamplingFresh' /\ Sampling!LegalJob(sJob)' => SamplingProofs!IInv'
  /\ ValidityFresh' /\ Validity!LegalJob(vJob)' => ValidityProofs!IInv'
<1>1. ASSUME SamplingFresh', Sampling!LegalJob(sJob)'
      PROVE  SamplingProofs!IInv'
  <2>1. SamplingProofs!LegalJob(sJob)'
    BY <1>1 DEF Sampling!LegalJob, SamplingProofs!LegalJob, Sampling!Increasing,
       SamplingProofs!Increasing, Sampling!Decreasing, SamplingProofs!Decreasing
  <2>2. QED
    BY <1>1, <2>1 DEF SamplingFresh, SamplingProofs!IInv, SamplingProofs!TypeOK,
       SamplingProofs!Frontier, SamplingProofs!GapBounded, SamplingProofs!Justified
<1>2. ASSUME ValidityFresh', Validity!LegalJob(vJob)'
      PROVE  ValidityProofs!IInv'
  <2>1. ValidityProofs!LegalJob(vJob)'
    BY <1>2 DEF Validity!LegalJob, ValidityProofs!LegalJob, Validity!StrictlyIncreasing,
       ValidityProofs!StrictlyIncreasing
  <2>2. ValidityProofs!TypeOK'
    BY <1>2, <2>1 DEF ValidityFresh, ValidityProofs!TypeOK, ValidityProofs!LegalJob
  <2>3. QED
    BY <1>2, <2>2 DEF ValidityFresh, ValidityProofs!IInv,
       ValidityProofs!Position, ValidityProofs!ReportsPassed, ValidityProofs!ReportsSound,
       ValidityProofs!PassedReported, ValidityProofs!InOrder, ValidityProofs!Passed
<1>3. QED
  BY <1>1, <1>2

\* A step of a loop keeps its invariant and its call; a step of the rest of the
\* construction leaves both alone.
LEMMA SamplingKeeps ==
  ASSUME SamplingProofs!IInv, Sampling!Step \/ UNCHANGED sVars
  PROVE  SamplingProofs!IInv' /\ sJob' = sJob
<1>1. [SamplingProofs!Next]_(SamplingProofs!vars)
  BY DEF sVars, SamplingProofs!Next, SamplingProofs!vars, SamplingProofs!Step, Sampling!Step,
     Sampling!NoSamples, SamplingProofs!NoSamples, Sampling!KeepFirst, SamplingProofs!KeepFirst,
     Sampling!Scan, SamplingProofs!Scan, Sampling!KeepLast, SamplingProofs!KeepLast,
     Sampling!MustKeep, SamplingProofs!MustKeep, Sampling!Span, SamplingProofs!Span,
     Sampling!Dist, SamplingProofs!Dist
<1>2. sJob' = sJob
  BY DEF sVars, Sampling!Step, Sampling!NoSamples, Sampling!KeepFirst, Sampling!Scan, Sampling!KeepLast
<1>3. QED
  BY <1>1, <1>2, SamplingProofs!StepFrontier, SamplingProofs!StepGap, SamplingProofs!StepJustified
     DEF SamplingProofs!IInv

\* The same for the merge of marks and sub-marks.
LEMMA ValidityKeeps ==
  ASSUME ValidityProofs!IInv, Validity!Step \/ UNCHANGED vVars
  PROVE  ValidityProofs!IInv' /\ vJob' = vJob
<1>1. [ValidityProofs!Next]_(ValidityProofs!vars)
  BY DEF vVars, ValidityProofs!Next, ValidityProofs!vars, ValidityProofs!Step, Validity!Step,
     Validity!Start, ValidityProofs!Start, Validity!Adjacent, ValidityProofs!Adjacent,
     Validity!ReportInvalid, ValidityProofs!ReportInvalid, Validity!Skip, ValidityProofs!Skip,
     Validity!Finish, ValidityProofs!Finish, Validity!NextMark, ValidityProofs!NextMark,
     Validity!NextSubmark, ValidityProofs!NextSubmark, Validity!Submark, ValidityProofs!Submark
<1>2. vJob' = vJob
  BY DEF vVars, Validity!Step, Validity!Start, Validity!Adjacent, Validity!ReportInvalid,
     Validity!Skip, Validity!Finish
<1>3. QED
  BY <1>1, <1>2, ValidityProofs!StepType, ValidityProofs!StepPosition,
     ValidityProofs!StepReportsPassed, ValidityProofs!StepSound,
     ValidityProofs!StepPassedReported, ValidityProofs!StepInOrder
     DEF ValidityProofs!IInv

\* Both loops are called as they must be, as long as their invariants hold.
LEMMA CallsAre ==
  ASSUME SamplingProofs!IInv, ValidityProofs!IInv
  PROVE  Sampling!LegalJob(sJob) /\ Validity!LegalJob(vJob)
<1>1. SamplingProofs!TypeOK /\ ValidityProofs!TypeOK
  BY DEF SamplingProofs!IInv, ValidityProofs!IInv
<1>2. SamplingProofs!LegalJob(sJob) /\ ValidityProofs!LegalJob(vJob)
  BY <1>1 DEF SamplingProofs!TypeOK, ValidityProofs!TypeOK
<1>3. Sampling!LegalJob(sJob)
  BY <1>2 DEF Sampling!LegalJob, SamplingProofs!LegalJob, Sampling!Increasing,
     SamplingProofs!Increasing, Sampling!Decreasing, SamplingProofs!Decreasing
<1>4. Validity!LegalJob(vJob)
  BY <1>2 DEF Validity!LegalJob, ValidityProofs!LegalJob, Validity!StrictlyIncreasing,
     ValidityProofs!StrictlyIncreasing
<1>5. QED
  BY <1>3, <1>4

-----------------------------------------------------------------------------
(* The items of the r-csa: the runs, their text positions and their links.  *)

\* The run that base index k stands for, in BWT order or in that of the alphabet.
Order == IF ix.layout = "psi" THEN ByAlphabet(base.run) ELSE [k \in DOMAIN base.run |-> k]

\* The sample a mark leads to, and the mark a sample leads back to.
LinkOf(k) ==
  IF ix.layout = "psi" THEN PsiMarkToSample(k, Size(base.run))
  ELSE MarkToSample(base.run, base.bwt, base.C, k)

BackLinkOf(k) ==
  IF ix.layout = "psi" THEN PsiSampleToMark(k, Size(base.run))
  ELSE SampleToMark(base.run, base.bwt, base.C, k)

\* The text positions of the heads and the tails of the runs, both sorted, and
\* each mark linked to the sample whose suffix comes after its own.
ItemsAreRight ==
  LET n == Size(text)
      r == Size(base.run)
  IN /\ base.bwt = BWT(text, sa) /\ base.C = Cumulative(base.bwt) /\ base.run = RunsOf(base.bwt)
     /\ n \in Nat \ {0} /\ Tiles(n, base.bwt, base.run, r)
     /\ Order \in [0..(r - 1) -> 0..(r - 1)]
     /\ \A i, j \in 0..(r - 1) : Order[i] = Order[j] => i = j
     /\ \A k \in 0..(r - 1) : \E i \in 0..(r - 1) : Order[i] = k
     /\ base.head \in [0..(r - 1) -> 0..(n - 1)] /\ base.tail \in [0..(r - 1) -> 0..(n - 1)]
     /\ \A k \in 0..(r - 1) : /\ base.head[k] = TextPos(sa, base.run[Order[k]].start)
                              /\ base.tail[k] = TextPos(sa, base.run[Order[k]].end - 1)
     /\ \A k, m \in 0..(r - 1) : base.head[k] = base.head[m] => k = m
     /\ \A k, m \in 0..(r - 1) : base.tail[k] = base.tail[m] => k = m
     /\ Sorts(base.sortedMarks, base.tail, r)
     /\ Sorts(base.sortedSamples, base.head, r)
     /\ base.markToSample = [o \in 0..(r - 1) |-> LinkOf(base.sortedMarks[o])]
     /\ \A k \in 0..(r - 1) :
          /\ LinkOf(k) \in 0..(r - 1) /\ BackLinkOf(k) \in 0..(r - 1)
          /\ LinkOf(BackLinkOf(k)) = k /\ BackLinkOf(LinkOf(k)) = k
          /\ After(base.tail[k], base.head[LinkOf(k)])

\* Both link functions take a base index to one, and the links are those of LF.
LEMMA LinksAre ==
  ASSUME TextIsBuilt, base.bwt = BWT(text, sa), base.C = Cumulative(base.bwt),
         base.run = RunsOf(base.bwt), NEW k \in 0..(Size(base.run) - 1)
  PROVE  LET n == Size(text)
             r == Size(base.run)
         IN /\ LinkOf(k) \in 0..(r - 1) /\ BackLinkOf(k) \in 0..(r - 1)
            /\ Order[k] \in 0..(r - 1)
            /\ Follows(n, base.bwt, base.C, base.run, Order[k], Order[LinkOf(k)])
            /\ Follows(n, base.bwt, base.C, base.run, Order[BackLinkOf(k)], Order[k])
<1> DEFINE n == Size(text)
           r == Size(base.run)
<1>1. /\ n \in Nat \ {0} /\ Compact(base.bwt, n) /\ base.bwt \in [0..(n - 1) -> Nat]
  BY BuiltText DEF Compact
<1>2. Tiles(n, base.bwt, base.run, r) /\ r \in Nat \ {0} /\ DOMAIN base.run = 0..(r - 1)
  <2>1. Tiles(n, base.bwt, base.run, r)
    BY <1>1, RunsTile
  <2>2. QED
    BY <2>1 DEF Tiles
<1>3. base.C = Cumulative(base.bwt)
  OBVIOUS
<1> DEFINE bwt == base.bwt
           C == base.C
           run == base.run
<1> HIDE DEF n, r, bwt, C, run
<1>4. Compact(bwt, n) /\ C = Cumulative(bwt) /\ Tiles(n, bwt, run, r) /\ k \in 0..(r - 1)
  BY <1>1, <1>2, <1>3 DEF n, r, bwt, C, run
<1>5. CASE ix.layout = "psi"
  <2>1. /\ LinkOf(k) = (k + 1) % r /\ BackLinkOf(k) = (k + r - 1) % r
        /\ Order = ByAlphabet(run)
    BY <1>5 DEF LinkOf, BackLinkOf, Order, PsiMarkToSample, PsiSampleToMark, r, run
  <2>2. (k + 1) % r \in 0..(r - 1) /\ (k + r - 1) % r \in 0..(r - 1)
    <3>1. k + 1 \in Int /\ k + r - 1 \in Int
      BY <1>2, <1>4
    <3>2. QED
      BY <1>2, <3>1, ModDef
  <2>3. (((k + r - 1) % r) + 1) % r = k
    <3>1. k + r - 1 \in Int /\ 1 \in Int /\ (k + r - 1) + 1 = r * 1 + k /\ (k + r - 1) + 1 \in Int
      BY <1>2, <1>4
    <3>2. (((k + r - 1) % r) + 1) % r = ((k + r - 1) + 1) % r
      BY <1>2, <3>1, ModMod
    <3>3. ((k + r - 1) + 1) % r = k
      BY <1>2, <1>4, <3>1, ModUnique
    <3>4. QED
      BY <3>2, <3>3
  <2>4. ByAlphabet(run) \in [0..(r - 1) -> 0..(r - 1)]
    BY <1>4, ByAlphabetIs
  <2>5. Follows(n, bwt, C, run, ByAlphabet(run)[k], ByAlphabet(run)[(k + 1) % r])
    BY <1>4, PsiLinkIs
  <2>6. \A i \in 0..(r - 1) : Follows(n, bwt, C, run, ByAlphabet(run)[i], ByAlphabet(run)[(i + 1) % r])
    BY <1>4, PsiLinkIs
  <2>7. Follows(n, bwt, C, run, ByAlphabet(run)[(k + r - 1) % r], ByAlphabet(run)[k])
    <3> DEFINE i == (k + r - 1) % r
    <3>1. i \in 0..(r - 1) /\ (i + 1) % r = k
      BY <2>2, <2>3
    <3> HIDE DEF i
    <3>2. Follows(n, bwt, C, run, ByAlphabet(run)[i], ByAlphabet(run)[k])
      BY <2>6, <3>1
    <3>3. QED
      BY <3>2 DEF i
  <2>8. ByAlphabet(run)[k] \in 0..(r - 1)
    BY <1>4, <2>4
  <2>9. QED
    BY <2>1, <2>2, <2>5, <2>7, <2>8 DEF n, r, bwt, C, run
<1>6. CASE ix.layout # "psi"
  <2>1. /\ LinkOf(k) = MarkToSample(run, bwt, C, k) /\ BackLinkOf(k) = SampleToMark(run, bwt, C, k)
        /\ \A i \in 0..(r - 1) : Order[i] = i
    BY <1>2, <1>6 DEF LinkOf, BackLinkOf, Order, bwt, C, run, r
  <2>2. /\ MarkToSample(run, bwt, C, k) \in 0..(r - 1)
        /\ Follows(n, bwt, C, run, k, MarkToSample(run, bwt, C, k))
    BY <1>4, MarkLinkIs
  <2>3. /\ SampleToMark(run, bwt, C, k) \in 0..(r - 1)
        /\ Follows(n, bwt, C, run, SampleToMark(run, bwt, C, k), k)
    BY <1>4, SampleLinkIs
  <2>4. /\ Order[k] = k /\ Order[LinkOf(k)] = LinkOf(k) /\ Order[BackLinkOf(k)] = BackLinkOf(k)
    BY <1>4, <2>1, <2>2, <2>3
  <2>5. QED
    BY <1>4, <2>1, <2>2, <2>3, <2>4 DEF n, r, bwt, C, run
<1>7. QED
  BY <1>5, <1>6

\* Every run has one base index.
LEMMA OrderIs ==
  ASSUME NEW n, NEW r, Tiles(n, base.bwt, base.run, r)
  PROVE  /\ Order \in [0..(r - 1) -> 0..(r - 1)]
         /\ \A i, j \in 0..(r - 1) : Order[i] = Order[j] => i = j
         /\ \A k \in 0..(r - 1) : \E i \in 0..(r - 1) : Order[i] = k
<1> DEFINE run == base.run
           K == 0..(r - 1)
<1>1. DOMAIN run = K
  BY DEF Tiles
<1>2. CASE ix.layout = "psi"
  <2>1. Order = ByAlphabet(run)
    BY <1>2 DEF Order
  <2>2. ByAlphabet(run) \in [K -> K]
    BY ByAlphabetIs
  <2>3. \A i, j \in K : ByAlphabet(run)[i] = ByAlphabet(run)[j] => i = j
    BY ByAlphabetIs
  <2>4. \A k \in K : \E i \in K : ByAlphabet(run)[i] = k
    BY ByAlphabetIs
  <2>5. QED
    BY <2>1, <2>2, <2>3, <2>4
<1>3. CASE ix.layout # "psi"
  <2>1. Order = [k \in K |-> k]
    BY <1>1, <1>3 DEF Order
  <2> HIDE DEF K
  <2>2. QED
    BY <2>1 DEF K
<1>4. QED
  BY <1>2, <1>3

\* What the construction computes of the text is right.
LEMMA ItemsAre ==
  ASSUME TextIsBuilt, base = RCsaItems
  PROVE  ItemsAreRight
<1> DEFINE n == Size(text)
           run == base.run
           r == Size(run)
           D == 0..(n - 1)
           K == 0..(r - 1)
<1>1. /\ base.bwt = BWT(text, sa) /\ base.C = Cumulative(base.bwt) /\ base.run = RunsOf(base.bwt)
      /\ base.head = [k \in DOMAIN run |-> TextPos(sa, run[Order[k]].start)]
      /\ base.tail = [k \in DOMAIN run |-> TextPos(sa, run[Order[k]].end - 1)]
      /\ base.sortedMarks = SortIndices(base.tail) /\ base.sortedSamples = SortIndices(base.head)
      /\ base.markToSample = IF ix.layout = "psi" THEN PsiMarkLinks(base.sortedMarks)
                             ELSE MarkLinks(base.run, base.bwt, base.C, base.sortedMarks)
  BY DEF RCsaItems, Order
<1> HIDE DEF n
<1>2. /\ n \in Nat \ {0} /\ Compact(base.bwt, n) /\ base.bwt \in [D -> Nat]
  BY <1>1, BuiltText DEF Compact, n
<1>3. Tiles(n, base.bwt, run, r)
  BY <1>1, <1>2, RunsTile
<1> HIDE DEF r, run
<1>4. r \in Nat \ {0} /\ DOMAIN run = K /\ \A k \in K : run[k].start \in D /\ run[k].end - 1 \in D
  BY <1>3 DEF Tiles
<1>5. \A k, m \in K : /\ run[k].start = run[m].start => k = m
                      /\ run[k].end - 1 = run[m].end - 1 => k = m
  BY <1>3, HeadNamesRun
<1>6. /\ Order \in [K -> K]
      /\ \A i, j \in K : Order[i] = Order[j] => i = j
      /\ \A k \in K : \E i \in K : Order[i] = k
  BY <1>3, OrderIs DEF run
<1>7. /\ \A p \in D : TextPos(sa, p) \in D
      /\ \A p, q \in D : TextPos(sa, p) = TextPos(sa, q) => p = q
  BY BeforeEntry DEF n
<1> HIDE DEF D, K
<1>8. /\ base.head \in [K -> D] /\ base.tail \in [K -> D]
      /\ \A k \in K : /\ base.head[k] = TextPos(sa, run[Order[k]].start)
                      /\ base.tail[k] = TextPos(sa, run[Order[k]].end - 1)
  BY <1>1, <1>4, <1>6, <1>7
<1>9. \A k, m \in K : base.head[k] = base.head[m] => k = m
  BY <1>4, <1>5, <1>6, <1>7, <1>8
<1>10. \A k, m \in K : base.tail[k] = base.tail[m] => k = m
  BY <1>4, <1>5, <1>6, <1>7, <1>8
<1>11. base.head \in [0..(r - 1) -> Int] /\ base.tail \in [0..(r - 1) -> Int] /\ r \in Nat
  <2>1. \A x \in D : x \in Int
    BY DEF D
  <2>2. QED
    BY <1>4, <1>8, <2>1 DEF K
<1>12. Sorts(base.sortedMarks, base.tail, r) /\ Sorts(base.sortedSamples, base.head, r)
  <2>1. Sorts(SortIndices(base.head), base.head, r)
    BY <1>9, <1>11, SortsIs DEF K
  <2>2. Sorts(SortIndices(base.tail), base.tail, r)
    BY <1>10, <1>11, SortsIs DEF K
  <2>3. QED
    BY <1>1, <2>1, <2>2
<1>13. base.sortedMarks \in [K -> K]
  BY <1>12 DEF Sorts, K
<1>14. base.markToSample = [o \in K |-> LinkOf(base.sortedMarks[o])]
  <2>1. DOMAIN base.sortedMarks = K /\ Size(base.sortedMarks) = r
    <3>1. DOMAIN base.sortedMarks = K
      BY <1>13
    <3>2. QED
      BY <1>11, <3>1, SizeIs DEF K
  <2>2. QED
    BY <1>1, <2>1 DEF PsiMarkLinks, MarkLinks, LinkOf, r, run
<1>15. ASSUME NEW k \in K
       PROVE  /\ LinkOf(k) \in K /\ BackLinkOf(k) \in K /\ Order[k] \in K
              /\ Follows(n, base.bwt, base.C, run, Order[k], Order[LinkOf(k)])
              /\ Follows(n, base.bwt, base.C, run, Order[BackLinkOf(k)], Order[k])
  <2>1. k \in 0..(Size(base.run) - 1)
    BY DEF K, r, run
  <2>2. QED
    BY <1>1, <2>1, LinksAre DEF K, r, run, n
<1>16. ASSUME NEW k \in K
       PROVE  LinkOf(BackLinkOf(k)) = k /\ BackLinkOf(LinkOf(k)) = k
  <2> DEFINE a == BackLinkOf(k)
             b == LinkOf(k)
  <2>1. a \in K /\ b \in K
    BY <1>15
  <2>2. /\ Order[a] \in K /\ Order[b] \in K /\ Order[k] \in K
        /\ Follows(n, base.bwt, base.C, run, Order[a], Order[LinkOf(a)])
        /\ Follows(n, base.bwt, base.C, run, Order[a], Order[k])
        /\ Follows(n, base.bwt, base.C, run, Order[BackLinkOf(b)], Order[b])
        /\ Follows(n, base.bwt, base.C, run, Order[k], Order[b])
        /\ LinkOf(a) \in K /\ BackLinkOf(b) \in K
    BY <1>15, <2>1
  <2> HIDE DEF a, b
  <2>3. Order[LinkOf(a)] \in K /\ Order[BackLinkOf(b)] \in K
    BY <1>6, <2>2
  <2>4. Order[LinkOf(a)] = Order[k]
    BY <1>1, <1>2, <1>3, <2>2, <2>3, FollowsOne DEF K
  <2>5. Order[BackLinkOf(b)] = Order[k]
    BY <1>1, <1>2, <1>3, <2>2, <2>3, FollowsOne DEF K
  <2>6. QED
    BY <1>6, <2>2, <2>4, <2>5 DEF a, b
<1>17. ASSUME NEW k \in K
       PROVE  After(base.tail[k], base.head[LinkOf(k)])
  <2> DEFINE m == LinkOf(k)
             q == run[Order[k]].end - 1
             h == run[Order[m]].start
             x == BasicLF(base.bwt, base.C, q)
  <2>1. m \in K /\ Order[k] \in K /\ Order[m] \in K
    BY <1>6, <1>15
  <2>2. q \in D /\ h \in D
    BY <1>4, <2>1
  <2>3. BasicLF(base.bwt, base.C, h) = (x + 1) % n
    BY <1>15 DEF Follows
  <2>4. \A p \in 0..(Size(text) - 1) :
          /\ BasicLF(base.bwt, base.C, p) \in 0..(Size(text) - 1)
          /\ sa[BasicLF(base.bwt, base.C, p)] = TextPos(sa, p)
    BY <1>1, BasicLFRight
  <2>5. x \in D /\ sa[x] = TextPos(sa, q) /\ sa[BasicLF(base.bwt, base.C, h)] = TextPos(sa, h)
    BY <2>2, <2>4 DEF D, n
  <2>6. base.tail[k] = TextPos(sa, q) /\ base.head[m] = TextPos(sa, h)
    BY <1>8, <2>1
  <2> HIDE DEF m, q, h, x
  <2>7. sa[x] = base.tail[k] /\ sa[(x + 1) % n] = base.head[m]
    BY <2>3, <2>5, <2>6
  <2>8. After(base.tail[k], base.head[m])
    BY <2>5, <2>7 DEF After, D, n
  <2>9. QED
    BY <2>8 DEF m
<1>18. base.bwt = BWT(text, sa) /\ base.C = Cumulative(base.bwt) /\ base.run = RunsOf(base.bwt)
  BY <1>1
<1>19. \A k \in K : /\ LinkOf(k) \in K /\ BackLinkOf(k) \in K
                    /\ LinkOf(BackLinkOf(k)) = k /\ BackLinkOf(LinkOf(k)) = k
                    /\ After(base.tail[k], base.head[LinkOf(k)])
  BY <1>15, <1>16, <1>17
<1>20. QED
  BY <1>2, <1>3, <1>6, <1>8, <1>9, <1>10, <1>12, <1>14, <1>18, <1>19 DEF ItemsAreRight, n, r, run, D, K

-----------------------------------------------------------------------------
(* computeSampling, called on the samples from the end of the text on.     *)

\* The samples the sub-sampling keeps, by base index.
KeptSamples == {base.sortedSamples[Size(base.run) - k] : k \in sKept}

\* The sub-sampling of the items is over.
SamplingDone == sPc = "done" /\ sJob = SamplingJob(base, ix.rate) /\ ix.rate \in Nat

\* constructItems calls computeSampling as it must be called: the samples in
\* descending text order, those linked to the extreme marks required.
LEMMA SamplingJobIs ==
  ASSUME ItemsAreRight, NEW rate \in Nat
  PROVE  LET job == SamplingJob(base, rate)
             r == Size(base.run)
         IN /\ Sampling!LegalJob(job)
            /\ job.s = rate /\ job.v \in Seq(Nat) /\ Len(job.v) = r /\ DOMAIN job.v = 1..r
            /\ \A k \in 1..r : /\ job.v[k] = base.head[base.sortedSamples[r - k]]
                               /\ base.sortedSamples[r - k] \in Extremes(base.markToSample)
                                    => k \in job.req
<1> DEFINE r == Size(base.run)
           job == SamplingJob(base, rate)
           ss == base.sortedSamples
           N == Size(text)
           idx == Backwards(ss)
           a == [k \in 1..r |-> base.head[idx[k]]]
           T == {k \in 1..r : idx[k] \in Extremes(base.markToSample)}
<1>1. /\ r \in Nat \ {0} /\ N \in Nat \ {0} /\ base.head \in [0..(r - 1) -> 0..(N - 1)]
      /\ Sorts(ss, base.head, r)
  BY DEF ItemsAreRight, Tiles
<1> HIDE DEF r, N, ss
<1>2. /\ ss \in [0..(r - 1) -> 0..(r - 1)]
      /\ \A k, m \in 0..(r - 1) : k < m <=> base.head[ss[k]] < base.head[ss[m]]
  BY <1>1 DEF Sorts
<1>3. idx = [k \in 1..r |-> ss[r - k]]
  <2>1. DOMAIN ss = 0..(r - 1) /\ r \in Nat
    BY <1>1, <1>2
  <2>2. Size(ss) = r
    BY <2>1, SizeIs
  <2>3. QED
    BY <2>2 DEF Backwards
<1>4. \A k \in 1..r : /\ r - k \in 0..(r - 1) /\ idx[k] = ss[r - k] /\ ss[r - k] \in 0..(r - 1)
                      /\ base.head[ss[r - k]] \in Nat
  <2> TAKE k \in 1..r
  <2>1. r - k \in 0..(r - 1)
    BY <1>1
  <2>2. ss[r - k] \in 0..(r - 1)
    BY <1>2, <2>1
  <2>3. base.head[ss[r - k]] \in 0..(N - 1)
    BY <1>1, <2>2
  <2>4. base.head[ss[r - k]] \in Nat
    BY <1>1, <2>3
  <2>5. QED
    BY <1>3, <2>1, <2>2, <2>4
<1>5. job = [s |-> rate, v |-> [k \in DOMAIN idx |-> base.head[idx[k]]],
             req |-> {k \in DOMAIN idx : idx[k] \in Extremes(base.markToSample)}]
  BY DEF SamplingJob, ss
<1>6. DOMAIN idx = 1..r
  BY <1>3
<1>7. job = [s |-> rate, v |-> a, req |-> T]
  BY <1>5, <1>6
<1> HIDE DEF idx, job
<1>8. job.s = rate /\ job.v = a /\ job.req = T /\ DOMAIN job = {"s", "v", "req"}
  BY <1>7
<1>9. \A k \in 1..r : a[k] = base.head[ss[r - k]] /\ a[k] \in Nat
  BY <1>4
<1>10. a \in Seq(Nat) /\ Len(a) = r /\ DOMAIN a = 1..r
  <2>1. r \in Nat
    BY <1>1
  <2>2. QED
    BY <1>9, <2>1
<1>11. T \in SUBSET (1..r)
  OBVIOUS
<1>12. \A k \in 1..r : ss[r - k] \in Extremes(base.markToSample) => k \in T
  BY <1>4
<1> HIDE DEF a, T
<1>13. Sampling!Decreasing(a)
  <2>1. SUFFICES ASSUME NEW i \in 1..r, NEW j \in 1..r, i < j
                 PROVE  a[j] < a[i]
    BY <1>10 DEF Sampling!Decreasing
  <2>2. r - i \in 0..(r - 1) /\ r - j \in 0..(r - 1) /\ r - j < r - i
    BY <1>1, <2>1
  <2>3. QED
    BY <1>2, <1>9, <2>2
<1>14. Sampling!LegalJob(job)
  BY <1>8, <1>10, <1>11, <1>13 DEF Sampling!LegalJob
<1>15. QED
  BY <1>8, <1>9, <1>10, <1>12, <1>14 DEF r, job, ss

\* From the sample before x, in the text, to a kept one after x it is at most rate.
DroppedBetween(x) ==
  \E m \in KeptSamples, y \in 0..(Size(base.run) - 1) :
    /\ base.head[y] < base.head[x] /\ base.head[x] < base.head[m]
    /\ base.head[m] - base.head[y] <= ix.rate
    /\ \A z \in 0..(Size(base.run) - 1) : base.head[z] < base.head[x] => base.head[z] <= base.head[y]

\* A sample is a text position.
LEMMA HeadsAreNat ==
  ASSUME ItemsAreRight
  PROVE  \A k \in 0..(Size(base.run) - 1) : base.head[k] \in Nat
<1> DEFINE N == Size(text)
           D == 0..(Size(base.run) - 1)
           h == base.head
<1>1. h \in [D -> 0..(N - 1)] /\ N \in Nat
  BY DEF ItemsAreRight
<1> HIDE DEF N, D, h
<1>2. \A k \in D : h[k] \in Nat
  <2> TAKE k \in D
  <2>1. h[k] \in 0..(N - 1)
    BY <1>1
  <2>2. QED
    BY <1>1, <2>1
<1>3. QED
  BY <1>2 DEF h, D

\* The samples that the extreme marks lead to are kept, and what surrounds those that
\* are not.
LEMMA KeptBetween ==
  ASSUME ItemsAreRight, SamplingProofs!IInv, SamplingDone
  PROVE  /\ KeptSamples \subseteq 0..(Size(base.run) - 1)
         /\ Extremes(base.markToSample) \cap (0..(Size(base.run) - 1)) \subseteq KeptSamples
         /\ \A x \in 0..(Size(base.run) - 1) : x \notin KeptSamples => DroppedBetween(x)
<1> DEFINE r == Size(base.run)
           v == sJob.v
           ss == base.sortedSamples
<1>1. r \in Nat \ {0} /\ Sorts(ss, base.head, r)
  BY DEF ItemsAreRight, Tiles
<1>2. /\ ss \in [0..(r - 1) -> 0..(r - 1)]
      /\ \A k, m \in 0..(r - 1) : k < m <=> base.head[ss[k]] < base.head[ss[m]]
      /\ \A i \in 0..(r - 1) : \E k \in 0..(r - 1) : ss[k] = i
  BY <1>1 DEF Sorts
<1>3. /\ sJob.s = ix.rate /\ v \in Seq(Nat) /\ Len(v) = r /\ DOMAIN v = 1..r
      /\ \A k \in 1..r : /\ v[k] = base.head[ss[r - k]]
                         /\ ss[r - k] \in Extremes(base.markToSample) => k \in sJob.req
  BY SamplingJobIs DEF SamplingDone
<1>4. /\ sKept \in SUBSET DOMAIN v /\ sPc = "done"
      /\ (sJob.req \cup {1, Len(v)}) \cap DOMAIN v \subseteq sKept
      /\ Len(v) > 1 => sPrev = Len(v)
      /\ \A k \in {x \in DOMAIN v : x < sPrev /\ x \notin sKept} :
           \E j \in sKept : j < k /\ SamplingProofs!Dist(v[k + 1], v[j]) <= sJob.s
  BY DEF SamplingDone, SamplingProofs!IInv, SamplingProofs!TypeOK,
     SamplingProofs!Frontier, SamplingProofs!GapBounded, SamplingProofs!Dropped
<1> HIDE DEF r, v, ss
<1>5. \A k \in 1..r : r - k \in 0..(r - 1) /\ ss[r - k] \in 0..(r - 1)
  <2>1. r \in Nat
    BY <1>1
  <2>2. \A k \in 1..r : r - k \in 0..(r - 1)
    BY <2>1
  <2>3. \A i \in 0..(r - 1) : ss[i] \in 0..(r - 1)
    BY <1>2
  <2>4. QED
    BY <2>2, <2>3
<1>6. KeptSamples = {ss[r - k] : k \in sKept}
  BY DEF KeptSamples, ss, r
<1>7. KeptSamples \subseteq 0..(r - 1)
  <2>1. \A k \in sKept : k \in 1..r
    BY <1>3, <1>4
  <2>2. QED
    BY <1>5, <1>6, <2>1
<1>8. \A k \in sKept : ss[r - k] \in KeptSamples
  BY <1>6
<1>9. ASSUME NEW x \in 0..(r - 1)
      PROVE  /\ x \in Extremes(base.markToSample) => x \in KeptSamples
             /\ x \notin KeptSamples => DroppedBetween(x)
  <2>1. PICK q \in 0..(r - 1) : ss[q] = x
    BY <1>2
  <2> DEFINE k == r - q
  <2>2. k \in 1..r /\ r - k = q
    BY <1>1
  <2> HIDE DEF k
  <2>3. v[k] = base.head[x] /\ v[k] \in Nat
    BY <1>3, <2>1, <2>2
  <2>4. ASSUME x \in Extremes(base.markToSample)
        PROVE  x \in KeptSamples
    <3>1. k \in sJob.req /\ k \in DOMAIN v
      BY <1>3, <2>1, <2>2, <2>4
    <3>2. QED
      BY <1>4, <1>8, <2>1, <2>2, <3>1
  <2>5. ASSUME x \notin KeptSamples
        PROVE  DroppedBetween(x)
    <3>1. k \notin sKept
      BY <1>8, <2>1, <2>2, <2>5
    <3>2. k # r
      BY <1>3, <1>4, <2>2, <3>1
    <3>3. k < r /\ r > 1 /\ k + 1 \in 1..r /\ q - 1 \in 0..(r - 1) /\ r - (k + 1) = q - 1 /\ q - 1 < q
      BY <1>1, <2>2, <3>2
    <3>4. sPrev = r
      BY <1>3, <1>4, <3>3
    <3>5. PICK j \in sKept : j < k /\ SamplingProofs!Dist(v[k + 1], v[j]) <= sJob.s
      <4>1. k \in {y \in DOMAIN v : y < sPrev /\ y \notin sKept}
        BY <1>3, <2>2, <3>1, <3>3, <3>4
      <4>2. QED
        BY <1>4, <4>1
    <3>6. j \in 1..r /\ r - j \in 0..(r - 1) /\ q < r - j
      BY <1>1, <1>3, <1>4, <2>2, <3>5
    <3> DEFINE y == ss[q - 1]
               m == ss[r - j]
    <3>7. /\ v[j] = base.head[m] /\ v[j] \in Nat
          /\ v[k + 1] = base.head[y] /\ v[k + 1] \in Nat
      BY <1>3, <3>3, <3>6
    <3>8. base.head[x] < base.head[m] /\ base.head[y] < base.head[x]
      BY <1>2, <2>1, <3>3, <3>6
    <3>9. m \in KeptSamples
      BY <1>8
    <3>9a. y \in 0..(r - 1) /\ \A z \in 0..(r - 1) : base.head[z] < base.head[x] => base.head[z] <= base.head[y]
      <4>1. y \in 0..(r - 1)
        BY <1>2, <3>3
      <4>2. ASSUME NEW z \in 0..(r - 1), base.head[z] < base.head[x]
            PROVE  base.head[z] <= base.head[y]
        <5>1. PICK i \in 0..(r - 1) : ss[i] = z
          BY <1>2
        <5>2. i < q
          BY <1>2, <2>1, <4>2, <5>1
        <5>3. i = q - 1 \/ i < q - 1
          BY <1>1, <5>2
        <5>4. CASE i = q - 1
          <6>1. z = y /\ base.head[y] \in Nat
            BY <3>3, <3>7, <5>1, <5>4
          <6>2. QED
            BY <6>1
        <5>5. CASE i < q - 1
          <6>1. base.head[ss[i]] < base.head[ss[q - 1]]
            BY <1>2, <3>3, <5>5
          <6>2. \A k_1 \in 0..(r - 1) : base.head[k_1] \in Nat
            BY HeadsAreNat DEF r
          <6>3. base.head[z] \in Nat /\ base.head[y] \in Nat
            BY <4>1, <6>2
          <6>4. base.head[z] < base.head[y]
            BY <5>1, <6>1
          <6> HIDE DEF y
          <6>5. QED
            BY <6>3, <6>4
        <5>6. QED
          BY <5>3, <5>4, <5>5
      <4>3. QED
        BY <4>1, <4>2
    <3> HIDE DEF y, m
    <3>10. SamplingProofs!Dist(v[k + 1], v[j]) = v[j] - v[k + 1]
      BY <2>3, <3>7, <3>8 DEF SamplingProofs!Dist
    <3>11. base.head[m] - base.head[y] <= ix.rate
      BY <1>3, <3>5, <3>7, <3>10
    <3>12. QED
      BY <3>8, <3>9, <3>11, <3>9a DEF DroppedBetween, r
  <2>6. QED
    BY <2>4, <2>5
<1>10. QED
  BY <1>7, <1>9 DEF r

\* Every sample that is not kept comes less than rate before a kept one.
LEMMA KeptIs ==
  ASSUME ItemsAreRight, SamplingProofs!IInv, SamplingDone
  PROVE  /\ KeptSamples \subseteq 0..(Size(base.run) - 1)
         /\ Extremes(base.markToSample) \cap (0..(Size(base.run) - 1)) \subseteq KeptSamples
         /\ \A x \in 0..(Size(base.run) - 1) : x \notin KeptSamples =>
              \E m \in KeptSamples : base.head[x] < base.head[m] /\ base.head[m] - base.head[x] < ix.rate
<1>1. KeptSamples \subseteq 0..(Size(base.run) - 1)
  BY KeptBetween
<1>2. ASSUME NEW x \in 0..(Size(base.run) - 1), x \notin KeptSamples
      PROVE  \E m \in KeptSamples : base.head[x] < base.head[m] /\ base.head[m] - base.head[x] < ix.rate
  <2>1. PICK m \in KeptSamples, y \in 0..(Size(base.run) - 1) :
          /\ base.head[y] < base.head[x] /\ base.head[x] < base.head[m]
          /\ base.head[m] - base.head[y] <= ix.rate
    BY <1>2, KeptBetween DEF DroppedBetween
  <2>2. \A k \in 0..(Size(base.run) - 1) : base.head[k] \in Nat
    BY HeadsAreNat
  <2>3. base.head[m] \in Nat /\ base.head[y] \in Nat /\ base.head[x] \in Nat /\ ix.rate \in Nat
    BY <1>1, <2>2 DEF SamplingDone
  <2>4. base.head[m] - base.head[x] < ix.rate
    BY <2>1, <2>3
  <2>5. QED
    BY <2>1, <2>4
<1>3. QED
  BY <1>1, <1>2, KeptBetween

-----------------------------------------------------------------------------
(* The sub-samples and their marks, as each layout stores them.            *)

\* The fields of a complete index.
Fields ==
  {"kind", "layout", "rate", "n", "bwt", "C", "run", "cumRuns", "sampled", "samples", "marks",
   "markToSample", "invalid", "area"}

\* A record under construction has the class of the index and the items of the text.
HasItems(rec) ==
  /\ DOMAIN rec = Fields
  /\ rec.kind = ix.kind /\ rec.layout = ix.layout /\ rec.rate = ix.rate
  /\ rec.n = Size(text) /\ rec.bwt = base.bwt /\ rec.C = base.C /\ rec.run = base.run
  /\ rec.cumRuns = CumulativeRuns(base.run, base.C)

\* The kept samples are found where at says they are sampled, each linked to the
\* mark it comes after; the marks are sorted.
SubsamplesIn(rec, at) ==
  LET w == Cardinality(KeptSamples)
  IN /\ rec.sampled = {at[x] : x \in KeptSamples}
     /\ \A x \in KeptSamples : rec.samples[PlaceIn(rec.sampled, at[x])] = base.head[x]
     /\ w \in Nat /\ DOMAIN rec.marks = 0..(w - 1) /\ DOMAIN rec.markToSample = 0..(w - 1)
     /\ \A o, q \in 0..(w - 1) : o < q => rec.marks[o] < rec.marks[q]
     /\ \A o \in 0..(w - 1) : \E x \in KeptSamples :
          /\ rec.marks[o] = base.tail[BackLinkOf(x)]
          /\ rec.markToSample[o] = PlaceIn(rec.sampled, at[x])
     /\ \A x \in KeptSamples : \E o \in 0..(w - 1) : rec.marks[o] = base.tail[BackLinkOf(x)]

\* Where the layout marks the sample of base index x.
SampledAt ==
  [x \in 0..(Size(base.run) - 1) |->
     CASE ix.layout = "position" -> base.run[x].start
       [] ix.layout = "alphabet" -> CHOOSE i \in 0..(Size(base.run) - 1) : ByAlphabet(base.run)[i] = x
       [] ix.layout = "psi"      -> x]

\* Kept samples are finitely many numbers.
LEMMA KeptIsFinite ==
  ASSUME ItemsAreRight, KeptSamples \subseteq 0..(Size(base.run) - 1)
  PROVE  KeptSamples \in SUBSET Int /\ IsFiniteSet(KeptSamples)
<1> DEFINE r == Size(base.run)
<1>1. r \in Nat
  BY DEF ItemsAreRight, Tiles
<1> HIDE DEF r
<1>2. IsFiniteSet(0..(r - 1)) /\ \A x \in 0..(r - 1) : x \in Int
  BY <1>1, PositionsBelow
<1>3. KeptSamples \in SUBSET (0..(r - 1))
  BY DEF r
<1>4. IsFiniteSet(KeptSamples)
  BY <1>2, <1>3, FS_Subset
<1>5. QED
  BY <1>2, <1>3, <1>4

\* Each kept sample has one mark, and sorted the marks still lead to the samples.
LEMMA SubsampledIs ==
  ASSUME ItemsAreRight, KeptSamples \subseteq 0..(Size(base.run) - 1)
  PROVE  /\ HasItems(Subsampled)
         /\ SubsamplesIn(Subsampled, [x \in 0..(Size(base.run) - 1) |-> x])
<1> DEFINE S == KeptSamples
           A == Ascending(S)
           m == Cardinality(S)
           r == Size(base.run)
           sub == Submarks(IF ix.layout = "psi" THEN PsiSampleToMarkLinks(A) ELSE SampleToMarkLinks(A))
           srt == SortIndices(sub)
           rec == Subsampled
           id == [x \in 0..(r - 1) |-> x]
<1>1. /\ r \in Nat \ {0} /\ base.tail \in [0..(r - 1) -> 0..(Size(text) - 1)]
      /\ Size(text) \in Nat \ {0}
      /\ \A k, l \in 0..(r - 1) : base.tail[k] = base.tail[l] => k = l
      /\ \A k \in 0..(r - 1) : BackLinkOf(k) \in 0..(r - 1) /\ LinkOf(BackLinkOf(k)) = k
  BY DEF ItemsAreRight, Tiles
<1>2. S \in SUBSET Int /\ IsFiniteSet(S)
  BY KeptIsFinite
<1>3. rec = WithSamples(Common(base), {A[k] : k \in DOMAIN A}, [k \in DOMAIN A |-> base.head[A[k]]],
                        [o \in DOMAIN srt |-> sub[srt[o]]], srt)
  BY DEF Subsampled, KeptSamples, SubmarkLinks
<1>4. /\ HasItems(rec)
      /\ rec.sampled = {A[k] : k \in DOMAIN A} /\ rec.samples = [k \in DOMAIN A |-> base.head[A[k]]]
      /\ rec.marks = [o \in DOMAIN srt |-> sub[srt[o]]] /\ rec.markToSample = srt
  <2> DEFINE com == Common(base)
  <2>1. /\ DOMAIN com = Fields
        /\ com.kind = ix.kind /\ com.layout = ix.layout /\ com.rate = ix.rate
        /\ com.n = Size(text) /\ com.bwt = base.bwt /\ com.C = base.C /\ com.run = base.run
        /\ com.cumRuns = CumulativeRuns(base.run, base.C)
    BY DEF Common, Fields
  <2> DEFINE a1 == {A[k] : k \in DOMAIN A}
             a2 == [k \in DOMAIN A |-> base.head[A[k]]]
             a3 == [o \in DOMAIN srt |-> sub[srt[o]]]
  <2>2. rec = [com EXCEPT !.sampled = a1, !.samples = a2, !.marks = a3, !.markToSample = srt]
    BY <1>3 DEF WithSamples
  <2> HIDE DEF com, a1, a2, a3, rec, srt
  <2>3. /\ DOMAIN rec = Fields /\ rec.sampled = a1 /\ rec.samples = a2 /\ rec.marks = a3
        /\ rec.markToSample = srt
        /\ rec.kind = com.kind /\ rec.layout = com.layout /\ rec.rate = com.rate
        /\ rec.n = com.n /\ rec.bwt = com.bwt /\ rec.C = com.C /\ rec.run = com.run
        /\ rec.cumRuns = com.cumRuns
    BY <2>1, <2>2 DEF Fields
  <2>4. HasItems(rec)
    BY <2>1, <2>3 DEF HasItems
  <2>5. QED
    BY <2>3, <2>4 DEF a1, a2, a3
<1> HIDE DEF S, A, m, r, sub, srt, rec, id
<1>5. /\ m \in Nat /\ DOMAIN A = 0..(m - 1)
      /\ \A k \in 0..(m - 1) : A[k] \in S /\ PlaceIn(S, A[k]) = k
      /\ \A k, l \in 0..(m - 1) : k < l <=> A[k] < A[l]
      /\ \A x \in S : PlaceIn(S, x) \in 0..(m - 1) /\ A[PlaceIn(S, x)] = x
  BY <1>2, AscendingIs DEF A, m, PlaceIn
<1>6. S \subseteq 0..(r - 1)
  BY DEF S, r
<1>7. {A[k] : k \in DOMAIN A} = S /\ {id[x] : x \in S} = S /\ \A x \in S : id[x] = x
  <2>1. {A[k] : k \in DOMAIN A} = S
    BY <1>5
  <2>2. \A x \in S : id[x] = x
    BY <1>6 DEF id
  <2>3. QED
    BY <2>1, <2>2
<1>8. sub = [k \in 0..(m - 1) |-> base.tail[BackLinkOf(A[k])]]
  <2>1. CASE ix.layout = "psi"
    BY <1>5, <2>1 DEF sub, Submarks, PsiSampleToMarkLinks, BackLinkOf
  <2>2. CASE ix.layout # "psi"
    BY <1>5, <2>2 DEF sub, Submarks, SampleToMarkLinks, BackLinkOf
  <2>3. QED
    BY <2>1, <2>2
<1>9. \A k \in 0..(m - 1) : /\ A[k] \in 0..(r - 1) /\ BackLinkOf(A[k]) \in 0..(r - 1)
                            /\ sub[k] = base.tail[BackLinkOf(A[k])] /\ sub[k] \in Int
  <2> TAKE k \in 0..(m - 1)
  <2>1. A[k] \in 0..(r - 1)
    BY <1>5, <1>6
  <2>2. BackLinkOf(A[k]) \in 0..(r - 1)
    BY <1>1, <2>1
  <2>3. base.tail[BackLinkOf(A[k])] \in 0..(Size(text) - 1)
    BY <1>1, <2>2
  <2>4. base.tail[BackLinkOf(A[k])] \in Int
    BY <2>3
  <2>5. QED
    BY <1>8, <2>1, <2>2, <2>4
<1>10. sub \in [0..(m - 1) -> Int] /\ \A k, l \in 0..(m - 1) : sub[k] = sub[l] => k = l
  <2>1. sub \in [0..(m - 1) -> Int]
    BY <1>8, <1>9
  <2>2. ASSUME NEW k \in 0..(m - 1), NEW l \in 0..(m - 1), sub[k] = sub[l]
        PROVE  k = l
    <3>1. BackLinkOf(A[k]) = BackLinkOf(A[l])
      <4>1. BackLinkOf(A[k]) \in 0..(r - 1) /\ BackLinkOf(A[l]) \in 0..(r - 1)
        BY <1>9
      <4>2. base.tail[BackLinkOf(A[k])] = base.tail[BackLinkOf(A[l])]
        BY <1>9, <2>2
      <4>3. QED
        BY <1>1, <4>1, <4>2
    <3>2. LinkOf(BackLinkOf(A[k])) = A[k] /\ LinkOf(BackLinkOf(A[l])) = A[l]
      BY <1>1, <1>9
    <3>3. A[k] = A[l]
      BY <3>1, <3>2
    <3>4. QED
      BY <1>5, <3>3
  <2>3. QED
    BY <2>1, <2>2
<1>11. Sorts(srt, sub, m)
  BY <1>5, <1>10, SortsIs DEF srt
<1>12. /\ srt \in [0..(m - 1) -> 0..(m - 1)]
       /\ \A k, l \in 0..(m - 1) : k < l <=> sub[srt[k]] < sub[srt[l]]
       /\ \A i \in 0..(m - 1) : \E k \in 0..(m - 1) : srt[k] = i
  BY <1>11 DEF Sorts
<1>13. rec.sampled = S /\ \A x \in S : rec.samples[PlaceIn(S, x)] = base.head[x]
  <2>1. rec.sampled = S
    BY <1>4, <1>7
  <2>2. ASSUME NEW x \in S
        PROVE  rec.samples[PlaceIn(S, x)] = base.head[x]
    <3>1. PlaceIn(S, x) \in DOMAIN A /\ A[PlaceIn(S, x)] = x
      BY <1>5
    <3>2. rec.samples[PlaceIn(S, x)] = base.head[A[PlaceIn(S, x)]]
      BY <1>4, <3>1
    <3>3. QED
      BY <3>1, <3>2
  <2>3. QED
    BY <2>1, <2>2
<1>14. DOMAIN rec.marks = 0..(m - 1) /\ \A o \in 0..(m - 1) : rec.marks[o] = sub[srt[o]]
  BY <1>4, <1>12
<1>15. \A o \in 0..(m - 1) : \E x \in S :
         rec.marks[o] = base.tail[BackLinkOf(x)] /\ rec.markToSample[o] = PlaceIn(S, x)
  <2> TAKE o \in 0..(m - 1)
  <2>1. srt[o] \in 0..(m - 1)
    BY <1>12
  <2>2. A[srt[o]] \in S /\ PlaceIn(S, A[srt[o]]) = srt[o] /\ sub[srt[o]] = base.tail[BackLinkOf(A[srt[o]])]
    BY <1>5, <1>9, <2>1
  <2>3. QED
    BY <1>4, <1>14, <2>2
<1>16. \A x \in S : \E o \in 0..(m - 1) : rec.marks[o] = base.tail[BackLinkOf(x)]
  <2> TAKE x \in S
  <2>1. PlaceIn(S, x) \in 0..(m - 1) /\ A[PlaceIn(S, x)] = x
    BY <1>5
  <2>2. PICK o \in 0..(m - 1) : srt[o] = PlaceIn(S, x)
    BY <1>12, <2>1
  <2>3. sub[PlaceIn(S, x)] = base.tail[BackLinkOf(x)]
    BY <1>9, <2>1
  <2>4. QED
    BY <1>14, <2>2, <2>3
<1>17. \A o, q \in 0..(m - 1) : o < q => rec.marks[o] < rec.marks[q]
  BY <1>12, <1>14
<1>18. DOMAIN rec.markToSample = 0..(m - 1)
  BY <1>4, <1>12
<1>19. SubsamplesIn(rec, id)
  <2>1. rec.sampled = {id[x] : x \in S}
    BY <1>7, <1>13
  <2>2. \A x \in S : rec.samples[PlaceIn(rec.sampled, id[x])] = base.head[x]
    BY <1>7, <1>13
  <2>3. \A o \in 0..(m - 1) : \E x \in S :
          rec.marks[o] = base.tail[BackLinkOf(x)] /\ rec.markToSample[o] = PlaceIn(rec.sampled, id[x])
    BY <1>7, <1>13, <1>15
  <2>4. QED
    BY <1>5, <1>14, <1>16, <1>17, <1>18, <2>1, <2>2, <2>3 DEF SubsamplesIn, S, m
<1>20. QED
  BY <1>4, <1>19 DEF rec, id, r

\* SrCSA finds its sub-samples at the positions of their runs' heads.
LEMMA AtPositionsIs ==
  ASSUME ItemsAreRight, KeptSamples \subseteq 0..(Size(base.run) - 1), NEW rec, HasItems(rec),
         SubsamplesIn(rec, [x \in 0..(Size(base.run) - 1) |-> x])
  PROVE  /\ HasItems(AtPositions(rec))
         /\ SubsamplesIn(AtPositions(rec), [x \in 0..(Size(base.run) - 1) |-> base.run[x].start])
<1> DEFINE S == KeptSamples
           r == Size(base.run)
           id == [x \in 0..(r - 1) |-> x]
           at == [x \in 0..(r - 1) |-> base.run[x].start]
           new == AtPositions(rec)
           w == Cardinality(S)
<1>1. S \in SUBSET Int /\ IsFiniteSet(S)
  BY KeptIsFinite
<1>2. S \subseteq 0..(r - 1)
  OBVIOUS
<1>3. DOMAIN rec = Fields /\ rec.run = base.run
  BY DEF HasItems
<1>4. /\ new.sampled = {rec.run[k].start : k \in rec.sampled}
      /\ DOMAIN new = Fields /\ new.samples = rec.samples
      /\ new.marks = rec.marks /\ new.markToSample = rec.markToSample
      /\ new.kind = rec.kind /\ new.layout = rec.layout /\ new.rate = rec.rate /\ new.n = rec.n
      /\ new.bwt = rec.bwt /\ new.C = rec.C /\ new.run = rec.run /\ new.cumRuns = rec.cumRuns
  BY <1>3 DEF AtPositions, Fields
<1>5. HasItems(new)
  BY <1>4 DEF HasItems
<1>6. \A x, y \in 0..(r - 1) : /\ x < y <=> base.run[x].start < base.run[y].start
                               /\ base.run[x].start = base.run[y].start => x = y
  BY HeadNamesRun DEF ItemsAreRight
<1>7. /\ rec.sampled = {id[x] : x \in S}
      /\ \A x \in S : rec.samples[PlaceIn(rec.sampled, id[x])] = base.head[x]
      /\ w \in Nat /\ DOMAIN rec.marks = 0..(w - 1) /\ DOMAIN rec.markToSample = 0..(w - 1)
      /\ \A o, q \in 0..(w - 1) : o < q => rec.marks[o] < rec.marks[q]
      /\ \A o \in 0..(w - 1) : \E x \in S :
           rec.marks[o] = base.tail[BackLinkOf(x)] /\ rec.markToSample[o] = PlaceIn(rec.sampled, id[x])
      /\ \A x \in S : \E o \in 0..(w - 1) : rec.marks[o] = base.tail[BackLinkOf(x)]
  BY DEF SubsamplesIn
<1>8. \A x \in S : id[x] = x /\ at[x] = base.run[x].start
  BY <1>2
<1> HIDE DEF S, r, id, at, new, w
<1>9. rec.sampled = S
  BY <1>7, <1>8
<1>10. new.sampled = {at[x] : x \in S}
  BY <1>3, <1>4, <1>8, <1>9
<1>11. \A x, y \in S : (x < y <=> at[x] < at[y]) /\ (at[x] = at[y] => x = y)
  BY <1>2, <1>6, <1>8
<1>12. \A x \in S : PlaceIn(new.sampled, at[x]) = PlaceIn(rec.sampled, id[x])
  <2> TAKE x \in S
  <2>1. PlaceIn({at[y] : y \in S}, at[x]) = PlaceIn(S, x)
    BY <1>1, <1>11, SamePlace
  <2>2. QED
    BY <1>8, <1>9, <1>10, <2>1
<1>13. \A x \in S : new.samples[PlaceIn(new.sampled, at[x])] = base.head[x]
  BY <1>4, <1>7, <1>12
<1>14. \A o \in 0..(w - 1) : \E x \in S :
         new.marks[o] = base.tail[BackLinkOf(x)] /\ new.markToSample[o] = PlaceIn(new.sampled, at[x])
  BY <1>4, <1>7, <1>12
<1>15. SubsamplesIn(new, at)
  <2>1. new.marks = rec.marks /\ new.markToSample = rec.markToSample
    BY <1>4
  <2>2. /\ w \in Nat /\ DOMAIN new.marks = 0..(w - 1) /\ DOMAIN new.markToSample = 0..(w - 1)
        /\ \A o, q \in 0..(w - 1) : o < q => new.marks[o] < new.marks[q]
        /\ \A x \in S : \E o \in 0..(w - 1) : new.marks[o] = base.tail[BackLinkOf(x)]
    BY <1>7, <2>1
  <2>3. QED
    BY ONLY <1>10, <1>13, <1>14, <2>2 DEF SubsamplesIn, S, w
<1>16. QED
  BY <1>5, <1>15 DEF new, at, r

\* SrCSASlim finds them by their places in the order of the alphabet.
LEMMA SortedByAlphabetIs ==
  ASSUME ItemsAreRight, KeptSamples \subseteq 0..(Size(base.run) - 1), NEW rec, HasItems(rec),
         SubsamplesIn(rec, [x \in 0..(Size(base.run) - 1) |-> x]),
         NEW at, at = [x \in 0..(Size(base.run) - 1) |->
                         CHOOSE i \in 0..(Size(base.run) - 1) : ByAlphabet(base.run)[i] = x]
  PROVE  HasItems(SortedByAlphabet(rec)) /\ SubsamplesIn(SortedByAlphabet(rec), at)
<1> DEFINE S == KeptSamples
           r == Size(base.run)
           K == 0..(r - 1)
           id == [x \in 0..(r - 1) |-> x]
           new == SortedByAlphabet(rec)
           w == Cardinality(S)
           order == ByAlphabet(base.run)
           kept == {i \in K : order[i] \in S}
           rank == [i \in kept |-> PlaceIn(S, order[i])]
           asc == Ascending(kept)
           toSorted(link) == CHOOSE k \in DOMAIN asc : rank[asc[k]] = link
<1>1. S \in SUBSET Int /\ IsFiniteSet(S) /\ S \subseteq K
  BY KeptIsFinite
<1>2. /\ r \in Nat \ {0} /\ order \in [K -> K]
      /\ \A x \in K : \E i \in K : order[i] = x
      /\ \A i, j \in K : order[i] = order[j] => i = j
  <2>1. Tiles(Size(text), base.bwt, base.run, r)
    BY DEF ItemsAreRight
  <2>2. r \in Nat \ {0}
    BY <2>1 DEF Tiles
  <2>3. order \in [K -> K]
    BY <2>1, ByAlphabetIs
  <2>4. \A x \in K : \E i \in K : order[i] = x
    BY <2>1, ByAlphabetIs
  <2>5. \A i, j \in K : order[i] = order[j] => i = j
    BY <2>1, ByAlphabetIs
  <2>6. QED
    BY <2>2, <2>3, <2>4, <2>5
<1>3. /\ rec.sampled = {id[x] : x \in S}
      /\ \A x \in S : rec.samples[PlaceIn(rec.sampled, id[x])] = base.head[x]
      /\ w \in Nat /\ DOMAIN rec.marks = 0..(w - 1) /\ DOMAIN rec.markToSample = 0..(w - 1)
      /\ \A o, q \in 0..(w - 1) : o < q => rec.marks[o] < rec.marks[q]
      /\ \A o \in 0..(w - 1) : \E x \in S :
           rec.marks[o] = base.tail[BackLinkOf(x)] /\ rec.markToSample[o] = PlaceIn(rec.sampled, id[x])
      /\ \A x \in S : \E o \in 0..(w - 1) : rec.marks[o] = base.tail[BackLinkOf(x)]
  BY DEF SubsamplesIn
<1>4. \A x \in S : id[x] = x
  BY <1>1
<1>5. DOMAIN rec = Fields /\ rec.run = base.run
  BY DEF HasItems
<1>6. rec.sampled = S
  BY <1>3, <1>4
<1>7. /\ new.sampled = kept
      /\ new.samples = [k \in DOMAIN asc |-> rec.samples[rank[asc[k]]]]
      /\ new.markToSample = [o \in DOMAIN rec.markToSample |-> toSorted(rec.markToSample[o])]
      /\ DOMAIN new = Fields /\ new.marks = rec.marks
      /\ new.kind = rec.kind /\ new.layout = rec.layout /\ new.rate = rec.rate /\ new.n = rec.n
      /\ new.bwt = rec.bwt /\ new.C = rec.C /\ new.run = rec.run /\ new.cumRuns = rec.cumRuns
  <2>1. DOMAIN ByAlphabet(rec.run) = K /\ ByAlphabet(rec.run) = order
    BY <1>2, <1>5
  <2>2. new = [rec EXCEPT !.sampled = kept,
                          !.samples = [k \in DOMAIN asc |-> rec.samples[rank[asc[k]]]],
                          !.markToSample = [o \in DOMAIN @ |-> toSorted(@[o])]]
    BY <1>6, <2>1 DEF SortedByAlphabet, PlaceIn
  <2> HIDE DEF kept, asc, rank, new
  <2>3. QED
    BY <1>5, <2>2 DEF Fields
<1>8. HasItems(new)
  BY <1>7 DEF HasItems
<1>9. \A x \in S : at[x] \in K /\ order[at[x]] = x /\ at[x] \in kept
  BY <1>1, <1>2
<1>10. \A i \in kept : order[i] \in S /\ at[order[i]] = i /\ rank[i] = PlaceIn(S, order[i])
  <2> TAKE i \in kept
  <2>1. i \in K /\ order[i] \in S
    OBVIOUS
  <2>2. order[at[order[i]]] = order[i] /\ at[order[i]] \in K
    BY <1>9, <2>1
  <2>3. at[order[i]] = i
    BY <1>2, <2>1, <2>2
  <2>4. QED
    BY <2>1, <2>3
<1>11. kept \in SUBSET Int /\ IsFiniteSet(kept)
  <2>1. IsFiniteSet(K) /\ \A x \in K : x \in Int
    BY <1>2, PositionsBelow
  <2>2. kept \in SUBSET K
    OBVIOUS
  <2>3. QED
    BY <2>1, <2>2, FS_Subset
<1> HIDE DEF S, r, K, id, new, w, order, kept, rank
<1>12. \A x \in S, y \in S : PlaceIn(S, x) = PlaceIn(S, y) => x = y
  <2>1. \A x \in S : Ascending(S)[PlaceIn(S, x)] = x
    BY <1>1, AscendingIs DEF PlaceIn
  <2>2. QED
    BY <2>1
<1>13. /\ \A k \in DOMAIN asc : asc[k] \in kept /\ PlaceIn(kept, asc[k]) = k
       /\ \A i \in kept : PlaceIn(kept, i) \in DOMAIN asc /\ asc[PlaceIn(kept, i)] = i
  BY <1>11, AscendingIs DEF PlaceIn
<1> HIDE DEF asc
<1>14. new.sampled = {at[x] : x \in S}
  <2>1. \A i \in kept : \E x \in S : i = at[x]
    BY <1>10
  <2>2. \A x \in S : at[x] \in kept
    BY <1>9
  <2>3. new.sampled = kept
    BY <1>7
  <2>4. QED
    BY ONLY <2>1, <2>2, <2>3
<1>15. ASSUME NEW x \in S
       PROVE  /\ PlaceIn(kept, at[x]) \in DOMAIN asc /\ asc[PlaceIn(kept, at[x])] = at[x]
              /\ rank[at[x]] = PlaceIn(S, x)
  <2>1. at[x] \in kept /\ order[at[x]] = x
    BY <1>9
  <2>2. rank[at[x]] = PlaceIn(S, order[at[x]])
    BY <1>10, <2>1
  <2>3. PlaceIn(kept, at[x]) \in DOMAIN asc /\ asc[PlaceIn(kept, at[x])] = at[x]
    BY <1>13, <2>1
  <2>4. QED
    BY <2>1, <2>2, <2>3
<1>16. ASSUME NEW x \in S
       PROVE  new.samples[PlaceIn(new.sampled, at[x])] = base.head[x]
  <2>1. new.samples[PlaceIn(kept, at[x])] = rec.samples[PlaceIn(S, x)]
    <3> DEFINE k == PlaceIn(kept, at[x])
    <3>1. k \in DOMAIN asc /\ asc[k] = at[x] /\ rank[at[x]] = PlaceIn(S, x)
      BY <1>15
    <3> HIDE DEF k
    <3>2. new.samples[k] = rec.samples[rank[asc[k]]]
      BY <1>7, <3>1
    <3>3. QED
      BY <3>1, <3>2 DEF k
  <2>2. rec.samples[PlaceIn(S, x)] = base.head[x]
    BY <1>3, <1>4, <1>6
  <2>3. QED
    BY <1>7, <2>1, <2>2
<1>17. ASSUME NEW x \in S
       PROVE  toSorted(PlaceIn(S, x)) = PlaceIn(kept, at[x])
  <2> DEFINE k == toSorted(PlaceIn(S, x))
  <2>1. k \in DOMAIN asc /\ rank[asc[k]] = PlaceIn(S, x)
    BY <1>15
  <2> HIDE DEF k
  <2>2. asc[k] \in kept /\ PlaceIn(kept, asc[k]) = k
    BY <1>13, <2>1
  <2>3. order[asc[k]] \in S /\ at[order[asc[k]]] = asc[k] /\ PlaceIn(S, order[asc[k]]) = PlaceIn(S, x)
    BY <1>10, <2>1, <2>2
  <2>4. order[asc[k]] = x
    BY <1>12, <2>3
  <2>5. QED
    BY <2>2, <2>3, <2>4 DEF k
<1> HIDE DEF toSorted
<1>18. \A o \in 0..(w - 1) : \E x \in S :
         new.marks[o] = base.tail[BackLinkOf(x)] /\ new.markToSample[o] = PlaceIn(new.sampled, at[x])
  <2> TAKE o \in 0..(w - 1)
  <2>1. PICK x \in S :
          rec.marks[o] = base.tail[BackLinkOf(x)] /\ rec.markToSample[o] = PlaceIn(rec.sampled, id[x])
    BY <1>3
  <2>2. new.markToSample[o] = toSorted(PlaceIn(S, x))
    <3>1. rec.markToSample[o] = PlaceIn(S, x) /\ o \in DOMAIN rec.markToSample
      BY <1>3, <1>4, <1>6, <2>1
    <3>2. new.markToSample[o] = toSorted(rec.markToSample[o])
      BY <1>7, <3>1
    <3>3. QED
      BY <3>1, <3>2
  <2>3. QED
    BY <1>7, <1>17, <2>1, <2>2
<1>19. \A x \in S : new.samples[PlaceIn(new.sampled, at[x])] = base.head[x]
  BY <1>16
<1>20. DOMAIN new.markToSample = 0..(w - 1)
  BY <1>3, <1>7
<1>21. SubsamplesIn(new, at)
  <2>1. new.marks = rec.marks
    BY <1>7
  <2>2. /\ w \in Nat /\ DOMAIN new.marks = 0..(w - 1)
        /\ \A o, q \in 0..(w - 1) : o < q => new.marks[o] < new.marks[q]
        /\ \A x \in S : \E o \in 0..(w - 1) : new.marks[o] = base.tail[BackLinkOf(x)]
    BY <1>3, <2>1
  <2>3. QED
    BY ONLY <1>14, <1>18, <1>19, <1>20, <2>2 DEF SubsamplesIn, S, w
<1>22. QED
  BY <1>8, <1>21 DEF new

\* What StoreSubsamples stores.
Stored ==
  CASE ix.layout = "position" -> AtPositions(Subsampled)
    [] ix.layout = "alphabet" -> SortedByAlphabet(Subsampled)
    [] ix.layout = "psi"      -> Subsampled

\* Whatever the layout, the sub-samples are stored where they are looked for.
LEMMA StoredIs ==
  ASSUME ItemsAreRight, KeptSamples \subseteq 0..(Size(base.run) - 1),
         ix.layout \in {"position", "alphabet", "psi"}
  PROVE  HasItems(Stored) /\ SubsamplesIn(Stored, SampledAt)
<1> DEFINE r == Size(base.run)
           id == [x \in 0..(r - 1) |-> x]
           starts == [x \in 0..(r - 1) |-> base.run[x].start]
           places == [x \in 0..(r - 1) |-> CHOOSE i \in 0..(r - 1) : ByAlphabet(base.run)[i] = x]
<1>1. HasItems(Subsampled) /\ SubsamplesIn(Subsampled, id)
  BY SubsampledIs
<1>2. CASE ix.layout = "position"
  <2>1. Stored = AtPositions(Subsampled) /\ SampledAt = starts
    BY <1>2 DEF Stored, SampledAt
  <2>2. HasItems(AtPositions(Subsampled)) /\ SubsamplesIn(AtPositions(Subsampled), starts)
    BY <1>1, AtPositionsIs
  <2> HIDE DEF starts
  <2>3. QED
    BY <2>1, <2>2
<1>3. CASE ix.layout = "alphabet"
  <2>1. Stored = SortedByAlphabet(Subsampled) /\ SampledAt = places
    BY <1>3 DEF Stored, SampledAt
  <2>2. HasItems(SortedByAlphabet(Subsampled)) /\ SubsamplesIn(SortedByAlphabet(Subsampled), places)
    BY <1>1, SortedByAlphabetIs
  <2> HIDE DEF places
  <2>3. QED
    BY <2>1, <2>2
<1>4. CASE ix.layout = "psi"
  <2>1. Stored = Subsampled /\ SampledAt = id
    BY <1>4 DEF Stored, SampledAt
  <2> HIDE DEF id
  <2>2. QED
    BY <1>1, <2>1
<1>5. QED
  BY <1>2, <1>3, <1>4

-----------------------------------------------------------------------------
(* The marks an index keeps, and computeSubmarksValidity, called on them   *)
(* and on all marks from the end of the text on.                           *)

\* The marks are sorted marks of the text with its first and its last among them,
\* and each leads to the sample of the suffix after it.
MarksAreRight ==
  LET w == Size(ix.marks)
      r == Size(base.run)
  IN /\ w \in Nat \ {0} /\ DOMAIN ix.marks = 0..(w - 1)
     /\ \A o, q \in 0..(w - 1) : o < q => ix.marks[o] < ix.marks[q]
     /\ \A o \in 0..(w - 1) : \E k \in 0..(r - 1) :
          ix.marks[o] = base.tail[k] /\ ix.samples[ix.markToSample[o]] = base.head[LinkOf(k)]
     /\ \A k \in 0..(r - 1) : ix.marks[0] <= base.tail[k] /\ base.tail[k] <= ix.marks[w - 1]

\* Sub-sampling keeps the first and the last mark, whose samples it must keep.
LEMMA SubmarksAre ==
  ASSUME ItemsAreRight, SamplingProofs!IInv, SamplingDone, SubsamplesIn(ix, SampledAt)
  PROVE  MarksAreRight
<1> DEFINE S == KeptSamples
           r == Size(base.run)
           w == Cardinality(S)
           N == Size(text)
           sm == base.sortedMarks
<1>1. /\ r \in Nat \ {0} /\ N \in Nat \ {0}
      /\ base.tail \in [0..(r - 1) -> 0..(N - 1)]
      /\ Sorts(sm, base.tail, r)
      /\ base.markToSample = [o \in 0..(r - 1) |-> LinkOf(sm[o])]
      /\ \A k \in 0..(r - 1) :
           /\ LinkOf(k) \in 0..(r - 1) /\ BackLinkOf(k) \in 0..(r - 1)
           /\ LinkOf(BackLinkOf(k)) = k /\ BackLinkOf(LinkOf(k)) = k
  BY DEF ItemsAreRight, Tiles
<1>2. S \subseteq 0..(r - 1) /\ Extremes(base.markToSample) \cap (0..(r - 1)) \subseteq S
  BY KeptIs
<1>3. /\ \A x \in S : ix.samples[PlaceIn(ix.sampled, SampledAt[x])] = base.head[x]
      /\ w \in Nat /\ DOMAIN ix.marks = 0..(w - 1)
      /\ \A o, q \in 0..(w - 1) : o < q => ix.marks[o] < ix.marks[q]
      /\ \A o \in 0..(w - 1) : \E x \in S :
           /\ ix.marks[o] = base.tail[BackLinkOf(x)]
           /\ ix.markToSample[o] = PlaceIn(ix.sampled, SampledAt[x])
      /\ \A x \in S : \E o \in 0..(w - 1) : ix.marks[o] = base.tail[BackLinkOf(x)]
  BY DEF SubsamplesIn
<1> HIDE DEF S, r, w, N, sm
<1>4. /\ sm \in [0..(r - 1) -> 0..(r - 1)]
      /\ \A k, m \in 0..(r - 1) : k < m <=> base.tail[sm[k]] < base.tail[sm[m]]
      /\ \A i \in 0..(r - 1) : \E k \in 0..(r - 1) : sm[k] = i
  BY <1>1 DEF Sorts
<1>5. \A k \in 0..(r - 1) : base.tail[k] \in Int
  <2>1. \A v \in 0..(N - 1) : v \in Int
    OBVIOUS
  <2>2. QED
    BY <1>1, <2>1
<1>6. 0 \in 0..(r - 1) /\ r - 1 \in 0..(r - 1)
  BY <1>1
<1>7. sm[0] \in 0..(r - 1) /\ sm[r - 1] \in 0..(r - 1)
  BY <1>4, <1>6
<1>8. \A k \in 0..(r - 1) : base.tail[sm[0]] <= base.tail[k] /\ base.tail[k] <= base.tail[sm[r - 1]]
  <2> TAKE k \in 0..(r - 1)
  <2> DEFINE a == [o \in 0..(r - 1) |-> base.tail[sm[o]]]
  <2>1. PICK i \in 0..(r - 1) : sm[i] = k
    BY <1>4
  <2>2. \A o \in 0..(r - 1) : a[o] = base.tail[sm[o]] /\ a[o] \in Int
    BY <1>4, <1>5
  <2>3. \A o, q \in 0..(r - 1) : o < q => a[o] < a[q]
    BY <1>4, <2>2
  <2> HIDE DEF a
  <2>4. a[0] <= a[i] /\ a[i] <= a[r - 1]
    BY <1>1, <2>2, <2>3, ExtremesOf
  <2>5. QED
    BY <1>6, <2>1, <2>2, <2>4
<1>9. \A o \in {0, r - 1} : \E q \in 0..(w - 1) : ix.marks[q] = base.tail[sm[o]]
  <2> TAKE o \in {0, r - 1}
  <2>1. o \in 0..(r - 1) /\ sm[o] \in 0..(r - 1)
    BY <1>6, <1>7
  <2>2. base.markToSample[o] = LinkOf(sm[o]) /\ LinkOf(sm[o]) \in 0..(r - 1)
    BY <1>1, <2>1
  <2>3. Size(base.markToSample) = r
    <3>1. DOMAIN base.markToSample = 0..(r - 1) /\ r \in Nat
      BY <1>1
    <3>2. QED
      BY <3>1, SizeIs
  <2>4. LinkOf(sm[o]) \in Extremes(base.markToSample)
    BY <2>2, <2>3 DEF Extremes
  <2>5. LinkOf(sm[o]) \in S
    BY <1>2, <2>2, <2>4
  <2>6. BackLinkOf(LinkOf(sm[o])) = sm[o]
    BY <1>1, <2>1
  <2>7. QED
    BY <1>3, <2>5, <2>6
<1>10. PICK lo \in 0..(w - 1) : ix.marks[lo] = base.tail[sm[0]]
  BY <1>9
<1>11. PICK hi \in 0..(w - 1) : ix.marks[hi] = base.tail[sm[r - 1]]
  BY <1>9
<1>12. w \in Nat \ {0} /\ Size(ix.marks) = w
  BY <1>3, <1>10, SizeIs
<1>13. \A o \in 0..(w - 1) : \E k \in 0..(r - 1) :
         /\ ix.marks[o] = base.tail[k] /\ ix.marks[o] \in Int
         /\ ix.samples[ix.markToSample[o]] = base.head[LinkOf(k)]
  <2> TAKE o \in 0..(w - 1)
  <2>1. PICK x \in S : /\ ix.marks[o] = base.tail[BackLinkOf(x)]
                       /\ ix.markToSample[o] = PlaceIn(ix.sampled, SampledAt[x])
    BY <1>3
  <2>2. x \in 0..(r - 1)
    BY <1>2
  <2>3. ix.samples[ix.markToSample[o]] = base.head[x] /\ x = LinkOf(BackLinkOf(x))
        /\ BackLinkOf(x) \in 0..(r - 1)
    BY <1>1, <1>3, <2>1, <2>2
  <2>4. base.tail[BackLinkOf(x)] \in Int
    BY <1>5, <2>3
  <2>5. QED
    BY <2>1, <2>3, <2>4
<1>14. ix.marks[0] <= ix.marks[lo] /\ ix.marks[hi] <= ix.marks[w - 1]
  <2>1. \A o \in 0..(w - 1) : ix.marks[o] \in Int
    BY <1>13
  <2>2. QED
    BY <1>3, <1>12, <2>1, ExtremesOf
<1>15. \A k \in 0..(r - 1) : ix.marks[0] <= base.tail[k] /\ base.tail[k] <= ix.marks[w - 1]
  <2> TAKE k \in 0..(r - 1)
  <2>1. base.tail[sm[0]] <= base.tail[k] /\ base.tail[k] <= base.tail[sm[r - 1]]
    BY <1>8
  <2>2. 0 \in 0..(w - 1) /\ w - 1 \in 0..(w - 1)
    BY <1>12
  <2>3. ix.marks[0] \in Int /\ ix.marks[w - 1] \in Int
    BY <1>13, <2>2
  <2>4. base.tail[k] \in Int /\ base.tail[sm[0]] \in Int /\ base.tail[sm[r - 1]] \in Int
    BY <1>5, <1>7
  <2>5. QED
    BY <1>10, <1>11, <1>14, <2>1, <2>3, <2>4
<1>16. QED
  BY <1>3, <1>12, <1>13, <1>15 DEF MarksAreRight, r

\* An r-csa has the samples and the marks of all runs.
AllStored ==
  /\ HasItems(ix)
  /\ ix.samples = base.head
  /\ ix.marks = [o \in DOMAIN base.run |-> base.tail[base.sortedMarks[o]]]
  /\ ix.markToSample = base.markToSample

\* All marks of the text are right marks.
LEMMA AllMarks ==
  ASSUME ItemsAreRight, AllStored
  PROVE  /\ MarksAreRight
         /\ \A k \in 0..(Size(base.run) - 1) : \E o \in DOMAIN ix.marks : ix.marks[o] = base.tail[k]
<1> DEFINE r == Size(base.run)
           N == Size(text)
           sm == base.sortedMarks
<1>1. /\ r \in Nat \ {0} /\ N \in Nat \ {0} /\ DOMAIN base.run = 0..(r - 1)
      /\ base.tail \in [0..(r - 1) -> 0..(N - 1)]
      /\ Sorts(sm, base.tail, r)
      /\ base.markToSample = [o \in 0..(r - 1) |-> LinkOf(sm[o])]
  BY DEF ItemsAreRight, Tiles
<1> HIDE DEF r, N, sm
<1>2. /\ sm \in [0..(r - 1) -> 0..(r - 1)]
      /\ \A k, m \in 0..(r - 1) : k < m <=> base.tail[sm[k]] < base.tail[sm[m]]
      /\ \A i \in 0..(r - 1) : \E k \in 0..(r - 1) : sm[k] = i
  BY <1>1 DEF Sorts
<1>3. ix.marks = [o \in 0..(r - 1) |-> base.tail[sm[o]]]
  BY <1>1 DEF AllStored, sm
<1>4. /\ DOMAIN ix.marks = 0..(r - 1) /\ Size(ix.marks) = r
      /\ \A o \in 0..(r - 1) : ix.marks[o] = base.tail[sm[o]] /\ ix.marks[o] \in Int
  <2>1. DOMAIN ix.marks = 0..(r - 1) /\ \A o \in 0..(r - 1) : ix.marks[o] = base.tail[sm[o]]
    BY <1>3
  <2>2. Size(ix.marks) = r
    BY <1>1, <2>1, SizeIs
  <2>3. \A v \in 0..(N - 1) : v \in Int
    OBVIOUS
  <2>4. \A o \in 0..(r - 1) : base.tail[sm[o]] \in Int
    BY <1>1, <1>2, <2>3
  <2>5. QED
    BY <2>1, <2>2, <2>4
<1>5. \A o, q \in 0..(r - 1) : o < q => ix.marks[o] < ix.marks[q]
  <2> TAKE o, q \in 0..(r - 1)
  <2>1. o < q => base.tail[sm[o]] < base.tail[sm[q]]
    BY <1>2
  <2>2. ix.marks[o] = base.tail[sm[o]] /\ ix.marks[q] = base.tail[sm[q]]
    BY <1>4
  <2>3. QED
    BY ONLY <2>1, <2>2
<1>6. \A k \in 0..(r - 1) : \E o \in 0..(r - 1) : ix.marks[o] = base.tail[k]
  BY <1>2, <1>4
<1>7. \A o \in 0..(r - 1) : \E k \in 0..(r - 1) :
        ix.marks[o] = base.tail[k] /\ ix.samples[ix.markToSample[o]] = base.head[LinkOf(k)]
  <2> TAKE o \in 0..(r - 1)
  <2>1. sm[o] \in 0..(r - 1)
    BY <1>2
  <2>2. ix.markToSample[o] = LinkOf(sm[o]) /\ ix.samples = base.head
    BY <1>1 DEF AllStored
  <2>3. QED
    BY <1>4, <2>1, <2>2
<1>8. \A k \in 0..(r - 1) : ix.marks[0] <= base.tail[k] /\ base.tail[k] <= ix.marks[r - 1]
  <2> TAKE k \in 0..(r - 1)
  <2>1. PICK o \in 0..(r - 1) : ix.marks[o] = base.tail[k]
    BY <1>6
  <2>2. \A i \in 0..(r - 1) : ix.marks[i] \in Int
    BY <1>4
  <2>3. ix.marks[0] <= ix.marks[o] /\ ix.marks[o] <= ix.marks[r - 1]
    BY <1>1, <1>5, <2>2, ExtremesOf
  <2>4. QED
    BY <2>1, <2>3
<1>9. MarksAreRight
  BY <1>1, <1>4, <1>5, <1>7, <1>8 DEF MarksAreRight, r
<1>10. QED
  BY <1>4, <1>6, <1>9 DEF r

\* A list of text positions read from its end, as distances to the end of the text.
LEMMA FromEndIs ==
  ASSUME NEW r \in Nat, Size(text) \in Nat \ {0}, NEW a, DOMAIN a = 0..(r - 1),
         \A k \in 0..(r - 1) : a[k] \in 0..(Size(text) - 1)
  PROVE  /\ FromEnd(a) \in Seq(Nat) /\ Len(FromEnd(a)) = r /\ DOMAIN FromEnd(a) = 1..r
         /\ \A k \in 1..r : FromEnd(a)[k] = Size(text) - 1 - a[r - k]
<1> DEFINE N == Size(text)
<1>1. Size(a) = r
  BY SizeIs
<1>2. \A k \in 1..r : Backwards(a)[k] = a[r - k] /\ r - k \in 0..(r - 1)
  BY <1>1 DEF Backwards
<1>3. FromEnd(a) = [k \in 1..r |-> N - 1 - a[r - k]]
  BY <1>1, <1>2 DEF FromEnd
<1> HIDE DEF N
<1>4. \A k \in 1..r : N - 1 - a[r - k] \in Nat
  <2> TAKE k \in 1..r
  <2>1. a[r - k] \in 0..(N - 1)
    BY <1>2 DEF N
  <2>2. QED
    BY <2>1 DEF N
<1>5. QED
  BY <1>3, <1>4 DEF N

\* The call of computeSubmarksValidity for the items and the marks stored.
ValidityJob ==
  [marks    |-> FromEnd([o \in DOMAIN base.tail |-> base.tail[base.sortedMarks[o]]]),
   submarks |-> FromEnd(ix.marks)]

\* computeSubmarksValidity is called as it must be: from the end of the text on,
\* with sub-marks that are marks, the last mark of the text first in both lists.
LEMMA ValidityJobIs ==
  ASSUME ItemsAreRight, MarksAreRight
  PROVE  LET N == Size(text)
             w == Size(ix.marks)
             r == Size(base.run)
         IN /\ Validity!LegalJob(ValidityJob)
            /\ Len(ValidityJob.submarks) = w
            /\ \A o \in 0..(w - 1) : ValidityJob.submarks[w - o] = N - 1 - ix.marks[o]
            /\ \A k \in 0..(r - 1) : \E j \in DOMAIN ValidityJob.marks :
                 ValidityJob.marks[j] = N - 1 - base.tail[k]
<1> DEFINE N == Size(text)
           w == Size(ix.marks)
           r == Size(base.run)
           sm == base.sortedMarks
           a == [o \in DOMAIN base.tail |-> base.tail[sm[o]]]
           M == FromEnd(a)
           U == FromEnd(ix.marks)
<1>1. /\ r \in Nat \ {0} /\ N \in Nat \ {0}
      /\ base.tail \in [0..(r - 1) -> 0..(N - 1)]
      /\ Sorts(sm, base.tail, r)
  BY DEF ItemsAreRight, Tiles
<1>2. /\ w \in Nat \ {0} /\ DOMAIN ix.marks = 0..(w - 1)
      /\ \A o, q \in 0..(w - 1) : o < q => ix.marks[o] < ix.marks[q]
      /\ \A o \in 0..(w - 1) : \E k \in 0..(r - 1) : ix.marks[o] = base.tail[k]
      /\ \A k \in 0..(r - 1) : ix.marks[0] <= base.tail[k] /\ base.tail[k] <= ix.marks[w - 1]
  BY DEF MarksAreRight
<1>3. ValidityJob = [marks |-> M, submarks |-> U]
  BY DEF ValidityJob
<1> HIDE DEF N, w, r, sm
<1>4. /\ sm \in [0..(r - 1) -> 0..(r - 1)]
      /\ \A k, m \in 0..(r - 1) : k < m <=> base.tail[sm[k]] < base.tail[sm[m]]
      /\ \A i \in 0..(r - 1) : \E k \in 0..(r - 1) : sm[k] = i
  BY <1>1 DEF Sorts
<1>5. /\ a \in [0..(r - 1) -> 0..(N - 1)]
      /\ \A o \in 0..(r - 1) : a[o] = base.tail[sm[o]]
      /\ \A k \in 0..(r - 1) : \E o \in 0..(r - 1) : a[o] = base.tail[k]
  <2>1. DOMAIN base.tail = 0..(r - 1)
    BY <1>1
  <2>2. \A o \in 0..(r - 1) : a[o] = base.tail[sm[o]] /\ a[o] \in 0..(N - 1)
    BY <1>1, <1>4, <2>1
  <2>3. a \in [0..(r - 1) -> 0..(N - 1)]
    BY <2>1, <2>2
  <2>4. QED
    BY <1>4, <2>2, <2>3
<1>6. \A o, q \in 0..(r - 1) : o < q => a[o] < a[q]
  <2> TAKE o, q \in 0..(r - 1)
  <2>1. o < q => base.tail[sm[o]] < base.tail[sm[q]]
    BY <1>4
  <2>2. a[o] = base.tail[sm[o]] /\ a[q] = base.tail[sm[q]]
    BY <1>5
  <2> HIDE DEF a
  <2>3. QED
    BY ONLY <2>1, <2>2
<1>7. \A o \in 0..(w - 1) : ix.marks[o] \in 0..(N - 1) /\ ix.marks[o] \in Int
  <2>1. \A o \in 0..(w - 1) : ix.marks[o] \in 0..(N - 1)
    BY <1>1, <1>2
  <2>2. \A v \in 0..(N - 1) : v \in Int
    OBVIOUS
  <2>3. QED
    BY <2>1, <2>2
<1> HIDE DEF a
<1>8. /\ M \in Seq(Nat) /\ Len(M) = r /\ DOMAIN M = 1..r
      /\ \A k \in 1..r : M[k] = N - 1 - a[r - k]
  <2>1. DOMAIN a = 0..(r - 1) /\ r \in Nat /\ \A k \in 0..(r - 1) : a[k] \in 0..(N - 1)
    BY <1>1, <1>5
  <2>2. QED
    BY <1>1, <2>1, FromEndIs DEF N
<1>9. /\ U \in Seq(Nat) /\ Len(U) = w /\ DOMAIN U = 1..w
      /\ \A k \in 1..w : U[k] = N - 1 - ix.marks[w - k]
  <2>1. w \in Nat
    BY <1>2
  <2>2. QED
    BY <1>1, <1>2, <1>7, <2>1, FromEndIs DEF N
<1> HIDE DEF M, U
<1>10. Validity!StrictlyIncreasing(M)
  <2>1. SUFFICES ASSUME NEW i \in 1..r, NEW j \in 1..r, i < j
                 PROVE  M[i] < M[j]
    BY <1>8 DEF Validity!StrictlyIncreasing
  <2>2. r - i \in 0..(r - 1) /\ r - j \in 0..(r - 1) /\ r - j < r - i
    BY <1>1, <2>1
  <2>3. a[r - j] < a[r - i] /\ a[r - j] \in 0..(N - 1) /\ a[r - i] \in 0..(N - 1)
    BY <1>5, <1>6, <2>2
  <2>4. M[i] = N - 1 - a[r - i] /\ M[j] = N - 1 - a[r - j]
    BY <1>8
  <2>5. QED
    BY <1>1, <2>3, <2>4
<1>11. Validity!StrictlyIncreasing(U)
  <2>1. SUFFICES ASSUME NEW i \in 1..w, NEW j \in 1..w, i < j
                 PROVE  U[i] < U[j]
    BY <1>9 DEF Validity!StrictlyIncreasing
  <2>2. w - i \in 0..(w - 1) /\ w - j \in 0..(w - 1) /\ w - j < w - i
    BY <1>2, <2>1
  <2>3. /\ ix.marks[w - j] < ix.marks[w - i]
        /\ ix.marks[w - j] \in 0..(N - 1) /\ ix.marks[w - i] \in 0..(N - 1)
    BY <1>2, <1>7, <2>2
  <2>4. U[i] = N - 1 - ix.marks[w - i] /\ U[j] = N - 1 - ix.marks[w - j]
    BY <1>9
  <2>5. QED
    BY <1>1, <2>3, <2>4
<1>12. \A k \in 0..(r - 1) : \E j \in 1..r : M[j] = N - 1 - base.tail[k]
  <2> TAKE k \in 0..(r - 1)
  <2>1. PICK o \in 0..(r - 1) : a[o] = base.tail[k]
    BY <1>5
  <2>2. r - o \in 1..r /\ r - (r - o) = o
    BY <1>1
  <2>3. M[r - o] = N - 1 - a[o]
    BY <1>8, <2>2
  <2>4. QED
    BY <2>1, <2>2, <2>3
<1>13. \A i \in 1..w : \E j \in 1..r : U[i] = M[j]
  <2> TAKE i \in 1..w
  <2>1. w - i \in 0..(w - 1) /\ U[i] = N - 1 - ix.marks[w - i]
    BY <1>2, <1>9
  <2>2. PICK k \in 0..(r - 1) : ix.marks[w - i] = base.tail[k]
    BY <1>2, <2>1
  <2>3. QED
    BY <1>12, <2>1, <2>2
<1>14. 1 \in 1..w /\ 1 \in 1..r /\ U[1] = M[1]
  <2>1. 1 \in 1..w /\ 1 \in 1..r /\ r - 1 \in 0..(r - 1) /\ w - 1 \in 0..(w - 1)
    BY <1>1, <1>2
  <2>2. U[1] = N - 1 - ix.marks[w - 1] /\ M[1] = N - 1 - a[r - 1]
    BY <1>8, <1>9, <2>1
  <2>3. PICK k \in 0..(r - 1) : ix.marks[w - 1] = base.tail[k]
    BY <1>2, <2>1
  <2>4. PICK o \in 0..(r - 1) : a[o] = base.tail[k]
    BY <1>5
  <2>5. PICK m \in 0..(r - 1) : a[r - 1] = base.tail[m]
    <3>1. a[r - 1] = base.tail[sm[r - 1]] /\ sm[r - 1] \in 0..(r - 1)
      BY <1>4, <1>5, <2>1
    <3>2. QED
      BY <3>1
  <2>6. a[r - 1] <= ix.marks[w - 1]
    BY <1>2, <2>5
  <2>7. a[o] <= a[r - 1]
    <3>1. \A q \in 0..(r - 1) : a[q] \in Int
      <4>1. \A v \in 0..(N - 1) : v \in Int
        OBVIOUS
      <4>2. QED
        BY <1>5, <4>1
    <3>2. QED
      BY <1>1, <1>6, <3>1, ExtremesOf
  <2>8. a[r - 1] \in 0..(N - 1) /\ ix.marks[w - 1] \in 0..(N - 1)
    BY <1>5, <1>7, <2>1
  <2>9. a[r - 1] = ix.marks[w - 1]
    BY <2>3, <2>4, <2>6, <2>7, <2>8
  <2>10. QED
    BY <2>1, <2>2, <2>9
<1>15. /\ ValidityJob.marks = M /\ ValidityJob.submarks = U
       /\ DOMAIN ValidityJob = {"marks", "submarks"}
  BY <1>3
<1>16. Validity!LegalJob(ValidityJob)
  <2>1. \A i \in DOMAIN U : \E j \in DOMAIN M : U[i] = M[j]
    BY <1>8, <1>9, <1>13
  <2>2. 1 \in DOMAIN U /\ 1 \in DOMAIN M /\ U[1] = M[1]
    BY <1>8, <1>9, <1>14
  <2>3. M \in Seq(Nat) /\ U \in Seq(Nat)
    BY <1>8, <1>9
  <2>4. QED
    BY ONLY <1>10, <1>11, <1>15, <2>1, <2>2, <2>3 DEF Validity!LegalJob
<1>17. \A o \in 0..(w - 1) : U[w - o] = N - 1 - ix.marks[o]
  <2> TAKE o \in 0..(w - 1)
  <2>1. w - o \in 1..w /\ w - (w - o) = o
    BY <1>2
  <2>2. QED
    BY <1>9, <2>1
<1>18. QED
  BY <1>8, <1>9, <1>12, <1>15, <1>16, <1>17 DEF N, w, r

-----------------------------------------------------------------------------
(* The inductive invariant of the construction.                            *)

\* The sub-samples are stored, by now or before.
HasSubsamples ==
  phase \in {"submarks", "validity"} \/ (phase = "done" /\ ix.kind \notin {"raw", "r"})

\* What computeSubmarksValidity reports is stored.
ValidityStored ==
  /\ vPc = "done" /\ vJob = ValidityJob
  /\ ix.invalid = {Size(ix.marks) - vReports[e][1] - 1 : e \in DOMAIN vReports}
  /\ ix.area = [e \in 0..(Len(vReports) - 1) |-> vReports[Len(vReports) - e][2]]

\* What is built, stage by stage: each stage finds what the ones before it left.
Inputs ==
  /\ TextIsBuilt
  /\ ix.kind \in {"raw", "r", "sr", "vm", "va"}
  /\ ix.layout \in {"position", "alphabet", "psi"}
  /\ ix.kind = "raw" => ix.layout = "position"
  /\ ix.kind = "r" => ix.layout # "alphabet"
  /\ ix.kind \notin {"raw", "r"} => ix.rate \in Nat \ {0}
  /\ ix.kind \in {"raw", "r"} => ix.rate = 0

Stages ==
  /\ phase \in {"base", "load", "sort", "samples", "submarks", "validity", "done"}
  /\ phase = "load" => ix.kind \in {"raw", "r"}
  /\ phase \in {"sort", "samples"} => ix.kind \notin {"raw", "r"}
  /\ phase \in {"submarks", "validity"} => ix.kind \in {"vm", "va"}
  /\ stage # "off" => phase = "done"

ItemsInv == phase # "base" => base = RCsaItems

SubStored == HasItems(ix) /\ SubsamplesIn(ix, SampledAt)

SamplingInv ==
  /\ SamplingProofs!IInv
  /\ phase \in {"base", "load", "sort"} => SamplingFresh
  /\ phase = "samples" => sJob = SamplingJob(base, ix.rate)
  /\ HasSubsamples => sPc = "done" /\ sJob = SamplingJob(base, ix.rate) /\ SubStored

ValidityInv ==
  /\ ValidityProofs!IInv
  /\ phase \in {"base", "load", "sort", "samples", "submarks"} => ValidityFresh
  /\ phase = "validity" => vJob = ValidityJob
  /\ phase = "done" /\ ix.kind \in {"vm", "va"} => ValidityStored

RCsaInv == phase = "done" /\ ix.kind \in {"raw", "r"} => AllStored

BuildInv == Inputs /\ Stages /\ ItemsInv /\ SamplingInv /\ ValidityInv /\ RCsaInv

\* Before the construction there is only the text and its suffix array.
LEMMA BuildInvInit ==
  ASSUME SystemInit
  PROVE  BuildInv
<1>1. BuildInit /\ stage = "off"
  BY DEF SystemInit, Init
<1>2. TextIsBuilt
  <2>1. PICK s \in Texts : text = WithSentinel(s)
    BY <1>1 DEF BuildInit
  <2>2. s \in Seq(Nat \ {0})
    BY CsaAssumption
  <2>3. Size(WithSentinel(s)) = Len(s) + 1 /\ Terminated(WithSentinel(s), Len(s) + 1)
    BY <2>2, SentinelIs
  <2>4. Terminated(WithSentinel(s), Size(WithSentinel(s)))
    BY <2>3
  <2>5. QED
    BY <1>1, <2>1, <2>4 DEF BuildInit, TextIsBuilt
<1>3. phase = "base"
  BY <1>1 DEF BuildInit
<1>4. /\ ix.kind \in {"raw", "r", "sr", "vm", "va"}
      /\ ix.layout \in {"position", "alphabet", "psi"}
      /\ ix.kind = "raw" => ix.layout = "position"
      /\ ix.kind = "r" => ix.layout # "alphabet"
      /\ ix.kind \notin {"raw", "r"} => ix.rate \in Nat \ {0}
      /\ ix.kind \in {"raw", "r"} => ix.rate = 0
  <2>1. PICK v \in Variants, rate \in Rates :
          ix = [kind |-> v.kind, layout |-> v.layout, n |-> 0,
                rate |-> IF v.kind \in {"raw", "r"} THEN 0 ELSE rate]
    BY <1>1 DEF BuildInit
  <2>2. /\ ix.kind = v.kind /\ ix.layout = v.layout
        /\ ix.rate = IF v.kind \in {"raw", "r"} THEN 0 ELSE rate
    BY <2>1
  <2>3. /\ rate \in Nat \ {0}
        /\ v \in [kind : {"sr", "vm", "va"}, layout : {"position", "alphabet", "psi"}]
             \cup [kind : {"r"}, layout : {"position", "psi"}]
             \cup [kind : {"raw"}, layout : {"position"}]
    BY CsaAssumption
  <2>4. \/ v.kind \in {"sr", "vm", "va"} /\ v.layout \in {"position", "alphabet", "psi"}
        \/ v.kind = "r" /\ v.layout \in {"position", "psi"}
        \/ v.kind = "raw" /\ v.layout = "position"
    BY <2>3
  <2>5. QED
    BY <2>2, <2>3, <2>4
<1>5. /\ SamplingFresh /\ ValidityFresh
      /\ sJob = [s |-> 0, v |-> <<>>, req |-> {}] /\ vJob = [marks |-> <<0>>, submarks |-> <<0>>]
  BY <1>1 DEF BuildInit, SamplingFresh, ValidityFresh
<1>6. Sampling!LegalJob(sJob)
  BY <1>5 DEF Sampling!LegalJob, Sampling!Increasing
<1>7. Validity!LegalJob(vJob)
  <2>1. <<0>> \in Seq(Nat) /\ DOMAIN <<0>> = {1} /\ <<0>>[1] = 0
    OBVIOUS
  <2>2. Validity!StrictlyIncreasing(<<0>>)
    BY <2>1 DEF Validity!StrictlyIncreasing
  <2>3. vJob.marks = <<0>> /\ vJob.submarks = <<0>> /\ DOMAIN vJob = {"marks", "submarks"}
    BY <1>5
  <2>4. QED
    BY <2>1, <2>2, <2>3 DEF Validity!LegalJob
<1>8. SamplingProofs!IInv /\ ValidityProofs!IInv
  BY <1>5, <1>6, <1>7, FreshLoops
<1>9. Inputs /\ Stages /\ ItemsInv /\ RCsaInv
  BY <1>1, <1>2, <1>3, <1>4 DEF Inputs, Stages, ItemsInv, RCsaInv
<1>10. SamplingInv /\ ValidityInv
  BY <1>3, <1>5, <1>8 DEF SamplingInv, ValidityInv, HasSubsamples
<1>11. QED
  BY <1>9, <1>10 DEF BuildInv

\* What depends only on the text, the items, the class and the samples kept stays
\* as long as they do.
LEMMA JobsStay ==
  ASSUME UNCHANGED <<text, sa, base, sKept>>,
         ix'.kind = ix.kind, ix'.layout = ix.layout, ix'.rate = ix.rate
  PROVE  /\ TextIsBuilt' = TextIsBuilt
         /\ RCsaItems' = RCsaItems
         /\ SamplingJob(base, ix.rate)' = SamplingJob(base, ix.rate)
         /\ KeptSamples' = KeptSamples /\ SampledAt' = SampledAt
         /\ ix'.marks = ix.marks => ValidityJob' = ValidityJob
<1>1. text' = text /\ sa' = sa /\ base' = base /\ sKept' = sKept
  OBVIOUS
<1>2. TextIsBuilt' = TextIsBuilt
  BY <1>1 DEF TextIsBuilt
<1>3. RCsaItems' = RCsaItems
  BY <1>1 DEF RCsaItems
<1>4. SamplingJob(base, ix.rate)' = SamplingJob(base, ix.rate)
  BY <1>1 DEF SamplingJob
<1>5. KeptSamples' = KeptSamples
  BY <1>1 DEF KeptSamples
<1>6. SampledAt' = SampledAt
  BY <1>1 DEF SampledAt
<1>7. ix'.marks = ix.marks => ValidityJob' = ValidityJob
  BY <1>1 DEF ValidityJob, FromEnd, Backwards
<1>8. QED
  BY <1>2, <1>3, <1>4, <1>5, <1>6, <1>7

\* Sub-samples in a record are in the index that takes them from it.
LEMMA SubsamplesStay ==
  ASSUME UNCHANGED <<text, sa, base, sKept>>,
         ix'.kind = ix.kind, ix'.layout = ix.layout, ix'.rate = ix.rate,
         NEW rec, HasItems(rec), SubsamplesIn(rec, SampledAt),
         DOMAIN ix' = Fields, ix'.n = rec.n, ix'.bwt = rec.bwt, ix'.C = rec.C, ix'.run = rec.run,
         ix'.cumRuns = rec.cumRuns, ix'.sampled = rec.sampled, ix'.samples = rec.samples,
         ix'.marks = rec.marks, ix'.markToSample = rec.markToSample
  PROVE  SubStored'
<1>1. text' = text /\ base' = base /\ sKept' = sKept /\ KeptSamples' = KeptSamples /\ SampledAt' = SampledAt
  BY JobsStay
<1>2. HasItems(ix)'
  BY <1>1 DEF HasItems
<1> DEFINE kept == KeptSamples
           at == SampledAt
           w == Cardinality(kept)
<1>3. \A x : BackLinkOf(x)' = BackLinkOf(x)
  BY <1>1 DEF BackLinkOf
<1>4. /\ rec.sampled = {at[x] : x \in kept}
      /\ \A x \in kept : rec.samples[PlaceIn(rec.sampled, at[x])] = base.head[x]
      /\ w \in Nat /\ DOMAIN rec.marks = 0..(w - 1) /\ DOMAIN rec.markToSample = 0..(w - 1)
      /\ \A o, q \in 0..(w - 1) : o < q => rec.marks[o] < rec.marks[q]
      /\ \A o \in 0..(w - 1) : \E x \in kept :
           /\ rec.marks[o] = base.tail[BackLinkOf(x)]
           /\ rec.markToSample[o] = PlaceIn(rec.sampled, at[x])
      /\ \A x \in kept : \E o \in 0..(w - 1) : rec.marks[o] = base.tail[BackLinkOf(x)]
  BY DEF SubsamplesIn
<1>5. ix'.marks = rec.marks /\ ix'.sampled = rec.sampled
  OBVIOUS
<1>6. SubsamplesIn(ix, SampledAt)'
  <2>1. Cardinality(KeptSamples') = w /\ KeptSamples' = kept /\ SampledAt' = at
    BY <1>1
  <2>2. base' = base
    BY <1>1
  <2> HIDE DEF kept, at, w
  <2>3. ix'.sampled = {SampledAt'[x] : x \in KeptSamples'}
    BY <1>4, <2>1
  <2>4. \A x \in KeptSamples' : ix'.samples[PlaceIn(ix'.sampled, SampledAt'[x])] = base'.head[x]
    BY <1>4, <2>1, <2>2
  <2>5. /\ Cardinality(KeptSamples') \in Nat
        /\ DOMAIN ix'.marks = 0..(Cardinality(KeptSamples') - 1)
        /\ DOMAIN ix'.markToSample = 0..(Cardinality(KeptSamples') - 1)
        /\ \A o, q \in 0..(Cardinality(KeptSamples') - 1) : o < q => ix'.marks[o] < ix'.marks[q]
    BY <1>4, <2>1
  <2>6. \A o \in 0..(Cardinality(KeptSamples') - 1) : \E x \in KeptSamples' :
          /\ ix'.marks[o] = base'.tail[BackLinkOf(x)']
          /\ ix'.markToSample[o] = PlaceIn(ix'.sampled, SampledAt'[x])
    <3> TAKE o \in 0..(Cardinality(KeptSamples') - 1)
    <3>1. PICK x \in kept : /\ rec.marks[o] = base.tail[BackLinkOf(x)]
                            /\ rec.markToSample[o] = PlaceIn(rec.sampled, at[x])
      BY <1>4, <2>1
    <3>2. ix'.marks[o] = base'.tail[BackLinkOf(x)']
      BY <1>3, <2>2, <3>1
    <3>3. ix'.markToSample[o] = PlaceIn(ix'.sampled, SampledAt'[x])
      BY <2>1, <3>1
    <3>4. QED
      BY <2>1, <3>1, <3>2, <3>3
  <2>7. \A x \in KeptSamples' : \E o \in 0..(Cardinality(KeptSamples') - 1) :
          ix'.marks[o] = base'.tail[BackLinkOf(x)']
    BY <1>3, <1>4, <2>1, <2>2
  <2>8. QED
    BY <2>3, <2>4, <2>5, <2>6, <2>7 DEF SubsamplesIn
<1>7. QED
  BY <1>2, <1>6 DEF SubStored

\* Once they are there, the items are right.
LEMMA ItemsReady ==
  ASSUME BuildInv, phase # "base"
  PROVE  ItemsAreRight /\ TextIsBuilt
  BY ItemsAre DEF BuildInv, Inputs, ItemsInv

\* constructRCSAWithBWTRuns and constructItems leave the items of the text.
LEMMA BuildBaseKeeps ==
  ASSUME BuildInv, BuildBase, UNCHANGED queryVars
  PROVE  BuildInv'
<1>1. /\ phase = "base" /\ base' = RCsaItems
      /\ phase' = IF ix.kind \in {"raw", "r"} THEN "load" ELSE "sort"
      /\ text' = text /\ sa' = sa /\ ix' = ix /\ UNCHANGED sVars /\ UNCHANGED vVars /\ stage' = stage
  BY DEF BuildBase, data, queryVars
<1>2. TextIsBuilt' = TextIsBuilt /\ RCsaItems' = RCsaItems
  BY <1>1 DEF TextIsBuilt, RCsaItems
<1>3. Inputs' /\ ItemsInv'
  BY <1>1, <1>2 DEF BuildInv, Inputs, ItemsInv
<1>4. Stages' /\ RCsaInv'
  BY <1>1 DEF BuildInv, Inputs, Stages, RCsaInv
<1>5. SamplingProofs!IInv' /\ ValidityProofs!IInv'
  BY <1>1, SamplingKeeps, ValidityKeeps DEF BuildInv, SamplingInv, ValidityInv
<1>6. SamplingFresh' /\ ValidityFresh'
  BY <1>1 DEF BuildInv, SamplingInv, ValidityInv, SamplingFresh, ValidityFresh, sVars, vVars
<1>7. SamplingInv' /\ ValidityInv'
  BY <1>1, <1>5, <1>6 DEF SamplingInv, ValidityInv, HasSubsamples
<1>8. QED
  BY <1>3, <1>4, <1>7 DEF BuildInv

\* An r-csa is stored with all marks and samples.
LEMMA StoreRCsaKeeps ==
  ASSUME BuildInv, StoreRCsa, UNCHANGED queryVars
  PROVE  BuildInv'
<1>1. /\ phase = "load" /\ phase' = "done" /\ ix.kind \in {"raw", "r"} /\ base = RCsaItems
      /\ UNCHANGED <<text, sa, base, sKept>> /\ UNCHANGED sVars /\ UNCHANGED vVars /\ stage' = stage
  BY DEF BuildInv, Stages, ItemsInv, StoreRCsa, queryVars, sVars
<1> DEFINE allMarks == [o \in DOMAIN base.run |-> base.tail[base.sortedMarks[o]]]
<1>2. ix' = WithSamples(Common(base), DOMAIN base.run, base.head, allMarks, base.markToSample)
  BY DEF StoreRCsa
<1> HIDE DEF allMarks
<1>3. /\ DOMAIN ix' = Fields
      /\ ix'.kind = ix.kind /\ ix'.layout = ix.layout /\ ix'.rate = ix.rate /\ ix'.n = Size(text)
      /\ ix'.bwt = base.bwt /\ ix'.C = base.C /\ ix'.run = base.run
      /\ ix'.cumRuns = CumulativeRuns(base.run, base.C)
      /\ ix'.samples = base.head /\ ix'.marks = allMarks
      /\ ix'.markToSample = base.markToSample
  BY <1>2 DEF WithSamples, Common, Fields
<1>4. AllStored'
  <2>1. HasItems(ix)'
    BY <1>1, <1>3 DEF HasItems
  <2>2. QED
    BY <1>1, <1>3, <2>1 DEF AllStored, allMarks
<1>5. TextIsBuilt' = TextIsBuilt /\ RCsaItems' = RCsaItems
  BY <1>1, <1>3, JobsStay
<1>6. Inputs' /\ ItemsInv' /\ Stages' /\ RCsaInv'
  BY <1>1, <1>3, <1>4, <1>5 DEF BuildInv, Inputs, ItemsInv, Stages, RCsaInv
<1>7. SamplingProofs!IInv' /\ ValidityProofs!IInv'
  BY <1>1, SamplingKeeps, ValidityKeeps DEF BuildInv, SamplingInv, ValidityInv
<1>8. SamplingInv' /\ ValidityInv'
  BY <1>1, <1>3, <1>7 DEF SamplingInv, ValidityInv, HasSubsamples
<1>9. QED
  BY <1>6, <1>8 DEF BuildInv

\* constructItems calls computeSampling as it must be called.
LEMMA StartSamplingKeeps ==
  ASSUME BuildInv, StartSampling, UNCHANGED queryVars
  PROVE  BuildInv'
<1>1. /\ phase = "sort" /\ phase' = "samples" /\ sJob' = SamplingJob(base, ix.rate)
      /\ UNCHANGED <<text, sa, base, sKept>> /\ ix' = ix
      /\ sLast' = sLast /\ sPrev' = sPrev /\ sPc' = sPc
      /\ UNCHANGED vVars /\ stage' = stage
  BY DEF StartSampling, data, queryVars
<1>2. ItemsAreRight /\ ix.rate \in Nat /\ ix.kind \notin {"raw", "r"}
  BY <1>1, ItemsReady DEF BuildInv, Inputs, Stages
<1>3. Sampling!LegalJob(SamplingJob(base, ix.rate))
  BY <1>2, SamplingJobIs
<1>4. Sampling!LegalJob(sJob)'
  BY <1>1, <1>3 DEF Sampling!LegalJob, Sampling!Increasing, Sampling!Decreasing
<1>5. SamplingFresh'
  BY <1>1 DEF BuildInv, SamplingInv, SamplingFresh
<1>6. SamplingProofs!IInv' /\ ValidityProofs!IInv'
  BY <1>1, <1>4, <1>5, FreshLoopsNext, ValidityKeeps DEF BuildInv, ValidityInv
<1>7. /\ TextIsBuilt' = TextIsBuilt /\ RCsaItems' = RCsaItems
      /\ SamplingJob(base, ix.rate)' = SamplingJob(base, ix.rate)
  BY <1>1, JobsStay
<1>8. Inputs' /\ ItemsInv' /\ Stages' /\ RCsaInv'
  BY <1>1, <1>7 DEF BuildInv, Inputs, ItemsInv, Stages, RCsaInv
<1>9. ValidityFresh'
  BY <1>1 DEF BuildInv, ValidityInv, ValidityFresh, vVars
<1>10. SamplingInv' /\ ValidityInv'
  BY <1>1, <1>6, <1>7, <1>9 DEF SamplingInv, ValidityInv, HasSubsamples
<1>11. QED
  BY <1>8, <1>10 DEF BuildInv

\* A step of computeSampling keeps what Subsampling_proofs says of it.
LEMMA SampleStepKeeps ==
  ASSUME BuildInv, SampleStep, UNCHANGED queryVars
  PROVE  BuildInv'
<1>1. /\ phase = "samples" /\ phase' = phase /\ Sampling!Step
      /\ text' = text /\ sa' = sa /\ ix' = ix /\ base' = base /\ UNCHANGED vVars /\ stage' = stage
  BY DEF SampleStep, data, queryVars
<1>2. SamplingProofs!IInv' /\ sJob' = sJob /\ ValidityProofs!IInv'
  BY <1>1, SamplingKeeps, ValidityKeeps DEF BuildInv, SamplingInv, ValidityInv
<1>3. /\ TextIsBuilt' = TextIsBuilt /\ RCsaItems' = RCsaItems
      /\ SamplingJob(base, ix.rate)' = SamplingJob(base, ix.rate)
  BY <1>1 DEF TextIsBuilt, RCsaItems, SamplingJob
<1>4. Inputs' /\ ItemsInv' /\ Stages' /\ RCsaInv'
  BY <1>1, <1>3 DEF BuildInv, Inputs, ItemsInv, Stages, RCsaInv
<1>5. ValidityFresh'
  BY <1>1 DEF BuildInv, ValidityInv, ValidityFresh, vVars
<1>6. sJob = SamplingJob(base, ix.rate)
  BY <1>1 DEF BuildInv, SamplingInv
<1>7. SamplingInv' /\ ValidityInv'
  BY <1>1, <1>2, <1>3, <1>5, <1>6 DEF SamplingInv, ValidityInv, HasSubsamples
<1>8. QED
  BY <1>4, <1>7 DEF BuildInv

\* The kept samples are stored where their layout looks for them.
LEMMA StoreSubsamplesKeeps ==
  ASSUME BuildInv, StoreSubsamples, UNCHANGED queryVars
  PROVE  BuildInv'
<1>1. /\ phase = "samples" /\ phase' = (IF ix.kind = "sr" THEN "done" ELSE "submarks")
      /\ sPc = "done" /\ ix' = Stored
      /\ UNCHANGED <<text, sa, base, sKept>> /\ UNCHANGED sVars /\ UNCHANGED vVars /\ stage' = stage
  BY DEF StoreSubsamples, Stored, queryVars, sVars
<1>2. /\ ItemsAreRight /\ SamplingProofs!IInv /\ sJob = SamplingJob(base, ix.rate)
      /\ ix.rate \in Nat \ {0} /\ ix.kind \in {"sr", "vm", "va"}
      /\ ix.layout \in {"position", "alphabet", "psi"}
  BY <1>1, ItemsReady DEF BuildInv, Inputs, Stages, SamplingInv
<1>3. SamplingDone
  BY <1>1, <1>2 DEF SamplingDone
<1>4. KeptSamples \subseteq 0..(Size(base.run) - 1)
  BY <1>2, <1>3, KeptIs
<1>5. HasItems(Stored) /\ SubsamplesIn(Stored, SampledAt)
  BY <1>2, <1>4, StoredIs
<1>6. /\ DOMAIN ix' = Fields
      /\ ix'.kind = ix.kind /\ ix'.layout = ix.layout /\ ix'.rate = ix.rate
  BY <1>1, <1>5 DEF HasItems
<1>7. SubStored'
  BY <1>1, <1>5, <1>6, SubsamplesStay
<1>8. /\ TextIsBuilt' = TextIsBuilt /\ RCsaItems' = RCsaItems
      /\ SamplingJob(base, ix.rate)' = SamplingJob(base, ix.rate)
  BY <1>1, <1>6, JobsStay
<1>9. Inputs' /\ ItemsInv' /\ Stages' /\ RCsaInv'
  BY <1>1, <1>2, <1>6, <1>8 DEF BuildInv, Inputs, ItemsInv, Stages, RCsaInv
<1>10. /\ SamplingProofs!IInv' /\ ValidityProofs!IInv' /\ sJob' = sJob /\ sPc' = sPc
  BY <1>1, SamplingKeeps, ValidityKeeps DEF BuildInv, SamplingInv, ValidityInv, sVars
<1>11. ValidityFresh'
  BY <1>1 DEF BuildInv, ValidityInv, ValidityFresh, vVars
<1>12. SamplingInv'
  BY <1>1, <1>2, <1>7, <1>8, <1>10 DEF SamplingInv
<1>13. ValidityInv'
  BY <1>1, <1>2, <1>6, <1>10, <1>11 DEF ValidityInv
<1>14. QED
  BY <1>9, <1>12, <1>13 DEF BuildInv

\* An index with sub-samples has right marks.
LEMMA SubsamplesReady ==
  ASSUME BuildInv, HasSubsamples
  PROVE  /\ TextIsBuilt /\ ItemsAreRight /\ HasItems(ix) /\ MarksAreRight
         /\ SubsamplesIn(ix, SampledAt) /\ SamplingDone
         /\ ix.kind \in {"sr", "vm", "va"} /\ ix.rate \in Nat \ {0}
         /\ SamplingProofs!IInv
<1>1. phase # "base" /\ ix.kind \in {"sr", "vm", "va"} /\ ix.rate \in Nat \ {0} /\ ix.rate \in Nat
  BY DEF BuildInv, Inputs, Stages, HasSubsamples
<1>2. TextIsBuilt /\ ItemsAreRight
  BY <1>1, ItemsReady
<1>3. SamplingProofs!IInv /\ SamplingDone /\ HasItems(ix) /\ SubsamplesIn(ix, SampledAt)
  BY <1>1 DEF BuildInv, SamplingInv, SamplingDone, SubStored
<1>4. QED
  BY <1>1, <1>2, <1>3, SubmarksAre

\* computeSubmarksValidity is called as it must be called.
LEMMA StartValidityKeeps ==
  ASSUME BuildInv, StartValidity, UNCHANGED queryVars
  PROVE  BuildInv'
<1>1. /\ phase = "submarks" /\ phase' = "validity" /\ vJob' = ValidityJob
      /\ UNCHANGED <<text, sa, base, sKept>> /\ ix' = ix /\ UNCHANGED sVars
      /\ vRead' = vRead /\ vI' = vI /\ vReports' = vReports /\ vPc' = vPc /\ stage' = stage
  BY DEF StartValidity, ValidityJob, data, queryVars, sVars
<1>2. HasSubsamples /\ HasSubsamples'
  BY <1>1 DEF HasSubsamples
<1>3. TextIsBuilt /\ ItemsAreRight /\ HasItems(ix) /\ MarksAreRight /\ SubsamplesIn(ix, SampledAt)
  BY <1>2, SubsamplesReady
<1>4. Validity!LegalJob(ValidityJob)
  BY <1>3, ValidityJobIs
<1>5. Validity!LegalJob(vJob)'
  BY <1>1, <1>4 DEF Validity!LegalJob, Validity!StrictlyIncreasing
<1>6. ValidityFresh'
  BY <1>1 DEF BuildInv, ValidityInv, ValidityFresh
<1>7. SamplingProofs!IInv' /\ sJob' = sJob /\ sPc' = sPc /\ ValidityProofs!IInv'
  BY <1>1, <1>5, <1>6, FreshLoopsNext, SamplingKeeps DEF BuildInv, SamplingInv, sVars
<1>8. /\ TextIsBuilt' = TextIsBuilt /\ RCsaItems' = RCsaItems /\ ValidityJob' = ValidityJob
      /\ SamplingJob(base, ix.rate)' = SamplingJob(base, ix.rate)
  BY <1>1, JobsStay
<1>9. SubStored' /\ sPc = "done" /\ sJob = SamplingJob(base, ix.rate)
  BY <1>1, <1>2, <1>3, SubsamplesStay DEF BuildInv, SamplingInv, HasItems
<1>10. Inputs' /\ ItemsInv' /\ Stages' /\ RCsaInv'
  BY <1>1, <1>8 DEF BuildInv, Inputs, ItemsInv, Stages, RCsaInv
<1>11. SamplingInv'
  BY <1>1, <1>7, <1>8, <1>9 DEF SamplingInv
<1>12. ValidityInv'
  BY <1>1, <1>7, <1>8 DEF ValidityInv
<1>13. QED
  BY <1>10, <1>11, <1>12 DEF BuildInv

\* A step of computeSubmarksValidity keeps what SubmarksValidity_proofs says of it.
LEMMA ValidityStepKeeps ==
  ASSUME BuildInv, ValidityStep, UNCHANGED queryVars
  PROVE  BuildInv'
<1>1. /\ phase = "validity" /\ phase' = phase /\ Validity!Step
      /\ UNCHANGED <<text, sa, base, sKept>> /\ ix' = ix /\ UNCHANGED sVars /\ stage' = stage
  BY DEF ValidityStep, data, queryVars, sVars
<1>2. HasSubsamples
  BY <1>1 DEF HasSubsamples
<1>3. /\ ValidityProofs!IInv' /\ vJob' = vJob /\ SamplingProofs!IInv' /\ sJob' = sJob
      /\ sPc' = sPc
  BY <1>1, SamplingKeeps, ValidityKeeps DEF BuildInv, SamplingInv, ValidityInv, sVars
<1>4. /\ TextIsBuilt' = TextIsBuilt /\ RCsaItems' = RCsaItems /\ ValidityJob' = ValidityJob
      /\ SamplingJob(base, ix.rate)' = SamplingJob(base, ix.rate)
  BY <1>1, JobsStay
<1>5. HasItems(ix) /\ SubsamplesIn(ix, SampledAt)
  BY <1>2, SubsamplesReady
<1>6. SubStored' /\ sPc = "done" /\ sJob = SamplingJob(base, ix.rate) /\ vJob = ValidityJob
  BY <1>1, <1>2, <1>5, SubsamplesStay DEF BuildInv, SamplingInv, ValidityInv, HasItems
<1>7. Inputs' /\ ItemsInv' /\ Stages' /\ RCsaInv'
  BY <1>1, <1>4 DEF BuildInv, Inputs, ItemsInv, Stages, RCsaInv
<1>8. SamplingInv'
  BY <1>1, <1>3, <1>4, <1>6 DEF SamplingInv
<1>9. ValidityInv'
  BY <1>1, <1>3, <1>4, <1>6 DEF ValidityInv
<1>10. QED
  BY <1>7, <1>8, <1>9 DEF BuildInv

\* The reports are stored next to the sub-samples.
LEMMA StoreValidityKeeps ==
  ASSUME BuildInv, StoreValidity, UNCHANGED queryVars
  PROVE  BuildInv'
<1> DEFINE invalid == {Size(ix.marks) - vReports[e][1] - 1 : e \in DOMAIN vReports}
           area == [e \in 0..(Len(vReports) - 1) |-> vReports[Len(vReports) - e][2]]
<1>1. /\ phase = "validity" /\ phase' = "done" /\ vPc = "done"
      /\ ix' = [ix EXCEPT !.invalid = invalid, !.area = area]
      /\ UNCHANGED <<text, sa, base, sKept>>
      /\ UNCHANGED sVars /\ UNCHANGED vVars /\ stage' = stage
  BY DEF StoreValidity, queryVars, sVars
<1>2. HasSubsamples /\ ix.kind \in {"vm", "va"}
  BY <1>1 DEF HasSubsamples, BuildInv, Stages
<1>3. /\ HasItems(ix) /\ SubsamplesIn(ix, SampledAt)
      /\ sPc = "done" /\ sJob = SamplingJob(base, ix.rate) /\ vJob = ValidityJob
  BY <1>1, <1>2, SubsamplesReady DEF BuildInv, SamplingInv, ValidityInv
<1>4. /\ DOMAIN ix' = Fields
      /\ ix'.kind = ix.kind /\ ix'.layout = ix.layout /\ ix'.rate = ix.rate /\ ix'.n = ix.n
      /\ ix'.bwt = ix.bwt /\ ix'.C = ix.C /\ ix'.run = ix.run /\ ix'.cumRuns = ix.cumRuns
      /\ ix'.sampled = ix.sampled /\ ix'.samples = ix.samples
      /\ ix'.marks = ix.marks /\ ix'.markToSample = ix.markToSample
      /\ ix'.invalid = invalid /\ ix'.area = area
  <2> HIDE DEF invalid, area
  <2>1. DOMAIN ix = Fields
    BY <1>3 DEF HasItems
  <2>2. QED
    BY <1>1, <2>1 DEF Fields
<1>5. SubStored'
  BY <1>1, <1>3, <1>4, SubsamplesStay
<1>6. /\ TextIsBuilt' = TextIsBuilt /\ RCsaItems' = RCsaItems /\ ValidityJob' = ValidityJob
      /\ SamplingJob(base, ix.rate)' = SamplingJob(base, ix.rate)
  BY <1>1, <1>4, JobsStay
<1>7. /\ SamplingProofs!IInv' /\ ValidityProofs!IInv' /\ sJob' = sJob /\ sPc' = sPc
      /\ vJob' = vJob /\ vPc' = vPc /\ vReports' = vReports
  BY <1>1, SamplingKeeps, ValidityKeeps DEF BuildInv, SamplingInv, ValidityInv, sVars, vVars
<1>8. Inputs' /\ ItemsInv' /\ Stages' /\ RCsaInv'
  BY <1>1, <1>2, <1>4, <1>6 DEF BuildInv, Inputs, ItemsInv, Stages, RCsaInv
<1>9. SamplingInv'
  BY <1>1, <1>3, <1>5, <1>6, <1>7 DEF SamplingInv
<1>10. ValidityStored'
  BY <1>1, <1>3, <1>4, <1>6, <1>7 DEF ValidityStored
<1>11. ValidityInv'
  BY <1>1, <1>7, <1>10 DEF ValidityInv
<1>12. QED
  BY <1>8, <1>9, <1>11 DEF BuildInv

\* Loading, queries and stuttering leave the construction as it is.
LEMMA RestKeeps ==
  ASSUME BuildInv, UNCHANGED data, UNCHANGED jobVars, stage' # "off" => phase = "done"
  PROVE  BuildInv'
<1>1. /\ UNCHANGED <<text, sa, base, sKept>> /\ ix' = ix /\ phase' = phase
      /\ UNCHANGED sVars /\ UNCHANGED vVars
  BY DEF data, jobVars, sVars
<1>2. /\ SamplingProofs!IInv' /\ ValidityProofs!IInv' /\ sJob' = sJob /\ sPc' = sPc
      /\ vJob' = vJob /\ vPc' = vPc /\ vReports' = vReports
  BY <1>1, SamplingKeeps, ValidityKeeps DEF BuildInv, SamplingInv, ValidityInv, sVars, vVars
<1>3. /\ TextIsBuilt' = TextIsBuilt /\ RCsaItems' = RCsaItems /\ ValidityJob' = ValidityJob
      /\ SamplingJob(base, ix.rate)' = SamplingJob(base, ix.rate)
  BY <1>1, JobsStay
<1>4. SubStored => SubStored'
  BY <1>1, SubsamplesStay DEF SubStored, HasItems
<1>5. AllStored => AllStored'
  BY <1>1 DEF AllStored, HasItems
<1>6. Inputs' /\ ItemsInv' /\ Stages' /\ RCsaInv'
  BY <1>1, <1>3, <1>5 DEF BuildInv, Inputs, ItemsInv, Stages, RCsaInv
<1>7. (SamplingFresh => SamplingFresh') /\ (ValidityFresh => ValidityFresh')
  BY <1>1 DEF SamplingFresh, ValidityFresh, sVars, vVars
<1>8. HasSubsamples' => HasSubsamples
  BY <1>1 DEF HasSubsamples
<1>9. SamplingInv'
  BY <1>1, <1>2, <1>3, <1>4, <1>7, <1>8 DEF BuildInv, SamplingInv
<1>10. ValidityStored => ValidityStored'
  BY <1>1, <1>2, <1>3 DEF ValidityStored
<1>11. ValidityInv'
  BY <1>1, <1>2, <1>3, <1>7, <1>10 DEF BuildInv, ValidityInv
<1>12. QED
  BY <1>6, <1>9, <1>11 DEF BuildInv

\* No step of a query touches the index, and queries run on complete indexes only.
LEMMA QueriesRead ==
  ASSUME Query \/ Step
  PROVE  UNCHANGED data /\ stage # "off" /\ stage' # "off"
  BY DEF Query, Step, SearchStep, SearchEnd, ToeholdJump, ToeholdReport, RawStep, PhiStep,
     TakeSample, TakePhi, ReportTrusted, UseSample, Descend, Answer, Pending

\* Every step of the system keeps the invariant of the construction.
LEMMA BuildInvStep ==
  ASSUME BuildInv, [SystemNext]_systemVars
  PROVE  BuildInv'
<1>1. stage # "off" => phase = "done"
  BY DEF BuildInv, Stages
<1>2. CASE Build
  <2>1. BuildStep /\ UNCHANGED queryVars
    BY <1>2 DEF Build
  <2>2. QED
    BY <2>1, BuildBaseKeeps, StoreRCsaKeeps, StartSamplingKeeps, SampleStepKeeps,
       StoreSubsamplesKeeps, StartValidityKeeps, ValidityStepKeeps, StoreValidityKeeps
       DEF BuildStep, IndexStep
<1>3. CASE Load
  <2>1. UNCHANGED data /\ UNCHANGED jobVars /\ phase = "done"
    BY <1>3 DEF Load
  <2>2. QED
    BY <2>1, RestKeeps
<1>4. CASE OnIndex(Query) \/ OnIndex(Step)
  <2>1. UNCHANGED jobVars /\ (Query \/ Step)
    BY <1>4 DEF OnIndex
  <2>2. QED
    BY <1>1, <2>1, QueriesRead, RestKeeps
<1>5. CASE UNCHANGED systemVars
  <2>1. UNCHANGED data /\ UNCHANGED jobVars /\ stage' = stage
    BY <1>5 DEF systemVars, queryVars
  <2>2. QED
    BY <1>1, <2>1, RestKeeps
<1>6. QED
  BY <1>2, <1>3, <1>4, <1>5 DEF SystemNext

\* Each stage of the construction of an r-csa or an sr-csa finds what the stages
\* before it left: the inductive invariant the theorems below follow from.
THEOREM CsaIsBuiltRight == Spec => []BuildInv
<1>1. SystemInit => BuildInv
  BY BuildInvInit
<1>2. BuildInv /\ [SystemNext]_systemVars => BuildInv'
  BY BuildInvStep
<1>3. QED
  BY <1>1, <1>2, PTL DEF Spec

\* Whatever the text, the class, the layout and the rate, computeSampling and
\* computeSubmarksValidity are called with what they were written for, although they
\* read their lists backwards here.
THEOREM CsaCallsAreLegal == Spec => []LoopsCalledLegally
<1>1. BuildInv => LoopsCalledLegally
  BY CallsAre DEF LoopsCalledLegally, BuildInv, SamplingInv, ValidityInv
<1>2. QED
  BY <1>1, CsaIsBuiltRight, PTL

-----------------------------------------------------------------------------
(* phi forward, through the next mark of the text.                         *)

\* The suffix one symbol longer, and the one after it, if both start a run's tail
\* nowhere: what holds after a position holds before it too.
LEMMA AfterBefore ==
  ASSUME TextIsBuilt, ItemsAreRight, NEW v \in 0..(Size(text) - 2), NEW w \in 0..(Size(text) - 1),
         \A k \in 0..(Size(base.run) - 1) : base.tail[k] # v, After(v + 1, w)
  PROVE  After(v, (w + Size(text) - 1) % Size(text))
<1> DEFINE n == Size(text)
           r == Size(base.run)
           D == 0..(n - 1)
           bwt == base.bwt
           C == base.C
           run == base.run
           L(x) == BasicLF(bwt, C, x)
<1>1. /\ n \in Nat \ {0} /\ bwt = BWT(text, sa) /\ C = Cumulative(bwt) /\ Tiles(n, bwt, run, r)
      /\ \A k \in 0..(r - 1) : \E i \in 0..(r - 1) : Order[i] = k
      /\ \A k \in 0..(r - 1) : base.tail[k] = TextPos(sa, run[Order[k]].end - 1)
  BY DEF ItemsAreRight
<1>2. /\ Size(sa) = n /\ sa \in [D -> D] /\ Compact(bwt, n)
      /\ \A p, q \in D : sa[p] = sa[q] => p = q
  BY <1>1, BuiltText
<1>3. \A p \in D : L(p) \in D /\ sa[L(p)] = TextPos(sa, p)
  BY <1>1, BasicLFRight
<1> HIDE DEF n, r, bwt, C, run
<1>4. \A p \in D : TextPos(sa, p) = (sa[p] + n - 1) % n /\ sa[p] \in D
  <2> TAKE p \in D
  <2> DEFINE a == sa[p]
  <2>1. a \in D /\ TextPos(sa, p) = IF 0 < a THEN a - 1 ELSE n - 1
    BY <1>2 DEF TextPos
  <2> HIDE DEF a
  <2>2. CASE 0 < a
    <3>1. a + n - 1 = n * 1 + (a - 1) /\ a + n - 1 \in Int /\ 1 \in Int /\ a - 1 \in 0..(n - 1)
      BY <1>1, <2>1, <2>2
    <3>2. (a + n - 1) % n = a - 1
      BY <1>1, <3>1, ModUnique
    <3>3. QED
      BY <2>1, <2>2, <3>2 DEF a
  <2>3. CASE ~(0 < a)
    <3>1. a + n - 1 = n - 1 /\ n - 1 \in 0..(n - 1)
      BY <1>1, <2>1, <2>3
    <3>2. (a + n - 1) % n = n - 1
      BY <1>1, <3>1, ModSmall
    <3>3. QED
      BY <2>1, <2>3, <3>2 DEF a
  <2>4. QED
    BY <2>2, <2>3
<1>5. PICK p \in D : sa[p] = v + 1 /\ sa[(p + 1) % n] = w
  BY DEF After, n
<1>6. (v + 1 + n - 1) % n = v
  <2>1. v + 1 + n - 1 = n * 1 + v /\ v + 1 + n - 1 \in Int /\ 1 \in Int /\ v \in 0..(n - 1)
    BY <1>1 DEF n
  <2>2. QED
    BY <1>1, <2>1, ModUnique
<1>7. TextPos(sa, p) = v
  BY <1>4, <1>5, <1>6
<1>8. \A k \in 0..(r - 1) : run[k].end - 1 # p
  <2> TAKE k \in 0..(r - 1)
  <2>1. PICK i \in 0..(r - 1) : Order[i] = k
    BY <1>1
  <2>2. base.tail[i] # v
    BY <2>1 DEF r
  <2>3. base.tail[i] = TextPos(sa, run[k].end - 1)
    BY <1>1, <2>1
  <2>4. QED
    BY <1>7, <2>2, <2>3
<1>9. p \notin RunTails(bwt)
  BY <1>1, <1>8 DEF Tiles
<1>10. p + 1 \in D /\ bwt[p + 1] = bwt[p]
  <2>1. DOMAIN bwt = D
    BY <1>2 DEF Compact
  <2>2. Size(bwt) = n
    BY <1>1, <2>1, SizeIs
  <2>3. QED
    BY <1>1, <1>9, <2>1, <2>2 DEF RunTails
<1>11. (p + 1) % n = p + 1
  BY <1>1, <1>10, ModSmall
<1>12. L(p + 1) = L(p) + 1
  <2>1. Compact(bwt, n) /\ C = Cumulative(bwt) /\ p \in 0..(n - 1) /\ p + 1 \in 0..(n - 1)
    BY <1>1, <1>2, <1>10
  <2>2. bwt[p + 1] = bwt[p]
    BY <1>10
  <2>3. BasicLF(bwt, C, p + 1) = BasicLF(bwt, C, p) + 1
    BY ONLY <2>1, <2>2, LFKeepsNeighbours
  <2>4. QED
    BY <2>3
<1> HIDE DEF L
<1>13. /\ L(p) \in D /\ L(p) + 1 \in D /\ sa[L(p)] = v
       /\ sa[L(p) + 1] = (w + n - 1) % n
  BY <1>3, <1>4, <1>5, <1>7, <1>10, <1>11, <1>12
<1>14. (L(p) + 1) % n = L(p) + 1
  BY <1>1, <1>13, ModSmall
<1>15. QED
  BY <1>13, <1>14 DEF After, n

\* From a text position to the next one that ends a run, if there is any, each
\* suffix and the one after it are as far apart as at the end.
LEMMA AfterThrough ==
  ASSUME TextIsBuilt, ItemsAreRight, NEW v \in 0..(Size(text) - 1), NEW d \in 0..(Size(text) - 1),
         v + d \in 0..(Size(text) - 1), NEW w \in 0..(Size(text) - 1), After(v + d, w),
         \A k \in 0..(Size(base.run) - 1) : ~(v <= base.tail[k] /\ base.tail[k] < v + d)
  PROVE  After(v, (w + Size(text) - d) % Size(text))
<1> DEFINE n == Size(text)
           T == {l \in 0..d : ~After(v + d - l, (w + n - l) % n)}
<1>1. n \in Nat \ {0}
  BY BuiltText
<1> HIDE DEF n
<1>2. SUFFICES ASSUME T # {}
               PROVE  FALSE
  <2>1. d \in 0..d /\ v + d - d = v
    BY <1>1 DEF n
  <2>2. QED
    BY <2>1 DEF n
<1>3. PICK l \in T : \A m \in T : l <= m
  <2>1. T \in SUBSET Nat
    OBVIOUS
  <2> HIDE DEF T
  <2>2. QED
    BY <1>2, <2>1, MinExists
<1>4. l \in 0..d /\ ~After(v + d - l, (w + n - l) % n) /\ l \in Nat
  BY <1>3
<1>5. CASE l = 0
  <2>1. w + n - 0 = n * 1 + w /\ w + n - 0 \in Int /\ 1 \in Int /\ w \in 0..(n - 1)
    BY <1>1 DEF n
  <2>2. (w + n - 0) % n = w /\ v + d - 0 = v + d
    BY <1>1, <2>1, ModUnique
  <2>3. QED
    BY <1>4, <1>5, <2>2
<1>6. CASE l # 0
  <2> DEFINE m == l - 1
             u == v + d - l
             x == (w + n - m) % n
  <2>1. m \in 0..d /\ ~(l <= m) /\ u + 1 = v + d - m /\ u \in 0..(n - 2) /\ v <= u /\ u < v + d
    BY <1>1, <1>4, <1>6 DEF n
  <2>2. After(u + 1, x)
    BY <1>3, <2>1
  <2>3. x \in 0..(n - 1)
    <3>1. w + n - m \in Int
      BY <1>1, <1>4 DEF n
    <3>2. QED
      BY <1>1, <3>1, ModDef
  <2>4. \A k \in 0..(Size(base.run) - 1) : base.tail[k] # u
    BY <2>1
  <2>5. After(u, (x + n - 1) % n)
    <3> HIDE DEF u, x, m
    <3> QED BY <2>1, <2>2, <2>3, <2>4, AfterBefore DEF n
  <2>6. (x + n - 1) % n = (w + n - l) % n
    <3>1. w + n - m \in Int /\ n - 1 \in Int /\ (w + n - m) + (n - 1) = (w + n - l) + n
      BY <1>1, <1>4 DEF n
    <3>2. (((w + n - m) % n) + (n - 1)) % n = ((w + n - m) + (n - 1)) % n
      BY <1>1, <3>1, ModMod
    <3>3. ((w + n - l) + n) % n = (w + n - l) % n
      <4> DEFINE a == w + n - l
      <4>1. a \in Int /\ n \in Int /\ 1 \in Int
        BY <1>1, <1>4 DEF n
      <4> HIDE DEF a
      <4>2. a = n * (a \div n) + (a % n) /\ (a \div n) \in Int /\ (a % n) \in 0..(n - 1)
        BY <1>1, <4>1, ModDef
      <4>3. \A q \in Int, s \in 0..(n - 1) : a = n * q + s => (a + n) % n = s
        <5> TAKE q \in Int, s \in 0..(n - 1)
        <5>1. HAVE a = n * q + s
        <5>2. a + n = n * (q + 1) + s /\ q + 1 \in Int /\ a + n \in Int
          BY <1>1, <4>1, <5>1
        <5>3. QED
          BY <1>1, <5>2, ModUnique
      <4>4. (a + n) % n = a % n
        BY <4>2, <4>3
      <4>5. QED
        BY <4>4 DEF a
    <3>4. x + n - 1 = x + (n - 1)
      BY <1>1, <2>3
    <3>5. QED
      BY <3>1, <3>2, <3>3, <3>4
  <2>7. QED
    BY <1>4, <2>5, <2>6
<1>7. QED
  BY <1>5, <1>6

-----------------------------------------------------------------------------
(* What the queries of both families read of an index.                     *)

\* The text is indexed, its runs partition the BWT and LF is right.
LEMMA ItemsServe ==
  ASSUME TextIsBuilt, ItemsAreRight, HasItems(ix)
  PROVE  /\ TextIsIndexed /\ RunsPartition /\ LFIsRight
<1> DEFINE n == Size(text)
<1>1. /\ base.bwt = BWT(text, sa) /\ base.C = Cumulative(base.bwt) /\ base.run = RunsOf(base.bwt)
      /\ n \in Nat \ {0}
  BY DEF ItemsAreRight
<1>2. ix.n = n /\ ix.bwt = base.bwt /\ ix.C = base.C /\ ix.run = base.run
  BY DEF HasItems
<1> HIDE DEF n
<1>3. Terminated(text, n) /\ sa = SuffixArray(text)
  BY DEF TextIsBuilt, n
<1>4. sa \in [0..(n - 1) -> 0..(n - 1)] /\ \A p, q \in 0..(n - 1) : sa[p] = sa[q] => p = q
  BY <1>1, <1>3, SuffixArrayIs
<1>5. TextIsIndexed
  <2>1. DOMAIN sa = 0..(n - 1)
    BY <1>4
  <2>2. n \in Nat \ {0} /\ text \in [0..(n - 1) -> Nat] /\ DOMAIN text = 0..(n - 1)
        /\ \A i \in 0..(n - 1) : text[i] = 0 <=> i = n - 1
    BY <1>3 DEF Terminated
  <2>3. QED
    BY <1>1, <1>2, <1>4, <2>1, <2>2 DEF TextIsIndexed
<1>6. RunsPartition
  <2>1. base.bwt \in [0..(n - 1) -> Nat]
    <3>1. BWT(text, sa) \in [0..(n - 1) -> Nat]
      BY <1>3, <1>4, BwtOfText
    <3>2. QED
      BY <1>1, <3>1
  <2> DEFINE run == RunsOf(base.bwt)
             r == Size(run)
  <2>2. /\ r \in Nat \ {0} /\ run \in [0..(r - 1) -> [start : Nat, end : Nat, c : Nat]]
        /\ run[0].start = 0 /\ run[r - 1].end = n
        /\ \A k \in DOMAIN run :
             /\ run[k].start < run[k].end /\ run[k].end <= n
             /\ k > 0 => run[k].start = run[k - 1].end
             /\ \A j \in DOMAIN run : k < j => run[k].end <= run[j].start
             /\ \A p \in run[k].start .. (run[k].end - 1) : base.bwt[p] = run[k].c
    BY <1>1, <2>1, RunsOfIs
  <2>3. ix.run = run /\ Size(ix.run) = r
    BY <1>1, <1>2
  <2> HIDE DEF run, r
  <2>4. QED
    BY <1>2, <2>2, <2>3 DEF RunsPartition
<1>7. LFIsRight
  <2>1. DOMAIN sa = 0..(n - 1)
    BY <1>4
  <2>2. \A p : LF(p) = BasicLF(base.bwt, base.C, p)
    BY <1>2 DEF LF, Rank, BasicLF
  <2>3. \A p \in 0..(n - 1) : LET x == BasicLF(BWT(text, sa), Cumulative(BWT(text, sa)), p)
                              IN x \in 0..(n - 1) /\ sa[x] = TextPos(sa, p)
    BY BasicLFRight DEF n
  <2>4. QED
    BY <1>1, <2>1, <2>2, <2>3 DEF LFIsRight
<1>8. QED
  BY <1>5, <1>6, <1>7

\* The last text position, that of the terminator, is a mark: its run is its own.
LEMMA LastTailEnds ==
  ASSUME TextIsBuilt, ItemsAreRight, HasItems(ix)
  PROVE  \E k \in 0..(Size(base.run) - 1) : base.tail[k] = Size(text) - 1
<1> DEFINE n == ix.n
           r == Size(base.run)
           run == ix.run
<1>1. /\ n = Size(text) /\ run = base.run /\ n \in Nat \ {0} /\ DOMAIN run = 0..(r - 1)
      /\ \A k \in 0..(r - 1) : \E i \in 0..(r - 1) : Order[i] = k
      /\ \A k \in 0..(r - 1) : base.tail[k] = TextPos(sa, run[Order[k]].end - 1)
  BY DEF ItemsAreRight, HasItems, Tiles
<1>2. TextIsIndexed /\ RunsPartition
  BY ItemsServe
<1>3. PICK k \in DOMAIN run : TextPos(sa, run[k].start) = n - 1
  BY <1>2, TerminatorRun
<1> DEFINE p == run[k].start
           q == run[k].end - 1
<1>4. /\ DOMAIN sa = 0..(n - 1) /\ DOMAIN text = 0..(n - 1)
      /\ \A x \in DOMAIN sa : sa[x] \in 0..(n - 1) /\ TextPos(sa, x) \in 0..(n - 1)
      /\ \A x \in DOMAIN text : text[x] = 0 <=> x = n - 1
  <2>1. /\ DOMAIN sa = 0..(n - 1) /\ DOMAIN text = 0..(n - 1)
        /\ \A x \in DOMAIN sa : sa[x] \in 0..(n - 1) /\ TextPos(sa, x) \in 0..(n - 1)
    BY <1>2, TextSize
  <2>2. QED
    BY <1>2, <2>1 DEF TextIsIndexed
<1>5. p \in DOMAIN sa /\ q \in DOMAIN sa /\ ix.bwt[p] = ix.bwt[q]
  <2>1. /\ p \in Nat /\ run[k].end \in Nat /\ p < run[k].end /\ run[k].end <= n
        /\ \A x \in p .. q : ix.bwt[x] = run[k].c
    BY <1>2 DEF RunsPartition
  <2>2. p \in p .. q /\ q \in p .. q
    BY <2>1
  <2>3. ix.bwt[p] = run[k].c /\ ix.bwt[q] = run[k].c
    BY <2>1, <2>2
  <2>4. p \in 0..(n - 1) /\ q \in 0..(n - 1)
    <3> DEFINE e == run[k].end
    <3>1. p \in Nat /\ e \in Nat /\ p < e /\ e <= n /\ n \in Nat /\ q = e - 1
      BY <1>1, <2>1
    <3> HIDE DEF p, q, e, n
    <3>2. QED
      BY <3>1
  <2>5. QED
    BY <1>4, <2>3, <2>4
<1> HIDE DEF p, q
<1>6. \A x \in DOMAIN sa : /\ ix.bwt[x] = Comp(text, text[TextPos(sa, x)])
                          /\ text[TextPos(sa, x)] \in Symbols(text)
  BY <1>2, BwtIs
<1>7. text[TextPos(sa, q)] = text[TextPos(sa, p)]
  BY <1>2, <1>5, <1>6, CompInjective
<1>8. text[n - 1] = 0 /\ TextPos(sa, p) = n - 1
  BY <1>1, <1>3, <1>4 DEF p
<1>9. TextPos(sa, q) = n - 1
  BY <1>4, <1>5, <1>7, <1>8
<1>10. PICK i \in 0..(r - 1) : Order[i] = k
  BY <1>1
<1>11. base.tail[i] = n - 1
  BY <1>1, <1>9, <1>10 DEF q
<1>12. QED
  BY <1>1, <1>11

-----------------------------------------------------------------------------
(* phi on the marks and samples an index keeps.                            *)

\* The first mark of the index at or after a text position.
LEMMA SuccessorIs ==
  ASSUME TextIsBuilt, ItemsAreRight, HasItems(ix), MarksAreRight, NEW v \in 0..(Size(text) - 1)
  PROVE  /\ SoftSuccessor(v) \in DOMAIN ix.marks /\ v <= ix.marks[SoftSuccessor(v)]
         /\ \A q \in DOMAIN ix.marks : q < SoftSuccessor(v) => ix.marks[q] < v
<1> DEFINE w == Size(ix.marks)
           r == Size(base.run)
           L == {q \in DOMAIN ix.marks : ix.marks[q] < v}
<1>1. /\ w \in Nat \ {0} /\ DOMAIN ix.marks = 0..(w - 1)
      /\ \A o, q \in 0..(w - 1) : o < q => ix.marks[o] < ix.marks[q]
      /\ \A o \in 0..(w - 1) : \E k \in 0..(r - 1) : ix.marks[o] = base.tail[k]
      /\ \A k \in 0..(r - 1) : base.tail[k] <= ix.marks[w - 1]
  BY DEF MarksAreRight
<1>2. \A k \in 0..(r - 1) : base.tail[k] \in 0..(Size(text) - 1)
  BY DEF ItemsAreRight
<1>3. \A q \in 0..(w - 1) : ix.marks[q] \in 0..(Size(text) - 1) /\ ix.marks[q] \in Int
  BY <1>1, <1>2
<1>4. v <= ix.marks[w - 1]
  <2>1. PICK k \in 0..(r - 1) : base.tail[k] = Size(text) - 1
    BY LastTailEnds
  <2>2. w - 1 \in 0..(w - 1) /\ ix.marks[w - 1] \in Int
    BY <1>1, <1>3
  <2>3. Size(text) - 1 <= ix.marks[w - 1] /\ Size(text) \in Nat
    BY <1>1, <2>1 DEF ItemsAreRight
  <2>4. QED
    BY <2>2, <2>3
<1> HIDE DEF w
<1>5. SoftSuccessor(v) = Cardinality(L) % w
  BY DEF SoftSuccessor, w
<1> DEFINE T == {q \in 0..(w - 1) : v <= ix.marks[q]}
<1>6. PICK m \in T : \A y \in T : m <= y
  <2>1. T \in SUBSET Nat /\ w - 1 \in T
    BY <1>1, <1>4
  <2> HIDE DEF T
  <2>2. QED
    BY <2>1, MinExists
<1>7. m \in 0..(w - 1) /\ v <= ix.marks[m]
  BY <1>6
<1>8. L = 0..(m - 1)
  <2>1. \A q \in L : q \in 0..(m - 1)
    <3> TAKE q \in L
    <3>1. q \in 0..(w - 1) /\ ix.marks[q] < v
      BY <1>1
    <3>2. ~(m < q) /\ q # m
      BY <1>1, <1>3, <1>7, <3>1
    <3>3. QED
      BY <1>7, <3>1, <3>2
  <2>2. \A q \in 0..(m - 1) : q \in L
    <3> TAKE q \in 0..(m - 1)
    <3>1. q \in 0..(w - 1) /\ ~(m <= q)
      BY <1>1, <1>7
    <3>2. q \notin T
      BY <1>6, <3>1
    <3>3. QED
      BY <1>1, <1>3, <3>1, <3>2
  <2>3. QED
    BY <2>1, <2>2
<1>9. Cardinality(L) = m
  <2>1. m \in Nat
    BY <1>7
  <2>2. QED
    BY <1>8, <2>1, PositionsBelow
<1>10. SoftSuccessor(v) = m
  BY <1>1, <1>5, <1>7, <1>9, ModSmall
<1>11. QED
  BY <1>1, <1>7, <1>8, <1>10

\* phi leads through the next mark to the sample it is linked to.
LEMMA PhiLinks ==
  ASSUME TextIsBuilt, ItemsAreRight, HasItems(ix), MarksAreRight, NEW v \in 0..(Size(text) - 1)
  PROVE  \E k \in 0..(Size(base.run) - 1) :
           /\ ix.marks[SoftSuccessor(v)] = base.tail[k]
           /\ base.tail[k] \in 0..(Size(text) - 1) /\ v <= base.tail[k]
           /\ LinkOf(k) \in 0..(Size(base.run) - 1)
           /\ After(base.tail[k], base.head[LinkOf(k)])
           /\ base.head[LinkOf(k)] \in 0..(Size(text) - 1)
           /\ Phi(v) = [value |-> (base.head[LinkOf(k)] + Size(text) - (base.tail[k] - v)) % Size(text),
                        valid |-> Validate(SoftSuccessor(v), base.tail[k] - v)]
<1> DEFINE o == SoftSuccessor(v)
<1>1. o \in DOMAIN ix.marks /\ v <= ix.marks[o]
  BY SuccessorIs
<1>2. PICK k \in 0..(Size(base.run) - 1) :
        ix.marks[o] = base.tail[k] /\ ix.samples[ix.markToSample[o]] = base.head[LinkOf(k)]
  BY <1>1 DEF MarksAreRight
<1>3. /\ base.tail[k] \in 0..(Size(text) - 1)
      /\ LinkOf(k) \in 0..(Size(base.run) - 1)
      /\ After(base.tail[k], base.head[LinkOf(k)])
  BY <1>2 DEF ItemsAreRight
<1>4. base.head[LinkOf(k)] \in 0..(Size(text) - 1)
  BY <1>3 DEF ItemsAreRight
<1>5. ix.n = Size(text)
  BY DEF HasItems
<1>6. Phi(v) = [value |-> (base.head[LinkOf(k)] + Size(text) - (base.tail[k] - v)) % Size(text),
                valid |-> Validate(o, base.tail[k] - v)]
  <2> HIDE DEF o
  <2>1. SoftSuccessor(v) = o
    BY DEF o
  <2>2. QED
    BY <1>2, <1>5, <2>1 DEF Phi, SampleForPhi
<1>7. QED
  BY <1>1, <1>2, <1>3, <1>4, <1>6

\* If no mark of the text lies between the value and the next mark kept, phi is right.
LEMMA PhiIsRight ==
  ASSUME TextIsBuilt, ItemsAreRight, HasItems(ix), MarksAreRight, NEW v \in 0..(Size(text) - 1),
         \A k \in 0..(Size(base.run) - 1) :
           ~(v <= base.tail[k] /\ base.tail[k] < ix.marks[SoftSuccessor(v)])
  PROVE  After(v, Phi(v).value)
<1> DEFINE n == Size(text)
<1>0. n \in Nat \ {0}
  BY DEF ItemsAreRight
<1>1. PICK k \in 0..(Size(base.run) - 1) :
        /\ ix.marks[SoftSuccessor(v)] = base.tail[k]
        /\ base.tail[k] \in 0..(n - 1) /\ v <= base.tail[k]
        /\ After(base.tail[k], base.head[LinkOf(k)])
        /\ base.head[LinkOf(k)] \in 0..(n - 1)
        /\ Phi(v) = [value |-> (base.head[LinkOf(k)] + n - (base.tail[k] - v)) % n,
                     valid |-> Validate(SoftSuccessor(v), base.tail[k] - v)]
  BY PhiLinks
<1> DEFINE d == base.tail[k] - v
           w == base.head[LinkOf(k)]
<1>2. d \in 0..(n - 1) /\ v + d = base.tail[k] /\ v + d \in 0..(n - 1) /\ w \in 0..(n - 1)
  <2> DEFINE t == base.tail[k]
  <2>1. t \in 0..(n - 1) /\ v <= t /\ d = t - v /\ v \in 0..(n - 1) /\ w \in 0..(n - 1)
    BY <1>1
  <2> HIDE DEF t, n, d, w
  <2>2. d \in 0..(n - 1) /\ v + d = t
    BY <1>0, <2>1
  <2>3. QED
    BY <2>1, <2>2 DEF t
<1>3. After(v + d, w) /\ Phi(v).value = (w + n - d) % n
  BY <1>1, <1>2
<1>4. \A j \in 0..(Size(base.run) - 1) : ~(v <= base.tail[j] /\ base.tail[j] < v + d)
  BY <1>1, <1>2
<1> HIDE DEF d, w, n
<1>5. After(v, (w + n - d) % n)
  BY <1>2, <1>3, <1>4, AfterThrough DEF n
<1>6. QED
  BY <1>3, <1>5

\* What comes after an entry of the suffix array that is not the last is the next one.
LEMMA AfterEntry ==
  ASSUME TextIsBuilt, NEW p \in 0..(Size(text) - 2), NEW w, After(sa[p], w)
  PROVE  w = sa[p + 1]
<1>1. PICK q \in 0..(Size(text) - 1) : sa[q] = sa[p] /\ sa[(q + 1) % Size(text)] = w
  BY DEF After
<1>2. Size(text) \in Nat \ {0} /\ \A x, y \in 0..(Size(text) - 1) : sa[x] = sa[y] => x = y
  BY BuiltText
<1>3. p \in 0..(Size(text) - 1) /\ p + 1 \in 0..(Size(text) - 1)
  BY <1>2
<1>4. q = p
  BY <1>1, <1>2, <1>3
<1>5. (p + 1) % Size(text) = p + 1
  BY <1>2, <1>3, ModSmall
<1>6. QED
  BY <1>1, <1>4, <1>5

-----------------------------------------------------------------------------
(* The validity of the marks.                                              *)

\* Between mark o and the one kept before it there is another.
LostBefore(o, k) == ix.marks[o - 1] < base.tail[k] /\ base.tail[k] < ix.marks[o]

\* The area of an invalid mark.
AreaOf(o) == ix.area[Cardinality({x \in ix.invalid : x < o})]

\* A mark that is valid lost no mark right before it; an invalid one lost none
\* within its area.
ValidityIsRight ==
  /\ \A o \in DOMAIN ix.marks, k \in 0..(Size(base.run) - 1) :
       o > 0 /\ LostBefore(o, k) => o \in ix.invalid /\ base.tail[k] <= ix.marks[o] - AreaOf(o)
  /\ \A o \in ix.invalid : AreaOf(o) \in Nat

\* The validities and areas stored are right: what is trusted lost no mark.
LEMMA ValidityServes ==
  ASSUME ItemsAreRight, MarksAreRight, ValidityProofs!IInv, ValidityStored
  PROVE  ValidityIsRight
<1> DEFINE w == Size(ix.marks)
           N == Size(text)
           r == Size(base.run)
           m == Len(vReports)
           s == [d \in 1..m |-> w - 1 - vReports[m + 1 - d][1]]
<1>1. /\ vJob = ValidityJob /\ Len(vJob.submarks) = w
      /\ \A o \in 0..(w - 1) : vJob.submarks[w - o] = N - 1 - ix.marks[o]
      /\ \A k \in 0..(r - 1) : \E j \in DOMAIN vJob.marks : vJob.marks[j] = N - 1 - base.tail[k]
  BY ValidityJobIs DEF ValidityStored
<1>2. /\ w \in Nat \ {0} /\ DOMAIN ix.marks = 0..(w - 1)
      /\ \A o \in 0..(w - 1) : \E k \in 0..(r - 1) : ix.marks[o] = base.tail[k]
  BY DEF MarksAreRight
<1>3. N \in Nat \ {0} /\ \A k \in 0..(r - 1) : base.tail[k] \in 0..(N - 1) /\ base.tail[k] \in Int
  <2>1. N \in Nat \ {0} /\ base.tail \in [0..(r - 1) -> 0..(N - 1)]
    BY DEF ItemsAreRight
  <2> HIDE DEF N, r
  <2>2. \A x \in 0..(N - 1) : x \in Int
    BY <2>1
  <2>3. QED
    BY <2>1, <2>2
<1>4. \A o \in 0..(w - 1) : ix.marks[o] \in Int
  BY <1>2, <1>3
<1> HIDE DEF w, N, r
<1>5. vReports \in Seq(Nat \X Nat) /\ vI = w - 1
  BY <1>1 DEF ValidityStored, ValidityProofs!IInv, ValidityProofs!TypeOK,
     ValidityProofs!Position
<1>6. /\ m \in Nat /\ DOMAIN vReports = 1..m
      /\ \A e \in 1..m : vReports[e][1] \in Nat /\ vReports[e][2] \in Nat
  BY <1>5
<1>7. \A e \in 1..m : vReports[e][1] < w - 1
  <2>1. \A e \in DOMAIN vReports : vReports[e][1] < Len(vJob.submarks) - 1
    BY DEF ValidityProofs!IInv, ValidityProofs!ReportsPassed
  <2>2. QED
    BY <1>1, <1>6, <2>1
<1>8. \A d, e \in 1..m : d < e => vReports[d][1] < vReports[e][1]
  BY <1>6 DEF ValidityProofs!IInv, ValidityProofs!InOrder
<1> HIDE DEF m
<1>9. \A d \in 1..m : m + 1 - d \in 1..m /\ s[d] = w - 1 - vReports[m + 1 - d][1]
  BY <1>6
<1> HIDE DEF s
<1>10. ix.invalid = {s[d] : d \in 1..m}
  <2>1. ix.invalid = {w - vReports[e][1] - 1 : e \in 1..m}
    BY <1>6 DEF ValidityStored, w
  <2>2. \A e \in 1..m : m + 1 - e \in 1..m /\ s[m + 1 - e] = w - vReports[e][1] - 1
    <3> TAKE e \in 1..m
    <3>1. m + 1 - e \in 1..m /\ m + 1 - (m + 1 - e) = e
      BY <1>6
    <3>2. s[m + 1 - e] = w - 1 - vReports[e][1]
      BY <1>9, <3>1
    <3>3. QED
      BY <1>2, <1>6, <3>1, <3>2
  <2>3. \A d \in 1..m : s[d] = w - vReports[m + 1 - d][1] - 1
    <3> TAKE d \in 1..m
    <3> DEFINE b == vReports[m + 1 - d][1]
    <3>1. b \in Nat /\ s[d] = w - 1 - b
      BY <1>6, <1>9
    <3> HIDE DEF b
    <3>2. s[d] = w - b - 1
      BY <1>2, <3>1
    <3>3. QED
      BY <3>2 DEF b
  <2>4. QED
    BY <1>9, <2>1, <2>2, <2>3
<1>11. (\A d \in 1..m : s[d] \in Int) /\ (\A d, e \in 1..m : d < e => s[d] < s[e])
  <2>1. \A d \in 1..m : s[d] \in Int
    <3> TAKE d \in 1..m
    <3> DEFINE b == vReports[m + 1 - d][1]
    <3>1. b \in Nat /\ s[d] = w - 1 - b
      BY <1>6, <1>9
    <3> HIDE DEF b
    <3>2. QED
      BY <1>2, <3>1
  <2>2. \A d, e \in 1..m : d < e => s[d] < s[e]
    <3> TAKE d, e \in 1..m
    <3>1. HAVE d < e
    <3>2. m + 1 - d \in 1..m /\ m + 1 - e \in 1..m /\ m + 1 - e < m + 1 - d
      BY <1>6, <3>1
    <3>3. vReports[m + 1 - e][1] < vReports[m + 1 - d][1]
      BY <1>8, <3>2
    <3>4. vReports[m + 1 - e][1] \in Nat /\ vReports[m + 1 - d][1] \in Nat
      BY <1>6, <3>2
    <3> DEFINE b == vReports[m + 1 - d][1]
               a == vReports[m + 1 - e][1]
    <3>5. b \in Nat /\ a \in Nat /\ s[d] = w - 1 - b /\ s[e] = w - 1 - a /\ a < b
      BY <1>9, <3>3, <3>4
    <3> HIDE DEF a, b
    <3>6. QED
      BY <1>2, <3>5
  <2>3. QED
    BY <2>1, <2>2
<1>12. \A d \in 1..m : AreaOf(s[d]) = vReports[m + 1 - d][2]
  <2> TAKE d \in 1..m
  <2>1. Cardinality({x \in {s[e] : e \in 1..m} : x < s[d]}) = d - 1
    BY <1>6, <1>11, RankOfReport
  <2>2. ix.area = [e \in 0..(m - 1) |-> vReports[m - e][2]]
    BY DEF ValidityStored, m
  <2>3. d - 1 \in 0..(m - 1) /\ m - (d - 1) = m + 1 - d
    BY <1>6
  <2>4. ix.area[d - 1] = vReports[m + 1 - d][2]
    BY <2>2, <2>3
  <2>5. QED
    BY <1>10, <2>1, <2>4 DEF AreaOf
<1>13. \A e \in 1..m : w - 1 - vReports[e][1] \in ix.invalid /\ AreaOf(w - 1 - vReports[e][1]) = vReports[e][2]
  <2> TAKE e \in 1..m
  <2>1. m + 1 - e \in 1..m /\ m + 1 - (m + 1 - e) = e
    BY <1>6
  <2>2. s[m + 1 - e] = w - 1 - vReports[e][1] /\ AreaOf(s[m + 1 - e]) = vReports[e][2]
    BY <1>9, <1>12, <2>1
  <2>3. QED
    BY <1>10, <2>1, <2>2
<1>14. \A o \in ix.invalid : AreaOf(o) \in Nat
  <2> TAKE o \in ix.invalid
  <2>1. PICK d \in 1..m : o = s[d]
    BY <1>10
  <2>2. QED
    BY <1>6, <1>9, <1>12, <2>1
<1>15. ASSUME NEW o \in DOMAIN ix.marks, NEW k \in 0..(r - 1), o > 0, LostBefore(o, k)
       PROVE  o \in ix.invalid /\ base.tail[k] <= ix.marks[o] - AreaOf(o)
  <2> DEFINE i == w - 1 - o
  <2>1. o \in 1..(w - 1) /\ i \in Nat /\ i < w - 1 /\ w - o = i + 1 /\ w - (o - 1) = i + 2 /\ o = w - 1 - i
        /\ o - 1 \in 0..(w - 1) /\ o \in 0..(w - 1)
    BY <1>2, <1>15
  <2> HIDE DEF i
  <2>2. vJob.submarks[i + 1] = N - 1 - ix.marks[o] /\ vJob.submarks[i + 2] = N - 1 - ix.marks[o - 1]
    BY <1>1, <2>1
  <2>3. PICK j \in DOMAIN vJob.marks : vJob.marks[j] = N - 1 - base.tail[k]
    BY <1>1
  <2>4. ix.marks[o] \in Int /\ ix.marks[o - 1] \in Int /\ base.tail[k] \in Int
    BY <1>3, <1>4, <2>1
  <2>5. vJob.submarks[i + 1] < vJob.marks[j] /\ vJob.marks[j] < vJob.submarks[i + 2]
    BY <1>3, <1>15, <2>2, <2>3, <2>4 DEF LostBefore
  <2>6. j \in ValidityProofs!DroppedAfter(i)
    BY <2>3, <2>5 DEF ValidityProofs!DroppedAfter
  <2>7. ValidityProofs!Passed(i)
    BY <1>5, <2>1 DEF ValidityProofs!Passed
  <2>8. PICK e \in DOMAIN vReports : vReports[e][1] = i
    <3>1. i \in 0..(Len(vJob.submarks) - 2)
      BY <1>1, <1>2, <2>1
    <3>2. ValidityProofs!DroppedAfter(i) # {}
      BY <2>6
    <3>3. QED
      BY <2>7, <3>1, <3>2 DEF ValidityProofs!IInv, ValidityProofs!PassedReported
  <2>9. e \in 1..m /\ o \in ix.invalid /\ AreaOf(o) = vReports[e][2]
    BY <1>6, <1>13, <2>1, <2>8
  <2>10. PICK c \in ValidityProofs!DroppedAfter(i) :
           /\ vJob.marks[c] = vJob.submarks[i + 1] + vReports[e][2]
           /\ \A other \in ValidityProofs!DroppedAfter(i) : vJob.marks[c] <= vJob.marks[other]
    BY <2>8 DEF ValidityProofs!IInv, ValidityProofs!ReportsSound
  <2>11. vJob.submarks[i + 1] + vReports[e][2] <= vJob.marks[j]
    BY <2>6, <2>10
  <2>12. vReports[e][2] \in Nat
    BY <1>6, <2>9
  <2>13. QED
    BY <1>3, <2>2, <2>3, <2>4, <2>9, <2>11, <2>12
<1>16. QED
  BY <1>14, <1>15 DEF ValidityIsRight, r

\* A value is trusted only if no mark was lost between it and the next mark kept.
LEMMA TrustLosesNone ==
  ASSUME TextIsBuilt, ItemsAreRight, HasItems(ix), MarksAreRight, ValidityIsRight,
         ix.kind \in {"vm", "va"}, NEW v \in 0..(Size(text) - 1),
         Validate(SoftSuccessor(v), ix.marks[SoftSuccessor(v)] - v),
         NEW k \in 0..(Size(base.run) - 1), v <= base.tail[k],
         base.tail[k] < ix.marks[SoftSuccessor(v)]
  PROVE  FALSE
<1> DEFINE o == SoftSuccessor(v)
           n == Size(text)
           t == base.tail[k]
           a == AreaOf(o)
           m == ix.marks[o]
<1>1. /\ o \in DOMAIN ix.marks /\ v <= m
      /\ \A q \in DOMAIN ix.marks : q < o => ix.marks[q] < v
  BY SuccessorIs
<1>2. /\ Size(ix.marks) \in Nat \ {0} /\ DOMAIN ix.marks = 0..(Size(ix.marks) - 1)
      /\ ix.marks[0] <= t
      /\ \E j \in 0..(Size(base.run) - 1) : m = base.tail[j]
  BY <1>1 DEF MarksAreRight
<1>3. n \in Nat \ {0} /\ \A j \in 0..(Size(base.run) - 1) : base.tail[j] \in 0..(n - 1)
  BY DEF ItemsAreRight
<1>4. t \in 0..(n - 1) /\ m \in 0..(n - 1)
  BY <1>2, <1>3
<1> HIDE DEF n
<1>5. t \in Int /\ m \in Int /\ v \in Int
  BY <1>3, <1>4 DEF n
<1>6. o \in Nat /\ v <= t /\ t < m
  BY <1>1, <1>2
<1>7. Validate(o, m - v)
  OBVIOUS
<1> HIDE DEF o, t, m
<1>8. o # 0
  <2>1. SUFFICES ASSUME o = 0 PROVE FALSE
    OBVIOUS
  <2>2. m <= t
    BY <1>2, <2>1 DEF m
  <2>3. QED
    BY <1>5, <1>6, <2>2
<1>9. o - 1 \in DOMAIN ix.marks /\ o > 0 /\ o - 1 < o
  BY <1>1, <1>2, <1>6, <1>8
<1>10. ix.marks[o - 1] < v
  BY <1>1, <1>9
<1>11. ix.marks[o - 1] \in Int
  <2>1. \E j \in 0..(Size(base.run) - 1) : ix.marks[o - 1] = base.tail[j]
    BY <1>9 DEF MarksAreRight
  <2>2. QED
    BY <1>3, <2>1
<1>12. LostBefore(o, k)
  BY <1>5, <1>6, <1>10, <1>11 DEF LostBefore, t, m
<1>13. o \in ix.invalid /\ t <= m - a /\ a \in Nat
  BY <1>1, <1>9, <1>12 DEF ValidityIsRight, t, m
<1>14. InArea(o, m - v)
  BY <1>7, <1>13 DEF Validate, InitialValidity, MarkIsValid
<1>15. m - v < a
  BY <1>14 DEF InArea, AreaOf
<1> HIDE DEF a
<1>16. QED
  BY <1>5, <1>6, <1>13, <1>15

\* In the r-csa every mark of the text is kept.
LEMMA AllLosesNone ==
  ASSUME TextIsBuilt, ItemsAreRight, AllStored, NEW v \in 0..(Size(text) - 1),
         NEW k \in 0..(Size(base.run) - 1), v <= base.tail[k],
         base.tail[k] < ix.marks[SoftSuccessor(v)]
  PROVE  FALSE
<1> DEFINE o == SoftSuccessor(v)
           w == Size(ix.marks)
<1>1. MarksAreRight /\ HasItems(ix)
  BY AllMarks DEF AllStored
<1>2. PICK q \in DOMAIN ix.marks : ix.marks[q] = base.tail[k]
  BY AllMarks
<1>3. /\ o \in DOMAIN ix.marks
      /\ \A p \in DOMAIN ix.marks : p < o => ix.marks[p] < v
  BY <1>1, SuccessorIs
<1>4. /\ w \in Nat \ {0} /\ DOMAIN ix.marks = 0..(w - 1)
      /\ \A i, j \in 0..(w - 1) : i < j => ix.marks[i] < ix.marks[j]
  BY <1>1 DEF MarksAreRight
<1>5. \A p \in DOMAIN ix.marks : ix.marks[p] \in Int
  <2>1. /\ Size(text) \in Nat
        /\ \A j \in 0..(Size(base.run) - 1) : base.tail[j] \in 0..(Size(text) - 1)
    BY DEF ItemsAreRight
  <2>2. \A p \in 0..(w - 1) : \E j \in 0..(Size(base.run) - 1) : ix.marks[p] = base.tail[j]
    BY <1>1 DEF MarksAreRight
  <2>3. \A j \in 0..(Size(base.run) - 1) : base.tail[j] \in Int
    BY <2>1
  <2> HIDE DEF w
  <2>4. QED
    BY <1>4, <2>2, <2>3
<1>6. v \in Int
  BY DEF ItemsAreRight
<1> DEFINE x == ix.marks[q]
           y == ix.marks[o]
<1>7. x \in Int /\ y \in Int /\ v <= x /\ x < y
  BY <1>2, <1>3, <1>5
<1> HIDE DEF o, w
<1>8. ~(q < o)
  <2>1. q < o => x < v
    BY <1>2, <1>3
  <2> HIDE DEF x, y
  <2>2. QED
    BY <1>6, <1>7, <2>1
<1>9. q \in Int /\ o \in Int /\ q # o
  BY <1>2, <1>3, <1>4, <1>7
<1>10. o < q
  BY <1>8, <1>9
<1>11. y < x
  BY <1>2, <1>3, <1>4, <1>10
<1> HIDE DEF x, y
<1>12. QED
  BY <1>7, <1>11

\* On a loaded index phi gives a text position, and the one after wherever it is trusted.
PhiTrusted ==
  \A v \in 0..(Size(text) - 1) :
    /\ Phi(v).value \in 0..(Size(text) - 1) /\ Phi(v).valid \in BOOLEAN
    /\ Phi(v).valid => After(v, Phi(v).value)

\* The index a construction leaves gives the right values of phi when it trusts them.
LEMMA PhiBecomesTrusted ==
  ASSUME BuildInv, phase = "done", ix.kind # "raw"
  PROVE  PhiTrusted
<1>1. TextIsBuilt /\ ItemsAreRight
  BY ItemsReady
<1>2. ix.kind \in {"r", "sr", "vm", "va"}
  BY DEF BuildInv, Inputs
<1>3. HasItems(ix) /\ MarksAreRight
  <2>1. CASE ix.kind = "r"
    <3>1. AllStored
      BY <2>1 DEF BuildInv, RCsaInv
    <3>2. QED
      BY <1>1, <3>1, AllMarks DEF AllStored
  <2>2. CASE ix.kind # "r"
    <3>1. HasSubsamples
      BY <2>2 DEF HasSubsamples
    <3>2. QED
      BY <3>1, SubsamplesReady
  <2>3. QED
    BY <2>1, <2>2
<1>4. ix.kind \in {"vm", "va"} => ValidityIsRight
  <2>1. SUFFICES ASSUME ix.kind \in {"vm", "va"} PROVE ValidityIsRight
    OBVIOUS
  <2>2. ValidityProofs!IInv /\ ValidityStored
    BY <2>1 DEF BuildInv, ValidityInv
  <2>3. QED
    BY <1>1, <1>3, <2>2, ValidityServes
<1>5. SUFFICES ASSUME NEW v \in 0..(Size(text) - 1)
               PROVE  /\ Phi(v).value \in 0..(Size(text) - 1) /\ Phi(v).valid \in BOOLEAN
                      /\ Phi(v).valid => After(v, Phi(v).value)
  BY DEF PhiTrusted
<1> DEFINE o == SoftSuccessor(v)
           n == Size(text)
<1>6. PICK k \in 0..(Size(base.run) - 1) :
        /\ ix.marks[o] = base.tail[k]
        /\ base.tail[k] \in 0..(n - 1) /\ v <= base.tail[k]
        /\ base.head[LinkOf(k)] \in 0..(n - 1)
        /\ Phi(v) = [value |-> (base.head[LinkOf(k)] + n - (base.tail[k] - v)) % n,
                     valid |-> Validate(o, base.tail[k] - v)]
  BY <1>1, <1>3, PhiLinks
<1>7. n \in Nat \ {0} /\ v \in 0..(n - 1)
  BY <1>1 DEF ItemsAreRight
<1>8. Phi(v).value \in 0..(n - 1)
  <2> DEFINE z == base.head[LinkOf(k)] + n - (base.tail[k] - v)
  <2>1. Phi(v).value = z % n
    BY <1>6
  <2>2. z \in Int
    <3> DEFINE x == base.head[LinkOf(k)]
               y == base.tail[k]
    <3>1. x \in 0..(n - 1) /\ y \in 0..(n - 1) /\ z = x + n - (y - v)
      BY <1>6
    <3> HIDE DEF x, y, z, n
    <3>2. QED
      BY <1>7, <3>1
  <2> HIDE DEF z, n
  <2>3. z % n \in 0..(n - 1)
    BY <1>7, <2>2
  <2>4. QED
    BY <2>1, <2>3
<1>9. Phi(v).valid = Validate(o, base.tail[k] - v)
  BY <1>6
<1>10. Phi(v).valid \in BOOLEAN
  <2>1. ix.kind = "r" \/ ix.kind = "sr" \/ ix.kind = "vm" \/ ix.kind = "va"
    BY <1>2
  <2>2. InitialValidity(o) \in BOOLEAN
    BY <2>1 DEF InitialValidity, MarkIsValid
  <2>3. QED
    BY <1>9, <2>2 DEF Validate
<1>11. ASSUME Phi(v).valid
       PROVE  After(v, Phi(v).value)
  <2>1. Validate(o, ix.marks[o] - v)
    BY <1>6, <1>9, <1>11
  <2>2. ix.kind # "sr"
    <3>1. SUFFICES ASSUME ix.kind = "sr" PROVE FALSE
      OBVIOUS
    <3>2. InitialValidity(o) = FALSE
      BY <3>1 DEF InitialValidity
    <3>3. QED
      BY <2>1, <3>1, <3>2 DEF Validate
  <2>3. \A j \in 0..(Size(base.run) - 1) : ~(v <= base.tail[j] /\ base.tail[j] < ix.marks[o])
    <3>1. CASE ix.kind = "r"
      <4>1. AllStored
        BY <3>1 DEF BuildInv, RCsaInv
      <4>2. QED
        BY <1>1, <4>1, AllLosesNone
    <3>2. CASE ix.kind \in {"vm", "va"}
      BY <1>1, <1>3, <1>4, <2>1, <3>2, TrustLosesNone
    <3>3. QED
      BY <1>2, <2>2, <3>1, <3>2
  <2>4. QED
    BY <1>1, <1>3, <2>3, PhiIsRight
<1>12. QED
  BY <1>8, <1>10, <1>11

\* phi is right for every entry of the suffix array but the last.
LEMMA PhiInv ==
  ASSUME BuildInv
  PROVE  PhiRightWhenTrusted
<1>1. SUFFICES ASSUME phase = "done", ix.kind # "raw", NEW p \in DOMAIN sa \ {ix.n - 1},
                      Phi(sa[p]).valid
               PROVE  Phi(sa[p]).value = sa[p + 1]
  BY DEF PhiRightWhenTrusted
<1>2. TextIsBuilt /\ PhiTrusted
  BY <1>1, PhiBecomesTrusted, ItemsReady
<1>3. ix.n = Size(text)
  <2>1. CASE ix.kind = "r"
    BY <1>1, <2>1 DEF BuildInv, RCsaInv, AllStored, HasItems
  <2>2. CASE ix.kind # "r"
    <3>1. HasSubsamples
      BY <1>1, <2>2 DEF HasSubsamples
    <3>2. QED
      BY <3>1, SubsamplesReady DEF HasItems
  <2>3. QED
    BY <2>1, <2>2
<1> DEFINE n == Size(text)
<1>4. n \in Nat \ {0} /\ sa \in [0..(n - 1) -> 0..(n - 1)]
  BY <1>2, BuiltText
<1>5. p \in 0..(n - 2) /\ sa[p] \in 0..(n - 1)
  <2> HIDE DEF n
  <2>1. p \in 0..(n - 1) /\ p # n - 1
    BY <1>1, <1>3, <1>4 DEF n
  <2>2. QED
    BY <1>4, <2>1
<1>6. After(sa[p], Phi(sa[p]).value)
  BY <1>1, <1>2, <1>5 DEF PhiTrusted
<1>7. QED
  BY <1>2, <1>5, <1>6, AfterEntry

\* Wherever the phi of a psi-based index is trusted, on any text and at any rate,
\* it gives the next entry of the suffix array.
THEOREM CsaPhiIsTrusted == Spec => []PhiRightWhenTrusted
<1>1. BuildInv => PhiRightWhenTrusted
  BY PhiInv
<1>2. QED
  BY <1>1, CsaIsBuiltRight, PTL

-----------------------------------------------------------------------------
(* The structures of a right index.                                        *)

\* psi undoes LF and LF psi.
LEMMA PsiAndLF ==
  ASSUME TextIsIndexed, LFIsRight, NEW p \in DOMAIN sa
  PROVE  PsiAt(p) \in DOMAIN sa /\ LF(PsiAt(p)) = p /\ PsiAt(LF(p)) = p
<1> DEFINE n == ix.n
           bwt == ix.bwt
           C == ix.C
<1>1. Compact(bwt, n) /\ C = Cumulative(bwt)
  BY BwtServes
<1>2. DOMAIN sa = 0..(n - 1) /\ LF(p) \in 0..(n - 1)
  BY PositionsAre DEF LFIsRight
<1>3. \A x : LF(x) = BasicLF(bwt, C, x)
  BY DEF LF, Rank, BasicLF
<1>4. \A x : PsiAt(x) = PsiOf(bwt, C, x)
  BY DEF PsiAt, PsiOf, CForSAIndex, SymbolAt, Rank
<1> HIDE DEF n, bwt, C
<1>5. PsiOf(bwt, C, p) \in 0..(n - 1) /\ BasicLF(bwt, C, PsiOf(bwt, C, p)) = p
  BY <1>1, <1>2, LFUndoesPsi
<1>6. PsiOf(bwt, C, BasicLF(bwt, C, p)) = p
  BY <1>1, <1>2, PsiUndoesLF
<1>7. QED
  BY <1>2, <1>3, <1>4, <1>5, <1>6

\* psi goes from each suffix to the one that starts a symbol later.
LEMMA PsiIs ==
  ASSUME TextIsIndexed, LFIsRight, NEW p \in DOMAIN sa
  PROVE  PsiAt(p) \in DOMAIN sa /\ sa[PsiAt(p)] = (sa[p] + 1) % ix.n
<1>1. PsiAt(p) \in DOMAIN sa /\ LF(PsiAt(p)) = p
  BY PsiAndLF
<1>2. sa[p] = TextPos(sa, PsiAt(p))
  BY <1>1 DEF LFIsRight
<1>3. QED
  BY <1>1, <1>2, TextPosAdd

\* The run of a position.
LEMMA RunOfPosition ==
  ASSUME TextIsIndexed, RunsPartition, NEW p \in DOMAIN sa
  PROVE  /\ RunAt(p) \in DOMAIN ix.run /\ HeadOf(RunAt(p)) <= p /\ p < ix.run[RunAt(p)].end
         /\ ix.bwt[p] = ix.run[RunAt(p)].c
  BY RunAtIs DEF HeadOf

\* A position in a run has no other one.
LEMMA OneRunAt ==
  ASSUME TextIsIndexed, RunsPartition, NEW p \in DOMAIN sa, NEW k \in DOMAIN ix.run,
         HeadOf(k) <= p, p < ix.run[k].end
  PROVE  RunAt(p) = k
  BY RunAtUnique DEF HeadOf

\* The bounds of a run.
LEMMA RunBounds ==
  ASSUME TextIsIndexed, RunsPartition, NEW k \in DOMAIN ix.run
  PROVE  /\ HeadOf(k) \in DOMAIN sa /\ HeadOf(k) \in Nat /\ ix.run[k].end \in Nat /\ ix.run[k].c \in Nat
         /\ HeadOf(k) < ix.run[k].end /\ ix.run[k].end <= ix.n
         /\ \A p \in HeadOf(k) .. (ix.run[k].end - 1) : p \in DOMAIN sa /\ ix.bwt[p] = ix.run[k].c
         /\ RunAt(HeadOf(k)) = k /\ k \in Nat
<1>1. /\ ix.run \in [0..(Size(ix.run) - 1) -> [start : Nat, end : Nat, c : Nat]]
      /\ ix.run[k].start < ix.run[k].end /\ ix.run[k].end <= ix.n
      /\ \A p \in ix.run[k].start .. (ix.run[k].end - 1) : ix.bwt[p] = ix.run[k].c
      /\ Size(ix.run) \in Nat
  BY DEF RunsPartition
<1>2. ix.run[k].start \in Nat /\ ix.run[k].end \in Nat /\ ix.run[k].c \in Nat /\ k \in Nat
  BY <1>1
<1>3. ix.n \in Nat \ {0} /\ DOMAIN sa = 0..(ix.n - 1)
  BY PositionsAre
<1>4. HeadOf(k) = ix.run[k].start
  BY DEF HeadOf
<1>5. \A p \in HeadOf(k) .. (ix.run[k].end - 1) : p \in DOMAIN sa
  BY <1>1, <1>2, <1>3, <1>4
<1>6. HeadOf(k) \in HeadOf(k) .. (ix.run[k].end - 1)
  BY <1>1, <1>2, <1>4
<1>7. RunAt(HeadOf(k)) = k
  BY <1>1, <1>4, <1>5, <1>6, OneRunAt
<1>8. QED
  BY <1>1, <1>2, <1>4, <1>5, <1>6, <1>7

\* LF takes neighbours in a run to neighbours.
LEMMA LFInRun ==
  ASSUME TextIsIndexed, RunsPartition, LFIsRight, NEW k \in DOMAIN ix.run, NEW p \in DOMAIN sa, NEW q \in DOMAIN sa,
         HeadOf(k) <= p, p < q, q < ix.run[k].end
  PROVE  LF(q) = LF(p) + (q - p)
<1>2. p \in Nat /\ q \in Nat /\ q < ix.n /\ ix.n \in Nat
  BY PositionsAre
<1> DEFINE c == ix.run[k].c
<1>3. \A x \in HeadOf(k) .. (ix.run[k].end - 1) : ix.bwt[x] = c
  BY RunBounds
<1>4. HeadOf(k) \in Nat /\ ix.run[k].end \in Nat
  BY RunBounds
<1>5. \A x \in p .. (q - 1) : ix.bwt[x] = c
  BY <1>2, <1>3, <1>4
<1>6. ix.bwt[p] = c /\ ix.bwt[q] = c
  BY <1>2, <1>3, <1>4
<1> HIDE DEF c
<1>7. p <= q /\ q <= ix.n
  BY <1>2
<1>9. Rank(c, q) = Rank(c, p) + (q - p)
  BY <1>2, <1>5, <1>7, RankInRun
<1>10. Rank(c, p) \in Nat /\ ix.C[c] \in Nat
  <2>1. Rank(c, p) \in Nat
    BY RankType
  <2>2. ix.C[ix.bwt[p]] \in Nat
    BY BwtType
  <2>3. QED
    BY <1>6, <2>1, <2>2
<1>11. LF(q) = ix.C[c] + Rank(c, q) /\ LF(p) = ix.C[c] + Rank(c, p)
  BY <1>6 DEF LF
<1>12. QED
  BY <1>2, <1>9, <1>10, <1>11

\* So psi takes neighbours to neighbours if it takes them to one run.
LEMMA PsiNeighbours ==
  ASSUME TextIsIndexed, RunsPartition, LFIsRight, NEW p \in DOMAIN sa, p + 1 \in DOMAIN sa,
         RunAt(PsiAt(p + 1)) = RunAt(PsiAt(p))
  PROVE  PsiAt(p + 1) = PsiAt(p) + 1
<1> DEFINE x == PsiAt(p)
           y == PsiAt(p + 1)
           k == RunAt(x)
<1>1. x \in DOMAIN sa /\ y \in DOMAIN sa /\ LF(x) = p /\ LF(y) = p + 1
  BY PsiAndLF
<1>2. /\ k \in DOMAIN ix.run /\ HeadOf(k) <= x /\ x < ix.run[k].end
      /\ HeadOf(k) <= y /\ y < ix.run[k].end
  <2>1. RunAt(y) = k
    OBVIOUS
  <2> HIDE DEF x, y
  <2>2. QED
    BY <1>1, <2>1, RunOfPosition
<1>3. x \in Nat /\ y \in Nat /\ p \in Nat
  BY <1>1, PositionsAre
<1> HIDE DEF x, y, k
<1>4. CASE x < y
  <2>1. LF(y) = LF(x) + (y - x)
    BY <1>1, <1>2, <1>4, LFInRun
  <2>2. QED
    BY <1>1, <1>3, <2>1 DEF x, y
<1>5. CASE y < x
  <2>1. LF(x) = LF(y) + (x - y)
    BY <1>1, <1>2, <1>5, LFInRun
  <2>2. QED
    BY <1>1, <1>3, <1>5, <2>1
<1>6. x # y
  BY <1>1, <1>3
<1>7. QED
  BY <1>3, <1>4, <1>5, <1>6

-----------------------------------------------------------------------------
(* Where the positions of the walk come from.                              *)

\* Psi steps that lead from one suffix to another are known by their number.
LEMMA OriginIs ==
  ASSUME TextIsIndexed, NEW q \in DOMAIN sa, NEW level \in Nat \ {0}, NEW p \in DOMAIN sa,
         (sa[p] + level - 1) % ix.n = sa[q]
  PROVE  Origin(q, level) = p
<1>1. ASSUME NEW x \in DOMAIN sa, (sa[x] + level - 1) % ix.n = sa[q]
      PROVE  x = p
  <2>1. ix.n \in Nat \ {0} /\ sa[x] \in 0..(ix.n - 1) /\ sa[p] \in 0..(ix.n - 1)
    BY PositionsAre
  <2>2. /\ level - 1 \in Int /\ sa[x] + level - 1 = sa[x] + (level - 1)
        /\ sa[p] + level - 1 = sa[p] + (level - 1)
    BY <2>1
  <2>3. (sa[x] + (level - 1)) % ix.n = (sa[p] + (level - 1)) % ix.n
    BY <1>1, <2>2
  <2>4. sa[x] = sa[p]
    BY <2>1, <2>2, <2>3, ModCancel
  <2>5. QED
    BY <2>4, SaHasOnce
<1>2. QED
  BY <1>1 DEF Origin

\* Every position comes from one, whatever the level.
LEMMA OriginType ==
  ASSUME TextIsIndexed, NEW q \in DOMAIN sa, NEW level \in Nat \ {0}
  PROVE  Origin(q, level) \in DOMAIN sa /\ (sa[Origin(q, level)] + level - 1) % ix.n = sa[q]
<1> DEFINE n == ix.n
           v == (sa[q] + (1 - level)) % n
<1>1. n \in Nat \ {0} /\ sa[q] \in 0..(n - 1)
  BY PositionsAre
<1>2. v \in 0..(n - 1) /\ (v + (level - 1)) % n = sa[q]
  <2> DEFINE a == sa[q]
  <2>1. a \in 0..(n - 1) /\ v = (a + (1 - level)) % n
    BY <1>1
  <2> HIDE DEF a, v, n
  <2>2. a + (1 - level) \in Int /\ level - 1 \in Int
    BY <1>1, <2>1
  <2>3. v \in 0..(n - 1)
    BY <1>1, <2>1, <2>2, ModDef
  <2>4. (v + (level - 1)) % n = ((a + (1 - level)) + (level - 1)) % n
    BY <1>1, <2>1, <2>2, ModMod
  <2>5. (a + (1 - level)) + (level - 1) = a
    BY <1>1, <2>1
  <2>6. QED
    BY <1>1, <2>1, <2>3, <2>4, <2>5, ModSmall DEF a
<1>3. PICK p \in DOMAIN sa : sa[p] = v
  BY <1>2, SaIsOnto
<1>4. sa[p] + level - 1 = v + (level - 1)
  BY <1>1, <1>2, <1>3
<1> HIDE DEF v
<1>5. (sa[p] + level - 1) % n = sa[q]
  BY <1>2, <1>4
<1>6. QED
  BY <1>5, OriginIs

\* At the first level a position is its own.
LEMMA OriginOne ==
  ASSUME TextIsIndexed, NEW q \in DOMAIN sa
  PROVE  Origin(q, 1) = q
<1>1. ix.n \in Nat \ {0} /\ sa[q] \in 0..(ix.n - 1)
  BY PositionsAre
<1>2. sa[q] + 1 - 1 = sa[q]
  BY <1>1
<1>3. (sa[q] + 1 - 1) % ix.n = sa[q]
  BY <1>1, <1>2, ModSmall
<1>4. QED
  BY <1>3, OriginIs

\* One psi step more, one level more.
LEMMA OriginOfPsi ==
  ASSUME TextIsIndexed, LFIsRight, NEW q \in DOMAIN sa, NEW level \in Nat \ {0}
  PROVE  Origin(PsiAt(q), level + 1) = Origin(q, level)
<1> DEFINE p == Origin(q, level)
           n == ix.n
<1>1. p \in DOMAIN sa /\ (sa[p] + level - 1) % n = sa[q]
  BY OriginType
<1>2. n \in Nat \ {0} /\ sa[p] \in 0..(n - 1)
  BY <1>1, PositionsAre
<1>3. PsiAt(q) \in DOMAIN sa /\ sa[PsiAt(q)] = (sa[q] + 1) % n
  BY PsiIs
<1> DEFINE a == sa[p] + level - 1
<1>4. a \in Int /\ a % n = sa[q] /\ sa[p] + (level + 1) - 1 = a + 1
  BY <1>1, <1>2
<1> HIDE DEF a, n, p
<1>5. ((a % n) + 1) % n = (a + 1) % n
  <2>1. n \in Nat \ {0} /\ a \in Int /\ 1 \in Int
    BY <1>2, <1>4
  <2>2. QED
    BY ONLY <2>1, ModMod
<1>6. (sa[p] + (level + 1) - 1) % n = sa[PsiAt(q)]
  BY <1>3, <1>4, <1>5
<1>7. level + 1 \in Nat \ {0}
  OBVIOUS
<1>8. Origin(PsiAt(q), level + 1) = p
  BY <1>1, <1>3, <1>6, <1>7, OriginIs DEF n
<1>9. QED
  BY <1>8 DEF p

\* A head found at a level is as many suffixes after the position it comes from.
LEMMA HeadAtOrigin ==
  ASSUME TextIsIndexed, RunsPartition, NEW q \in DOMAIN sa, NEW level \in Nat \ {0}, NEW k \in DOMAIN ix.run
  PROVE  HeadAhead(k, level - 1, Origin(q, level)) <=> q = HeadOf(k)
<1> DEFINE p == Origin(q, level)
<1>1. p \in DOMAIN sa /\ (sa[p] + level - 1) % ix.n = sa[q]
  BY OriginType
<1>2. sa[p] + level - 1 = sa[p] + (level - 1)
  <2>1. sa[p] \in 0..(ix.n - 1) /\ ix.n \in Nat
    BY <1>1, PositionsAre
  <2> HIDE DEF p
  <2>2. QED
    BY <2>1
<1>3. HeadOf(k) \in DOMAIN sa
  BY RunBounds
<1>4. HeadAhead(k, level - 1, p) <=> sa[q] = sa[HeadOf(k)]
  BY <1>1, <1>2 DEF HeadAhead
<1>5. QED
  BY <1>3, <1>4, SaHasOnce

-----------------------------------------------------------------------------
(* A range cut in pieces.                                                  *)

\* A run has a rank among those of its symbol.
LEMMA RankInSymbolType ==
  ASSUME RunsPartition
  PROVE  IsFiniteSet(DOMAIN ix.run) /\ \A k : RankInSymbol(k) \in Nat
<1> DEFINE r == Size(ix.run)
<1>1. r \in Nat /\ DOMAIN ix.run = 0..(r - 1)
  BY DEF RunsPartition
<1> HIDE DEF r
<1>2. 0 \in Int /\ r - 1 \in Int
  BY <1>1
<1>3. IsFiniteSet(DOMAIN ix.run)
  BY <1>1, <1>2, FS_Interval
<1>4. ASSUME NEW k
      PROVE  RankInSymbol(k) \in Nat
  <2> DEFINE T == {m \in DOMAIN ix.run : m < k /\ ix.run[m].c = ix.run[k].c}
  <2>1. IsFiniteSet(T)
    BY <1>3, FS_Subset
  <2>2. QED
    BY <2>1, FS_CardinalityType DEF RankInSymbol
<1>5. QED
  BY <1>3, <1>4

\* The greater and the lesser of two numbers.
LEMMA MaxMinOfTwo ==
  ASSUME NEW a \in Int, NEW b \in Int
  PROVE  /\ Max({a, b}) = IF a <= b THEN b ELSE a
         /\ Min({a, b}) = IF a <= b THEN a ELSE b
<1>1. \A x \in {a, b} : (\A y \in {a, b} : x >= y) <=> x = IF a <= b THEN b ELSE a
  OBVIOUS
<1>2. \A x \in {a, b} : (\A y \in {a, b} : x <= y) <=> x = IF a <= b THEN a ELSE b
  OBVIOUS
<1>3. (IF a <= b THEN b ELSE a) \in {a, b} /\ (IF a <= b THEN a ELSE b) \in {a, b}
  OBVIOUS
<1>4. (CHOOSE x \in {a, b} : \A y \in {a, b} : x >= y) = IF a <= b THEN b ELSE a
  BY <1>1, <1>3
<1>5. (CHOOSE x \in {a, b} : \A y \in {a, b} : x <= y) = IF a <= b THEN a ELSE b
  BY <1>2, <1>3
<1>6. QED
  BY <1>4, <1>5 DEF Max, Min

\* Where a piece of a BWT run starts and ends.
FromOf(k, first) == IF first <= HeadOf(k) THEN HeadOf(k) ELSE first
UpToOf(k, last) == IF ix.run[k].end <= last THEN ix.run[k].end ELSE last

\* What Piece gives of a run that the range meets.
LEMMA PieceIs ==
  ASSUME TextIsIndexed, RunsPartition, NEW first \in Nat, NEW last \in Nat, NEW k \in DOMAIN ix.run,
         first < last, HeadOf(k) < last, first < ix.run[k].end
  PROVE  /\ Piece(k, first, last) \in RunRecord
         /\ Piece(k, first, last).start = FromOf(k, first) /\ Piece(k, first, last).end = UpToOf(k, last)
         /\ FromOf(k, first) < UpToOf(k, last)
         /\ first <= FromOf(k, first) /\ UpToOf(k, last) <= last
         /\ HasRun => PieceOf(Piece(k, first, last))
<1> DEFINE h == HeadOf(k)
           e == ix.run[k].end
           c == ix.run[k].c
           w == RankInSymbol(k)
           s == FromOf(k, first)
           u == UpToOf(k, last)
<1>1. h \in Nat /\ e \in Nat /\ c \in Nat /\ w \in Nat /\ h < e
  BY RunBounds, RankInSymbolType
<1>2. first \in Int /\ last \in Int /\ h \in Int /\ e \in Int
  BY <1>1
<1>3. h = ix.run[k].start
  BY DEF HeadOf
<1>4. /\ s = IF first <= h THEN h ELSE first
      /\ u = IF e <= last THEN e ELSE last
  BY DEF FromOf, UpToOf
<1> HIDE DEF h, e, c, w, s, u
<1>5. Max({first, h}) = s
  BY <1>2, <1>4, MaxMinOfTwo
<1>6. Min({last, e}) = u
  <2>1. Min({last, e}) = IF last <= e THEN last ELSE e
    BY <1>2, MaxMinOfTwo
  <2>2. QED
    BY <1>2, <1>4, <2>1
<1>7. Piece(k, first, last) = [start |-> s, end |-> u, c |-> c, rnk |-> w, isStart |-> first <= h]
  BY <1>3, <1>5, <1>6 DEF Piece, e, c, w
<1>8. s \in Nat /\ u \in Nat /\ s < u /\ first <= s /\ u <= last
  BY <1>1, <1>4 DEF h, e
<1>9. Piece(k, first, last) \in RunRecord
  BY <1>1, <1>7, <1>8 DEF RunRecord
<1>10. ASSUME HasRun
       PROVE  PieceOf(Piece(k, first, last))
  <2> DEFINE P == Piece(k, first, last)
  <2>1. P.start = s /\ P.end = u /\ P.c = c /\ P.rnk = w /\ P.isStart = (first <= h)
    BY <1>7
  <2> HIDE DEF P
  <2>2. h <= s /\ u <= e /\ (first <= h <=> s = h)
    BY <1>1, <1>4
  <2>3. /\ HeadOf(k) <= P.start /\ P.end <= ix.run[k].end
        /\ P.c = ix.run[k].c /\ P.rnk = RankInSymbol(k) /\ (P.isStart <=> P.start = HeadOf(k))
    BY <2>1, <2>2 DEF h, e, c, w
  <2>4. PieceOf(P)
    BY <1>10, <2>3 DEF PieceOf
  <2>5. QED
    BY <2>4 DEF P
<1>11. QED
  BY <1>7, <1>8, <1>9, <1>10 DEF s, u

\* The runs S lie one after another over the range, each a piece of the BWT run
\* it names.
LaysOut(S, first, last) ==
  /\ S \in Seq(RunRecord) /\ S # <<>>
  /\ \A k \in DOMAIN S :
       /\ first <= S[k].start /\ S[k].start < S[k].end /\ S[k].end <= last
       /\ PieceOf(S[k])
  /\ \A k, m \in DOMAIN S : k < m => S[k].end <= S[m].start
  /\ \A p \in first .. (last - 1) : \E k \in DOMAIN S : S[k].start <= p /\ p < S[k].end

\* SrCSA cuts a range where the sub-sampled runs start.
LEMMA SplitAtSamplesIs ==
  ASSUME ~HasRun, ix.sampled \in SUBSET Nat,
         NEW first \in Nat, NEW last \in Nat, first < last
  PROVE  LaysOut(SplitAtSamples(first, last), first, last)
<1> DEFINE T == {first} \cup {p \in ix.sampled : first < p /\ p < last}
           A == Ascending(T)
           N == Size(A)
           S == SplitAtSamples(first, last)
           rec(k) == [start |-> A[k - 1], end |-> NextCut(A, k, last), c |-> 0, rnk |-> 0,
                      isStart |-> FALSE]
<1>1. T \in SUBSET (first .. (last - 1)) /\ first \in T
  OBVIOUS
<1>2. \A k \in 1..N : rec(k) =
        [start |-> A[k - 1], end |-> IF k = Size(A) THEN last ELSE A[k], c |-> 0, rnk |-> 0,
         isStart |-> FALSE]
  BY DEF NextCut
<1>3. S = [k \in 1..N |->
            [start |-> A[k - 1], end |-> IF k = Size(A) THEN last ELSE A[k], c |-> 0, rnk |-> 0,
             isStart |-> FALSE]]
  BY DEF SplitAtSamples
<1>4. \A x : first < x /\ x < last /\ x \in ix.sampled => x \in T
  OBVIOUS
<1>5. \A x \in T : x \in Nat /\ first <= x
  BY <1>1
<1> HIDE DEF T
<1>6. /\ N \in Nat \ {0}
      /\ \A k \in 1..N :
           /\ A[k - 1] \in T
           /\ A[k - 1] < NextCut(A, k, last)
           /\ NextCut(A, k, last) \in Nat /\ NextCut(A, k, last) <= last
           /\ \A x \in T : x <= A[k - 1] \/ NextCut(A, k, last) <= x
  BY <1>1, CutsAre
<1>7. \A k, m \in 1..N : k < m => NextCut(A, k, last) <= A[m - 1]
  BY <1>1, CutsAre
<1>8. \A p \in first .. (last - 1) : \E k \in 1..N : A[k - 1] <= p /\ p < NextCut(A, k, last)
  BY <1>1, CutsAre
<1> HIDE DEF N, A, S, rec
<1>9. DOMAIN S = 1..N /\ \A k \in 1..N : S[k] = rec(k)
  BY <1>2, <1>3
<1>10. \A k \in 1..N : /\ rec(k) \in RunRecord /\ rec(k).start = A[k - 1]
                       /\ rec(k).end = NextCut(A, k, last)
  BY <1>5, <1>6 DEF rec, RunRecord
<1>11. S \in Seq(RunRecord) /\ S # <<>>
  <2>1. S = [k \in 1..N |-> rec(k)]
    BY <1>2, <1>3
  <2>2. S \in [1..N -> RunRecord]
    BY <1>10, <2>1
  <2>3. QED
    BY <1>6, <1>9, <2>2
<1>12. ASSUME NEW k \in 1..N
       PROVE  /\ first <= S[k].start /\ S[k].start < S[k].end /\ S[k].end <= last
              /\ PieceOf(S[k])
  <2>1. S[k].start = A[k - 1] /\ S[k].end = NextCut(A, k, last)
    BY <1>9, <1>10
  <2>2. first <= A[k - 1] /\ A[k - 1] \in Nat
    BY <1>5, <1>6
  <2>3. ASSUME NEW q \in ix.sampled, A[k - 1] < q, q < NextCut(A, k, last)
        PROVE  FALSE
    <3>1. q \in Nat /\ first < q /\ q < last
      BY <1>6, <2>2, <2>3
    <3>2. q \in T
      BY <1>4, <3>1
    <3>3. QED
      BY <1>6, <2>2, <2>3, <3>1, <3>2
  <2>4. PieceOf(S[k])
    BY <2>1, <2>3 DEF PieceOf
  <2>5. QED
    BY <1>6, <2>1, <2>2, <2>4
<1>13. \A k, m \in DOMAIN S : k < m => S[k].end <= S[m].start
  BY <1>7, <1>9, <1>10
<1>14. \A p \in first .. (last - 1) : \E k \in DOMAIN S : S[k].start <= p /\ p < S[k].end
  BY <1>8, <1>9, <1>10
<1>15. LaysOut(S, first, last)
  BY <1>9, <1>11, <1>12, <1>13, <1>14 DEF LaysOut
<1>16. QED
  BY <1>15 DEF S

\* The runs of later positions come later.
LEMMA RunsAscend ==
  ASSUME TextIsIndexed, RunsPartition, NEW p \in DOMAIN sa, NEW q \in DOMAIN sa, p <= q
  PROVE  RunAt(p) <= RunAt(q) /\ RunAt(p) \in Nat /\ RunAt(q) \in Nat
<1>1. \A i, j \in DOMAIN ix.run : i < j => ix.run[i].end <= ix.run[j].start
  BY DEF RunsPartition
<1>2. /\ RunAt(p) \in DOMAIN ix.run /\ RunAt(q) \in DOMAIN ix.run
      /\ HeadOf(RunAt(p)) <= p /\ q < ix.run[RunAt(q)].end
  BY RunOfPosition
<1>3. /\ HeadOf(RunAt(p)) \in Nat /\ ix.run[RunAt(q)].end \in Nat
      /\ RunAt(p) \in Nat /\ RunAt(q) \in Nat
  BY <1>2, RunBounds
<1>4. p \in Nat /\ q \in Nat
  BY PositionsAre
<1>5. ~(RunAt(q) < RunAt(p))
  <2>1. SUFFICES ASSUME RunAt(q) < RunAt(p)
                 PROVE  FALSE
    OBVIOUS
  <2>2. ix.run[RunAt(q)].end <= HeadOf(RunAt(p))
    BY <1>1, <1>2, <2>1 DEF HeadOf
  <2>3. QED
    BY <1>2, <1>3, <1>4, <2>2
<1>6. QED
  BY <1>3, <1>5

\* splitInSortedRuns cuts a range in BWT runs.
LEMMA SplitInRunsIs ==
  ASSUME TextIsIndexed, RunsPartition, HasRun,
         NEW first \in Nat, NEW last \in Nat, first < last, last <= ix.n
  PROVE  LaysOut(SplitInRuns(first, last), first, last)
<1> DEFINE a == RunAt(first)
           b == RunAt(last - 1)
           N == b - a + 1
           S == SplitInRuns(first, last)
           piece(k) == Piece(a + k - 1, first, last)
<1>1. /\ first \in DOMAIN sa /\ last - 1 \in DOMAIN sa /\ first <= last - 1
      /\ \A p \in first .. (last - 1) : p \in DOMAIN sa /\ first <= p /\ p <= last - 1
  <2>1. DOMAIN sa = 0..(ix.n - 1) /\ ix.n \in Nat
    BY PositionsAre
  <2>2. QED
    BY <2>1
<1>2. /\ a \in DOMAIN ix.run /\ HeadOf(a) <= first /\ first < ix.run[a].end
      /\ b \in DOMAIN ix.run /\ HeadOf(b) <= last - 1 /\ last - 1 < ix.run[b].end
      /\ a <= b /\ a \in Nat /\ b \in Nat
  BY <1>1, RunOfPosition, RunsAscend
<1>3. /\ \A k, m \in DOMAIN ix.run : k < m => ix.run[k].end <= HeadOf(m)
      /\ \A k \in DOMAIN ix.run : /\ HeadOf(k) \in Nat /\ ix.run[k].end \in Nat
                                  /\ HeadOf(k) < ix.run[k].end
  <2>1. \A k, m \in DOMAIN ix.run : k < m => ix.run[k].end <= ix.run[m].start
    BY DEF RunsPartition
  <2>2. \A m : HeadOf(m) = ix.run[m].start
    BY DEF HeadOf
  <2>3. \A k \in DOMAIN ix.run : /\ HeadOf(k) \in Nat /\ ix.run[k].end \in Nat
                                 /\ HeadOf(k) < ix.run[k].end
    BY RunBounds
  <2>4. QED
    BY <2>1, <2>2, <2>3
<1>4. S = [k \in 1..N |-> piece(k)]
  BY DEF SplitInRuns
<1>5. \A r \in a .. b : r \in DOMAIN ix.run
  <2>1. DOMAIN ix.run = 0..(Size(ix.run) - 1) /\ Size(ix.run) \in Nat
    BY DEF RunsPartition
  <2> HIDE DEF a, b
  <2>2. QED
    BY <1>2, <2>1
<1> HIDE DEF a, b
<1>6. \A r \in a .. b : HeadOf(r) < last /\ first < ix.run[r].end
  <2> TAKE r \in a .. b
  <2>1. r \in DOMAIN ix.run /\ (r = a \/ a < r) /\ (r = b \/ r < b)
    BY <1>2, <1>5
  <2>2. first < ix.run[r].end
    <3>1. a < r => ix.run[a].end <= HeadOf(r)
      BY <1>2, <1>3, <2>1
    <3>2. QED
      BY <1>2, <1>3, <2>1, <3>1
  <2>3. HeadOf(r) < last
    <3>1. r < b => ix.run[r].end <= HeadOf(b)
      BY <1>2, <1>3, <2>1
    <3>2. QED
      BY <1>2, <1>3, <2>1, <3>1
  <2>4. QED
    BY <2>2, <2>3
<1>7. N \in Nat \ {0} /\ \A k \in 1..N : a + k - 1 \in a .. b
  BY <1>2
<1> HIDE DEF N, S
<1>8. ASSUME NEW k \in 1..N
      PROVE  /\ piece(k) \in RunRecord
             /\ piece(k).start = FromOf(a + k - 1, first) /\ piece(k).end = UpToOf(a + k - 1, last)
             /\ piece(k).start < piece(k).end
             /\ first <= piece(k).start /\ piece(k).end <= last
             /\ PieceOf(piece(k))
  <2> DEFINE r == a + k - 1
  <2>1. r \in DOMAIN ix.run /\ HeadOf(r) < last /\ first < ix.run[r].end
    BY <1>5, <1>6, <1>7
  <2> HIDE DEF r
  <2>2. /\ Piece(r, first, last) \in RunRecord
        /\ Piece(r, first, last).start = FromOf(r, first)
        /\ Piece(r, first, last).end = UpToOf(r, last)
        /\ FromOf(r, first) < UpToOf(r, last)
        /\ first <= FromOf(r, first) /\ UpToOf(r, last) <= last
        /\ PieceOf(Piece(r, first, last))
    BY <2>1, PieceIs
  <2>3. QED
    BY <2>2 DEF r
<1> HIDE DEF piece
<1>9. DOMAIN S = 1..N /\ (\A k \in 1..N : S[k] = piece(k))
  BY <1>4
<1>10. S \in Seq(RunRecord) /\ S # <<>>
  <2>1. S \in [1..N -> RunRecord]
    BY <1>4, <1>8
  <2>2. QED
    BY <1>7, <1>9, <2>1
<1>11. ASSUME NEW k \in 1..N, NEW m \in 1..N, k < m
       PROVE  piece(k).end <= piece(m).start
  <2> DEFINE x == a + k - 1
             y == a + m - 1
  <2>1. x \in a .. b /\ y \in a .. b /\ x < y /\ a < y /\ x < b
    <3>1. k \in Int /\ m \in Int /\ 1 <= k /\ 1 <= m
      BY <1>7
    <3>2. x \in a .. b /\ y \in a .. b
      BY <1>7
    <3>3. QED
      BY <1>2, <1>11, <3>1, <3>2
  <2> HIDE DEF x, y
  <2>2. ix.run[x].end <= HeadOf(y) /\ x \in DOMAIN ix.run /\ y \in DOMAIN ix.run
    BY <1>3, <1>5, <2>1
  <2>3. ix.run[x].end <= last
    <3>1. ix.run[x].end <= HeadOf(b)
      BY <1>2, <1>3, <1>5, <2>1
    <3>2. QED
      BY <1>2, <1>3, <2>2, <3>1
  <2>4. first <= HeadOf(y)
    <3>1. ix.run[a].end <= HeadOf(y)
      BY <1>2, <1>3, <1>5, <2>1
    <3>2. QED
      BY <1>2, <1>3, <2>2, <3>1
  <2>5. UpToOf(x, last) = ix.run[x].end /\ FromOf(y, first) = HeadOf(y)
    BY <2>3, <2>4 DEF UpToOf, FromOf
  <2>6. piece(k).end = UpToOf(x, last) /\ piece(m).start = FromOf(y, first)
    BY <1>8 DEF x, y
  <2>7. QED
    BY <2>2, <2>5, <2>6
<1>12. ASSUME NEW p \in first .. (last - 1)
       PROVE  \E k \in 1..N : piece(k).start <= p /\ p < piece(k).end
  <2> DEFINE r == RunAt(p)
             k == r - a + 1
  <2>1. p \in DOMAIN sa /\ first <= p /\ p <= last - 1
    BY <1>1
  <2>2. /\ r \in DOMAIN ix.run /\ HeadOf(r) <= p /\ p < ix.run[r].end
        /\ a <= r /\ r <= b /\ r \in Nat
    BY <1>1, <2>1, RunOfPosition, RunsAscend DEF a, b
  <2> HIDE DEF r
  <2>3. k \in 1..N /\ a + k - 1 = r
    BY <1>2, <2>2 DEF N
  <2> HIDE DEF k
  <2>4. piece(k).start = FromOf(r, first) /\ piece(k).end = UpToOf(r, last)
    BY <1>8, <2>3
  <2>5. piece(k).start <= p /\ p < piece(k).end
    BY <2>1, <2>2, <2>4 DEF FromOf, UpToOf
  <2>6. QED
    BY <2>3, <2>5
<1>13. LaysOut(S, first, last)
  <2>1. \A k \in DOMAIN S : /\ first <= S[k].start /\ S[k].start < S[k].end /\ S[k].end <= last
                            /\ PieceOf(S[k])
    BY <1>8, <1>9
  <2>2. \A k, m \in DOMAIN S : k < m => S[k].end <= S[m].start
    BY <1>9, <1>11
  <2>3. \A p \in first .. (last - 1) : \E k \in DOMAIN S : S[k].start <= p /\ p < S[k].end
    BY <1>9, <1>12
  <2>4. QED
    BY <1>10, <2>1, <2>2, <2>3 DEF LaysOut
<1>14. QED
  BY <1>13 DEF S

\* So a range is laid out in either layout.
LEMMA SplitRangeIs ==
  ASSUME TextIsIndexed, RunsPartition, SamplesAreRight, IsSubsampled,
         NEW rng, rng.start \in Nat, rng.end \in Nat, rng.start < rng.end, rng.end <= ix.n
  PROVE  LaysOut(SplitRange(rng), rng.start, rng.end)
<1>1. CASE HasRun
  <2>1. SplitRange(rng) = SplitInRuns(rng.start, rng.end)
    BY <1>1 DEF SplitRange, HasRun
  <2>2. QED
    BY <1>1, <2>1, SplitInRunsIs
<1>2. CASE ~HasRun
  <2>1. SplitRange(rng) = SplitAtSamples(rng.start, rng.end)
    BY <1>2 DEF SplitRange, HasRun
  <2>2. \A q \in ix.sampled : q \in Nat
    <3>1. \A q \in ix.sampled : \E k \in DOMAIN ix.run : HeadOf(k) = q
      BY <1>2 DEF SamplesAreRight, HasRun
    <3>2. QED
      BY <3>1, RunBounds
  <2>3. ix.sampled \in SUBSET Nat
    BY <2>2
  <2>4. QED
    BY <1>2, <2>1, <2>3, SplitAtSamplesIs
<1>3. QED
  BY <1>1, <1>2

-----------------------------------------------------------------------------
(* The images of a range under psi.                                        *)

\* No head of a run lies inside another one.
LEMMA NoHeadInside ==
  ASSUME TextIsIndexed, RunsPartition, NEW k \in DOMAIN ix.run, NEW m \in DOMAIN ix.run,
         HeadOf(k) < HeadOf(m)
  PROVE  ix.run[k].end <= HeadOf(m)
<1>1. SUFFICES ASSUME ~(ix.run[k].end <= HeadOf(m))
               PROVE  FALSE
  OBVIOUS
<1>2. /\ HeadOf(k) \in Nat /\ HeadOf(m) \in Nat /\ ix.run[k].end \in Nat
      /\ HeadOf(m) \in DOMAIN sa /\ RunAt(HeadOf(m)) = m /\ RunAt(HeadOf(k)) = k
  BY RunBounds
<1>3. HeadOf(k) <= HeadOf(m) /\ HeadOf(m) < ix.run[k].end
  BY <1>1, <1>2
<1>4. RunAt(HeadOf(m)) = k
  BY <1>2, <1>3, OneRunAt
<1>5. QED
  BY <1>2, <1>4

\* Between two cuts psi takes neighbours to neighbours in one run.
LEMMA BetweenCuts ==
  ASSUME TextIsIndexed, RunsPartition, LFIsRight, NEW q \in Nat, NEW e \in Nat, q < e, e <= ix.n,
         \A x \in (q + 1) .. (e - 1) : RunAt(PsiAt(x)) = RunAt(PsiAt(x - 1))
  PROVE  \A x \in q .. (e - 1) :
           PsiAt(x) = PsiAt(q) + (x - q) /\ RunAt(PsiAt(x)) = RunAt(PsiAt(q))
<1> DEFINE good(x) == PsiAt(x) = PsiAt(q) + (x - q) /\ RunAt(PsiAt(x)) = RunAt(PsiAt(q))
           T == {x \in q .. (e - 1) : ~good(x)}
<1>1. SUFFICES ASSUME T # {}
               PROVE  FALSE
  OBVIOUS
<1>2. \A x \in q .. (e - 1) : x \in DOMAIN sa /\ x \in Nat /\ PsiAt(x) \in Nat
  <2>1. DOMAIN sa = 0..(ix.n - 1) /\ ix.n \in Nat
    BY PositionsAre
  <2>2. \A x \in q .. (e - 1) : x \in DOMAIN sa
    BY <2>1
  <2>3. \A x \in DOMAIN sa : PsiAt(x) \in DOMAIN sa
    BY PsiAndLF
  <2>4. QED
    BY <2>1, <2>2, <2>3
<1>3. good(q)
  <2>1. q \in q .. (e - 1)
    OBVIOUS
  <2>2. PsiAt(q) \in Nat
    BY <1>2, <2>1
  <2>3. QED
    BY <2>2
<1>4. T \in SUBSET Nat
  BY <1>2
<1>5. PICK x \in T : \A y \in T : x <= y
  BY <1>1, <1>4, MinExists
<1>6. x \in q .. (e - 1) /\ ~good(x) /\ \A y \in q .. (e - 1) : y < x => good(y)
  <2>1. \A y \in q .. (e - 1) : ~good(y) => x <= y
    BY <1>5
  <2>2. QED
    BY <1>5, <2>1
<1> HIDE DEF T
<1>7. x # q
  BY <1>3, <1>6
<1> DEFINE w == x - 1
<1>8. w \in q .. (e - 1) /\ w < x /\ x \in (q + 1) .. (e - 1) /\ x = w + 1
  BY <1>6, <1>7
<1>9. PsiAt(w) = PsiAt(q) + (w - q) /\ RunAt(PsiAt(w)) = RunAt(PsiAt(q))
  BY <1>6, <1>8
<1>10. RunAt(PsiAt(x)) = RunAt(PsiAt(w))
  BY <1>8
<1> HIDE DEF w
<1>11. w \in DOMAIN sa /\ w + 1 \in DOMAIN sa /\ RunAt(PsiAt(w + 1)) = RunAt(PsiAt(w))
  BY <1>2, <1>6, <1>8, <1>10
<1>12. PsiAt(x) = PsiAt(w) + 1
  BY <1>8, <1>11, PsiNeighbours
<1>13. PsiAt(q) \in Nat
  <2>1. q \in q .. (e - 1)
    OBVIOUS
  <2>2. QED
    BY <1>2, <2>1
<1>14. PsiAt(x) = PsiAt(q) + (x - q)
  BY <1>8, <1>9, <1>12, <1>13
<1>15. QED
  BY <1>6, <1>9, <1>10, <1>14

\* The position whose image under psi a run starts with.
From(run) == LF(run.start)

\* The runs S are images of pieces of the range, one after another.
ImagesOf(S, first, last) ==
  /\ S \in Seq(RunRecord) /\ S # <<>>
  /\ \A k \in DOMAIN S :
       /\ S[k].start < S[k].end /\ S[k].end <= ix.n /\ PieceOf(S[k])
       /\ From(S[k]) \in Nat /\ first <= From(S[k])
       /\ From(S[k]) + (S[k].end - S[k].start) <= last
       /\ \A x \in From(S[k]) .. (From(S[k]) + (S[k].end - S[k].start) - 1) :
            PsiAt(x) = S[k].start + (x - From(S[k]))
  /\ \A k, m \in DOMAIN S :
       k < m => From(S[k]) + (S[k].end - S[k].start) <= From(S[m])
  /\ \A p \in first .. (last - 1) : \E k \in DOMAIN S :
       From(S[k]) <= p /\ p < From(S[k]) + (S[k].end - S[k].start)

\* The image of what lies between two cuts.
LEMMA ImageBetween ==
  ASSUME TextIsIndexed, RunsPartition, LFIsRight, SamplesAreRight, IsSubsampled,
         NEW q \in Nat, NEW e \in Nat, q < e, e <= ix.n,
         \A x \in (q + 1) .. (e - 1) : RunAt(PsiAt(x)) = RunAt(PsiAt(x - 1)),
         NEW run, run = Piece(RunAt(PsiAt(q)), PsiAt(q), PsiAt(e - 1) + 1)
  PROVE  /\ run \in RunRecord /\ run.start < run.end /\ run.end <= ix.n /\ PieceOf(run)
         /\ run.start = PsiAt(q) /\ From(run) = q /\ run.end - run.start = e - q
         /\ \A x \in q .. (e - 1) : PsiAt(x) = run.start + (x - q)
<1> DEFINE r == RunAt(PsiAt(q))
           s == PsiAt(q)
           t == PsiAt(e - 1)
<1>1. \A x \in q .. (e - 1) : PsiAt(x) = PsiAt(q) + (x - q) /\ RunAt(PsiAt(x)) = RunAt(PsiAt(q))
  BY BetweenCuts
<1>2. q \in q .. (e - 1) /\ e - 1 \in q .. (e - 1)
  OBVIOUS
<1>3. t = s + (e - 1 - q) /\ RunAt(t) = r
  BY <1>1, <1>2
<1>4. s \in DOMAIN sa /\ t \in DOMAIN sa /\ LF(s) = q
  <2>1. DOMAIN sa = 0..(ix.n - 1) /\ ix.n \in Nat
    BY PositionsAre
  <2>2. q \in DOMAIN sa /\ e - 1 \in DOMAIN sa
    BY <2>1
  <2>3. QED
    BY <2>2, PsiAndLF
<1> HIDE DEF s, t
<1>5. /\ r \in DOMAIN ix.run /\ HeadOf(r) <= s /\ s < ix.run[r].end
      /\ HeadOf(r) <= t /\ t < ix.run[r].end
  <2>1. RunAt(s) = r
    BY DEF s
  <2> HIDE DEF r
  <2>2. QED
    BY <1>3, <1>4, <2>1, RunOfPosition
<1>6. run = Piece(r, s, t + 1)
  BY DEF s, t
<1> HIDE DEF r
<1>7. /\ s \in Nat /\ t \in Nat /\ s < ix.n /\ t < ix.n /\ ix.n \in Nat
      /\ HeadOf(r) \in Nat /\ ix.run[r].end \in Nat
  BY <1>4, <1>5, PositionsAre, RunBounds
<1>8. t + 1 \in Nat /\ s < t + 1 /\ HeadOf(r) < t + 1 /\ (t + 1) - s = e - q
  BY <1>3, <1>5, <1>7
<1>9. /\ run \in RunRecord
      /\ run.start = FromOf(r, s) /\ run.end = UpToOf(r, t + 1)
      /\ HasRun => PieceOf(run)
  BY <1>5, <1>6, <1>7, <1>8, PieceIs
<1>10. run.start = s /\ run.end = t + 1
  BY <1>5, <1>7, <1>9 DEF FromOf, UpToOf
<1>11. ASSUME ~HasRun
       PROVE  PieceOf(run)
  <2>1. ASSUME NEW x \in ix.sampled, s < x, x < t + 1
        PROVE  FALSE
    <3>1. PICK m \in DOMAIN ix.run : HeadOf(m) = x
      BY <1>11 DEF SamplesAreRight, HasRun
    <3>2. HeadOf(m) \in Nat
      BY RunBounds
    <3>3. HeadOf(r) < HeadOf(m)
      BY <1>5, <1>7, <2>1, <3>1, <3>2
    <3>4. ix.run[r].end <= HeadOf(m)
      BY <1>5, <3>3, NoHeadInside
    <3>5. QED
      BY <1>5, <1>7, <2>1, <3>1, <3>2, <3>4
  <2>2. QED
    BY <1>10, <1>11, <2>1 DEF PieceOf
<1>12. /\ run \in RunRecord /\ run.start < run.end /\ run.end <= ix.n /\ PieceOf(run)
       /\ run.end - run.start = e - q
  BY <1>7, <1>8, <1>9, <1>10, <1>11
<1>13. run.start = PsiAt(q) /\ From(run) = q
  BY <1>4, <1>10 DEF From, s
<1>14. \A x \in q .. (e - 1) : PsiAt(x) = run.start + (x - q)
  BY <1>1, <1>13
<1>15. QED
  BY <1>12, <1>13, <1>14

\* computeForwardRuns gives the images of a range.
LEMMA ForwardIs ==
  ASSUME TextIsIndexed, RunsPartition, LFIsRight, SamplesAreRight, IsSubsampled,
         NEW first \in Nat, NEW last \in Nat, first < last, last <= ix.n
  PROVE  ImagesOf(ForwardRuns(first, last), first, last)
<1> DEFINE T == Cuts(first, last)
           A == Ascending(T)
           N == Size(A)
           S == ForwardRuns(first, last)
           at(k) == A[k - 1]
           to(k) == NextCut(A, k, last)
<1>1. /\ T \in SUBSET (first .. (last - 1)) /\ first \in T
      /\ \A x \in first .. (last - 1) :
           x # first /\ x \notin T => RunAt(PsiAt(x)) = RunAt(PsiAt(x - 1))
  BY DEF Cuts
<1>2. S = [k \in 1..N |->
             Piece(RunAt(PsiAt(A[k - 1])), PsiAt(A[k - 1]),
                   PsiAt((IF k = Size(A) THEN last ELSE A[k]) - 1) + 1)]
  BY DEF ForwardRuns
<1> HIDE DEF T
<1>3. N \in Nat \ {0}
  BY <1>1, CutsAre
<1>4. \A k \in 1..Size(A) :
        /\ A[k - 1] \in T
        /\ A[k - 1] < NextCut(A, k, last)
        /\ NextCut(A, k, last) \in Nat /\ NextCut(A, k, last) <= last
        /\ \A x \in T : x <= A[k - 1] \/ NextCut(A, k, last) <= x
  BY <1>1, CutsAre
<1>5. \A k, m \in 1..Size(A) : k < m => NextCut(A, k, last) <= A[m - 1]
  BY <1>1, CutsAre
<1>6. \A p \in first .. (last - 1) : \E k \in 1..Size(A) : A[k - 1] <= p /\ p < NextCut(A, k, last)
  BY <1>1, CutsAre
<1> HIDE DEF A, N, S
<1>7. /\ \A k \in 1..N : at(k) \in T /\ at(k) < to(k) /\ to(k) \in Nat /\ to(k) <= last
                         /\ \A x \in T : x <= at(k) \/ to(k) <= x
      /\ \A k, m \in 1..N : k < m => to(k) <= at(m)
      /\ \A p \in first .. (last - 1) : \E k \in 1..N : at(k) <= p /\ p < to(k)
  BY <1>4, <1>5, <1>6 DEF N
<1>8. /\ DOMAIN S = 1..N
      /\ \A k \in 1..N : S[k] = Piece(RunAt(PsiAt(at(k))), PsiAt(at(k)), PsiAt(to(k) - 1) + 1)
  BY <1>2 DEF NextCut, N
<1>9. \A x \in T : x \in Nat /\ first <= x /\ x < last
  BY <1>1
<1> HIDE DEF at, to
<1>10. ASSUME NEW k \in 1..N
       PROVE  /\ S[k] \in RunRecord /\ S[k].start < S[k].end /\ S[k].end <= ix.n /\ PieceOf(S[k])
              /\ From(S[k]) = at(k) /\ S[k].end - S[k].start = to(k) - at(k)
              /\ \A x \in at(k) .. (to(k) - 1) : PsiAt(x) = S[k].start + (x - at(k))
  <2> DEFINE q == at(k)
             e == to(k)
  <2>1. q \in Nat /\ e \in Nat /\ q < e /\ e <= last /\ first <= q /\ q \in T
    BY <1>7, <1>9
  <2>2. ix.n \in Nat
    BY PositionsAre
  <2>3. e <= ix.n
    BY <2>1, <2>2
  <2>4. \A x \in (q + 1) .. (e - 1) : RunAt(PsiAt(x)) = RunAt(PsiAt(x - 1))
    <3> TAKE x \in (q + 1) .. (e - 1)
    <3>1. x \in first .. (last - 1) /\ x # first /\ q < x /\ x < e
      BY <2>1
    <3>2. x \notin T
      BY <1>7, <2>1, <3>1
    <3>3. QED
      BY <1>1, <3>1, <3>2
  <2>5. S[k] = Piece(RunAt(PsiAt(q)), PsiAt(q), PsiAt(e - 1) + 1)
    BY <1>8
  <2> DEFINE run == S[k]
  <2> HIDE DEF q, e, run
  <2>6. run = Piece(RunAt(PsiAt(q)), PsiAt(q), PsiAt(e - 1) + 1)
    BY <2>5 DEF run
  <2>7. /\ run \in RunRecord /\ run.start < run.end /\ run.end <= ix.n /\ PieceOf(run)
        /\ run.start = PsiAt(q) /\ From(run) = q /\ run.end - run.start = e - q
        /\ \A x \in q .. (e - 1) : PsiAt(x) = run.start + (x - q)
    BY <2>1, <2>3, <2>4, <2>6, ImageBetween
  <2>8. QED
    BY <2>7 DEF q, e, run
<1>11. S \in Seq(RunRecord) /\ S # <<>>
  <2>1. S \in [1..N -> RunRecord]
    <3>1. S = [k \in 1..N |-> S[k]]
      BY <1>2
    <3>2. QED
      BY <1>10, <3>1
  <2>2. QED
    BY <1>3, <1>8, <2>1
<1>12. \A k \in 1..N : at(k) \in Nat /\ to(k) \in Nat /\ first <= at(k) /\ to(k) <= last
  BY <1>7, <1>9
<1>13. \A k \in 1..N : From(S[k]) + (S[k].end - S[k].start) = to(k)
  BY <1>10, <1>12
<1>14. ImagesOf(S, first, last)
  <2>1. \A k \in DOMAIN S :
          /\ S[k].start < S[k].end /\ S[k].end <= ix.n /\ PieceOf(S[k])
          /\ From(S[k]) \in Nat /\ first <= From(S[k])
          /\ From(S[k]) + (S[k].end - S[k].start) <= last
          /\ \A x \in From(S[k]) .. (From(S[k]) + (S[k].end - S[k].start) - 1) :
               PsiAt(x) = S[k].start + (x - From(S[k]))
    BY <1>8, <1>10, <1>12, <1>13
  <2>2. \A k, m \in DOMAIN S : k < m => From(S[k]) + (S[k].end - S[k].start) <= From(S[m])
    BY <1>7, <1>8, <1>10, <1>13
  <2>3. \A p \in first .. (last - 1) : \E k \in DOMAIN S :
          From(S[k]) <= p /\ p < From(S[k]) + (S[k].end - S[k].start)
    BY <1>7, <1>8, <1>10, <1>13
  <2>4. QED
    BY <1>11, <2>1, <2>2, <2>3 DEF ImagesOf
<1>15. QED
  BY <1>14 DEF S

-----------------------------------------------------------------------------
(* Images and the positions they stand for.                                *)

\* What holds of a run holds of each piece of it.
LEMMA ImagePart ==
  ASSUME TextIsIndexed, NEW first \in Nat, NEW last \in Nat, last <= ix.n,
         NEW level \in Nat \ {0}, Image(first, last, level),
         NEW a \in Nat, NEW b \in Nat, first <= a, a < b, b <= last
  PROVE  /\ Image(a, b, level)
         /\ Origin(a, level) = Origin(first, level) + (a - first)
<1>1. \A q \in first .. (last - 1) : Origin(q, level) = Origin(first, level) + (q - first)
  BY DEF Image
<1>2. first \in DOMAIN sa /\ a \in first .. (last - 1)
  <2>1. DOMAIN sa = 0..(ix.n - 1) /\ ix.n \in Nat
    BY PositionsAre
  <2>2. QED
    BY <2>1
<1>3. Origin(first, level) \in Nat
  <2>1. Origin(first, level) \in DOMAIN sa
    BY <1>2, OriginType
  <2>2. QED
    BY <2>1, PositionsAre
<1>4. Origin(a, level) = Origin(first, level) + (a - first)
  BY <1>1, <1>2
<1>5. ASSUME NEW q \in a .. (b - 1)
      PROVE  /\ Origin(q, level) = Origin(a, level) + (q - a)
             /\ \A k \in DOMAIN ix.run, l \in 0..(level - 2) :
                  HeadSampled(k) => ~HeadAhead(k, l, Origin(q, level))
  <2>1. q \in first .. (last - 1)
    OBVIOUS
  <2>2. Origin(q, level) = Origin(first, level) + (q - first)
    BY <1>1, <2>1
  <2>3. Origin(q, level) = Origin(a, level) + (q - a)
    BY <1>3, <1>4, <2>1, <2>2
  <2>4. QED
    BY <2>1, <2>3 DEF Image
<1>6. QED
  BY <1>4, <1>5 DEF Image

\* Before any psi step each position stands for itself.
LEMMA ImageOne ==
  ASSUME TextIsIndexed, NEW first \in Nat, NEW last \in Nat, last <= ix.n
  PROVE  Image(first, last, 1)
<1> SUFFICES ASSUME NEW q \in first .. (last - 1)
             PROVE  /\ Origin(q, 1) = Origin(first, 1) + (q - first)
                    /\ \A k \in DOMAIN ix.run, l \in 0..(1 - 2) :
                         HeadSampled(k) => ~HeadAhead(k, l, Origin(q, 1))
  BY DEF Image
<1>1. q \in DOMAIN sa /\ first \in DOMAIN sa
  <2>1. DOMAIN sa = 0..(ix.n - 1) /\ ix.n \in Nat
    BY PositionsAre
  <2>2. QED
    BY <2>1
<1>2. Origin(q, 1) = q /\ Origin(first, 1) = first
  BY <1>1, OriginOne
<1>3. 0..(1 - 2) = {}
  OBVIOUS
<1>4. QED
  BY <1>2, <1>3

\* Where no sampled head lies, one psi step leads to positions that stand for the
\* same ones, one level deeper.
LEMMA ImageOfPsi ==
  ASSUME TextIsIndexed, RunsPartition, LFIsRight, NEW q \in Nat, NEW e \in Nat, q < e, e <= ix.n,
         NEW s \in Nat, \A x \in q .. (e - 1) : PsiAt(x) = s + (x - q),
         NEW level \in Nat \ {0}, Image(q, e, level),
         \A k \in DOMAIN ix.run, x \in q .. (e - 1) : HeadSampled(k) => x # HeadOf(k)
  PROVE  Image(s, s + (e - q), level + 1) /\ Origin(s, level + 1) = Origin(q, level)
<1>1. \A x \in q .. (e - 1) : x \in DOMAIN sa
  <2>1. DOMAIN sa = 0..(ix.n - 1) /\ ix.n \in Nat
    BY PositionsAre
  <2>2. QED
    BY <2>1
<1>2. \A x \in q .. (e - 1) : /\ Origin(x, level) = Origin(q, level) + (x - q)
                              /\ Origin(PsiAt(x), level + 1) = Origin(x, level)
  BY <1>1, OriginOfPsi DEF Image
<1>3. Origin(s, level + 1) = Origin(q, level)
  <2>1. q \in q .. (e - 1) /\ s + (q - q) = s
    OBVIOUS
  <2>2. PsiAt(q) = s
    BY <2>1
  <2>3. QED
    BY <1>2, <2>1, <2>2
<1>4. ASSUME NEW y \in s .. (s + (e - q) - 1)
      PROVE  /\ Origin(y, level + 1) = Origin(s, level + 1) + (y - s)
             /\ \A k \in DOMAIN ix.run, l \in 0..((level + 1) - 2) :
                  HeadSampled(k) => ~HeadAhead(k, l, Origin(y, level + 1))
  <2> DEFINE x == q + (y - s)
  <2>1. x \in q .. (e - 1) /\ s + (x - q) = y /\ x - q = y - s
    OBVIOUS
  <2> HIDE DEF x
  <2>2. PsiAt(x) = y /\ x \in DOMAIN sa
    BY <1>1, <2>1
  <2>3. Origin(y, level + 1) = Origin(x, level)
    BY <1>2, <2>1, <2>2
  <2>4. Origin(y, level + 1) = Origin(s, level + 1) + (y - s)
    BY <1>2, <1>3, <2>1, <2>3
  <2>5. ASSUME NEW k \in DOMAIN ix.run, NEW l \in 0..((level + 1) - 2), HeadSampled(k)
        PROVE  ~HeadAhead(k, l, Origin(x, level))
    <3>1. CASE l = level - 1
      <4>1. x # HeadOf(k)
        BY <2>1, <2>5
      <4>2. ~HeadAhead(k, level - 1, Origin(x, level))
        BY <2>2, <4>1, HeadAtOrigin
      <4>3. QED
        BY <3>1, <4>2
    <3>2. CASE l # level - 1
      <4>1. l \in 0..(level - 2)
        BY <3>2
      <4>2. QED
        BY <2>1, <2>5, <4>1 DEF Image
    <3>3. QED
      BY <3>1, <3>2
  <2>6. QED
    BY <2>3, <2>4, <2>5
<1>5. QED
  BY <1>3, <1>4 DEF Image

-----------------------------------------------------------------------------
(* The sample asked for.                                                   *)

\* The run data stand at the head of run k, as far as the layout asks.
AsksHead(rd, k) ==
  IF ix.layout = "position" THEN rd.pos = HeadOf(k)
  ELSE rd.isStart /\ rd.c = ix.run[k].c /\ rd.rnk = RankInSymbol(k)

\* GetSample finds the sample of the head asked for, if it is kept.
LEMMA SampleSays ==
  ASSUME TextIsIndexed, RunsPartition, SamplesAreRight, IsSubsampled,
         NEW rd, NEW k \in DOMAIN ix.run, AsksHead(rd, k)
  PROVE  /\ HeadSampled(k) => GetSample(rd) = TextPos(sa, HeadOf(k))
         /\ ~HeadSampled(k) => GetSample(rd) = NoSample
         /\ TextPos(sa, HeadOf(k)) \in 0..(ix.n - 1) /\ TextPos(sa, HeadOf(k)) # NoSample
<1>1. HeadSampled(k) => Sample(HeadAt(k)) = TextPos(sa, HeadOf(k))
  BY DEF SamplesAreRight
<1>2. TextPos(sa, HeadOf(k)) \in 0..(ix.n - 1) /\ ix.n \in Nat
  BY RunBounds, PositionsAre
<1>3. TextPos(sa, HeadOf(k)) # NoSample
  BY <1>2 DEF NoSample
<1>4. CASE ix.layout = "position"
  <2>1. rd.pos = HeadAt(k)
    BY <1>4 DEF AsksHead, HeadAt
  <2>2. GetSample(rd) = IF HeadAt(k) \in ix.sampled THEN Sample(HeadAt(k)) ELSE NoSample
    BY <1>4, <2>1 DEF GetSample, SampleAtPosition
  <2>3. QED
    BY <1>1, <1>2, <1>3, <2>2 DEF HeadSampled
<1>5. CASE ix.layout # "position"
  <2>1. rd.isStart /\ RunsBelow(rd.c) + rd.rnk = HeadAt(k)
    BY <1>5 DEF AsksHead, HeadAt, InAlphabet
  <2>2. GetSample(rd) = IF HeadAt(k) \in ix.sampled THEN Sample(HeadAt(k)) ELSE NoSample
    BY <1>5, <2>1 DEF GetSample, SampleOfHead
  <2>3. QED
    BY <1>1, <1>2, <1>3, <2>2 DEF HeadSampled
<1>6. QED
  BY <1>4, <1>5

\* What a run visited asks with.
AskOf(run) == [pos |-> run.start, c |-> run.c, rnk |-> run.rnk, isStart |-> run.isStart]

\* A run has a sampled head inside nowhere but at its start, and asks for its
\* sample there.
LEMMA HeadsInRun ==
  ASSUME TextIsIndexed, RunsPartition, SamplesAreRight, IsSubsampled, NEW run \in RunRecord,
         run.start < run.end, PieceOf(run), NEW k \in DOMAIN ix.run, HeadSampled(k),
         NEW q \in run.start .. (run.end - 1), q = HeadOf(k)
  PROVE  q = run.start /\ AsksHead(AskOf(run), k)
<1>1. run.start \in Nat /\ run.end \in Nat /\ HeadOf(k) \in Nat /\ q \in Nat
  BY RunBounds DEF RunRecord
<1>2. run.start <= q /\ q < run.end
  BY <1>1
<1>3. CASE HasRun
  <2>1. PICK j \in DOMAIN ix.run :
          /\ HeadOf(j) <= run.start /\ run.end <= ix.run[j].end
          /\ run.c = ix.run[j].c /\ run.rnk = RankInSymbol(j)
          /\ run.isStart <=> run.start = HeadOf(j)
    BY <1>3 DEF PieceOf
  <2>2. HeadOf(j) \in Nat /\ ix.run[j].end \in Nat /\ RunAt(HeadOf(j)) = j /\ RunAt(HeadOf(k)) = k
    BY RunBounds
  <2>3. ~(HeadOf(j) < HeadOf(k))
    <3>1. HeadOf(j) < HeadOf(k) => ix.run[j].end <= HeadOf(k)
      BY NoHeadInside
    <3>2. QED
      BY <1>1, <1>2, <2>1, <2>2, <3>1
  <2>4. HeadOf(j) = HeadOf(k)
    BY <1>1, <1>2, <2>1, <2>2, <2>3
  <2>5. j = k
    BY <2>2, <2>4
  <2>6. q = run.start
    BY <1>1, <1>2, <2>1, <2>4
  <2>7. run.isStart /\ run.c = ix.run[k].c /\ run.rnk = RankInSymbol(k)
    BY <2>1, <2>5, <2>6
  <2>8. AsksHead(AskOf(run), k)
    BY <1>3, <2>7 DEF AsksHead, AskOf, HasRun
  <2>9. QED
    BY <2>6, <2>8
<1>4. CASE ~HasRun
  <2>1. HeadAt(k) = HeadOf(k)
    BY <1>4 DEF HeadAt, HasRun
  <2>2. q \in ix.sampled
    BY <2>1 DEF HeadSampled
  <2>3. ~(run.start < q /\ q < run.end)
    BY <1>4, <2>2 DEF PieceOf
  <2>4. q = run.start
    BY <1>1, <1>2, <2>3
  <2>5. AsksHead(AskOf(run), k)
    BY <1>4, <2>4 DEF AsksHead, AskOf, HasRun
  <2>6. QED
    BY <2>4, <2>5
<1>5. QED
  BY <1>3, <1>4

\* A run whose sample is found starts at a sampled head.
LEMMA SampleFound ==
  ASSUME TextIsIndexed, RunsPartition, SamplesAreRight, IsSubsampled, NEW run \in RunRecord,
         run.start < run.end, PieceOf(run), GetSample(AskOf(run)) # NoSample
  PROVE  /\ GetSample(AskOf(run)) = TextPos(sa, run.start)
         /\ \E k \in DOMAIN ix.run : HeadSampled(k) /\ HeadOf(k) = run.start
<1>1. \E k \in DOMAIN ix.run : HeadOf(k) = run.start /\ AsksHead(AskOf(run), k)
  <2>1. CASE HasRun
    <3>1. PICK j \in DOMAIN ix.run :
            /\ HeadOf(j) <= run.start /\ run.end <= ix.run[j].end
            /\ run.c = ix.run[j].c /\ run.rnk = RankInSymbol(j)
            /\ run.isStart <=> run.start = HeadOf(j)
      BY <2>1 DEF PieceOf
    <3>2. run.isStart
      BY <2>1 DEF GetSample, SampleOfHead, AskOf, HasRun
    <3>3. AsksHead(AskOf(run), j)
      BY <2>1, <3>1, <3>2 DEF AsksHead, AskOf, HasRun
    <3>4. QED
      BY <3>1, <3>2, <3>3
  <2>2. CASE ~HasRun
    <3>1. run.start \in ix.sampled
      BY <2>2 DEF GetSample, SampleAtPosition, AskOf, HasRun
    <3>2. PICK k \in DOMAIN ix.run : HeadOf(k) = run.start
      BY <2>2, <3>1 DEF SamplesAreRight, HasRun
    <3>3. AsksHead(AskOf(run), k)
      BY <2>2, <3>2 DEF AsksHead, AskOf, HasRun
    <3>4. QED
      BY <3>2, <3>3
  <2>3. QED
    BY <2>1, <2>2
<1>2. PICK k \in DOMAIN ix.run : HeadOf(k) = run.start /\ AsksHead(AskOf(run), k)
  BY <1>1
<1> DEFINE rd == AskOf(run)
<1> HIDE DEF rd
<1>3. AsksHead(rd, k) /\ GetSample(rd) # NoSample
  BY <1>2 DEF rd
<1>4. HeadSampled(k) /\ GetSample(rd) = TextPos(sa, HeadOf(k))
  BY <1>3, SampleSays
<1>5. QED
  BY <1>2, <1>4 DEF rd

-----------------------------------------------------------------------------
(* The backward search.                                                    *)

\* A pattern of the queries is a sequence of symbols of the text.
LEMMA PatternIs ==
  ASSUME TextIsIndexed, NEW p \in Patterns(text, MaxPattern)
  PROVE  /\ p \in Seq(Nat) /\ Len(p) \in Nat /\ Len(p) > 0 /\ DOMAIN p = 1..Len(p)
         /\ \A k \in DOMAIN p : p[k] \in Symbols(text)
<1>1. MaxPattern \in Nat
  BY PatternAssumption
<1>2. QED
  BY <1>1, PatternType

\* A step counts the symbols before both ends of the range.
LEMMA NextRangeIs ==
  ASSUME TextIsIndexed, NEW x \in Symbols(text),
         NEW rng \in [start : Nat, end : Nat], rng.start < rng.end, rng.end <= ix.n
  PROVE  /\ LFRange(rng, Comp(text, x)).start = ix.C[Comp(text, x)] + Rank(Comp(text, x), rng.start)
         /\ LFRange(rng, Comp(text, x)).end = ix.C[Comp(text, x)] + Rank(Comp(text, x), rng.end)
         /\ Rank(Comp(text, x), rng.start) \in Nat /\ Rank(Comp(text, x), rng.end) \in Nat
         /\ LFRange(rng, Comp(text, x)).start \in Nat /\ LFRange(rng, Comp(text, x)).end \in Nat
         /\ LFRange(rng, Comp(text, x)).start <= LFRange(rng, Comp(text, x)).end
         /\ LFRange(rng, Comp(text, x)).end <= ix.n
<1> DEFINE c == Comp(text, x)
<1>1. /\ LFRange(rng, c).start = ix.C[c] + Rank(c, rng.start)
      /\ LFRange(rng, c).end = ix.C[c] + Rank(c, rng.end)
  BY DEF LFRange
<1>2. Rank(c, rng.start) \in Nat /\ Rank(c, rng.end) \in Nat
  BY RankType
<1>3. Rank(c, rng.start) <= Rank(c, rng.end)
  <2>1. rng.start \in Nat /\ rng.end \in Nat /\ rng.start <= rng.end
    OBVIOUS
  <2>2. QED
    BY <2>1, RankMonotone
<1>4. ix.C[c] \in Nat
  BY CumulativeIs, CompIs
<1>5. ix.C[c] + Rank(c, rng.end) <= ix.n
  BY BlockInside
<1> HIDE DEF c
<1>6. QED
  BY <1>1, <1>2, <1>3, <1>4, <1>5 DEF c

\* The new range holds the suffixes that start with one symbol more.
LEMMA SearchStepIs ==
  ASSUME TextIsIndexed, LFIsRight, NEW p \in Patterns(text, MaxPattern), NEW a \in 1..Len(p),
         NEW rng \in [start : Nat, end : Nat], rng.start < rng.end, rng.end <= ix.n,
         \A q \in DOMAIN sa :
           InRange(rng, q) <=> sa[q] \in Occurrences(text, SubSeq(p, a + 1, Len(p))),
         NEW r \in DOMAIN sa
  PROVE  InRange(LFRange(rng, Comp(text, p[a])), r)
           <=> sa[r] \in Occurrences(text, SubSeq(p, a, Len(p)))
<1>1. MaxPattern \in Nat /\ p[a] \in Symbols(text)
  BY PatternIs, PatternAssumption
<1>2. /\ LFRange(rng, Comp(text, p[a])).start
           = ix.C[Comp(text, p[a])] + Rank(Comp(text, p[a]), rng.start)
      /\ LFRange(rng, Comp(text, p[a])).end
           = ix.C[Comp(text, p[a])] + Rank(Comp(text, p[a]), rng.end)
  BY <1>1, NextRangeIs
<1>3. QED
  BY <1>1, <1>2, SearchStepRight

\* The step takes the range to the images of its positions with the symbol.
LEMMA RangeTakes ==
  ASSUME TextIsIndexed, LFIsRight, NEW x \in Symbols(text),
         NEW rng \in [start : Nat, end : Nat], rng.start < rng.end, rng.end <= ix.n,
         NEW q \in DOMAIN sa
  PROVE  InRange(LFRange(rng, Comp(text, x)), LF(q)) <=> InRange(rng, q) /\ ix.bwt[q] = Comp(text, x)
<1> DEFINE c == Comp(text, x)
           next == LFRange(rng, c)
<1>1. /\ next.start = ix.C[c] + Rank(c, rng.start) /\ next.end = ix.C[c] + Rank(c, rng.end)
      /\ rng.start \in Nat /\ rng.end \in Nat
  BY NextRangeIs
<1>2. ix.C[c] + Rank(c, rng.start) <= LF(q) /\ LF(q) < ix.C[c] + Rank(c, rng.end)
        <=> rng.start <= q /\ q < rng.end /\ ix.bwt[q] = c
  BY <1>1, NextRange
<1> HIDE DEF next, c
<1>3. InRange(next, LF(q)) <=> InRange(rng, q) /\ ix.bwt[q] = c
  BY <1>1, <1>2 DEF InRange
<1>4. QED
  BY <1>3 DEF next, c

\* The range starts with the image of a position of the range before.
LEMMA NextStarts ==
  ASSUME TextIsIndexed, LFIsRight, NEW x \in Symbols(text),
         NEW rng \in [start : Nat, end : Nat], rng.start < rng.end, rng.end <= ix.n,
         LFRange(rng, Comp(text, x)).start < LFRange(rng, Comp(text, x)).end
  PROVE  /\ LFRange(rng, Comp(text, x)).start \in DOMAIN sa
         /\ \E q \in DOMAIN sa : /\ InRange(rng, q) /\ ix.bwt[q] = Comp(text, x)
                                 /\ LF(q) = LFRange(rng, Comp(text, x)).start
<1> DEFINE c == Comp(text, x)
           next == LFRange(rng, c)
<1>1. next.start \in Nat /\ next.end \in Nat /\ next.end <= ix.n /\ next.start < next.end
  BY NextRangeIs
<1>2. next.start \in DOMAIN sa /\ InRange(next, next.start)
  <2> HIDE DEF next
  <2> QED BY <1>1, TextSize DEF InRange
<1>3. PICK q \in DOMAIN sa : LF(q) = next.start
  BY <1>2, LFIsOnto
<1>4. InRange(rng, q) /\ ix.bwt[q] = c
  BY <1>2, <1>3, RangeTakes
<1>5. QED
  BY <1>2, <1>3, <1>4

\* Where the range meets run k first.
EntryOf(rng, k) == IF HeadOf(k) <= rng.start THEN rng.start ELSE HeadOf(k)

\* The report of a step that leaves a range names the first run of its symbol that
\* the range meets, and where the range meets it is what goes to the new start.
LEMMA FirstAhead ==
  ASSUME TextIsIndexed, RunsPartition, LFIsRight, NEW x \in Symbols(text),
         NEW rng \in [start : Nat, end : Nat], rng.start < rng.end, rng.end <= ix.n,
         LFRange(rng, Comp(text, x)).start < LFRange(rng, Comp(text, x)).end
  PROVE  \E k \in DOMAIN ix.run :
           /\ LFRange(rng, Comp(text, x)).run.start = HeadOf(k)
           /\ LFRange(rng, Comp(text, x)).run.end = ix.run[k].end
           /\ LFRange(rng, Comp(text, x)).run.rnk = RankInSymbol(k)
           /\ ix.run[k].c = Comp(text, x) /\ rng.start < ix.run[k].end
           /\ EntryOf(rng, k) \in DOMAIN sa
           /\ LF(EntryOf(rng, k)) = LFRange(rng, Comp(text, x)).start
<1> DEFINE c == Comp(text, x)
           next == LFRange(rng, c)
           ahead == {k \in DOMAIN ix.run : ix.run[k].c = c /\ ix.run[k].end > rng.start}
           k == Min(ahead)
           h == EntryOf(rng, k)
<1>1. PICK q \in DOMAIN sa : InRange(rng, q) /\ ix.bwt[q] = c /\ LF(q) = next.start
  BY NextStarts
<1> DEFINE m == RunAt(q)
<1>2. /\ m \in DOMAIN ix.run /\ HeadOf(m) <= q /\ q < ix.run[m].end /\ ix.run[m].c = c
  BY <1>1, RunOfPosition
<1>3. /\ rng.start \in Nat /\ rng.end \in Nat /\ q \in Nat /\ rng.start <= q /\ q < rng.end
      /\ ix.run[m].end \in Nat /\ DOMAIN sa = 0..(ix.n - 1) /\ ix.n \in Nat
  BY <1>1, <1>2, RunBounds, PositionsAre DEF InRange
<1>4. k \in ahead /\ \A j \in ahead : k <= j
  <2>1. m \in ahead
    BY <1>2, <1>3
  <2>2. ahead \in SUBSET Nat
    BY RunBounds
  <2> HIDE DEF ahead
  <2>3. \E y \in ahead : \A j \in ahead : y <= j
    BY <2>1, <2>2, MinExists
  <2>4. QED
    BY <2>3 DEF Min
<1>5. /\ k \in DOMAIN ix.run /\ ix.run[k].c = c /\ rng.start < ix.run[k].end
      /\ HeadOf(k) \in Nat /\ ix.run[k].end \in Nat /\ HeadOf(k) < ix.run[k].end
      /\ HeadOf(k) \in DOMAIN sa /\ k \in Nat
      /\ \A p \in HeadOf(k) .. (ix.run[k].end - 1) : p \in DOMAIN sa /\ ix.bwt[p] = ix.run[k].c
  <2>1. k \in DOMAIN ix.run /\ ix.run[k].c = c /\ ix.run[k].end > rng.start
    BY <1>4
  <2> HIDE DEF k
  <2>2. QED
    BY <1>3, <2>1, RunBounds
<1>6. next.run = [start |-> ix.run[k].start, end |-> ix.run[k].end, rnk |-> RankInSymbol(k)]
  <2>1. next.run = NextRun(c, rng.start)
    BY DEF LFRange
  <2>2. ahead # {}
    BY <1>4
  <2>3. QED
    BY <2>1, <2>2 DEF NextRun
<1>7. k <= m
  <2>1. m \in ahead
    BY <1>2, <1>3
  <2>2. QED
    BY <1>4, <2>1
<1> HIDE DEF ahead, k, m, next, c
<1>8. h <= q
  <2>1. HeadOf(k) <= q
    <3>1. CASE k = m
      BY <1>2, <3>1
    <3>2. CASE k < m
      <4>1. ix.run[k].end <= HeadOf(m)
        BY <1>2, <1>5, <3>2 DEF RunsPartition, HeadOf
      <4>2. HeadOf(m) \in Nat
        BY <1>2, RunBounds
      <4>3. QED
        BY <1>2, <1>3, <1>5, <4>1, <4>2
    <3>3. m \in Nat
      BY <1>2, RunBounds
    <3>4. QED
      BY <1>5, <1>7, <3>1, <3>2, <3>3
  <2>2. QED
    BY <1>3, <2>1 DEF EntryOf
<1>9. h \in HeadOf(k) .. (ix.run[k].end - 1) /\ rng.start <= h /\ h \in Nat
  BY <1>3, <1>5 DEF EntryOf
<1>10. h \in DOMAIN sa /\ ix.bwt[h] = c
  BY <1>5, <1>9
<1> HIDE DEF h
<1>11. InRange(rng, h)
  BY <1>3, <1>8, <1>9 DEF InRange
<1>12. InRange(next, LF(h))
  BY <1>10, <1>11, RangeTakes DEF next, c
<1>13. ~(h < q)
  <2> SUFFICES ASSUME h < q PROVE FALSE
    OBVIOUS
  <2>1. LF(q) = ix.C[c] + Rank(c, q) /\ LF(h) = ix.C[c] + Rank(c, h)
    BY <1>1, <1>10, LFIs
  <2>2. ix.C[c] \in Nat /\ Rank(c, q) \in Nat /\ Rank(c, h) \in Nat
    BY <1>1, BwtType, RankType
  <2>3. Rank(c, h) < Rank(c, q)
    BY <1>1, <1>3, <1>9, <1>10, RankStrict
  <2>4. next.start <= LF(h)
    BY <1>12 DEF InRange
  <2>5. QED
    BY <1>1, <2>1, <2>2, <2>3, <2>4
<1>14. h = q
  BY <1>3, <1>8, <1>9, <1>13
<1>15. LF(h) = next.start
  BY <1>1, <1>14
<1>16. next.run.start = HeadOf(k) /\ next.run.end = ix.run[k].end /\ next.run.rnk = RankInSymbol(k)
  BY <1>6 DEF HeadOf
<1>17. QED
  BY <1>5, <1>10, <1>15, <1>16 DEF next, c, h

\* What ComputeToehold computes from a sample: the sampled head is a psi step after
\* the sample's suffix; jumps psi steps lie between the toehold's run and it, and
\* steps + 1 more between the start of the range and the toehold's run.
LEMMA ToeholdValue ==
  ASSUME NEW n \in Nat \ {0}, NEW s \in 0..(n - 1), NEW v \in 0..(n - 1), NEW w \in 0..(n - 1),
         NEW jumps \in Nat, NEW steps \in Nat,
         (s + 1) % n = w, (v + steps + 1 + jumps) % n = w
  PROVE  (((s + 1 + n - jumps) % n) + n - steps - 1) % n = v
<1>1. n \in Int /\ s \in Int /\ v \in Int /\ w \in Int
      /\ jumps \in Int /\ steps \in Int
  OBVIOUS
<1> DEFINE a == s + 1 + n - jumps
           b == n - steps - 1
           e == s + 1
           f == v + steps + 1 + jumps
           d == n + n - jumps - steps - 1
<1>2. a \in Int /\ b \in Int /\ d \in Int /\ e \in Int /\ f \in Int
  BY <1>1
<1>3. ((a % n) + b) % n = (a + b) % n
  BY <1>1, <1>2, ModMod
<1>4. a + b = e + d
  BY <1>1
<1>5. ((e % n) + d) % n = (e + d) % n
  BY <1>1, <1>2, ModMod
<1>6. ((f % n) + d) % n = (f + d) % n
  BY <1>1, <1>2, ModMod
<1>7. (f + d) % n = v
  <2>1. f + d = n * 2 + v
    BY <1>1
  <2>2. f + d \in Int /\ 2 \in Int
    BY <1>1
  <2>3. QED
    BY <1>1, <2>1, <2>2, ModUnique
<1>8. (a % n) + n - steps - 1 = (a % n) + b
  <2>1. a % n \in Int
    BY <1>1, <1>2, ModDef
  <2> HIDE DEF a
  <2>2. QED
    BY <1>1, <2>1
<1>9. e % n = f % n
  OBVIOUS
<1>10. QED
  BY <1>3, <1>4, <1>5, <1>6, <1>7, <1>8, <1>9

-----------------------------------------------------------------------------
(* The pending calls. *)

TopRun(fs) == Head(Last(fs).runs)
TopLevel(fs) == Last(fs).level

\* Where run k of call f of the stack that is left was on the stack fs.
Was(fs, f, k) == IF f = Len(fs) THEN k + 1 ELSE k

\* gs is fs without the run in progress.
IsRest(fs, gs) ==
  /\ gs \in Seq(Frame)
  /\ \A f \in DOMAIN gs :
       /\ f \in DOMAIN fs /\ gs[f].level = fs[f].level /\ gs[f].runs # <<>>
       /\ \A k \in DOMAIN gs[f].runs :
            /\ Was(fs, f, k) \in DOMAIN fs[f].runs
            /\ gs[f].runs[k] = fs[f].runs[Was(fs, f, k)]
            /\ f = Len(fs) => 1 < Was(fs, f, k)
  /\ \A f \in DOMAIN fs : \A k \in DOMAIN fs[f].runs :
       f # Len(fs) \/ k # 1 => f \in DOMAIN gs /\ \E j \in DOMAIN gs[f].runs : Was(fs, f, j) = k

\* The last call on the stack and its first run are typed, and TopRun and TopLevel
\* name them.
LEMMA TopIs ==
  ASSUME NEW fs \in Seq(Frame), fs # <<>>, Last(fs).runs # <<>>
  PROVE  /\ Len(fs) \in DOMAIN fs /\ fs[Len(fs)] = Last(fs) /\ Len(fs) \in Nat
         /\ \A f \in DOMAIN fs : f \in Nat /\ f <= Len(fs) /\ fs[f] \in Frame
         /\ Last(fs) \in Frame /\ Last(fs).runs \in Seq(RunRecord) /\ TopLevel(fs) \in Nat
         /\ 1 \in DOMAIN Last(fs).runs
         /\ Last(fs).runs[1] = TopRun(fs)
         /\ TopRun(fs) \in RunRecord
<1>1. /\ Len(fs) \in Nat /\ DOMAIN fs = 1..Len(fs) /\ Len(fs) > 0
      /\ \A f \in DOMAIN fs : f \in Nat /\ f <= Len(fs) /\ fs[f] \in Frame
  OBVIOUS
<1>2. Len(fs) \in DOMAIN fs /\ fs[Len(fs)] = Last(fs)
  BY <1>1 DEF Last
<1>3. Last(fs) \in Frame
  BY <1>1, <1>2
<1>4. Last(fs).runs \in Seq(RunRecord) /\ TopLevel(fs) \in Nat
  BY <1>3 DEF Frame, TopLevel
<1> DEFINE rs == Last(fs).runs
<1>5. rs \in Seq(RunRecord) /\ rs # <<>> /\ TopRun(fs) = rs[1]
  BY <1>4 DEF TopRun
<1>6. 1 \in DOMAIN rs /\ rs[1] \in RunRecord
  <2> HIDE DEF rs
  <2> QED BY <1>5
<1>7. QED
  BY <1>1, <1>2, <1>3, <1>4, <1>5, <1>6

\* A sequence without its last element keeps the others at their places.
LEMMA FrontIs ==
  ASSUME NEW S, NEW s \in Seq(S), s # <<>>
  PROVE  /\ Front(s) \in Seq(S) /\ DOMAIN Front(s) = 1..(Len(s) - 1) /\ DOMAIN s = 1..Len(s)
         /\ Len(s) \in Nat /\ Len(s) > 0
         /\ \A k \in DOMAIN Front(s) : k \in DOMAIN s /\ k < Len(s) /\ Front(s)[k] = s[k]
<1>1. Len(s) \in Nat /\ Len(s) > 0 /\ DOMAIN s = 1..Len(s)
  OBVIOUS
<1>2. \A i \in 1..(Len(s) - 1) : s[i] \in S
  BY <1>1
<1>3. /\ SubSeq(s, 1, Len(s) - 1) \in Seq(S)
      /\ Len(SubSeq(s, 1, Len(s) - 1)) = Len(s) - 1
      /\ \A k \in 1..(Len(s) - 1) : SubSeq(s, 1, Len(s) - 1)[k] = s[k]
  BY <1>1, <1>2
<1>4. Front(s) \in Seq(S) /\ Len(Front(s)) = Len(s) - 1
      /\ \A k \in 1..(Len(s) - 1) : Front(s)[k] = s[k]
  BY <1>3 DEF Front
<1>5. DOMAIN Front(s) = 1..(Len(s) - 1)
  BY <1>4
<1>6. QED
  BY <1>1, <1>4, <1>5

\* A call with other runs is a call.
LEMMA FrameUpdate ==
  ASSUME NEW fr \in Frame, NEW rs \in Seq(RunRecord)
  PROVE  /\ [fr EXCEPT !.runs = rs] \in Frame
         /\ [fr EXCEPT !.runs = rs].level = fr.level
         /\ [fr EXCEPT !.runs = rs].runs = rs
BY DEF Frame

\* PopRun leaves the stack without the run in progress.
LEMMA PopRunIs ==
  ASSUME frames \in Seq(Frame), frames # <<>>, \A f \in DOMAIN frames : frames[f].runs # <<>>
  PROVE  IsRest(frames, PopRun)
<1> DEFINE n == Len(frames)
           rs == frames[n].runs
<1>1. /\ n \in DOMAIN frames /\ n \in Nat /\ DOMAIN frames = 1..n /\ Top = frames[n]
      /\ \A f \in DOMAIN frames : f \in Nat /\ f <= n /\ frames[f] \in Frame
      /\ rs \in Seq(RunRecord) /\ rs # <<>>
  <2>1. n \in DOMAIN frames /\ n \in Nat /\ DOMAIN frames = 1..n
    OBVIOUS
  <2>2. Last(frames) = frames[n] /\ Last(frames).runs # <<>>
    BY <2>1 DEF Last
  <2>3. QED
    BY <2>1, <2>2, TopIs DEF Top
<1>2. CASE Len(rs) = 1
  <2>1. PopRun = Front(frames)
    BY <1>1, <1>2 DEF PopRun
  <2>2. /\ PopRun \in Seq(Frame) /\ DOMAIN PopRun = 1..(n - 1)
        /\ \A f \in DOMAIN PopRun : PopRun[f] = frames[f]
    BY <2>1, FrontIs
  <2>3. \A f \in DOMAIN PopRun : f \in DOMAIN frames /\ f # n
    BY <1>1, <2>2
  <2>4. \A f \in DOMAIN frames : \A k \in DOMAIN frames[f].runs :
          f # n \/ k # 1 => f \in DOMAIN PopRun /\ f # n
    <3>1. \A k \in DOMAIN frames[n].runs : k = 1
      BY <1>1, <1>2
    <3>2. \A f \in DOMAIN frames : f # n => f \in 1..(n - 1)
      BY <1>1
    <3>3. QED
      BY <2>2, <3>1, <3>2
  <2>5. \A f, k : f # n => Was(frames, f, k) = k
    BY DEF Was
  <2>6. \A f \in DOMAIN frames : \A k \in DOMAIN frames[f].runs :
          f # n \/ k # 1 =>
            f \in DOMAIN PopRun /\ \E j \in DOMAIN PopRun[f].runs : Was(frames, f, j) = k
    BY <2>2, <2>4, <2>5
  <2>7. ASSUME NEW f \in DOMAIN PopRun
        PROVE  /\ f \in DOMAIN frames /\ PopRun[f].level = frames[f].level
               /\ PopRun[f].runs # <<>>
               /\ \A k \in DOMAIN PopRun[f].runs :
                    /\ Was(frames, f, k) \in DOMAIN frames[f].runs
                    /\ PopRun[f].runs[k] = frames[f].runs[Was(frames, f, k)]
                    /\ f = n => 1 < Was(frames, f, k)
    BY <2>2, <2>3, <2>5, <2>7
  <2>8. QED
    BY <2>2, <2>6, <2>7 DEF IsRest
<1>3. CASE Len(rs) # 1
  <2> DEFINE gs == [frames EXCEPT ![n].runs = Tail(@)]
  <2>1. PopRun = gs
    BY <1>1, <1>3 DEF PopRun
  <2>2. /\ Tail(rs) \in Seq(RunRecord) /\ Tail(rs) # <<>>
        /\ \A k \in DOMAIN Tail(rs) : k + 1 \in DOMAIN rs /\ 1 < k + 1 /\ Tail(rs)[k] = rs[k + 1]
        /\ \A k \in DOMAIN rs : k # 1 => k - 1 \in DOMAIN Tail(rs) /\ (k - 1) + 1 = k
    <3> HIDE DEF rs
    <3> QED BY <1>1, <1>3, TailIs
  <2>3. /\ DOMAIN gs = DOMAIN frames
        /\ \A f \in DOMAIN frames : f # n => gs[f] = frames[f]
        /\ gs[n] = [frames[n] EXCEPT !.runs = Tail(rs)]
    BY <1>1
  <2>4. gs[n].level = frames[n].level /\ gs[n].runs = Tail(rs) /\ gs[n] \in Frame
    <3> DEFINE ts == Tail(rs)
    <3>1. frames[n] \in Frame /\ ts \in Seq(RunRecord) /\ gs[n] = [frames[n] EXCEPT !.runs = ts]
      BY <1>1, <2>2, <2>3
    <3> HIDE DEF gs, rs, ts
    <3>2. gs[n].level = frames[n].level /\ gs[n].runs = ts /\ gs[n] \in Frame
      BY <3>1, FrameUpdate
    <3>3. QED
      BY <3>2 DEF ts
  <2>5. gs \in Seq(Frame)
    <3>1. \A f \in 1..n : gs[f] \in Frame
      BY <1>1, <2>3, <2>4
    <3>2. gs = [f \in 1..n |-> gs[f]]
      BY <1>1
    <3> HIDE DEF gs, rs
    <3>3. QED
      BY <1>1, <3>1, <3>2
  <2> HIDE DEF gs
  <2>6. /\ \A f, k : f # n => Was(frames, f, k) = k
        /\ \A k : Was(frames, n, k) = k + 1
    BY DEF Was
  <2>7. ASSUME NEW f \in DOMAIN gs
        PROVE  /\ f \in DOMAIN frames /\ gs[f].level = frames[f].level /\ gs[f].runs # <<>>
               /\ \A k \in DOMAIN gs[f].runs :
                    /\ Was(frames, f, k) \in DOMAIN frames[f].runs
                    /\ gs[f].runs[k] = frames[f].runs[Was(frames, f, k)]
                    /\ f = n => 1 < Was(frames, f, k)
    <3>1. CASE f = n
      BY <1>1, <2>2, <2>4, <2>6, <3>1
    <3>2. CASE f # n
      BY <2>3, <2>6, <2>7, <3>2
    <3>3. QED
      BY <3>1, <3>2
  <2>8. ASSUME NEW f \in DOMAIN frames, NEW k \in DOMAIN frames[f].runs, f # n \/ k # 1
        PROVE  f \in DOMAIN gs /\ \E j \in DOMAIN gs[f].runs : Was(frames, f, j) = k
    <3>1. CASE f = n
      <4>1. k \in DOMAIN rs /\ k # 1
        BY <2>8, <3>1
      <4>2. k - 1 \in DOMAIN Tail(rs) /\ (k - 1) + 1 = k
        BY <2>2, <4>1
      <4>3. Was(frames, f, k - 1) = k
        BY <2>6, <3>1, <4>2
      <4>4. QED
        BY <2>3, <2>4, <3>1, <4>2, <4>3
    <3>2. CASE f # n
      BY <2>3, <2>6, <3>2
    <3>3. QED
      BY <3>1, <3>2
  <2>9. QED
    BY <2>1, <2>5, <2>7, <2>8 DEF IsRest
<1>4. QED
  BY <1>2, <1>3

-----------------------------------------------------------------------------
(* Stacks that stand for the positions from next to last - 1. *)

\* Every run of such a stack stands for an interval of positions.
LEMMA StackTypes ==
  ASSUME TextIsIndexed, ix.rate \in Nat, NEW fs, NEW next, NEW last, StackInv(fs, next, last),
         NEW f \in DOMAIN fs, NEW k \in DOMAIN fs[f].runs
  PROVE  /\ f \in Nat /\ k \in Nat /\ fs[f].level \in Nat \ {0} /\ fs[f].runs[k] \in RunRecord
         /\ RunIsRight(fs[f].runs[k], fs[f].level)
         /\ Lo(fs[f].runs[k], fs[f].level) \in Nat /\ Hi(fs[f].runs[k], fs[f].level) \in Nat
         /\ Lo(fs[f].runs[k], fs[f].level) < Hi(fs[f].runs[k], fs[f].level)
<1> DEFINE fr == fs[f]
           run == fr.runs[k]
<1>1. fs \in Seq(Frame) /\ RunsAreRight(fs)
  BY DEF StackInv
<1>2. fr \in Frame /\ f \in Nat
  BY <1>1
<1>3. fr.runs \in Seq(RunRecord) /\ fr.level \in Nat \ {0}
  <2>1. fr.level \in 1..(ix.rate + 1)
    BY <1>1 DEF RunsAreRight
  <2>2. QED
    BY <1>2, <2>1 DEF Frame
<1>4. k \in DOMAIN fr.runs
  OBVIOUS
<1>5. run \in RunRecord /\ k \in Nat
  <2> HIDE DEF fr
  <2> QED BY <1>3, <1>4
<1>6. RunIsRight(run, fr.level)
  BY <1>1 DEF RunsAreRight
<1> HIDE DEF fr, run
<1>7. run.start \in Nat /\ run.end \in Nat /\ run.start < run.end /\ run.end <= ix.n
  BY <1>5, <1>6 DEF RunRecord, RunIsRight
<1>8. run.start \in DOMAIN sa /\ ix.n \in Nat /\ DOMAIN sa = 0..(ix.n - 1)
  BY <1>7, TextSize
<1>9. Origin(run.start, fr.level) \in Nat
  <2>1. Origin(run.start, fr.level) \in DOMAIN sa
    BY <1>3, <1>8, OriginType
  <2>2. QED
    BY <1>8, <2>1
<1>10. /\ Lo(run, fr.level) \in Nat /\ Hi(run, fr.level) \in Nat
       /\ Lo(run, fr.level) < Hi(run, fr.level)
  BY <1>7, <1>9 DEF Lo, Hi
<1>11. QED
  BY <1>2, <1>3, <1>5, <1>6, <1>10 DEF fr, run

\* The run in progress starts with the next position the stack stands for.
LEMMA TopEnds ==
  ASSUME TextIsIndexed, ix.rate \in Nat, NEW fs, NEW next \in Nat, NEW last \in Nat,
         StackInv(fs, next, last), fs # <<>>
  PROVE  /\ Last(fs).runs # <<>> /\ TopRun(fs) \in RunRecord
         /\ TopLevel(fs) \in Nat \ {0} /\ TopLevel(fs) <= ix.rate + 1
         /\ RunIsRight(TopRun(fs), TopLevel(fs))
         /\ Lo(TopRun(fs), TopLevel(fs)) = next
         /\ Hi(TopRun(fs), TopLevel(fs)) \in Nat
         /\ next < Hi(TopRun(fs), TopLevel(fs))
         /\ Hi(TopRun(fs), TopLevel(fs)) <= last
<1> DEFINE n == Len(fs)
           lo == Lo(TopRun(fs), TopLevel(fs))
           hi == Hi(TopRun(fs), TopLevel(fs))
<1>1. fs \in Seq(Frame) /\ RunsAreRight(fs) /\ RunsInside(fs, next, last)
      /\ RunsOrdered(fs) /\ RunsCover(fs, next, last)
  BY DEF StackInv
<1>2. n \in DOMAIN fs /\ fs[n] = Last(fs)
  BY <1>1 DEF Last
<1>3. Last(fs).runs # <<>> /\ Last(fs).level \in 1..(ix.rate + 1)
  BY <1>1, <1>2 DEF RunsAreRight
<1>4. /\ n \in Nat /\ \A f \in DOMAIN fs : f \in Nat /\ f <= n
      /\ fs[n] = Last(fs) /\ 1 \in DOMAIN fs[n].runs /\ fs[n].runs[1] = TopRun(fs)
      /\ fs[n].runs \in Seq(RunRecord) /\ fs[n].level = TopLevel(fs)
  BY <1>1, <1>2, <1>3, TopIs DEF TopLevel
<1>5. /\ lo \in Nat /\ hi \in Nat /\ lo < hi
      /\ TopRun(fs) \in RunRecord /\ TopLevel(fs) \in Nat \ {0}
      /\ RunIsRight(TopRun(fs), TopLevel(fs))
  BY <1>2, <1>4, StackTypes
<1>6. next <= lo /\ hi <= last
  BY <1>1, <1>2, <1>4 DEF RunsInside
<1>7. PICK f \in DOMAIN fs : \E k \in DOMAIN fs[f].runs :
        Lo(fs[f].runs[k], fs[f].level) <= next /\ next < Hi(fs[f].runs[k], fs[f].level)
  <2>1. next \in next .. (last - 1)
    BY <1>5, <1>6
  <2>2. QED
    BY <1>1, <2>1 DEF RunsCover
<1>8. PICK k \in DOMAIN fs[f].runs :
        Lo(fs[f].runs[k], fs[f].level) <= next /\ next < Hi(fs[f].runs[k], fs[f].level)
  BY <1>7
<1>9. /\ Lo(fs[f].runs[k], fs[f].level) \in Nat /\ Hi(fs[f].runs[k], fs[f].level) \in Nat
      /\ k \in Nat /\ f \in Nat /\ f <= n
  BY <1>4, StackTypes
<1>10. f = n /\ k = 1
  <2>1. f = n => 1 <= k
    <3> DEFINE rs == fs[n].runs
    <3>1. rs \in Seq(RunRecord)
      BY <1>4
    <3>2. \A j \in DOMAIN rs : 1 <= j
      <4> HIDE DEF rs
      <4> QED BY <3>1
    <3>3. QED
      BY <3>2
  <2>2. CASE f < n \/ (f = n /\ 1 < k)
    <3>1. hi <= Lo(fs[f].runs[k], fs[f].level)
      BY <1>1, <1>2, <1>4, <2>2 DEF RunsOrdered
    <3>2. QED
      BY <1>5, <1>6, <1>8, <1>9, <3>1
  <2>3. QED
    BY <1>4, <1>9, <2>1, <2>2
<1>11. lo <= next
  BY <1>4, <1>8, <1>10
<1>12. lo = next /\ TopLevel(fs) <= ix.rate + 1
  BY <1>3, <1>5, <1>6, <1>11 DEF TopLevel
<1>13. QED
  BY <1>3, <1>5, <1>6, <1>12

\* Without its run in progress the stack stands for the positions after that run's.
LEMMA PopKeeps ==
  ASSUME TextIsIndexed, ix.rate \in Nat, NEW fs, NEW gs, NEW next \in Nat, NEW last \in Nat,
         StackInv(fs, next, last), fs # <<>>, IsRest(fs, gs)
  PROVE  StackInv(gs, Hi(TopRun(fs), TopLevel(fs)), last)
<1> DEFINE n == Len(fs)
           hi == Hi(TopRun(fs), TopLevel(fs))
<1>1. fs \in Seq(Frame) /\ RunsAreRight(fs) /\ RunsInside(fs, next, last)
      /\ RunsOrdered(fs) /\ RunsCover(fs, next, last)
  BY DEF StackInv
<1>2. /\ Last(fs).runs # <<>> /\ hi \in Nat /\ next < hi /\ hi <= last
      /\ Lo(TopRun(fs), TopLevel(fs)) = next
  BY TopEnds
<1>3. /\ n \in DOMAIN fs /\ n \in Nat /\ \A f \in DOMAIN fs : f \in Nat /\ f <= n
      /\ fs[n] = Last(fs) /\ 1 \in DOMAIN fs[n].runs /\ fs[n].runs[1] = TopRun(fs)
      /\ fs[n].level = TopLevel(fs)
  BY <1>1, <1>2, TopIs DEF TopLevel
<1> DEFINE was(f, k) == Was(fs, f, k)
<1>4. /\ gs \in Seq(Frame)
      /\ \A f \in DOMAIN gs : f \in DOMAIN fs /\ gs[f].level = fs[f].level /\ gs[f].runs # <<>>
      /\ \A f \in DOMAIN gs : \A k \in DOMAIN gs[f].runs :
            /\ was(f, k) \in DOMAIN fs[f].runs /\ gs[f].runs[k] = fs[f].runs[was(f, k)]
            /\ f = n => 1 < was(f, k)
  BY DEF IsRest
<1>5. \A f \in DOMAIN fs : \A k \in DOMAIN fs[f].runs :
        f # n \/ k # 1 => f \in DOMAIN gs /\ \E j \in DOMAIN gs[f].runs : was(f, j) = k
  BY DEF IsRest
<1>6. ASSUME NEW f \in DOMAIN gs, NEW k \in DOMAIN gs[f].runs, NEW j \in DOMAIN gs[f].runs, k < j
      PROVE  was(f, k) < was(f, j)
  <2>1. gs[f].runs \in Seq(RunRecord)
    <3>1. gs[f] \in Frame
      BY <1>4
    <3>2. QED
      BY <3>1 DEF Frame
  <2>2. k \in Nat /\ j \in Nat
    BY <2>1
  <2>3. QED
    BY <1>6, <2>2 DEF Was
<1> HIDE DEF was
<1>7. RunsAreRight(gs)
  BY <1>1, <1>4 DEF RunsAreRight
<1>8. RunsInside(gs, hi, last)
  <2> SUFFICES ASSUME NEW f \in DOMAIN gs, NEW k \in DOMAIN gs[f].runs
               PROVE  /\ hi <= Lo(gs[f].runs[k], gs[f].level)
                      /\ Hi(gs[f].runs[k], gs[f].level) <= last
    BY DEF RunsInside
  <2>1. f \in DOMAIN fs /\ was(f, k) \in DOMAIN fs[f].runs /\ (f < n \/ (f = n /\ 1 < was(f, k)))
    BY <1>3, <1>4
  <2>2. hi <= Lo(fs[f].runs[was(f, k)], fs[f].level)
    BY <1>1, <1>3, <2>1 DEF RunsOrdered
  <2>3. Hi(fs[f].runs[was(f, k)], fs[f].level) <= last
    BY <1>1, <2>1 DEF RunsInside
  <2>4. QED
    BY <1>4, <2>2, <2>3
<1>9. RunsOrdered(gs)
  <2> SUFFICES ASSUME NEW f \in DOMAIN gs, NEW g \in DOMAIN gs,
                      NEW k \in DOMAIN gs[f].runs, NEW j \in DOMAIN gs[g].runs,
                      g < f \/ (f = g /\ k < j)
               PROVE  Hi(gs[f].runs[k], gs[f].level) <= Lo(gs[g].runs[j], gs[g].level)
    BY DEF RunsOrdered
  <2>1. g < f \/ (f = g /\ was(f, k) < was(g, j))
    BY <1>6
  <2>2. /\ f \in DOMAIN fs /\ was(f, k) \in DOMAIN fs[f].runs
        /\ g \in DOMAIN fs /\ was(g, j) \in DOMAIN fs[g].runs
    BY <1>4
  <2>3. Hi(fs[f].runs[was(f, k)], fs[f].level) <= Lo(fs[g].runs[was(g, j)], fs[g].level)
    BY <1>1, <2>1, <2>2 DEF RunsOrdered
  <2>4. QED
    BY <1>4, <2>3
<1>10. RunsCover(gs, hi, last)
  <2> SUFFICES ASSUME NEW p \in hi .. (last - 1)
               PROVE  \E f \in DOMAIN gs : \E k \in DOMAIN gs[f].runs :
                        Lo(gs[f].runs[k], gs[f].level) <= p /\ p < Hi(gs[f].runs[k], gs[f].level)
    BY DEF RunsCover
  <2>1. p \in Nat /\ hi <= p /\ p \in next .. (last - 1)
    BY <1>2
  <2>2. PICK f \in DOMAIN fs : \E k \in DOMAIN fs[f].runs :
          Lo(fs[f].runs[k], fs[f].level) <= p /\ p < Hi(fs[f].runs[k], fs[f].level)
    BY <1>1, <2>1 DEF RunsCover
  <2>3. PICK k \in DOMAIN fs[f].runs :
          Lo(fs[f].runs[k], fs[f].level) <= p /\ p < Hi(fs[f].runs[k], fs[f].level)
    BY <2>2
  <2>4. f # n \/ k # 1
    BY <1>2, <1>3, <2>1, <2>3
  <2>5. f \in DOMAIN gs /\ \E j \in DOMAIN gs[f].runs : was(f, j) = k
    BY <1>5, <2>4
  <2>6. PICK j \in DOMAIN gs[f].runs : was(f, j) = k
    BY <2>5
  <2>7. gs[f].runs[j] = fs[f].runs[k] /\ gs[f].level = fs[f].level
    BY <1>4, <2>5, <2>6
  <2>8. QED
    BY <2>3, <2>5, <2>7
<1>11. QED
  BY <1>4, <1>7, <1>8, <1>9, <1>10 DEF StackInv

\* A call pushed on the stack extends it by the positions its runs stand for.
LEMMA PushKeeps ==
  ASSUME TextIsIndexed, ix.rate \in Nat, NEW gs, NEW fr \in Frame, NEW next \in Nat,
         NEW mid \in Nat, NEW last \in Nat, StackInv(gs, mid, last), next <= mid, mid <= last,
         fr.level \in 1..(ix.rate + 1), fr.runs # <<>>,
         \A k \in DOMAIN fr.runs :
           /\ RunIsRight(fr.runs[k], fr.level)
           /\ next <= Lo(fr.runs[k], fr.level) /\ Hi(fr.runs[k], fr.level) <= mid,
         \A k, m \in DOMAIN fr.runs :
           k < m => Hi(fr.runs[k], fr.level) <= Lo(fr.runs[m], fr.level),
         \A p \in next .. (mid - 1) : \E k \in DOMAIN fr.runs :
           Lo(fr.runs[k], fr.level) <= p /\ p < Hi(fr.runs[k], fr.level)
  PROVE  StackInv(Append(gs, fr), next, last)
<1> DEFINE n == Len(gs) + 1
           fs == Append(gs, fr)
<1>1. gs \in Seq(Frame) /\ RunsAreRight(gs) /\ RunsInside(gs, mid, last)
      /\ RunsOrdered(gs) /\ RunsCover(gs, mid, last)
  BY DEF StackInv
<1>2. /\ fs \in Seq(Frame) /\ n \in Nat /\ DOMAIN gs = 1..(n - 1) /\ DOMAIN fs = 1..n
      /\ fs[n] = fr /\ \A f \in DOMAIN gs : fs[f] = gs[f]
  BY <1>1
<1> HIDE DEF fs, n
<1>3. \A f \in DOMAIN fs : f # n => f \in DOMAIN gs /\ fs[f] = gs[f] /\ f < n
  BY <1>2
<1>4. n \in DOMAIN fs
  <2>1. Len(gs) \in Nat
    BY <1>1
  <2>2. QED
    BY <1>2, <2>1 DEF n
<1>5. RunsAreRight(fs)
  <2> SUFFICES ASSUME NEW f \in DOMAIN fs
               PROVE  /\ fs[f].level \in 1..(ix.rate + 1) /\ fs[f].runs # <<>>
                      /\ \A k \in DOMAIN fs[f].runs : RunIsRight(fs[f].runs[k], fs[f].level)
    BY DEF RunsAreRight
  <2>1. CASE f = n
    BY <1>2, <2>1
  <2>2. CASE f # n
    BY <1>1, <1>3, <2>2 DEF RunsAreRight
  <2>3. QED
    BY <2>1, <2>2
<1>6. \A f \in DOMAIN gs : \A k \in DOMAIN gs[f].runs :
        /\ mid <= Lo(gs[f].runs[k], gs[f].level) /\ Hi(gs[f].runs[k], gs[f].level) <= last
        /\ Lo(gs[f].runs[k], gs[f].level) \in Nat /\ Hi(gs[f].runs[k], gs[f].level) \in Nat
  <2> SUFFICES ASSUME NEW f \in DOMAIN gs, NEW k \in DOMAIN gs[f].runs
               PROVE  /\ mid <= Lo(gs[f].runs[k], gs[f].level)
                      /\ Hi(gs[f].runs[k], gs[f].level) <= last
                      /\ Lo(gs[f].runs[k], gs[f].level) \in Nat
                      /\ Hi(gs[f].runs[k], gs[f].level) \in Nat
    OBVIOUS
  <2>1. /\ mid <= Lo(gs[f].runs[k], gs[f].level)
        /\ Hi(gs[f].runs[k], gs[f].level) <= last
    BY <1>1 DEF RunsInside
  <2>2. Lo(gs[f].runs[k], gs[f].level) \in Nat /\ Hi(gs[f].runs[k], gs[f].level) \in Nat
    BY StackTypes
  <2>3. QED
    BY <2>1, <2>2
<1>7. \A k \in DOMAIN fr.runs :
        Lo(fr.runs[k], fr.level) \in Nat /\ Hi(fr.runs[k], fr.level) \in Nat
  <2> SUFFICES ASSUME NEW k \in DOMAIN fr.runs
               PROVE  Lo(fr.runs[k], fr.level) \in Nat /\ Hi(fr.runs[k], fr.level) \in Nat
    OBVIOUS
  <2>1. fr.level \in Nat \ {0} /\ fr.runs \in Seq(RunRecord)
    BY DEF Frame
  <2>2. fr.runs[k] \in RunRecord
    BY <2>1
  <2>3. fr.runs[k].start \in DOMAIN sa /\ fr.runs[k].start \in Nat /\ fr.runs[k].end \in Nat
        /\ fr.runs[k].start < fr.runs[k].end
    BY <2>2, TextSize DEF RunRecord, RunIsRight
  <2>4. Origin(fr.runs[k].start, fr.level) \in DOMAIN sa
    BY <2>1, <2>3, OriginType
  <2>5. QED
    BY <2>3, <2>4, TextSize DEF Lo, Hi
<1>8. RunsInside(fs, next, last)
  <2> SUFFICES ASSUME NEW f \in DOMAIN fs, NEW k \in DOMAIN fs[f].runs
               PROVE  /\ next <= Lo(fs[f].runs[k], fs[f].level)
                      /\ Hi(fs[f].runs[k], fs[f].level) <= last
    BY DEF RunsInside
  <2>1. CASE f = n
    <3>1. k \in DOMAIN fr.runs /\ fs[f] = fr
      BY <1>2, <2>1
    <3>2. QED
      BY <1>7, <3>1
  <2>2. CASE f # n
    <3>1. f \in DOMAIN gs /\ k \in DOMAIN gs[f].runs /\ fs[f] = gs[f]
      BY <1>3, <2>2
    <3>2. QED
      BY <1>6, <3>1
  <2>3. QED
    BY <2>1, <2>2
<1>9. RunsOrdered(fs)
  <2> SUFFICES ASSUME NEW f \in DOMAIN fs, NEW g \in DOMAIN fs,
                      NEW k \in DOMAIN fs[f].runs, NEW m \in DOMAIN fs[g].runs,
                      g < f \/ (f = g /\ k < m)
               PROVE  Hi(fs[f].runs[k], fs[f].level) <= Lo(fs[g].runs[m], fs[g].level)
    BY DEF RunsOrdered
  <2>1. f \in Nat /\ g \in Nat /\ f <= n /\ g <= n
    BY <1>2
  <2>2. CASE f = n /\ g = n
    <3>1. k \in DOMAIN fr.runs /\ m \in DOMAIN fr.runs /\ fs[f] = fr /\ fs[g] = fr /\ k < m
      BY <1>2, <2>1, <2>2
    <3>2. QED
      BY <3>1
  <2>3. CASE f = n /\ g # n
    <3>1. /\ g \in DOMAIN gs /\ m \in DOMAIN gs[g].runs /\ fs[g] = gs[g]
          /\ k \in DOMAIN fr.runs /\ fs[f] = fr
      BY <1>2, <1>3, <2>3
    <3>2. mid <= Lo(gs[g].runs[m], gs[g].level) /\ Lo(gs[g].runs[m], gs[g].level) \in Nat
      BY <1>6, <3>1
    <3>3. Hi(fr.runs[k], fr.level) <= mid /\ Hi(fr.runs[k], fr.level) \in Nat
      BY <1>7, <3>1
    <3>4. QED
      BY <3>1, <3>2, <3>3
  <2>4. CASE f # n /\ g # n
    <3>1. /\ f \in DOMAIN gs /\ k \in DOMAIN gs[f].runs /\ fs[f] = gs[f]
          /\ g \in DOMAIN gs /\ m \in DOMAIN gs[g].runs /\ fs[g] = gs[g]
      BY <1>3, <2>4
    <3>2. QED
      BY <1>1, <3>1 DEF RunsOrdered
  <2>5. CASE f # n /\ g = n
    BY <1>3, <2>1, <2>5
  <2>6. QED
    BY <2>2, <2>3, <2>4, <2>5
<1>10. RunsCover(fs, next, last)
  <2> SUFFICES ASSUME NEW p \in next .. (last - 1)
               PROVE  \E f \in DOMAIN fs : \E k \in DOMAIN fs[f].runs :
                        Lo(fs[f].runs[k], fs[f].level) <= p /\ p < Hi(fs[f].runs[k], fs[f].level)
    BY DEF RunsCover
  <2>1. CASE ~(p < mid)
    <3>1. p \in mid .. (last - 1)
      BY <2>1
    <3>2. \E f \in DOMAIN gs : \E k \in DOMAIN gs[f].runs :
            Lo(gs[f].runs[k], gs[f].level) <= p /\ p < Hi(gs[f].runs[k], gs[f].level)
      BY <1>1, <3>1 DEF RunsCover
    <3>3. \A f \in DOMAIN gs : f \in DOMAIN fs /\ fs[f] = gs[f]
      BY <1>2
    <3>4. QED
      BY <3>2, <3>3
  <2>2. CASE p < mid
    <3>1. p \in next .. (mid - 1)
      BY <2>2
    <3>2. \E k \in DOMAIN fr.runs : Lo(fr.runs[k], fr.level) <= p /\ p < Hi(fr.runs[k], fr.level)
      BY <3>1
    <3>3. QED
      BY <1>2, <1>4, <3>2
  <2>3. QED
    BY <2>1, <2>2
<1>11. QED
  BY <1>2, <1>5, <1>8, <1>9, <1>10 DEF StackInv, fs

-----------------------------------------------------------------------------
(* The calls that are pushed. *)

\* A call over the runs of the rest of the range found extends the stack by the
\* positions of that range.
LEMMA FirstCall ==
  ASSUME TextIsIndexed, RunsPartition, SamplesAreRight, IsSubsampled,
         NEW rng, rng.start \in Nat, rng.end \in Nat, rng.start < rng.end, rng.end <= ix.n
  PROVE  StackInv(<<[runs |-> SplitRange(rng), level |-> 1]>>, rng.start, rng.end)
<1> DEFINE a == rng.start
           b == rng.end
           rs == SplitRange(rng)
           fr == [runs |-> rs, level |-> 1]
<1>1. LaysOut(rs, a, b)
  BY SplitRangeIs
<1>2. ix.rate \in Nat /\ ix.rate \in Nat \ {0} /\ a \in Nat /\ b \in Nat /\ a < b /\ b <= ix.n
  BY DEF SamplesAreRight
<1> HIDE DEF a, b, rs
<1>3. /\ rs \in Seq(RunRecord) /\ rs # <<>>
      /\ \A k \in DOMAIN rs :
           /\ a <= rs[k].start /\ rs[k].start < rs[k].end /\ rs[k].end <= b /\ PieceOf(rs[k])
      /\ \A k, m \in DOMAIN rs : k < m => rs[k].end <= rs[m].start
      /\ \A p \in a .. (b - 1) : \E k \in DOMAIN rs : rs[k].start <= p /\ p < rs[k].end
  BY <1>1 DEF LaysOut
<1>4. fr \in Frame /\ fr.level = 1 /\ fr.runs = rs
  BY <1>3 DEF Frame
<1>5. Image(a, b, 1)
  BY <1>2, ImageOne
<1>6. ASSUME NEW k \in DOMAIN rs
      PROVE  RunIsRight(rs[k], 1) /\ Lo(rs[k], 1) = rs[k].start /\ Hi(rs[k], 1) = rs[k].end
  <2>1. rs[k] \in RunRecord
    BY <1>3
  <2>2. rs[k].start \in Nat /\ rs[k].end \in Nat /\ a <= rs[k].start
        /\ rs[k].start < rs[k].end /\ rs[k].end <= b
    BY <1>3, <2>1 DEF RunRecord
  <2>3. rs[k].start \in DOMAIN sa /\ rs[k].end <= ix.n
    BY <1>2, <2>2, TextSize
  <2>4. Image(rs[k].start, rs[k].end, 1)
    BY <1>2, <1>5, <2>2, ImagePart
  <2>5. Origin(rs[k].start, 1) = rs[k].start
    BY <2>3, OriginOne
  <2>6. RunIsRight(rs[k], 1)
    BY <1>3, <2>2, <2>3, <2>4 DEF RunIsRight
  <2>7. QED
    BY <2>2, <2>5, <2>6 DEF Lo, Hi
<1>7. StackInv(<<>>, b, b)
  <2>1. <<>> \in Seq(Frame) /\ DOMAIN <<>> = {}
    OBVIOUS
  <2>2. \A p \in b .. (b - 1) : FALSE
    BY <1>2
  <2>3. QED
    BY <2>1, <2>2 DEF StackInv, RunsAreRight, RunsInside, RunsOrdered, RunsCover
<1> HIDE DEF fr
<1>8. StackInv(Append(<<>>, fr), a, b)
  <2>1. \A k \in DOMAIN fr.runs :
          /\ RunIsRight(fr.runs[k], fr.level)
          /\ a <= Lo(fr.runs[k], fr.level) /\ Hi(fr.runs[k], fr.level) <= b
    BY <1>3, <1>4, <1>6
  <2>2. \A k, m \in DOMAIN fr.runs :
          k < m => Hi(fr.runs[k], fr.level) <= Lo(fr.runs[m], fr.level)
    BY <1>3, <1>4, <1>6
  <2>3. \A p \in a .. (b - 1) : \E k \in DOMAIN fr.runs :
          Lo(fr.runs[k], fr.level) <= p /\ p < Hi(fr.runs[k], fr.level)
    BY <1>3, <1>4, <1>6
  <2>4. fr.level \in 1..(ix.rate + 1) /\ fr.runs # <<>> /\ a <= b /\ b <= b
    BY <1>2, <1>3, <1>4
  <2>5. QED
    BY <1>2, <1>4, <1>7, <2>1, <2>2, <2>3, <2>4, PushKeeps
<1>9. Append(<<>>, fr) = <<fr>>
  BY <1>4
<1>10. StackInv(<<fr>>, a, b)
  BY <1>8, <1>9
<1>11. QED
  BY <1>10 DEF fr, rs, a, b

\* A call over the images of a run in which no head is sampled extends the stack by
\* the positions that the run stood for.
LEMMA ImagesPush ==
  ASSUME TextIsIndexed, RunsPartition, LFIsRight, SamplesAreRight, IsSubsampled,
         NEW a \in Nat, NEW b \in Nat, a < b, b <= ix.n,
         NEW level \in Nat \ {0}, level <= ix.rate, Image(a, b, level),
         \A k \in DOMAIN ix.run, x \in a .. (b - 1) : HeadSampled(k) => x # HeadOf(k),
         NEW gs, NEW last \in Nat, StackInv(gs, Origin(a, level) + (b - a), last),
         Origin(a, level) + (b - a) <= last
  PROVE  StackInv(Append(gs, [level |-> level + 1, runs |-> ForwardRuns(a, b)]),
                  Origin(a, level), last)
<1> DEFINE rs == ForwardRuns(a, b)
           fr == [level |-> level + 1, runs |-> rs]
           low == Origin(a, level)
           mid == low + (b - a)
<1>1. ImagesOf(rs, a, b)
  BY ForwardIs
<1>2. ix.rate \in Nat /\ ix.n \in Nat
  BY TextSize DEF SamplesAreRight
<1>3. low \in Nat /\ mid \in Nat /\ low <= mid
  <2>1. a \in DOMAIN sa
    BY TextSize
  <2>2. low \in DOMAIN sa
    BY <2>1, OriginType
  <2>3. low \in Nat
    BY <2>2, TextSize
  <2> HIDE DEF low
  <2>4. QED
    BY <2>3
<1> HIDE DEF rs
<1>4. rs \in Seq(RunRecord) /\ rs # <<>>
  BY <1>1 DEF ImagesOf
<1> DEFINE from(k) == From(rs[k])
           to(k) == From(rs[k]) + (rs[k].end - rs[k].start)
<1>5. /\ \A k \in DOMAIN rs :
           /\ rs[k].start < rs[k].end /\ rs[k].end <= ix.n /\ PieceOf(rs[k])
           /\ from(k) \in Nat /\ a <= from(k) /\ to(k) <= b
           /\ \A x \in from(k) .. (to(k) - 1) : PsiAt(x) = rs[k].start + (x - from(k))
      /\ \A k, m \in DOMAIN rs : k < m => to(k) <= from(m)
      /\ \A p \in a .. (b - 1) : \E k \in DOMAIN rs : from(k) <= p /\ p < to(k)
  <2>1. \A k \in DOMAIN rs :
          /\ rs[k].start < rs[k].end /\ rs[k].end <= ix.n /\ PieceOf(rs[k])
          /\ from(k) \in Nat /\ a <= from(k) /\ to(k) <= b
          /\ \A x \in from(k) .. (to(k) - 1) : PsiAt(x) = rs[k].start + (x - from(k))
    <3>1. \A k \in DOMAIN rs :
            /\ rs[k].start < rs[k].end /\ rs[k].end <= ix.n /\ PieceOf(rs[k])
            /\ from(k) \in Nat /\ a <= from(k) /\ to(k) <= b
      BY ONLY <1>1 DEF ImagesOf
    <3>2. \A k \in DOMAIN rs : \A x \in from(k) .. (to(k) - 1) :
            PsiAt(x) = rs[k].start + (x - from(k))
      <4> SUFFICES ASSUME NEW k \in DOMAIN rs
                   PROVE  \A x \in from(k) .. (to(k) - 1) : PsiAt(x) = rs[k].start + (x - from(k))
        OBVIOUS
      <4>1. \A x \in From(rs[k]) .. (From(rs[k]) + (rs[k].end - rs[k].start) - 1) :
              PsiAt(x) = rs[k].start + (x - From(rs[k]))
        BY ONLY <1>1, k \in DOMAIN rs, Zenon DEF ImagesOf
      <4>2. QED
        <5>1. from(k) = From(rs[k]) /\ to(k) = From(rs[k]) + (rs[k].end - rs[k].start)
          OBVIOUS
        <5>2. rs[k] \in RunRecord
          BY <1>4
        <5>3. rs[k].end \in Nat /\ rs[k].start \in Nat /\ From(rs[k]) \in Nat
          BY <3>1, <5>2 DEF RunRecord
        <5>4. to(k) - 1 = From(rs[k]) + ((rs[k].end - rs[k].start) - 1)
          BY <5>3
        <5> HIDE DEF from, to
        <5>5. QED
          BY ONLY <4>1, <5>1, <5>4
    <3>3. QED
      BY ONLY <3>1, <3>2
  <2>2. \A k, m \in DOMAIN rs : k < m => to(k) <= from(m)
    BY ONLY <1>1 DEF ImagesOf
  <2>3. \A p \in a .. (b - 1) : \E k \in DOMAIN rs : from(k) <= p /\ p < to(k)
    BY ONLY <1>1 DEF ImagesOf
  <2>4. QED
    BY <2>1, <2>2, <2>3
<1>6. fr \in Frame /\ fr.level = level + 1 /\ fr.runs = rs
  BY <1>4 DEF Frame
<1> HIDE DEF fr, low, mid
<1>7. ASSUME NEW k \in DOMAIN rs
      PROVE  /\ RunIsRight(rs[k], level + 1)
             /\ Lo(rs[k], level + 1) = low + (from(k) - a)
             /\ Hi(rs[k], level + 1) = low + (to(k) - a)
             /\ from(k) \in Nat /\ to(k) \in Nat /\ a <= from(k) /\ to(k) <= b
  <2> DEFINE s == rs[k].start
             q == from(k)
             e == to(k)
  <2>1. rs[k] \in RunRecord
    BY <1>4
  <2>2. s \in Nat /\ rs[k].end \in Nat /\ s < rs[k].end
    BY <1>5, <2>1 DEF RunRecord
  <2>3. q \in Nat /\ e \in Nat /\ a <= q /\ q < e /\ e <= b /\ e - q = rs[k].end - s /\ e <= ix.n
    <3>1. q \in Nat /\ a <= q /\ e <= b /\ e = q + (rs[k].end - s)
      BY <1>5
    <3> HIDE DEF q, e
    <3>2. QED
      BY <1>2, <2>2, <3>1
  <2>4. \A x \in q .. (e - 1) : PsiAt(x) = s + (x - q)
    BY <1>5
  <2> HIDE DEF q, e
  <2>5. Image(q, e, level) /\ Origin(q, level) = low + (q - a)
    BY <2>3, ImagePart DEF low
  <2>6. \A m \in DOMAIN ix.run, x \in q .. (e - 1) : HeadSampled(m) => x # HeadOf(m)
    BY <2>3
  <2>7. Image(s, s + (e - q), level + 1) /\ Origin(s, level + 1) = Origin(q, level)
    <3>1. e <= ix.n /\ s \in Nat /\ level \in Nat \ {0} /\ q \in Nat /\ e \in Nat /\ q < e
      BY <2>2, <2>3
    <3> HIDE DEF s
    <3>2. Image(s, s + (e - q), level + 1)
      BY <2>4, <2>5, <2>6, <3>1, ImageOfPsi
    <3>3. Origin(s, level + 1) = Origin(q, level)
      BY <2>4, <2>5, <2>6, <3>1, ImageOfPsi
    <3>4. QED
      BY <3>2, <3>3
  <2>8. s + (e - q) = rs[k].end
    BY <2>2, <2>3
  <2>9. RunIsRight(rs[k], level + 1)
    BY <1>5, <2>2, <2>7, <2>8 DEF RunIsRight
  <2>10. Lo(rs[k], level + 1) = low + (q - a) /\ Hi(rs[k], level + 1) = low + (q - a) + (e - q)
    BY <2>3, <2>5, <2>7 DEF Lo, Hi
  <2>11. low + (q - a) + (e - q) = low + (e - a)
    BY <1>3, <2>3
  <2>12. QED
    BY <2>3, <2>9, <2>10, <2>11 DEF q, e
<1> HIDE DEF to, from
<1>8. \A k \in DOMAIN fr.runs :
        /\ RunIsRight(fr.runs[k], fr.level)
        /\ low <= Lo(fr.runs[k], fr.level) /\ Hi(fr.runs[k], fr.level) <= mid
  <2> SUFFICES ASSUME NEW k \in DOMAIN rs
               PROVE  /\ RunIsRight(rs[k], level + 1)
                      /\ low <= Lo(rs[k], level + 1) /\ Hi(rs[k], level + 1) <= mid
    BY <1>6
  <2>1. low + (to(k) - a) <= low + (b - a) /\ low <= low + (from(k) - a)
    BY <1>3, <1>7
  <2>2. QED
    BY <1>7, <2>1 DEF mid
<1>9. \A k, m \in DOMAIN fr.runs :
        k < m => Hi(fr.runs[k], fr.level) <= Lo(fr.runs[m], fr.level)
  <2> SUFFICES ASSUME NEW k \in DOMAIN rs, NEW m \in DOMAIN rs, k < m
               PROVE  Hi(rs[k], level + 1) <= Lo(rs[m], level + 1)
    BY <1>6
  <2>1. to(k) <= from(m)
    BY <1>5 DEF to
  <2>2. low + (to(k) - a) <= low + (from(m) - a)
    BY <1>3, <1>7, <2>1
  <2>3. QED
    BY <1>7, <2>2
<1>10. \A p \in low .. (mid - 1) : \E k \in DOMAIN fr.runs :
        Lo(fr.runs[k], fr.level) <= p /\ p < Hi(fr.runs[k], fr.level)
  <2> SUFFICES ASSUME NEW p \in low .. (mid - 1)
               PROVE  \E k \in DOMAIN rs : Lo(rs[k], level + 1) <= p /\ p < Hi(rs[k], level + 1)
    BY <1>6
  <2> DEFINE q == a + (p - low)
  <2>1. p \in Nat /\ q \in a .. (b - 1) /\ p = low + (q - a)
    BY <1>3 DEF mid
  <2>2. PICK k \in DOMAIN rs : from(k) <= q /\ q < to(k)
    BY <1>5, <2>1 DEF to
  <2> HIDE DEF q
  <2>3. q \in Nat
    BY <2>1
  <2>4. low + (from(k) - a) <= p /\ p < low + (to(k) - a)
    BY <1>3, <1>7, <2>1, <2>2, <2>3
  <2>5. QED
    BY <1>7, <2>4
<1>11. fr.level \in 1..(ix.rate + 1) /\ fr.runs # <<>>
  BY <1>2, <1>4, <1>6
<1>12. StackInv(gs, mid, last) /\ mid <= last
  BY DEF mid, low
<1>13. StackInv(Append(gs, fr), low, last)
  BY <1>2, <1>3, <1>6, <1>8, <1>9, <1>10, <1>11, <1>12, PushKeeps
<1>14. QED
  BY <1>13 DEF fr, low, rs

-----------------------------------------------------------------------------
(* Visiting the run in progress. *)

\* gs is fs with its run in progress shortened.
IsShrunk(fs, gs) ==
  /\ gs \in Seq(Frame) /\ DOMAIN gs = DOMAIN fs
  /\ \A f \in DOMAIN fs :
       /\ gs[f].level = fs[f].level /\ DOMAIN gs[f].runs = DOMAIN fs[f].runs
       /\ \A k \in DOMAIN fs[f].runs :
            gs[f].runs[k] = IF f = Len(fs) /\ k = 1 THEN Shrunk(fs[f].runs[k])
                            ELSE fs[f].runs[k]

\* update_run takes the first position of a run, and nothing else but its head.
LEMMA ShrunkIs ==
  ASSUME NEW run \in RunRecord
  PROVE  /\ Shrunk(run) \in RunRecord
         /\ Shrunk(run).start = run.start + 1 /\ Shrunk(run).end = run.end
         /\ Shrunk(run).c = run.c /\ Shrunk(run).rnk = run.rnk /\ Shrunk(run).isStart = FALSE
<1>1. DOMAIN run = {"start", "end", "c", "rnk", "isStart"} /\ run.start \in Nat /\ run.end \in Nat
      /\ run.c \in Nat /\ run.rnk \in Nat
  BY DEF RunRecord
<1> DEFINE new == Shrunk(run)
           same == [start |-> run.start + 1, end |-> run.end, c |-> run.c, rnk |-> run.rnk,
                    isStart |-> FALSE]
<1>2. same \in RunRecord
  BY <1>1 DEF RunRecord
<1>3. /\ DOMAIN new = {"start", "end", "c", "rnk", "isStart"}
      /\ new["start"] = run.start + 1 /\ new["end"] = run.end
      /\ new["c"] = run.c /\ new["rnk"] = run.rnk /\ new["isStart"] = FALSE
  BY <1>1, Zenon DEF Shrunk
<1>4. new = same
  <2>1. new = [x \in DOMAIN new |-> new[x]]
    BY Zenon DEF Shrunk
  <2>2. /\ same = [x \in DOMAIN same |-> same[x]]
        /\ DOMAIN same = {"start", "end", "c", "rnk", "isStart"}
        /\ same["start"] = run.start + 1 /\ same["end"] = run.end
        /\ same["c"] = run.c /\ same["rnk"] = run.rnk /\ same["isStart"] = FALSE
    BY Zenon
  <2> HIDE DEF new, same
  <2>3. QED
    BY <1>3, <2>1, <2>2
<1>5. QED
  BY <1>2, <1>4

\* What is left of a run after its first position is as right as the run.
LEMMA ShrunkRight ==
  ASSUME TextIsIndexed, RunsPartition, SamplesAreRight, IsSubsampled,
         NEW run \in RunRecord, NEW level \in Nat \ {0},
         RunIsRight(run, level), run.start + 1 < run.end
  PROVE  /\ RunIsRight(Shrunk(run), level)
         /\ Lo(run, level) \in Nat /\ Hi(run, level) \in Nat
         /\ Lo(Shrunk(run), level) = Lo(run, level) + 1
         /\ Hi(Shrunk(run), level) = Hi(run, level)
<1> DEFINE s == run.start
           e == run.end
           new == Shrunk(run)
<1>1. /\ s \in Nat /\ e \in Nat /\ s + 1 \in Nat /\ s + 1 < e /\ e <= ix.n /\ PieceOf(run)
      /\ Image(s, e, level) /\ ix.n \in Nat
  BY TextSize DEF RunRecord, RunIsRight
<1>2. /\ new.start = s + 1 /\ new.end = e /\ new.c = run.c /\ new.rnk = run.rnk
      /\ new.isStart = FALSE
  BY ShrunkIs
<1>3. PieceOf(new)
  <2>1. CASE HasRun
    <3>1. PICK k \in DOMAIN ix.run :
            /\ HeadOf(k) <= s /\ e <= ix.run[k].end
            /\ run.c = ix.run[k].c /\ run.rnk = RankInSymbol(k)
      BY <1>1, <2>1 DEF PieceOf
    <3>2. HeadOf(k) \in Nat
      BY RunBounds
    <3>3. HeadOf(k) <= s + 1 /\ s + 1 # HeadOf(k)
      BY <1>1, <3>1, <3>2
    <3> HIDE DEF new, s, e
    <3>4. QED
      BY <1>2, <2>1, <3>1, <3>3 DEF PieceOf
  <2>2. CASE ~HasRun
    <3>1. \A q \in ix.sampled : ~(s < q /\ q < e)
      BY <1>1, <2>2 DEF PieceOf
    <3>2. ASSUME NEW q \in ix.sampled, s + 1 < q, q < e PROVE FALSE
      <4>1. \E k \in DOMAIN ix.run : HeadOf(k) = q
        BY <2>2 DEF SamplesAreRight, HasRun
      <4>2. q \in Nat
        BY <4>1, RunBounds
      <4>3. QED
        BY <1>1, <3>1, <3>2, <4>2
    <3> HIDE DEF new, s, e
    <3>3. QED
      BY <1>2, <2>2, <3>2 DEF PieceOf
  <2>3. QED
    BY <2>1, <2>2
<1>4. Origin(s, level) \in Nat
  <2>1. s \in DOMAIN sa
    BY <1>1, TextSize
  <2>2. Origin(s, level) \in DOMAIN sa
    BY <2>1, OriginType
  <2>3. QED
    BY <2>2, TextSize
<1> HIDE DEF s, e, new
<1>5. Image(s + 1, e, level) /\ Origin(s + 1, level) = Origin(s, level) + (s + 1 - s)
  <2>1. s <= s + 1 /\ e <= e
    BY <1>1
  <2>2. QED
    BY <1>1, <2>1, ImagePart
<1>6. RunIsRight(new, level)
  BY <1>1, <1>2, <1>3, <1>5 DEF RunIsRight
<1>7. /\ Lo(run, level) = Origin(s, level) /\ Hi(run, level) = Origin(s, level) + (e - s)
      /\ Lo(new, level) = Origin(s + 1, level) /\ Hi(new, level) = Origin(s + 1, level) + (e - (s + 1))
  BY <1>2 DEF Lo, Hi, s, e
<1>8. QED
  BY <1>1, <1>4, <1>5, <1>6, <1>7 DEF new

\* ShrinkRun shortens the run in progress when it has more positions.
LEMMA ShrinkRunIs ==
  ASSUME frames \in Seq(Frame), frames # <<>>, Last(frames).runs # <<>>, ~IsEmpty(Shrunk(Run))
  PROVE  IsShrunk(frames, ShrinkRun)
<1> DEFINE n == Len(frames)
           rs == frames[n].runs
           short == Shrunk(rs[1])
           ss == [rs EXCEPT ![1] = short]
           fr == [frames[n] EXCEPT !.runs = ss]
           gs == [frames EXCEPT ![n] = fr]
<1>1. /\ n \in DOMAIN frames /\ n \in Nat /\ DOMAIN frames = 1..n /\ Top = frames[n]
      /\ \A f \in DOMAIN frames : f \in Nat /\ f <= n /\ frames[f] \in Frame
      /\ rs \in Seq(RunRecord) /\ 1 \in DOMAIN rs /\ Run = rs[1] /\ rs[1] \in RunRecord
  <2>1. DOMAIN frames = 1..n /\ Top = Last(frames) /\ Run = Head(Top.runs)
    BY DEF Top, Run
  <2>2. QED
    BY <2>1, TopIs DEF TopRun
<1>2. ShrinkRun = gs
  BY <1>1, Zenon DEF ShrinkRun
<1>3. short \in RunRecord
  <2> HIDE DEF rs
  <2> QED BY <1>1, ShrunkIs
<1>4. /\ ss \in Seq(RunRecord) /\ DOMAIN ss = DOMAIN rs /\ ss[1] = short
      /\ \A k \in DOMAIN rs : k # 1 => ss[k] = rs[k]
  <2> HIDE DEF rs, short
  <2>1. /\ DOMAIN ss = DOMAIN rs /\ ss[1] = short /\ \A k \in DOMAIN rs : k # 1 => ss[k] = rs[k]
    BY <1>1
  <2>2. \A k \in DOMAIN rs : ss[k] \in RunRecord
    BY <1>1, <1>3, <2>1
  <2>3. DOMAIN rs = 1..Len(rs) /\ Len(rs) \in Nat
    BY <1>1
  <2>4. ss = [k \in 1..Len(rs) |-> ss[k]]
    BY <2>3
  <2>5. QED
    <3> HIDE DEF ss
    <3> QED BY <2>1, <2>2, <2>3, <2>4
<1>5. fr \in Frame /\ fr.level = frames[n].level /\ fr.runs = ss
  <2>1. frames[n] \in Frame
    BY <1>1
  <2> HIDE DEF ss, n
  <2>2. QED
    BY <1>4, <2>1, FrameUpdate
<1>6. /\ gs \in Seq(Frame) /\ DOMAIN gs = DOMAIN frames /\ gs[n] = fr
      /\ \A f \in DOMAIN frames : f # n => gs[f] = frames[f]
  <2> HIDE DEF fr
  <2>1. DOMAIN gs = DOMAIN frames /\ gs[n] = fr /\ \A f \in DOMAIN frames : f # n => gs[f] = frames[f]
    BY <1>1
  <2>2. \A f \in 1..n : gs[f] \in Frame
    BY <1>1, <1>5, <2>1
  <2>3. gs = [f \in 1..n |-> gs[f]]
    BY <1>1
  <2>4. QED
    <3> HIDE DEF gs
    <3> QED BY <1>1, <2>1, <2>2, <2>3
<1>7. short = Shrunk(rs[1])
  OBVIOUS
<1> HIDE DEF gs, fr, ss, short
<1>8. ASSUME NEW f \in DOMAIN frames
      PROVE  /\ gs[f].level = frames[f].level /\ DOMAIN gs[f].runs = DOMAIN frames[f].runs
             /\ \A k \in DOMAIN frames[f].runs :
                  gs[f].runs[k] = IF f = n /\ k = 1 THEN Shrunk(frames[f].runs[k])
                                  ELSE frames[f].runs[k]
  <2>1. CASE f = n
    BY <1>4, <1>5, <1>6, <1>7, <2>1
  <2>2. CASE f # n
    BY <1>6, <2>2
  <2>3. QED
    BY <2>1, <2>2
<1>9. QED
  BY <1>2, <1>6, <1>8 DEF IsShrunk

\* A stack with its run in progress shortened stands for one position fewer.
LEMMA ShortenKeeps ==
  ASSUME TextIsIndexed, RunsPartition, SamplesAreRight, IsSubsampled,
         NEW fs, NEW gs, NEW next \in Nat, NEW last \in Nat,
         StackInv(fs, next, last), fs # <<>>, IsShrunk(fs, gs),
         TopRun(fs).start + 1 < TopRun(fs).end
  PROVE  StackInv(gs, next + 1, last)
<1> DEFINE n == Len(fs)
           run == TopRun(fs)
           level == TopLevel(fs)
<1>1. fs \in Seq(Frame) /\ RunsAreRight(fs) /\ RunsInside(fs, next, last)
      /\ RunsOrdered(fs) /\ RunsCover(fs, next, last)
  BY DEF StackInv
<1>2. ix.rate \in Nat
  BY DEF SamplesAreRight
<1>3. /\ Last(fs).runs # <<>> /\ run \in RunRecord /\ level \in Nat \ {0} /\ RunIsRight(run, level)
      /\ Lo(run, level) = next /\ Hi(run, level) \in Nat /\ Hi(run, level) <= last
  BY <1>2, TopEnds
<1>4. /\ n \in DOMAIN fs /\ n \in Nat /\ \A f \in DOMAIN fs : f \in Nat /\ f <= n
      /\ fs[n] = Last(fs) /\ 1 \in DOMAIN fs[n].runs /\ fs[n].runs[1] = run
      /\ fs[n].level = level
  BY <1>1, <1>3, TopIs DEF TopLevel
<1>5. /\ RunIsRight(Shrunk(run), level)
      /\ Lo(Shrunk(run), level) = next + 1 /\ Hi(Shrunk(run), level) = Hi(run, level)
  <2>1. run.start + 1 < run.end
    OBVIOUS
  <2> HIDE DEF run, level
  <2>2. /\ RunIsRight(Shrunk(run), level) /\ Lo(Shrunk(run), level) = Lo(run, level) + 1
        /\ Hi(Shrunk(run), level) = Hi(run, level)
    BY <1>3, <2>1, ShrunkRight
  <2>3. QED
    BY <1>3, <2>2
<1>6. gs \in Seq(Frame) /\ DOMAIN gs = DOMAIN fs
      /\ \A f \in DOMAIN gs : gs[f].level = fs[f].level /\ DOMAIN gs[f].runs = DOMAIN fs[f].runs
  BY DEF IsShrunk
<1>7. gs[n].runs[1] = Shrunk(run)
      /\ \A f \in DOMAIN gs : \A k \in DOMAIN gs[f].runs : f # n \/ k # 1 => gs[f].runs[k] = fs[f].runs[k]
  BY <1>4 DEF IsShrunk
<1> HIDE DEF run, level
<1>8. ASSUME NEW f \in DOMAIN gs, NEW k \in DOMAIN gs[f].runs
      PROVE  /\ RunIsRight(gs[f].runs[k], gs[f].level)
             /\ Hi(gs[f].runs[k], gs[f].level) = Hi(fs[f].runs[k], fs[f].level)
             /\ f # n \/ k # 1 => Lo(gs[f].runs[k], gs[f].level) = Lo(fs[f].runs[k], fs[f].level)
             /\ f = n /\ k = 1 => Lo(gs[f].runs[k], gs[f].level) = next + 1
  <2>1. CASE f = n /\ k = 1
    BY <1>4, <1>5, <1>6, <1>7, <2>1
  <2>2. CASE f # n \/ k # 1
    BY <1>1, <1>6, <1>7, <2>2 DEF RunsAreRight
  <2>3. QED
    BY <2>1, <2>2
<1>9. RunsAreRight(gs)
  <2>1. \A f \in DOMAIN gs : gs[f].level \in 1..(ix.rate + 1) /\ gs[f].runs # <<>>
    <3> SUFFICES ASSUME NEW f \in DOMAIN gs
                 PROVE  gs[f].level \in 1..(ix.rate + 1) /\ gs[f].runs # <<>>
      OBVIOUS
    <3>1. gs[f].level \in 1..(ix.rate + 1) /\ fs[f].runs # <<>>
      BY <1>1, <1>6 DEF RunsAreRight
    <3>2. gs[f] \in Frame /\ fs[f] \in Frame
      BY <1>1, <1>6
    <3> DEFINE a == fs[f].runs
               b == gs[f].runs
    <3>3. a \in Seq(RunRecord) /\ b \in Seq(RunRecord) /\ DOMAIN a = DOMAIN b /\ a # <<>>
      BY <1>6, <3>1, <3>2 DEF Frame
    <3> HIDE DEF a, b
    <3>4. DOMAIN a = 1..Len(a) /\ DOMAIN b = 1..Len(b) /\ Len(a) > 0 /\ Len(a) \in Nat /\ Len(b) \in Nat
      BY <3>3
    <3>5. 1 \in DOMAIN b
      BY <3>3, <3>4
    <3>6. b # <<>>
      BY <3>4, <3>5
    <3>7. QED
      BY <3>1, <3>6 DEF b
  <2>2. QED
    BY <1>8, <2>1 DEF RunsAreRight
<1>10. ASSUME NEW f \in DOMAIN fs, NEW k \in DOMAIN fs[f].runs
       PROVE  f # n \/ k # 1 => f < n \/ (f = n /\ 1 < k)
  <2>1. k \in Nat /\ f \in Nat /\ f <= n
    BY <1>2, <1>4, StackTypes
  <2>2. 1 <= k
    <3> DEFINE a == fs[f].runs
    <3>1. fs[f] \in Frame /\ k \in DOMAIN a
      BY <1>1
    <3>2. a \in Seq(RunRecord)
      BY <3>1 DEF Frame
    <3>3. 1 <= k
      <4> HIDE DEF a
      <4> QED BY <3>1, <3>2
    <3>4. QED
      BY <3>3
  <2>3. QED
    BY <1>4, <2>1, <2>2
<1>11. next < Hi(run, level)
  BY <1>2, TopEnds DEF run, level
<1>12. RunsInside(gs, next + 1, last)
  <2> SUFFICES ASSUME NEW f \in DOMAIN gs, NEW k \in DOMAIN gs[f].runs
               PROVE  /\ next + 1 <= Lo(gs[f].runs[k], gs[f].level)
                      /\ Hi(gs[f].runs[k], gs[f].level) <= last
    BY DEF RunsInside
  <2>1. f \in DOMAIN fs /\ k \in DOMAIN fs[f].runs
    BY <1>6
  <2>2. Hi(gs[f].runs[k], gs[f].level) <= last
    BY <1>1, <1>8, <2>1 DEF RunsInside
  <2>3. CASE f = n /\ k = 1
    BY <1>8, <2>2, <2>3
  <2>4. CASE f # n \/ k # 1
    <3>1. f < n \/ (f = n /\ 1 < k)
      BY <1>10, <2>1, <2>4
    <3>2. Hi(run, level) <= Lo(fs[f].runs[k], fs[f].level)
      BY <1>1, <1>4, <2>1, <3>1 DEF RunsOrdered
    <3>3. Lo(fs[f].runs[k], fs[f].level) \in Nat
      BY <1>2, <2>1, StackTypes
    <3>4. QED
      BY <1>3, <1>8, <1>11, <2>2, <2>4, <3>2, <3>3
  <2>5. QED
    BY <2>3, <2>4
<1>13. RunsOrdered(gs)
  <2> SUFFICES ASSUME NEW f \in DOMAIN gs, NEW g \in DOMAIN gs,
                      NEW k \in DOMAIN gs[f].runs, NEW j \in DOMAIN gs[g].runs,
                      g < f \/ (f = g /\ k < j)
               PROVE  Hi(gs[f].runs[k], gs[f].level) <= Lo(gs[g].runs[j], gs[g].level)
    BY DEF RunsOrdered
  <2>1. f \in DOMAIN fs /\ g \in DOMAIN fs /\ k \in DOMAIN fs[f].runs /\ j \in DOMAIN fs[g].runs
    BY <1>6
  <2>2. Hi(fs[f].runs[k], fs[f].level) <= Lo(fs[g].runs[j], fs[g].level)
    BY <1>1, <2>1 DEF RunsOrdered
  <2>3. ~(g = n /\ j = 1)
    <3>1. k \in Nat /\ f \in Nat /\ f <= n /\ g \in Nat
      BY <1>2, <1>4, <2>1, StackTypes
    <3>2. f # n \/ k # 1 => f < n \/ (f = n /\ 1 < k)
      BY <1>10, <2>1
    <3>3. QED
      BY <1>4, <3>1, <3>2
  <2>4. QED
    BY <1>8, <2>2, <2>3
<1>14. RunsCover(gs, next + 1, last)
  <2> SUFFICES ASSUME NEW p \in (next + 1) .. (last - 1)
               PROVE  \E f \in DOMAIN gs : \E k \in DOMAIN gs[f].runs :
                        Lo(gs[f].runs[k], gs[f].level) <= p /\ p < Hi(gs[f].runs[k], gs[f].level)
    BY DEF RunsCover
  <2>1. p \in next .. (last - 1) /\ next + 1 <= p
    OBVIOUS
  <2>2. PICK f \in DOMAIN fs : \E k \in DOMAIN fs[f].runs :
          Lo(fs[f].runs[k], fs[f].level) <= p /\ p < Hi(fs[f].runs[k], fs[f].level)
    BY <1>1, <2>1 DEF RunsCover
  <2>3. PICK k \in DOMAIN fs[f].runs :
          Lo(fs[f].runs[k], fs[f].level) <= p /\ p < Hi(fs[f].runs[k], fs[f].level)
    BY <2>2
  <2>4. f \in DOMAIN gs /\ k \in DOMAIN gs[f].runs
    BY <1>6
  <2>5. QED
    BY <1>8, <2>1, <2>3, <2>4
<1>15. QED
  BY <1>6, <1>9, <1>12, <1>13, <1>14 DEF StackInv

\* update_run and the return of the calls that are done: one position fewer.
LEMMA ShrinkKeeps ==
  ASSUME TextIsIndexed, RunsPartition, SamplesAreRight, IsSubsampled,
         NEW next \in Nat, NEW last \in Nat, StackInv(frames, next, last), frames # <<>>
  PROVE  StackInv(ShrinkRun, next + 1, last)
<1>1. /\ frames \in Seq(Frame) /\ \A f \in DOMAIN frames : frames[f].runs # <<>>
  BY DEF StackInv, RunsAreRight
<1>2. ix.rate \in Nat
  BY DEF SamplesAreRight
<1>3. /\ Last(frames).runs # <<>> /\ TopRun(frames) \in RunRecord
      /\ RunIsRight(TopRun(frames), TopLevel(frames))
      /\ Lo(TopRun(frames), TopLevel(frames)) = next
  BY <1>2, TopEnds
<1>4. Run = TopRun(frames)
  BY DEF Run, Top, TopRun
<1>5. /\ Run.start \in Nat /\ Run.end \in Nat /\ Run.start < Run.end
      /\ Shrunk(Run).start = Run.start + 1 /\ Shrunk(Run).end = Run.end
  BY <1>3, <1>4, ShrunkIs DEF RunRecord, RunIsRight
<1>6. CASE IsEmpty(Shrunk(Run))
  <2>1. ShrinkRun = PopRun
    BY <1>6 DEF ShrinkRun
  <2>2. IsRest(frames, ShrinkRun)
    BY <1>1, <2>1, PopRunIs
  <2>3. Hi(TopRun(frames), TopLevel(frames)) = next + 1
    <3>1. Run.end - Run.start = 1
      BY <1>5, <1>6 DEF IsEmpty
    <3>2. QED
      BY <1>3, <1>4, <3>1 DEF Lo, Hi
  <2>4. QED
    BY <1>2, <2>2, <2>3, PopKeeps
<1>7. CASE ~IsEmpty(Shrunk(Run))
  <2>1. IsShrunk(frames, ShrinkRun)
    BY <1>1, <1>3, <1>7, ShrinkRunIs
  <2>2. TopRun(frames).start + 1 < TopRun(frames).end
    BY <1>4, <1>5, <1>7 DEF IsEmpty
  <2>3. QED
    BY <2>1, <2>2, ShortenKeeps
<1>8. QED
  BY <1>6, <1>7

\* Following what is left of the run in progress, when no head in it is sampled,
\* leaves the stack for the positions it stands for and those after the run.
LEMMA FollowKeeps ==
  ASSUME TextIsIndexed, RunsPartition, LFIsRight, SamplesAreRight, IsSubsampled,
         NEW next \in Nat, NEW last \in Nat, StackInv(frames, next, last), frames # <<>>,
         ~AtLimit, NEW run \in RunRecord, NEW mid \in Nat,
         IsEmpty(run) => mid = Hi(Run, Top.level),
         ~IsEmpty(run) => /\ RunIsRight(run, Top.level)
                          /\ Lo(run, Top.level) = mid /\ Hi(run, Top.level) = Hi(Run, Top.level),
         \A k \in DOMAIN ix.run, x \in run.start .. (run.end - 1) : HeadSampled(k) => x # HeadOf(k)
  PROVE  StackInv(Follow(run), mid, last)
<1> DEFINE level == Top.level
           a == run.start
           b == run.end
<1>1. /\ frames \in Seq(Frame) /\ \A f \in DOMAIN frames : frames[f].runs # <<>>
  BY DEF StackInv, RunsAreRight
<1>2. ix.rate \in Nat
  BY DEF SamplesAreRight
<1>3. Run = TopRun(frames) /\ level = TopLevel(frames)
  BY DEF Run, Top, TopRun, TopLevel
<1>4. level \in Nat \ {0} /\ Hi(Run, level) \in Nat /\ Hi(Run, level) <= last
  BY <1>2, <1>3, TopEnds
<1>5. level <= ix.rate
  BY <1>2, <1>4 DEF AtLimit
<1>6. StackInv(PopRun, Hi(Run, level), last)
  <2>1. IsRest(frames, PopRun)
    BY <1>1, PopRunIs
  <2>2. QED
    BY <1>2, <1>3, <2>1, PopKeeps
<1>7. CASE IsEmpty(run)
  BY <1>6, <1>7 DEF Follow
<1>8. CASE ~IsEmpty(run)
  <2>1. Follow(run) = Append(PopRun, [level |-> level + 1, runs |-> ForwardRuns(a, b)])
    BY <1>8 DEF Follow, SplitRun
  <2>2. RunIsRight(run, level) /\ a \in Nat /\ b \in Nat
    BY <1>8 DEF RunRecord
  <2>3. a < b /\ b <= ix.n /\ Image(a, b, level)
    BY <2>2 DEF RunIsRight
  <2>4. Origin(a, level) = mid /\ Origin(a, level) + (b - a) = Hi(Run, level)
    BY <1>8 DEF Lo, Hi
  <2>5. \A k \in DOMAIN ix.run, x \in a .. (b - 1) : HeadSampled(k) => x # HeadOf(k)
    OBVIOUS
  <2>6. StackInv(PopRun, Origin(a, level) + (b - a), last)
    BY <1>6, <2>4
  <2>7. Origin(a, level) + (b - a) <= last
    BY <1>4, <2>4
  <2> HIDE DEF a, b, level
  <2>8. StackInv(Append(PopRun, [level |-> level + 1, runs |-> ForwardRuns(a, b)]),
                 Origin(a, level), last)
    BY <1>4, <1>5, <2>2, <2>3, <2>5, <2>6, <2>7, ImagesPush
  <2>9. QED
    BY <2>1, <2>4, <2>8
<1>9. QED
  BY <1>7, <1>8

\* Descend replaces the run in progress, whose head has no sample, by its images: the
\* stack stands for the same positions.
LEMMA DescendFollows ==
  ASSUME TextIsIndexed, RunsPartition, LFIsRight, SamplesAreRight, IsSubsampled,
         NEW next \in Nat, NEW last \in Nat, StackInv(frames, next, last), frames # <<>>,
         ~AtLimit, RunSample = NoSample
  PROVE  StackInv(Follow(Run), next, last)
<1> DEFINE level == Top.level
<1>1. ix.rate \in Nat
  BY DEF SamplesAreRight
<1>2. Run = TopRun(frames) /\ level = TopLevel(frames)
  BY DEF Run, Top, TopRun, TopLevel
<1>3. Run \in RunRecord /\ RunIsRight(Run, level) /\ Lo(Run, level) = next
  BY <1>1, <1>2, TopEnds
<1>4. Run.start < Run.end /\ PieceOf(Run)
  BY <1>3 DEF RunIsRight
<1>5. ASSUME NEW k \in DOMAIN ix.run, NEW x \in Run.start .. (Run.end - 1), HeadSampled(k),
             x = HeadOf(k)
      PROVE  FALSE
  <2>1. AsksHead(AskOf(Run), k)
    BY <1>3, <1>4, <1>5, HeadsInRun
  <2>2. GetSample(AskOf(Run)) # NoSample
    BY <1>5, <2>1, SampleSays
  <2>3. QED
    BY <2>2 DEF RunSample, AskOf
<1>6. ~IsEmpty(Run)
  BY <1>4 DEF IsEmpty
<1>7. QED
  BY <1>3, <1>5, <1>6, FollowKeeps

\* TakeSample does so with what is left after the head: one position fewer.
LEMMA TakeFollows ==
  ASSUME TextIsIndexed, RunsPartition, LFIsRight, SamplesAreRight, IsSubsampled,
         NEW next \in Nat, NEW last \in Nat, StackInv(frames, next, last), frames # <<>>,
         ~AtLimit
  PROVE  StackInv(Follow(Shrunk(Run)), next + 1, last)
<1> DEFINE level == Top.level
           run == Shrunk(Run)
<1>1. ix.rate \in Nat
  BY DEF SamplesAreRight
<1>2. Run = TopRun(frames) /\ level = TopLevel(frames)
  BY DEF Run, Top, TopRun, TopLevel
<1>3. /\ Run \in RunRecord /\ RunIsRight(Run, level) /\ Lo(Run, level) = next
      /\ level \in Nat \ {0}
  BY <1>1, <1>2, TopEnds
<1>4. /\ Run.start < Run.end /\ PieceOf(Run) /\ Run.start \in Nat /\ Run.end \in Nat
  BY <1>3 DEF RunIsRight, RunRecord
<1>5. run \in RunRecord /\ run.start = Run.start + 1 /\ run.end = Run.end
  BY <1>3, ShrunkIs
<1> HIDE DEF run
<1>6. ASSUME NEW k \in DOMAIN ix.run, NEW x \in run.start .. (run.end - 1), HeadSampled(k),
             x = HeadOf(k)
      PROVE  FALSE
  <2>1. x \in Run.start .. (Run.end - 1) /\ x # Run.start
    BY <1>4, <1>5
  <2>2. QED
    BY <1>3, <1>4, <1>6, <2>1, HeadsInRun
<1>7. IsEmpty(run) => next + 1 = Hi(Run, level)
  <2> SUFFICES ASSUME IsEmpty(run) PROVE next + 1 = Hi(Run, level)
    OBVIOUS
  <2>1. Run.end - Run.start = 1
    BY <1>4, <1>5 DEF IsEmpty
  <2>2. QED
    BY <1>3, <2>1 DEF Lo, Hi
<1>8. ~IsEmpty(run) =>
        RunIsRight(run, level) /\ Lo(run, level) = next + 1 /\ Hi(run, level) = Hi(Run, level)
  <2> SUFFICES ASSUME ~IsEmpty(run)
               PROVE  /\ RunIsRight(run, level) /\ Lo(run, level) = next + 1
                      /\ Hi(run, level) = Hi(Run, level)
    OBVIOUS
  <2>1. Run.start + 1 < Run.end
    BY <1>5 DEF IsEmpty
  <2>2. QED
    BY <1>3, <2>1, ShrunkRight DEF run
<1>9. next + 1 \in Nat
  OBVIOUS
<1>10. StackInv(Follow(run), next + 1, last)
  BY <1>5, <1>6, <1>7, <1>8, <1>9, FollowKeeps
<1>11. QED
  BY <1>10 DEF run

\* A sample found for the run in progress gives the entry of the next position.
LEMMA SampleOfRunIs ==
  ASSUME TextIsIndexed, RunsPartition, LFIsRight, SamplesAreRight, IsSubsampled,
         NEW next \in Nat, NEW last \in Nat, StackInv(frames, next, last), frames # <<>>,
         ~AtLimit, RunSample # NoSample
  PROVE  ValueOfSample = sa[next] /\ next \in DOMAIN sa
<1> DEFINE level == Top.level
           q == Run.start
<1>1. ix.rate \in Nat /\ ix.n \in Nat \ {0}
  BY TextSize DEF SamplesAreRight, TextIsIndexed
<1>2. Run = TopRun(frames) /\ level = TopLevel(frames)
  BY DEF Run, Top, TopRun, TopLevel
<1>3. /\ Run \in RunRecord /\ RunIsRight(Run, level) /\ Lo(Run, level) = next
      /\ level \in Nat \ {0}
  BY <1>1, <1>2, TopEnds
<1>4. /\ Run.start < Run.end /\ PieceOf(Run) /\ q \in Nat /\ Run.end \in Nat
      /\ Run.end <= ix.n
  BY <1>3 DEF RunIsRight, RunRecord
<1>5. q \in DOMAIN sa
  BY <1>4, TextSize
<1>6. RunSample = TextPos(sa, q)
  <2>1. RunSample = GetSample(AskOf(Run))
    BY DEF RunSample, AskOf
  <2>2. QED
    BY <1>3, <1>4, <2>1, SampleFound
<1>7. next \in DOMAIN sa /\ (sa[next] + level - 1) % ix.n = sa[q]
  <2>1. Origin(q, level) = next
    BY <1>3 DEF Lo
  <2>2. QED
    BY <1>3, <1>5, <2>1, OriginType
<1> DEFINE n == ix.n
           t == TextPos(sa, q)
           v == sa[next]
<1>8. /\ n \in Nat \ {0} /\ t \in 0..(n - 1) /\ v \in 0..(n - 1) /\ level \in Nat \ {0}
      /\ (t + 1) % n = sa[q] /\ (v + level - 1) % n = sa[q]
  BY <1>1, <1>3, <1>5, <1>7, PositionsAre, TextPosAdd
<1>9. (t + 1 + n - level + 1) % n = v
  <2> HIDE DEF n, t, v, level
  <2>1. t + 1 \in Int /\ 1 - level \in Int /\ v + level - 1 \in Int
    BY <1>8
  <2>2. (((t + 1) % n) + (1 - level)) % n = (t + 1 + (1 - level)) % n
    BY <1>8, <2>1, ModMod
  <2>3. (((v + level - 1) % n) + (1 - level)) % n = (v + level - 1 + (1 - level)) % n
    BY <1>8, <2>1, ModMod
  <2>4. v + level - 1 + (1 - level) = v /\ t + 1 + (1 - level) \in Int
    BY <1>8
  <2>5. v % n = v
    BY <1>8, ModSmall
  <2>6. (t + 1 + (1 - level)) % n = v
    BY <1>8, <2>2, <2>3, <2>4, <2>5
  <2>7. (t + 1 + n - level + 1) % n = (t + 1 + (1 - level)) % n
    <3>1. t + 1 + n - level + 1 = (t + 1 + (1 - level)) + n
      BY <1>8
    <3> DEFINE y == t + 1 + (1 - level)
    <3>2. y \in Int /\ t + 1 + n - level + 1 = y + n
      BY <2>4, <3>1
    <3> HIDE DEF y
    <3>3. (y + n) % n = y % n
      <4>1. y = n * (y \div n) + (y % n) /\ y \div n \in Int /\ y % n \in 0..(n - 1)
        BY <1>8, <3>2, ModDef
      <4> DEFINE d == y \div n
                 r == y % n
      <4>2. y = n * d + r /\ d \in Int /\ r \in 0..(n - 1)
        BY <4>1
      <4> HIDE DEF d, r
      <4>3. n * (d + 1) = n * d + n
        BY <1>8, <4>2
      <4>4. y + n = n * (d + 1) + r
        BY <1>8, <3>2, <4>2, <4>3
      <4>5. y + n \in Int /\ d + 1 \in Int
        BY <1>8, <3>2, <4>2
      <4>6. (y + n) % n = r
        BY <1>8, <4>2, <4>4, <4>5, ModUnique
      <4>7. QED
        BY <4>6 DEF r
    <3>4. QED
      BY <3>2, <3>3 DEF y
  <2>8. QED
    BY <2>6, <2>7
<1>10. ValueOfSample = (t + 1 + n - level + 1) % n
  BY <1>6 DEF ValueOfSample
<1>11. QED
  BY <1>7, <1>9, <1>10

-----------------------------------------------------------------------------
(* A step of a query leaves the index alone, and what is said of it. *)

\* The parts of IndexIsRight, and the text size, as the lemmas below need them.
LEMMA IndexFacts ==
  ASSUME IndexIsRight
  PROVE  /\ TextIsIndexed /\ RunsPartition /\ LFIsRight /\ SamplesAreRight
         /\ ix.n \in Nat \ {0} /\ DOMAIN sa = 0..(ix.n - 1)
         /\ \A p \in DOMAIN sa : sa[p] \in 0..(ix.n - 1)
         /\ IsSubsampled => ix.rate \in Nat \ {0}
         /\ IsSubsampled \/ ix.kind = "r" \/ ix.kind = "raw"
<1>1. TextIsIndexed /\ RunsPartition /\ LFIsRight /\ SamplesAreRight
  BY DEF IndexIsRight
<1>2. /\ ix.n \in Nat \ {0} /\ DOMAIN sa = 0..(ix.n - 1)
      /\ \A p \in DOMAIN sa : sa[p] \in 0..(ix.n - 1)
  BY <1>1 DEF TextIsIndexed
<1>3. IsSubsampled => ix.rate \in Nat \ {0}
  BY <1>1 DEF SamplesAreRight
<1>4. IsSubsampled \/ ix.kind = "r" \/ ix.kind = "raw"
  BY DEF IndexIsRight, IsSubsampled
<1>5. QED
  BY <1>1, <1>2, <1>3, <1>4

\* A step that leaves the index alone leaves phi alone.
LEMMA PhiStays ==
  ASSUME UNCHANGED data, NEW v
  PROVE  Phi(v)' = Phi(v)
<1>1. SoftSuccessor(v)' = SoftSuccessor(v)
  BY DEF SoftSuccessor, data
<1>2. ASSUME NEW o, NEW d
      PROVE  SampleForPhi(o, d)' = SampleForPhi(o, d)
  <2>1. Validate(o, d)' = Validate(o, d)
    BY DEF Validate, InitialValidity, InArea, MarkIsValid, data
  <2>2. QED
    BY <2>1 DEF SampleForPhi, data
<1>3. QED
  BY <1>1, <1>2 DEF Phi, data

\* It leaves the runs, their heads and the samples of these alone.
LEMMA HeadsStay ==
  ASSUME UNCHANGED data, NEW k, NEW l, NEW p
  PROVE  /\ RankInSymbol(k)' = RankInSymbol(k) /\ RunAt(p)' = RunAt(p)
         /\ HeadOf(k)' = HeadOf(k) /\ HeadAt(k)' = HeadAt(k)
         /\ HeadSampled(k)' <=> HeadSampled(k)
         /\ HeadAhead(k, l, p)' <=> HeadAhead(k, l, p)
         /\ HasRun' <=> HasRun
         /\ HasPosition' <=> HasPosition
         /\ IsSubsampled' <=> IsSubsampled
<1>1. text' = text /\ sa' = sa /\ ix' = ix
  BY DEF data
<1>2. RankInSymbol(k)' = RankInSymbol(k)
  BY <1>1 DEF RankInSymbol
<1>3. RunAt(p)' = RunAt(p)
  BY <1>1 DEF RunAt
<1>4. HeadOf(k)' = HeadOf(k)
  BY <1>1 DEF HeadOf
<1>5. HeadAt(k)' = HeadAt(k)
  BY <1>1, <1>2, <1>4 DEF HeadAt, InAlphabet, RunsBelow
<1>6. HeadSampled(k)' <=> HeadSampled(k)
  BY <1>1, <1>5 DEF HeadSampled
<1>7. HeadAhead(k, l, p)' <=> HeadAhead(k, l, p)
  BY <1>1, <1>4 DEF HeadAhead
<1>8. HasRun' <=> HasRun
  BY <1>1 DEF HasRun
<1>9. IsSubsampled' <=> IsSubsampled
  BY <1>1 DEF IsSubsampled
<1>10. HasPosition' <=> HasPosition
  BY <1>1, <1>9 DEF HasPosition
<1>11. QED
  BY <1>2, <1>3, <1>4, <1>5, <1>6, <1>7, <1>8, <1>9, <1>10

\* A step that leaves the index alone leaves it right.
LEMMA IndexStays ==
  ASSUME UNCHANGED data, IndexIsRight
  PROVE  IndexIsRight'
<1>1. text' = text /\ sa' = sa /\ ix' = ix
  BY DEF data
<1>2. TextIsIndexed'
  BY <1>1 DEF IndexIsRight, TextIsIndexed
<1>3. RunsPartition'
  BY <1>1 DEF IndexIsRight, RunsPartition
<1>4. LFIsRight'
  BY <1>1 DEF IndexIsRight, LFIsRight, LF, Rank
<1>5. SamplesAreRight'
  <2>1. SamplesAreRight
    BY DEF IndexIsRight
  <2>2. ASSUME NEW at, NEW c, NEW rnk
        PROVE  /\ Sample(at)' = Sample(at) /\ SampleByCharRun(c, rnk)' = SampleByCharRun(c, rnk)
               /\ SampleByRankRun(at)' = SampleByRankRun(at)
    BY <1>1 DEF Sample, SampleByCharRun, SampleByRankRun, RunsBelow
  <2>3. ASSUME ix'.kind = "r", NEW k \in DOMAIN ix'.run
        PROVE  (IF ix'.layout = "psi" THEN SampleByCharRun(ix.run[k].c, RankInSymbol(k))'
                ELSE SampleByRankRun(HeadOf(k))') = TextPos(sa, HeadOf(k))'
    BY <1>1, <2>1, <2>2, <2>3, HeadsStay DEF SamplesAreRight
  <2>4. ASSUME IsSubsampled'
        PROVE  /\ ix'.rate \in Nat \ {0}
               /\ ix'.layout = "position" =>
                    \A q \in ix'.sampled : \E k \in DOMAIN ix'.run : HeadOf(k)' = q
               /\ \A k \in DOMAIN ix'.run :
                    HeadSampled(k)' => Sample(HeadAt(k))' = TextPos(sa, HeadOf(k))'
               /\ \A k \in DOMAIN ix'.run : sa'[HeadOf(k)'] = 0 => HeadSampled(k)'
               /\ \A k \in DOMAIN ix'.run : \E m \in DOMAIN ix'.run, l \in 0..(ix'.rate - 1) :
                    HeadSampled(m)' /\ HeadAhead(m, l, HeadOf(k))'
    <3>1. IsSubsampled
      BY <2>4, HeadsStay
    <3>2. ASSUME NEW k \in DOMAIN ix.run
          PROVE  \E m \in DOMAIN ix.run, l \in 0..(ix.rate - 1) :
                   HeadSampled(m)' /\ HeadAhead(m, l, HeadOf(k))'
      <4>1. PICK m \in DOMAIN ix.run, l \in 0..(ix.rate - 1) :
              HeadSampled(m) /\ HeadAhead(m, l, HeadOf(k))
        BY <2>1, <3>1 DEF SamplesAreRight
      <4>2. HeadSampled(m)' /\ HeadAhead(m, l, HeadOf(k))'
        BY <4>1, HeadsStay
      <4>3. QED
        BY <4>2
    <3>3. \A k \in DOMAIN ix.run : HeadSampled(k)' => Sample(HeadAt(k))' = TextPos(sa, HeadOf(k))'
      BY <1>1, <2>1, <2>2, <3>1, HeadsStay DEF SamplesAreRight
    <3>4. \A k \in DOMAIN ix.run : sa[HeadOf(k)] = 0 => HeadSampled(k)'
      BY <2>1, <3>1, HeadsStay DEF SamplesAreRight
    <3>5. /\ ix.rate \in Nat \ {0}
          /\ ix.layout = "position" => \A q \in ix.sampled : \E k \in DOMAIN ix.run : HeadOf(k) = q
      BY <2>1, <3>1 DEF SamplesAreRight
    <3>6. \A k : HeadOf(k)' = HeadOf(k)
      BY HeadsStay
    <3>7. QED
      BY <1>1, <3>2, <3>3, <3>4, <3>5, <3>6
  <2>5. QED
    BY <2>3, <2>4 DEF SamplesAreRight
<1>6. (ix.kind # "raw" => PhiIsTrusted)'
  BY <1>1, PhiStays DEF IndexIsRight, PhiIsTrusted
<1>7. PhiRightPastSamples'
  <2> SUFFICES ASSUME IsSubsampled', NEW p \in DOMAIN sa \ {ix.n - 1},
                      \A k \in DOMAIN ix.run, l \in 0..(ix.rate - 1) :
                        HeadSampled(k)' => ~HeadAhead(k, l, p + 1)'
               PROVE  Phi(sa[p])'.value = sa[p + 1]
    <3>1. \A p : Phi(sa[p])' = Phi(sa[p])
      BY <1>1, PhiStays
    <3>2. QED
      BY <1>1, <3>1 DEF PhiRightPastSamples
  <2>1. \A k \in DOMAIN ix.run, l \in 0..(ix.rate - 1) : HeadSampled(k) => ~HeadAhead(k, l, p + 1)
    BY HeadsStay
  <2>2. IsSubsampled /\ PhiRightPastSamples
    BY HeadsStay DEF IndexIsRight
  <2>3. Phi(sa[p]).value = sa[p + 1]
    BY <2>1, <2>2 DEF PhiRightPastSamples
  <2>4. QED
    BY <1>1, <2>3, PhiStays
<1>8. QED
  BY <1>1, <1>2, <1>3, <1>4, <1>5, <1>6, <1>7 DEF IndexIsRight

\* What the stack of calls stands for depends on the index only.
LEMMA StackStays ==
  ASSUME UNCHANGED data, NEW fs, NEW next, NEW last, StackInv(fs, next, last)
  PROVE  StackInv(fs, next, last)'
<1>0. text' = text /\ sa' = sa /\ ix' = ix
  BY DEF data
<1>1. ASSUME NEW q, NEW level PROVE Origin(q, level)' = Origin(q, level)
  BY <1>0 DEF Origin
<1>2. ASSUME NEW run, NEW level
      PROVE  Lo(run, level)' = Lo(run, level) /\ Hi(run, level)' = Hi(run, level)
  BY <1>1 DEF Lo, Hi
<1>3. ASSUME NEW run, NEW level, RunIsRight(run, level) PROVE RunIsRight(run, level)'
  <2>1. ASSUME NEW a, NEW b, Image(a, b, level) PROVE Image(a, b, level)'
    BY <1>0, <1>1, <2>1, HeadsStay DEF Image
  <2>2. PieceOf(run) => PieceOf(run)'
    BY <1>0, HeadsStay DEF PieceOf
  <2>3. QED
    BY <1>0, <1>3, <2>1, <2>2 DEF RunIsRight
<1>4. RunsAreRight(fs)'
  BY <1>0, <1>3 DEF StackInv, RunsAreRight
<1>5. RunsInside(fs, next, last)' /\ RunsOrdered(fs)' /\ RunsCover(fs, next, last)'
  BY <1>2 DEF StackInv, RunsInside, RunsOrdered, RunsCover
<1>6. QED
  BY <1>4, <1>5 DEF StackInv

\* What run data lead to depends on the index only.
LEMMA LeadsStays ==
  ASSUME UNCHANGED data, UNCHANGED toehold, NEW first, NEW steps, ToeholdLeads(first, steps)
  PROVE  ToeholdLeads(first, steps)'
<1>1. ix' = ix /\ toehold' = toehold
  BY DEF data
<1>2. PICK k \in DOMAIN ix.run : NamesHead(toehold.run, k) /\ HeadAhead(k, steps, first)
  BY DEF ToeholdLeads
<1>3. HeadAhead(k, steps, first)'
  BY <1>2, HeadsStay
<1>4. NamesHead(toehold.run, k)'
  BY <1>1, <1>2, HeadsStay DEF NamesHead
<1>5. QED
  BY <1>1, <1>3, <1>4 DEF ToeholdLeads

-----------------------------------------------------------------------------
(* Every action keeps the invariant of the queries.                        *)

\* A new query starts over the whole suffix array.
LEMMA QueryKeeps ==
  ASSUME QueryInv, Query
  PROVE  QueryInv'
<1>1. IndexIsRight /\ UNCHANGED data /\ stage' = "search" /\ UNCHANGED <<text, sa, ix>>
  BY DEF QueryInv, Query, data
<1>2. /\ op' \in {"locate", "count"} /\ pat' \in Patterns(text, MaxPattern) /\ left' = Len(pat')
      /\ range' = [start |-> 0, end |-> ix.n] /\ toehold' = NoToehold
      /\ jump' = NoJump /\ frames' = <<>> /\ value' = 0 /\ valid' = FALSE
      /\ out' = <<>> /\ found' = NoRange
  BY DEF Query
<1>3. /\ TextIsIndexed /\ ix.n \in Nat \ {0} /\ DOMAIN sa = 0..(ix.n - 1)
      /\ \A p \in DOMAIN sa : sa[p] \in 0..(ix.n - 1)
  BY <1>1, IndexFacts
<1>4. pat' \in Seq(Nat) /\ Len(pat') \in Nat
  BY <1>2, <1>3, PatternIs
<1>5. Typed'
  <2>1. NoRun \in RunDataRecord
    BY DEF NoRun, RunDataRecord
  <2>2. /\ range' \in [start : Nat, end : Nat] /\ found' \in [start : Nat, end : Nat]
        /\ toehold' \in [step : Nat, run : RunDataRecord]
        /\ jump' \in [run : RunDataRecord, jumps : Nat]
    BY <1>2, <1>3, <2>1 DEF NoRange, NoToehold, NoJump
  <2>3. frames' \in Seq(Frame) /\ out' \in Seq(Nat)
    BY <1>2
  <2>4. left' \in 0..Len(pat')
    BY <1>2, <1>4
  <2>5. QED
    BY <1>1, <1>2, <1>4, <2>2, <2>3, <2>4 DEF Typed
<1>6. RangeIsSuffix'
  <2>1. ASSUME NEW p \in DOMAIN sa
        PROVE  sa[p] \in Occurrences(text, SubSeq(pat', Len(pat') + 1, Len(pat')))
    <3>1. Len(pat') \in 0..Len(pat') /\ sa[p] \in Int /\ sa[p] \in DOMAIN text
      BY <1>3, <1>4, TextSize
    <3>2. (Len(pat') + 1)..Len(pat') = {}
      BY <1>4
    <3>3. QED
      BY <1>4, <3>1, <3>2, OccurrencesIs
  <2>2. ASSUME NEW p \in DOMAIN sa
        PROVE  range'.start <= p /\ p < range'.end
    BY <1>2, <1>3
  <2>3. QED
    BY <1>1, <1>2, <2>1, <2>2 DEF RangeIsSuffix, InRange
<1>7. SearchInv'
  BY <1>1, <1>2, <1>3, <1>6 DEF SearchInv, NoToehold, NoJump
<1>8. ToeholdInv'
  BY <1>2, <1>4 DEF ToeholdInv
<1>9. FoundInv' /\ JumpInv' /\ WalkInv'
  BY <1>1 DEF FoundInv, JumpInv, WalkInv
<1>10. ReportInv' /\ BoundInv'
  BY <1>1, <1>2 DEF ReportInv, BoundInv, ReportsSuffixArray, NoRange, NoJump
<1>11. QED
  BY <1>1, <1>5, <1>7, <1>8, <1>9, <1>10, IndexStays DEF QueryInv

\* A special step keeps the head that leads to the new first position.
LEMMA SpecialLeads ==
  ASSUME IndexIsRight, NEW x \in Symbols(text), range \in [start : Nat, end : Nat],
         range.start < range.end, range.end <= ix.n,
         LFRange(range, Comp(text, x)).start < LFRange(range, Comp(text, x)).end,
         range.start = 0 \/ ~IsTrivial(LFRange(range, Comp(text, x)))
  PROVE  \E k \in DOMAIN ix.run :
           /\ NamesHead(RunData(Comp(text, x), LFRange(range, Comp(text, x))), k)
           /\ HeadAhead(k, 1, LFRange(range, Comp(text, x)).start)
<1> DEFINE c == Comp(text, x)
           next == LFRange(range, c)
<1>1. /\ TextIsIndexed /\ RunsPartition /\ LFIsRight
      /\ ix.kind = "r" => ix.layout # "alphabet"
      /\ ix.layout \in {"position", "alphabet", "psi"}
      /\ ix.kind = "raw" => ix.layout = "position"
      /\ ix.kind \in {"raw", "r", "sr", "vm", "va"}
  BY DEF IndexIsRight
<1>2. \E k \in DOMAIN ix.run :
        /\ next.run.start = HeadOf(k) /\ next.run.end = ix.run[k].end
        /\ next.run.rnk = RankInSymbol(k)
        /\ ix.run[k].c = c /\ range.start < ix.run[k].end
        /\ EntryOf(range, k) \in DOMAIN sa /\ LF(EntryOf(range, k)) = next.start
  BY <1>1, FirstAhead
<1>3. range.start = 0 \/ ~IsTrivial(next)
  OBVIOUS
<1>4. next.start < next.end
  OBVIOUS
<1> HIDE DEF next, c
<1>5. PICK k \in DOMAIN ix.run :
        /\ next.run.start = HeadOf(k) /\ next.run.end = ix.run[k].end
        /\ next.run.rnk = RankInSymbol(k)
        /\ ix.run[k].c = c /\ range.start < ix.run[k].end
        /\ EntryOf(range, k) \in DOMAIN sa /\ LF(EntryOf(range, k)) = next.start
  BY <1>2
<1>6. HeadOf(k) \in Nat /\ range.start \in Nat
  BY <1>1, RunBounds
<1>7. EntryOf(range, k) = HeadOf(k) /\ (range.start # HeadOf(k) \/ HeadOf(k) = 0)
  <2>1. CASE range.start = 0
    BY <1>6, <2>1 DEF EntryOf
  <2>2. CASE ~IsTrivial(next)
    <3>1. ~(HeadOf(k) <= range.start)
      BY <1>5, <1>6, <2>2 DEF IsTrivial
    <3>2. QED
      BY <1>6, <3>1 DEF EntryOf
  <2>3. QED
    BY <1>3, <2>1, <2>2
<1>8. (sa[next.start] + 1) % ix.n = sa[HeadOf(k)]
  BY <1>1, <1>5, <1>7, LFGoesBack
<1>9. HeadAhead(k, 1, next.start)
  BY <1>8 DEF HeadAhead
<1>10. NamesHead(RunData(c, next), k)
  <2>1. CASE ix.layout = "position"
    <3>1. RunData(c, next).pos = HeadOf(k)
      BY <1>5, <2>1 DEF RunData, DataOfPosition, NoRun
    <3>2. QED
      BY <2>1, <3>1 DEF NamesHead, HasRun
  <2>2. CASE ix.layout # "position" /\ ix.kind = "r"
    <3>1. ix.layout = "psi" /\ ~HasPosition
      BY <1>1, <2>2 DEF HasPosition, IsSubsampled
    <3>2. RunData(c, next) = DataOfCharRun(c, next)
      BY <2>2, <3>1 DEF RunData
    <3>3. RunData(c, next).c = c /\ RunData(c, next).rnk = next.run.rnk
      BY <3>2 DEF DataOfCharRun, NoRun
    <3>4. QED
      BY <1>5, <3>1, <3>3 DEF NamesHead
  <2>3. CASE ix.layout # "position" /\ ix.kind # "r"
    <3>1. RunData(c, next) = DataOfRun(c, next)
      BY <2>3 DEF RunData
    <3>2. /\ RunData(c, next).pos = next.run.start /\ RunData(c, next).c = c
          /\ RunData(c, next).rnk = next.run.rnk
      BY <3>1 DEF DataOfRun
    <3> DEFINE b == range.start # next.run.start
    <3>3. RunData(c, next) = [pos |-> next.run.start, c |-> c, rnk |-> next.run.rnk, isStart |-> b]
      BY <3>1, Zenon DEF DataOfRun
    <3> HIDE DEF b
    <3>4. RunData(c, next).isStart = b
      BY ONLY <3>3
    <3> USE DEF b
    <3>6. RunData(c, next).isStart \/ HeadOf(k) = 0
      <4>1. b \/ HeadOf(k) = 0
        BY <1>5, <1>7
      <4> HIDE DEF b
      <4>2. QED
        BY <3>4, <4>1
    <3>5. QED
      BY <1>5, <3>2, <3>6 DEF NamesHead
  <2>4. QED
    BY <2>1, <2>2, <2>3
<1>11. NamesHead(RunData(c, next), k) /\ HeadAhead(k, 1, next.start)
  BY <1>9, <1>10
<1>12. QED
  BY <1>11 DEF next, c

\* A trivial step takes the first position of the range to the new first one.
LEMMA TrivialLeads ==
  ASSUME IndexIsRight, NEW x \in Symbols(text), range \in [start : Nat, end : Nat],
         range.start < range.end, range.end <= ix.n,
         LFRange(range, Comp(text, x)).start < LFRange(range, Comp(text, x)).end,
         IsTrivial(LFRange(range, Comp(text, x)))
  PROVE  LF(range.start) = LFRange(range, Comp(text, x)).start
<1> DEFINE c == Comp(text, x)
           next == LFRange(range, c)
<1>1. TextIsIndexed /\ RunsPartition /\ LFIsRight
  BY DEF IndexIsRight
<1>2. \E k \in DOMAIN ix.run :
        /\ next.run.start = HeadOf(k)
        /\ EntryOf(range, k) \in DOMAIN sa /\ LF(EntryOf(range, k)) = next.start
  BY <1>1, FirstAhead
<1>3. IsTrivial(next) /\ next.start < next.end
  OBVIOUS
<1>4. next.start \in Nat /\ next.end \in Nat
  BY <1>1, NextRangeIs
<1> HIDE DEF next, c
<1>5. next.run.start <= range.start
  BY <1>3, <1>4 DEF IsTrivial, IsEmpty
<1>6. LF(range.start) = next.start
  BY <1>2, <1>5 DEF EntryOf
<1>7. QED
  BY <1>6 DEF next, c

\* What the step keeps of the run has the types of run data.
LEMMA RunDataType ==
  ASSUME IndexIsRight, NEW x \in Symbols(text), range \in [start : Nat, end : Nat],
         range.start < range.end, range.end <= ix.n
  PROVE  RunData(Comp(text, x), LFRange(range, Comp(text, x))) \in RunDataRecord
<1> DEFINE c == Comp(text, x)
           next == LFRange(range, c)
           ahead == {k \in DOMAIN ix.run : ix.run[k].c = c /\ ix.run[k].end > range.start}
<1>1. /\ TextIsIndexed /\ RunsPartition /\ ix.n \in Nat
      /\ ix.kind = "r" => ix.layout # "alphabet"
      /\ ix.layout \in {"position", "alphabet", "psi"}
  BY IndexFacts DEF IndexIsRight
<1>2. c \in Nat
  BY <1>1, SymbolsFinite, CompIs
<1>3. next.run.start \in Nat /\ next.run.rnk \in Nat
  <2>1. next.run = NextRun(c, range.start)
    BY DEF LFRange
  <2>2. CASE ahead = {}
    BY <1>1, <2>1, <2>2 DEF NextRun
  <2>3. CASE ahead # {}
    <3>1. ahead \in SUBSET Nat
      BY <1>1, RunBounds
    <3> DEFINE m == Min(ahead)
    <3>2. m \in ahead
      <4>1. \E y \in ahead : y \in ahead
        BY <2>3
      <4> HIDE DEF ahead
      <4>2. \E y \in ahead : \A j \in ahead : y <= j
        BY <3>1, <4>1, MinExists
      <4>3. QED
        BY <4>2 DEF Min
    <3>3. /\ next.run = [start |-> ix.run[m].start, end |-> ix.run[m].end, rnk |-> RankInSymbol(m)]
      BY <2>1, <2>3 DEF NextRun
    <3> HIDE DEF m
    <3>4. ix.run[m].start \in Nat /\ RankInSymbol(m) \in Nat
      <4>1. m \in DOMAIN ix.run
        BY <3>2
      <4>2. QED
        BY <1>1, <4>1, RankInSymbolType DEF RunsPartition
    <3>5. QED
      BY <3>3, <3>4
  <2>4. QED
    BY <2>2, <2>3
<1> HIDE DEF next, c
<1>4. RunData(c, next) \in RunDataRecord
  <2>1. CASE ix.layout = "position"
    BY <1>2, <1>3, <2>1 DEF RunData, DataOfPosition, NoRun, RunDataRecord
  <2>2. CASE ix.layout # "position" /\ ix.kind = "r"
    <3>1. RunData(c, next) = DataOfCharRun(c, next)
      BY <1>1, <2>2 DEF RunData
    <3>2. NoRun \in RunDataRecord
      BY DEF NoRun, RunDataRecord
    <3>3. [NoRun EXCEPT !.c = c, !.rnk = next.run.rnk] \in RunDataRecord
      BY <1>2, <1>3, <3>2 DEF RunDataRecord
    <3>4. QED
      BY <3>1, <3>3 DEF DataOfCharRun
  <2>3. CASE ix.layout # "position" /\ ix.kind # "r"
    <3>1. RunData(c, next) = DataOfRun(c, next)
      BY <2>3 DEF RunData
    <3> DEFINE b == range.start # next.run.start
    <3>2. b \in BOOLEAN
      OBVIOUS
    <3>3. RunData(c, next) = [pos |-> next.run.start, c |-> c, rnk |-> next.run.rnk, isStart |-> b]
      BY <3>1, Zenon DEF DataOfRun
    <3> HIDE DEF b
    <3>4. QED
      BY <1>2, <1>3, <3>2, <3>3 DEF RunDataRecord
  <2>4. QED
    BY <2>1, <2>2, <2>3
<1>5. QED
  BY <1>4 DEF next, c

\* One symbol of the pattern: the range holds the suffixes that start with one
\* symbol more, and the toehold data lead to its first position.
LEMMA SearchStepKeeps ==
  ASSUME QueryInv, SearchStep
  PROVE  QueryInv'
<1> DEFINE c == Comp(text, pat[left])
           next == LFRange(range, c)
<1>1. /\ stage = "search" /\ left > 0 /\ range.start < range.end
      /\ range' = [start |-> next.start, end |-> next.end]
      /\ IF op = "locate" /\ (toehold.step = 0 \/ ~IsTrivial(next))
         THEN toehold' = ToeholdData(c, next)
         ELSE toehold' = toehold
      /\ left' = left - 1
      /\ UNCHANGED <<data, stage, query, jump, frames, value, valid, out, found>>
  BY DEF SearchStep, IsEmpty
<1>2. /\ Typed /\ IndexIsRight /\ SearchInv /\ ToeholdInv /\ FoundInv /\ JumpInv /\ WalkInv
      /\ ReportInv /\ BoundInv
  BY <1>1 DEF QueryInv
<1>3. /\ TextIsIndexed /\ RunsPartition /\ LFIsRight /\ ix.n \in Nat \ {0}
      /\ DOMAIN sa = 0..(ix.n - 1) /\ \A p \in DOMAIN sa : sa[p] \in 0..(ix.n - 1)
  BY <1>2, IndexFacts
<1>4. /\ pat \in Patterns(text, MaxPattern) /\ range.end <= ix.n /\ frames = <<>> /\ out = <<>>
      /\ jump.jumps = 0 /\ RangeIsSuffix
      /\ left = Len(pat) => range = [start |-> 0, end |-> ix.n] /\ toehold.step = 0
  BY <1>1, <1>2 DEF SearchInv
<1>5. /\ pat \in Seq(Nat) /\ Len(pat) \in Nat /\ left \in 1..Len(pat) /\ left \in DOMAIN pat
      /\ pat[left] \in Symbols(text) /\ left \in Nat
      /\ range \in [start : Nat, end : Nat] /\ range.start \in Nat /\ range.end \in Nat
      /\ toehold \in [step : Nat, run : RunDataRecord] /\ toehold.step \in Nat
  <2>1. pat \in Seq(Nat) /\ Len(pat) \in Nat /\ DOMAIN pat = 1..Len(pat)
    BY <1>3, <1>4, PatternIs
  <2>2. left \in 1..Len(pat)
    BY <1>1, <1>2, <2>1 DEF Typed
  <2>3. pat[left] \in Symbols(text)
    BY <1>3, <1>4, <2>1, <2>2, PatternIs
  <2>4. QED
    BY <1>2, <2>1, <2>2, <2>3 DEF Typed
<1>6. /\ next.start \in Nat /\ next.end \in Nat /\ next.start <= next.end /\ next.end <= ix.n
  BY <1>1, <1>3, <1>4, <1>5, NextRangeIs
<1>7. /\ text' = text /\ sa' = sa /\ ix' = ix /\ op' = op /\ pat' = pat /\ stage' = "search"
      /\ jump' = jump /\ frames' = frames /\ value' = value /\ valid' = valid /\ out' = out
      /\ found' = found /\ range'.start = next.start /\ range'.end = next.end
  BY <1>1 DEF data, query
<1>8. RunData(c, next) \in RunDataRecord
  BY <1>1, <1>2, <1>4, <1>5, RunDataType
<1>9. toehold' \in [step : Nat, run : RunDataRecord]
  <2> HIDE DEF next, c
  <2>1. ToeholdData(c, next) \in [step : Nat, run : RunDataRecord]
    <3>1. left - 1 \in Nat
      BY <1>5
    <3>2. QED
      BY <1>8, <3>1 DEF ToeholdData
  <2>2. QED
    BY <1>1, <1>5, <2>1
<1>10. Typed'
  <2>1. range' \in [start : Nat, end : Nat]
    BY <1>1, <1>6
  <2>2. left' \in 0..Len(pat')
    BY <1>1, <1>5, <1>7
  <2> HIDE DEF next, c
  <2>3. QED
    BY <1>2, <1>7, <1>9, <2>1, <2>2 DEF Typed
<1>11. SearchInv'
  <2>1. RangeIsSuffix'
    <3>1. ASSUME NEW r \in DOMAIN sa
          PROVE  InRange(next, r) <=> sa[r] \in Occurrences(text, SubSeq(pat, left, Len(pat)))
      <4>1. \A q \in DOMAIN sa :
              InRange(range, q) <=> sa[q] \in Occurrences(text, SubSeq(pat, left + 1, Len(pat)))
        BY <1>1, <1>4 DEF RangeIsSuffix
      <4>2. QED
        BY <1>1, <1>3, <1>4, <1>5, <4>1, SearchStepIs
    <3>2. left' + 1 = left
      BY <1>1, <1>5
    <3> HIDE DEF next, c
    <3>3. QED
      BY <1>7, <3>1, <3>2 DEF RangeIsSuffix, InRange
  <2>2. left' # Len(pat)
    BY <1>1, <1>5
  <2> HIDE DEF next, c
  <2>3. QED
    BY <1>4, <1>6, <1>7, <2>1, <2>2 DEF SearchInv
<1>12. ToeholdInv'
  <2> SUFFICES ASSUME op = "locate", next.start < next.end
               PROVE  /\ toehold'.step >= left'
                      /\ \E k \in DOMAIN ix.run :
                           /\ NamesHead(toehold'.run, k)
                           /\ HeadAhead(k, toehold'.step - left' + 1, next.start)
    <3>1. ASSUME op' = "locate", ~IsEmpty(range')
          PROVE  toehold'.step >= left' /\ ToeholdLeads(range.start, toehold.step - left + 1)'
      <4>1. op = "locate" /\ next.start < next.end
        BY <1>7, <3>1 DEF IsEmpty
      <4>2. toehold'.step >= left'
        BY <4>1
      <4>3. PICK k \in DOMAIN ix.run :
              /\ NamesHead(toehold'.run, k)
              /\ HeadAhead(k, toehold'.step - left' + 1, next.start)
        BY <4>1
      <4> HIDE DEF next, c
      <4>4. NamesHead(toehold.run, k)'
        BY <1>7, <4>3 DEF NamesHead, HasPosition, HasRun, IsSubsampled, HeadOf, RankInSymbol
      <4>5. HeadAhead(k, toehold.step - left + 1, range.start)'
        BY <1>7, <4>3 DEF HeadAhead, HeadOf
      <4>6. ToeholdLeads(range.start, toehold.step - left + 1)'
        BY <1>7, <4>4, <4>5 DEF ToeholdLeads
      <4>7. QED
        BY <4>2, <4>6
    <3> HIDE DEF next, c
    <3>2. QED
      BY <3>1 DEF ToeholdInv
  <2>1. CASE toehold.step = 0 \/ ~IsTrivial(next)
    <3>1. toehold' = ToeholdData(c, next)
      BY <1>1, <2>1
    <3>2. toehold'.step = left' /\ toehold'.run = RunData(c, next)
      BY <1>1, <3>1 DEF ToeholdData
    <3>3. range.start = 0 \/ ~IsTrivial(next)
      <4>1. CASE left = Len(pat)
        BY <1>4, <4>1
      <4>2. CASE left < Len(pat)
        <5>1. op = "locate" => toehold.step >= left
          BY <1>1, <1>2, <4>2 DEF ToeholdInv, IsEmpty
        <5>2. toehold.step # 0
          BY <1>5, <5>1
        <5>3. QED
          BY <2>1, <5>2
      <4>3. QED
        BY <1>5, <4>1, <4>2
    <3>4. \E k \in DOMAIN ix.run : NamesHead(RunData(c, next), k) /\ HeadAhead(k, 1, next.start)
      BY <1>1, <1>2, <1>4, <1>5, <3>3, SpecialLeads
    <3>5. left' - left' + 1 = 1 /\ left' >= left'
      BY <1>1, <1>5
    <3> HIDE DEF next, c
    <3>6. QED
      BY <3>2, <3>4, <3>5
  <2>2. CASE toehold.step # 0 /\ IsTrivial(next)
    <3>1. toehold' = toehold
      BY <1>1, <2>2
    <3>2. left < Len(pat)
      BY <1>4, <1>5, <2>2
    <3>3. toehold.step >= left /\ ToeholdLeads(range.start, toehold.step - left + 1)
      BY <1>1, <1>2, <3>2 DEF ToeholdInv, IsEmpty
    <3>4. PICK k \in DOMAIN ix.run :
            NamesHead(toehold.run, k) /\ HeadAhead(k, toehold.step - left + 1, range.start)
      BY <3>3 DEF ToeholdLeads
    <3>5. range.start \in DOMAIN sa
      BY <1>1, <1>3, <1>4, <1>5
    <3>6. LF(range.start) = next.start
      BY <1>1, <1>2, <1>4, <1>5, <2>2, TrivialLeads
    <3>7. toehold.step - left + 1 \in Int /\ toehold.step >= left'
          /\ toehold.step - left' + 1 = (toehold.step - left + 1) + 1
      BY <1>1, <1>5, <3>3
    <3> HIDE DEF next, c
    <3>8. (sa[next.start] + ((toehold.step - left + 1) + 1)) % ix.n
            = (sa[range.start] + (toehold.step - left + 1)) % ix.n
      BY <1>3, <3>5, <3>6, <3>7, OneMore
    <3>9. HeadAhead(k, toehold.step - left' + 1, next.start)
      BY <3>4, <3>7, <3>8 DEF HeadAhead
    <3>10. QED
      BY <3>1, <3>4, <3>7, <3>9
  <2>3. QED
    BY <2>1, <2>2
<1>13. FoundInv' /\ JumpInv' /\ WalkInv'
  BY <1>7 DEF FoundInv, JumpInv, WalkInv
<1>14. ReportInv' /\ BoundInv'
  <2> HIDE DEF next, c
  <2> QED BY <1>2, <1>4, <1>7 DEF ReportInv, BoundInv, ReportsSuffixArray
<1>15. QED
  BY <1>1, <1>2, <1>10, <1>11, <1>12, <1>13, <1>14, IndexStays DEF QueryInv

\* The head of the run of the terminator, whose sample is always kept, is one
\* symbol after the suffix at the first position.
LEMMA FirstSuffix ==
  ASSUME TextIsIndexed, RunsPartition, LFIsRight, SamplesAreRight, IsSubsampled
  PROVE  \E m \in DOMAIN ix.run : HeadSampled(m) /\ HeadAhead(m, 1, 0)
<1>1. PICK m \in DOMAIN ix.run : HeadOf(m) \in DOMAIN sa /\ TextPos(sa, HeadOf(m)) = ix.n - 1
  BY TerminatorRun DEF HeadOf
<1> DEFINE h == HeadOf(m)
<1>2. /\ ix.n \in Nat \ {0} /\ DOMAIN sa = 0..(ix.n - 1) /\ h \in DOMAIN sa /\ 0 \in DOMAIN sa
      /\ TextPos(sa, h) = ix.n - 1
  BY <1>1, PositionsAre
<1> HIDE DEF h
<1>3. sa[h] = 0
  <2>1. ((ix.n - 1) + 1) % ix.n = sa[h]
    BY <1>2, TextPosAdd
  <2>2. ((ix.n - 1) + 1) % ix.n = 0
    BY <1>2
  <2>3. QED
    BY <2>1, <2>2
<1>4. HeadSampled(m)
  BY <1>1, <1>3 DEF SamplesAreRight, h
<1>5. LF(h) = 0
  <2>1. PICK q \in DOMAIN sa : LF(q) = 0
    BY <1>2, LFIsOnto
  <2>2. CASE q = h
    BY <2>1, <2>2
  <2>3. CASE q # h
    <3> DEFINE x == text[TextPos(sa, h)]
               y == text[TextPos(sa, q)]
    <3>1. TextPos(sa, q) # ix.n - 1
      BY <1>2, <2>3, TextPosIsInjective
    <3>2. TextPos(sa, q) \in DOMAIN text /\ TextPos(sa, h) \in DOMAIN text
      BY <1>2, PositionsAre
    <3>3. x = 0 /\ y # 0 /\ y \in Nat
      BY <1>2, <3>1, <3>2, PositionsAre DEF TextIsIndexed
    <3>4. /\ ix.bwt[h] = Comp(text, x) /\ ix.bwt[q] = Comp(text, y)
          /\ x \in Symbols(text) /\ y \in Symbols(text)
      BY <1>2, <2>1, BwtIs
    <3> HIDE DEF x, y
    <3>5. x < y
      BY <3>3
    <3>6. Comp(text, x) < Comp(text, y)
      BY <3>4, <3>5, CompOrder
    <3>7. ix.C[Comp(text, x)] + Rank(Comp(text, x), h + 1) <= ix.C[Comp(text, y)]
      BY <3>4, <3>6, BlocksOrdered
    <3>8. Rank(Comp(text, x), h) < Rank(Comp(text, x), h + 1)
      <4>1. h \in DOMAIN sa /\ h \in Int /\ h + 1 \in Int /\ h < h + 1
        BY <1>2
      <4>2. QED
        BY <3>4, <4>1, RankStrict
    <3>9. LF(q) = ix.C[Comp(text, y)] + Rank(Comp(text, y), q)
      BY <2>1, <3>4, LFIs
    <3>10. /\ ix.C[Comp(text, x)] \in Nat /\ ix.C[Comp(text, y)] \in Nat
           /\ Rank(Comp(text, x), h) \in Nat /\ Rank(Comp(text, x), h + 1) \in Nat
           /\ Rank(Comp(text, y), q) \in Nat
      BY <3>4, CumulativeIs, RankType
    <3>11. QED
      BY <2>1, <3>7, <3>8, <3>9, <3>10
  <2>4. QED
    BY <2>2, <2>3
<1>6. (sa[0] + 1) % ix.n = 0
  BY <1>2, <1>3, <1>5, LFGoesBack
<1>7. HeadAhead(m, 1, 0)
  BY <1>3, <1>6 DEF HeadAhead, h
<1>8. QED
  BY <1>4, <1>7

\* The head the toehold data name is where the jumps start from: some sampled head
\* is ahead of it, and it is asked for.
LEMMA JumpsStart ==
  ASSUME IndexIsRight, IsSubsampled, toehold.run \in RunDataRecord, NEW first, NEW steps,
         ToeholdLeads(first, steps)
  PROVE  /\ toehold.run.pos \in DOMAIN sa
         /\ (sa[first] + steps) % ix.n = sa[toehold.run.pos]
         /\ TellsRun(toehold.run, toehold.run.pos)
         /\ SampleAhead(toehold.run, toehold.run.pos, ix.rate)
<1>1. /\ TextIsIndexed /\ RunsPartition /\ LFIsRight /\ SamplesAreRight /\ ix.n \in Nat \ {0}
      /\ DOMAIN sa = 0..(ix.n - 1) /\ \A p \in DOMAIN sa : sa[p] \in 0..(ix.n - 1)
      /\ ix.rate \in Nat \ {0}
  BY IndexFacts
<1>2. PICK k \in DOMAIN ix.run : NamesHead(toehold.run, k) /\ HeadAhead(k, steps, first)
  BY DEF ToeholdLeads
<1> DEFINE rd == toehold.run
           q == HeadOf(k)
<1>3. rd.pos = q /\ (HasRun => rd.isStart \/ q = 0)
  BY <1>2 DEF NamesHead, HasPosition
<1>4. HasRun => rd.c = ix.run[k].c /\ rd.rnk = RankInSymbol(k)
  BY <1>2 DEF NamesHead
<1>5. q \in DOMAIN sa /\ RunAt(q) = k
  BY <1>1, RunBounds
<1>6. TellsRun(rd, q)
  BY <1>4, <1>5 DEF TellsRun
<1>7. SampleAhead(rd, q, ix.rate)
  <2>1. CASE q = 0
    <3>1. PICK m \in DOMAIN ix.run : HeadSampled(m) /\ HeadAhead(m, 1, 0)
      BY <1>1, FirstSuffix
    <3>2. 1 \in 0..ix.rate
      BY <1>1
    <3>3. QED
      BY <2>1, <3>1, <3>2 DEF SampleAhead
  <2>2. CASE q # 0
    <3>1. PICK m \in DOMAIN ix.run, l \in 0..(ix.rate - 1) : HeadSampled(m) /\ HeadAhead(m, l, q)
      BY <1>1 DEF SamplesAreRight
    <3>2. l \in 0..ix.rate
      BY <1>1
    <3>3. HasRun => rd.isStart
      BY <1>3, <2>2
    <3> HIDE DEF q, rd
    <3>4. QED
      BY <3>1, <3>2, <3>3 DEF SampleAhead
  <2>3. QED
    BY <2>1, <2>2
<1>8. (sa[first] + steps) % ix.n = sa[q]
  BY <1>2 DEF HeadAhead
<1> HIDE DEF q, rd
<1>9. QED
  BY <1>3, <1>5, <1>6, <1>7, <1>8 DEF rd

\* The search is over: the range found is that of the occurrences, and the
\* toehold data lead to its first position.
LEMMA SearchEndKeeps ==
  ASSUME QueryInv, SearchEnd
  PROVE  QueryInv'
<1>1. /\ stage = "search" /\ (left = 0 \/ IsEmpty(range)) /\ found' = range
      /\ IF op = "count" \/ IsEmpty(range)
         THEN stage' = "answered" /\ jump' = jump
         ELSE /\ stage' = IF ix.kind = "raw" THEN "phi" ELSE "toehold"
              /\ jump' = [run |-> toehold.run, jumps |-> 0]
      /\ UNCHANGED <<data, query, left, range, toehold, frames, value, valid, out>>
  BY DEF SearchEnd, NoJump
<1>2. /\ Typed /\ IndexIsRight /\ SearchInv /\ ToeholdInv /\ ReportInv /\ BoundInv
  BY <1>1 DEF QueryInv
<1>3. /\ TextIsIndexed /\ RunsPartition /\ LFIsRight /\ ix.n \in Nat \ {0}
      /\ DOMAIN sa = 0..(ix.n - 1) /\ \A p \in DOMAIN sa : sa[p] \in 0..(ix.n - 1)
      /\ IsSubsampled => ix.rate \in Nat \ {0}
  BY <1>2, IndexFacts
<1>4. /\ pat \in Patterns(text, MaxPattern) /\ range.start <= range.end /\ range.end <= ix.n
      /\ frames = <<>> /\ out = <<>> /\ jump.jumps = 0
      /\ left = Len(pat) => range = [start |-> 0, end |-> ix.n]
      /\ \A p \in DOMAIN sa :
           InRange(range, p) <=> sa[p] \in Occurrences(text, SubSeq(pat, left + 1, Len(pat)))
  BY <1>1, <1>2 DEF SearchInv, RangeIsSuffix
<1>5. /\ pat \in Seq(Nat) /\ Len(pat) \in Nat /\ Len(pat) > 0 /\ left \in 0..Len(pat)
      /\ range \in [start : Nat, end : Nat] /\ range.start \in Nat /\ range.end \in Nat
      /\ toehold \in [step : Nat, run : RunDataRecord] /\ toehold.step \in Nat
      /\ toehold.run \in RunDataRecord
      /\ jump \in [run : RunDataRecord, jumps : Nat]
  BY <1>2, <1>3, <1>4, PatternIs DEF Typed
<1>6. /\ text' = text /\ sa' = sa /\ ix' = ix /\ op' = op /\ pat' = pat /\ left' = left
      /\ range' = range /\ toehold' = toehold /\ frames' = <<>> /\ value' = value
      /\ valid' = valid /\ out' = <<>>
  BY <1>1, <1>4 DEF data, query
<1>7. \A p \in DOMAIN sa : InRange(range, p) <=> sa[p] \in Occurrences(text, pat)
  <2>1. CASE left = 0
    <3>1. SubSeq(pat, left + 1, Len(pat)) = pat
      BY <1>5, <2>1
    <3>2. QED
      BY <1>4, <3>1
  <2>2. CASE left # 0
    <3>1. IsEmpty(range)
      BY <1>1, <2>2
    <3>2. left # Len(pat)
      BY <1>3, <1>4, <3>1 DEF IsEmpty
    <3>3. \A p \in DOMAIN sa : ~InRange(range, p)
      BY <1>3, <1>5, <3>1 DEF IsEmpty, InRange
    <3>4. left \in 0..(Len(pat) - 1)
      BY <1>5, <3>2
    <3>5. Occurrences(text, pat) = {}
      BY <1>3, <1>4, <3>3, <3>4, PatternAssumption, EmptyMeansNone
    <3>6. QED
      BY <3>3, <3>5
  <2>3. QED
    BY <2>1, <2>2
<1>8. FoundInv'
  BY <1>1, <1>4, <1>6, <1>7 DEF FoundInv, InRange
<1>9. range.end - range.start >= 0 /\ range.end - range.start \in Nat
  BY <1>4, <1>5
<1>10. CASE op = "count" \/ IsEmpty(range)
  <2>1. stage' = "answered" /\ jump' = jump /\ found' = range
    BY <1>1, <1>10
  <2>2. Typed'
    BY <1>2, <1>5, <1>6, <2>1 DEF Typed
  <2>3. ReportInv'
    <3>1. op = "locate" => range.end - range.start = 0
      BY <1>4, <1>5, <1>10 DEF IsEmpty
    <3>2. QED
      BY <1>6, <1>9, <2>1, <3>1 DEF ReportInv, ReportsSuffixArray
  <2>4. SearchInv' /\ ToeholdInv' /\ JumpInv' /\ WalkInv' /\ BoundInv'
    BY <1>4, <2>1 DEF SearchInv, ToeholdInv, JumpInv, WalkInv, BoundInv
  <2>5. QED
    BY <1>1, <1>2, <1>8, <2>2, <2>3, <2>4, IndexStays DEF QueryInv
<1>11. CASE ~(op = "count" \/ IsEmpty(range))
  <2>1. /\ stage' = IF ix.kind = "raw" THEN "phi" ELSE "toehold"
        /\ found' = range /\ jump' = [run |-> toehold.run, jumps |-> 0]
    BY <1>1, <1>11
  <2>2. op = "locate" /\ left = 0 /\ ~IsEmpty(range) /\ range.start < range.end
    BY <1>1, <1>2, <1>11 DEF Typed, IsEmpty
  <2>3. (jump.jumps)' = 0 /\ (jump.run)' = toehold.run
    BY <2>1
  <2>4. Typed'
    <3>1. jump' \in [run : RunDataRecord, jumps : Nat]
      BY <1>5, <2>1
    <3>2. stage' \in {"phi", "toehold"}
      BY <2>1
    <3>3. QED
      BY <1>2, <1>5, <1>6, <2>1, <3>1, <3>2 DEF Typed
  <2>5. SearchInv' /\ ToeholdInv' /\ BoundInv'
    BY <2>1, <2>3 DEF SearchInv, ToeholdInv, BoundInv
  <2>6. ReportInv'
    BY <1>6, <1>9, <2>1 DEF ReportInv, ReportsSuffixArray
  <2>7. JumpInv' /\ WalkInv'
    <3>1. CASE ix.kind = "raw"
      <4>1. stage' = "phi"
        BY <2>1, <3>1
      <4>2. JumpInv'
        BY <4>1 DEF JumpInv
      <4>3. ~IsSubsampled' /\ ~HasValidity'
        BY <1>6, <3>1 DEF IsSubsampled, HasValidity
      <4>4. NextPosition' = range.start
        BY <1>5, <1>6, <2>1 DEF NextPosition
      <4>5. range = [start |-> range.start, end |-> range.end]
        BY <1>5
      <4>6. range' = [start |-> NextPosition, end |-> found.end]'
        BY <1>6, <2>1, <4>4, <4>5
      <4>7. Len(out') = 0 /\ 0 <= range.end - range.start /\ (ix.kind)' = "raw"
        BY <1>6, <1>9, <3>1
      <4>8. QED
        BY <1>6, <2>1, <2>2, <4>2, <4>3, <4>6, <4>7 DEF WalkInv
    <3>2. CASE ix.kind # "raw"
      <4>1. stage' = "toehold"
        BY <2>1, <3>2
      <4>2. WalkInv'
        BY <4>1 DEF WalkInv
      <4>3. ToeholdLeads(range.start, toehold.step + 1)
        <5>1. toehold.step - left + 1 = toehold.step + 1
          BY <1>5, <2>2
        <5>2. QED
          BY <1>1, <1>2, <1>5, <2>2, <5>1 DEF ToeholdInv
      <4>4. (ix.kind = "r" =>
               jump.run = toehold.run /\ jump.jumps = 0 /\ ToeholdLeads(found.start, toehold.step + 1))'
        <5>1. ToeholdLeads(range.start, toehold.step + 1)'
          BY <1>1, <1>6, <4>3, LeadsStays
        <5>2. QED
          BY <1>6, <2>1, <2>3, <5>1
      <4>5. (IsSubsampled =>
               /\ jump.run.pos \in DOMAIN sa
               /\ (sa[found.start] + toehold.step + 1 + jump.jumps) % ix.n = sa[jump.run.pos]
               /\ TellsRun(jump.run, jump.run.pos)
               /\ jump.jumps <= ix.rate
               /\ SampleAhead(jump.run, jump.run.pos, ix.rate - jump.jumps))'
        <5> SUFFICES ASSUME IsSubsampled
                     PROVE  (/\ jump.run.pos \in DOMAIN sa
                             /\ (sa[found.start] + toehold.step + 1 + jump.jumps) % ix.n
                                  = sa[jump.run.pos]
                             /\ TellsRun(jump.run, jump.run.pos)
                             /\ jump.jumps <= ix.rate
                             /\ SampleAhead(jump.run, jump.run.pos, ix.rate - jump.jumps))'
          BY <1>6 DEF IsSubsampled
        <5>1. /\ toehold.run.pos \in DOMAIN sa
              /\ (sa[range.start] + (toehold.step + 1)) % ix.n = sa[toehold.run.pos]
              /\ TellsRun(toehold.run, toehold.run.pos)
              /\ SampleAhead(toehold.run, toehold.run.pos, ix.rate)
          BY <1>2, <1>5, <4>3, JumpsStart
        <5>2. range.start \in DOMAIN sa
          BY <1>3, <1>4, <1>5, <2>2
        <5>3. sa[range.start] + toehold.step + 1 + 0 = sa[range.start] + (toehold.step + 1)
          <6> DEFINE v == sa[range.start]
                     s == toehold.step
          <6>1. v \in Int /\ s \in Int
            BY <1>3, <1>5, <5>2
          <6> HIDE DEF v, s
          <6>2. v + s + 1 + 0 = v + (s + 1)
            BY <6>1
          <6>3. QED
            BY <6>2 DEF v, s
        <5>4. (jump.run.pos \in DOMAIN sa
               /\ (sa[found.start] + toehold.step + 1 + jump.jumps) % ix.n = sa[jump.run.pos])'
          BY <1>6, <2>1, <2>3, <5>1, <5>3
        <5>5. TellsRun(jump.run, jump.run.pos)'
          <6>1. TellsRun(toehold.run, toehold.run.pos)'
            BY <1>6, <5>1 DEF TellsRun, HasRun, RunAt, RankInSymbol, HeadOf
          <6>2. QED
            BY <1>6, <2>3, <6>1
        <5>6. jump'.jumps <= ix.rate /\ ix.rate - jump'.jumps = ix.rate
          BY <1>3, <2>3
        <5>7. SampleAhead(jump.run, jump.run.pos, ix.rate - jump.jumps)'
          <6>1. PICK k \in DOMAIN ix.run, l \in 0..ix.rate :
                  /\ HeadSampled(k) /\ HeadAhead(k, l, toehold.run.pos)
                  /\ l = 0 /\ HasRun => toehold.run.isStart
            BY <5>1 DEF SampleAhead
          <6>2. UNCHANGED data
            BY <1>1
          <6>3. HeadSampled(k)' /\ HeadAhead(k, l, toehold.run.pos)' /\ (HasRun' <=> HasRun)
            BY <1>6, <6>1, <6>2, HeadsStay DEF HeadAhead, HeadOf
          <6>4. \E k_1 \in DOMAIN ix'.run, l_1 \in 0..(ix'.rate - jump'.jumps) :
                  /\ HeadSampled(k_1)' /\ HeadAhead(k_1, l_1, jump.run.pos)'
                  /\ l_1 = 0 /\ HasRun' => jump'.run.isStart
            BY <1>6, <2>3, <5>6, <6>1, <6>3
          <6>5. QED
            BY <6>4 DEF SampleAhead
        <5>8. QED
          BY <1>6, <5>4, <5>5, <5>6, <5>7
      <4>6. JumpInv'
        BY <1>6, <2>1, <2>2, <3>2, <4>4, <4>5 DEF JumpInv, IsEmpty
      <4>7. QED
        BY <4>2, <4>6
    <3>3. QED
      BY <3>1, <3>2
  <2>8. QED
    BY <1>1, <1>2, <1>8, <2>4, <2>5, <2>6, <2>7, IndexStays DEF QueryInv
<1>12. QED
  BY <1>10, <1>11

-----------------------------------------------------------------------------
(* The toehold. *)

\* PsiForRunData moves to the next suffix and learns the run there.
LEMMA PsiForRunDataIs ==
  ASSUME TextIsIndexed, RunsPartition, LFIsRight, NEW rd \in RunDataRecord, rd.pos \in DOMAIN sa
  PROVE  /\ PsiForRunData(rd) \in RunDataRecord
         /\ PsiForRunData(rd).pos = PsiAt(rd.pos)
         /\ TellsRun(PsiForRunData(rd), PsiAt(rd.pos))
         /\ HasRun /\ PsiAt(rd.pos) = HeadOf(RunAt(PsiAt(rd.pos))) => PsiForRunData(rd).isStart
<1> DEFINE q == PsiAt(rd.pos)
           k == RunAt(q)
           b == q = ix.run[k].start
<1>1. q \in DOMAIN sa /\ q \in Nat
  BY PsiIs, PositionsAre
<1>2. k \in DOMAIN ix.run /\ ix.bwt[q] = ix.run[k].c
  BY <1>1, RunOfPosition
<1>3. ix.run[k].c \in Nat /\ RankInSymbol(k) \in Nat
  <2> HIDE DEF k
  <2>1. QED
    BY <1>2, RunBounds, RankInSymbolType
<1>4. CASE ix.layout = "position"
  <2>1. PsiForRunData(rd) = [rd EXCEPT !.pos = q]
    BY <1>4 DEF PsiForRunData, PsiToPosition
  <2> HIDE DEF q
  <2>2. PsiForRunData(rd) \in RunDataRecord /\ PsiForRunData(rd).pos = q
    BY <1>1, <2>1 DEF RunDataRecord
  <2>3. QED
    BY <1>4, <2>2 DEF TellsRun, HasRun, q
<1>5. CASE ix.layout # "position"
  <2>1. PsiForRunData(rd) = [pos |-> q, c |-> ix.bwt[q], rnk |-> RankInSymbol(k), isStart |-> b]
    BY <1>5, Zenon DEF PsiForRunData, PsiToRun
  <2>2. b \in BOOLEAN
    OBVIOUS
  <2>3. b <=> q = HeadOf(k)
    BY DEF HeadOf
  <2> HIDE DEF q, k, b
  <2>4. PsiForRunData(rd) \in RunDataRecord
    BY <1>1, <1>2, <1>3, <2>1, <2>2 DEF RunDataRecord
  <2>5. /\ PsiForRunData(rd).pos = q /\ PsiForRunData(rd).c = ix.bwt[q]
        /\ PsiForRunData(rd).rnk = RankInSymbol(k)
        /\ PsiForRunData(rd).isStart = b
    BY ONLY <2>1
  <2>6. PsiForRunData(rd).isStart <=> q = HeadOf(k)
    BY ONLY <2>2, <2>3, <2>5
  <2> HIDE DEF PsiForRunData
  <2>7. TellsRun(PsiForRunData(rd), q)
    BY <1>2, <2>5, <2>6 DEF TellsRun, k
  <2>8. QED
    BY <2>4, <2>5, <2>6, <2>7 DEF q, k
<1>6. QED
  BY <1>4, <1>5

\* No sample here: a psi step is nearer to the sampled head ahead, and asks for it
\* when it gets there.
LEMMA JumpMoves ==
  ASSUME IndexIsRight, IsSubsampled, NEW rd \in RunDataRecord, rd.pos \in DOMAIN sa,
         TellsRun(rd, rd.pos), NEW steps \in Int, SampleAhead(rd, rd.pos, steps),
         GetSample(rd) = NoSample
  PROVE  steps >= 1 /\ SampleAhead(PsiForRunData(rd), PsiAt(rd.pos), steps - 1)
<1>1. /\ TextIsIndexed /\ RunsPartition /\ LFIsRight /\ SamplesAreRight /\ ix.n \in Nat \ {0}
      /\ DOMAIN sa = 0..(ix.n - 1) /\ \A p \in DOMAIN sa : sa[p] \in 0..(ix.n - 1)
  BY IndexFacts
<1> DEFINE q == rd.pos
           r == PsiAt(q)
<1>2. PICK k \in DOMAIN ix.run, l \in 0..steps :
        HeadSampled(k) /\ HeadAhead(k, l, q) /\ (l = 0 /\ HasRun => rd.isStart)
  BY DEF SampleAhead
<1>3. q \in DOMAIN sa /\ r \in DOMAIN sa /\ sa[r] = (sa[q] + 1) % ix.n
  BY <1>1, PsiIs
<1>4. HeadOf(k) \in DOMAIN sa /\ RunAt(HeadOf(k)) = k /\ l \in Int
  BY <1>1, RunBounds
<1>5. l # 0
  <2> SUFFICES ASSUME l = 0 PROVE FALSE
    OBVIOUS
  <2>1. sa[q] = sa[HeadOf(k)]
    <3>1. (sa[q] + 0) % ix.n = sa[HeadOf(k)]
      BY <1>2 DEF HeadAhead
    <3> DEFINE v == sa[q]
    <3>2. v \in 0..(ix.n - 1)
      BY <1>1, <1>3
    <3> HIDE DEF v
    <3>3. v + 0 = v /\ v % ix.n = v
      BY <1>1, <3>2, ModSmall
    <3>4. QED
      BY <3>1, <3>3 DEF v
  <2>2. q = HeadOf(k)
    BY <1>1, <1>3, <1>4, <2>1, SaHasOnce
  <2>3. AsksHead(rd, k)
    <3>1. CASE ix.layout = "position"
      BY <2>2, <3>1 DEF AsksHead
    <3>2. CASE ix.layout # "position"
      <4>1. HasRun /\ rd.isStart
        BY <1>2, <3>2 DEF HasRun
      <4>2. rd.c = ix.run[k].c /\ rd.rnk = RankInSymbol(k)
        BY <1>4, <2>2, <4>1 DEF TellsRun
      <4>3. QED
        BY <3>2, <4>1, <4>2 DEF AsksHead
    <3>3. QED
      BY <3>1, <3>2
  <2>4. GetSample(rd) = TextPos(sa, HeadOf(k)) /\ TextPos(sa, HeadOf(k)) # NoSample
    BY <1>1, <1>2, <2>3, SampleSays
  <2>5. QED
    BY <2>4
<1>6. steps >= 1 /\ l - 1 \in 0..(steps - 1) /\ l - 1 \in Int
  BY <1>5
<1>7. HeadAhead(k, l - 1, r)
  <2> DEFINE v == sa[q]
  <2>1. v \in Int
    BY <1>1, <1>3
  <2>2. (v + l) % ix.n = sa[HeadOf(k)]
    BY <1>2 DEF HeadAhead
  <2> HIDE DEF v
  <2>3. (((v + 1) % ix.n) + (l - 1)) % ix.n = ((v + 1) + (l - 1)) % ix.n
    <3> DEFINE a == v + 1
               d == l - 1
    <3>1. a \in Int /\ d \in Int
      BY <1>6, <2>1
    <3> HIDE DEF a, d
    <3>2. ((a % ix.n) + d) % ix.n = (a + d) % ix.n
      BY <1>1, <3>1, ModMod
    <3>3. QED
      BY <3>2 DEF a, d
  <2>4. (v + 1) + (l - 1) = v + l
    BY <1>4, <2>1
  <2>5. sa[r] = (v + 1) % ix.n
    BY <1>3 DEF v
  <2> HIDE DEF r
  <2>6. QED
    BY <2>2, <2>3, <2>4, <2>5 DEF HeadAhead
<1>8. ASSUME l - 1 = 0, HasRun
      PROVE  PsiForRunData(rd).isStart
  <2>1. sa[r] = sa[HeadOf(k)]
    <3>1. (sa[r] + 0) % ix.n = sa[HeadOf(k)]
      BY <1>7, <1>8 DEF HeadAhead
    <3> DEFINE v == sa[r]
    <3>2. v \in 0..(ix.n - 1)
      BY <1>1, <1>3
    <3> HIDE DEF v
    <3>3. v + 0 = v /\ v % ix.n = v
      BY <1>1, <3>2, ModSmall
    <3>4. QED
      BY <3>1, <3>3 DEF v
  <2>2. r = HeadOf(k)
    BY <1>1, <1>3, <1>4, <2>1, SaHasOnce
  <2>3. r = HeadOf(RunAt(r))
    BY <1>4, <2>2
  <2>4. QED
    BY <1>1, <1>8, <2>3, PsiForRunDataIs
<1> DEFINE rd2 == PsiForRunData(rd)
           l2 == l - 1
<1>9. l2 \in 0..(steps - 1) /\ HeadAhead(k, l2, r) /\ (l2 = 0 /\ HasRun => rd2.isStart)
  BY <1>6, <1>7, <1>8
<1> HIDE DEF rd2, r, l2
<1>10. SampleAhead(rd2, r, steps - 1)
  BY <1>2, <1>9 DEF SampleAhead
<1>11. QED
  BY <1>6, <1>10 DEF rd2, r

\* An r-csa has the sample of the head its toehold data name.
LEMMA ToeholdSample ==
  ASSUME IndexIsRight, ix.kind = "r", NEW first, NEW steps, ToeholdLeads(first, steps)
  PROVE  \E k \in DOMAIN ix.run :
           /\ HeadAhead(k, steps, first) /\ SampleAt(toehold.run) = TextPos(sa, HeadOf(k))
           /\ TextPos(sa, HeadOf(k)) \in 0..(ix.n - 1) /\ SampleAt(toehold.run) # NoSample
<1>1. TextIsIndexed /\ RunsPartition /\ SamplesAreRight
  BY IndexFacts
<1>2. ix.layout \in {"position", "psi"}
  BY DEF IndexIsRight
<1>3. PICK k \in DOMAIN ix.run : NamesHead(toehold.run, k) /\ HeadAhead(k, steps, first)
  BY DEF ToeholdLeads
<1>4. TextPos(sa, HeadOf(k)) \in 0..(ix.n - 1) /\ ix.n \in Nat
  BY <1>1, RunBounds, PositionsAre
<1>5. TextPos(sa, HeadOf(k)) # NoSample
  BY <1>4 DEF NoSample
<1>6. SampleAt(toehold.run) = TextPos(sa, HeadOf(k))
  <2>1. (IF ix.layout = "psi" THEN SampleByCharRun(ix.run[k].c, RankInSymbol(k))
         ELSE SampleByRankRun(HeadOf(k))) = TextPos(sa, HeadOf(k))
    BY <1>1 DEF SamplesAreRight
  <2>2. CASE ix.layout = "psi"
    <3>1. toehold.run.c = ix.run[k].c /\ toehold.run.rnk = RankInSymbol(k)
      BY <1>3, <2>2 DEF NamesHead, HasRun
    <3>2. SampleAt(toehold.run) = SampleByCharRun(toehold.run.c, toehold.run.rnk)
      BY <2>2 DEF SampleAt, SampleOfRun
    <3>3. QED
      BY <2>1, <2>2, <3>1, <3>2
  <2>3. CASE ix.layout = "position"
    <3>1. toehold.run.pos = HeadOf(k)
      BY <1>3, <2>3 DEF NamesHead, HasPosition
    <3>2. SampleAt(toehold.run) = SampleByRankRun(toehold.run.pos)
      BY <2>3 DEF SampleAt, SampleOfRun
    <3>3. QED
      BY <2>1, <2>3, <3>1, <3>2
  <2>4. QED
    BY <1>2, <2>2, <2>3
<1>7. QED
  BY <1>3, <1>4, <1>5, <1>6

\* No sample here: one psi step on, nearer to the sampled head ahead.
LEMMA ToeholdJumpKeeps ==
  ASSUME QueryInv, ToeholdJump
  PROVE  QueryInv'
<1> DEFINE rd == jump.run
           q == rd.pos
           j == jump.jumps
           rd2 == PsiForRunData(rd)
<1>1. /\ stage = "toehold" /\ SampleAt(rd) = NoSample
      /\ jump' = [run |-> rd2, jumps |-> j + 1]
      /\ UNCHANGED <<data, stage, query, left, range, toehold, frames, value, valid, out, found>>
  BY DEF ToeholdJump
<1>2. /\ Typed /\ IndexIsRight /\ FoundInv /\ JumpInv /\ ReportInv /\ BoundInv
  BY <1>1 DEF QueryInv
<1>3. /\ TextIsIndexed /\ RunsPartition /\ LFIsRight /\ SamplesAreRight /\ ix.n \in Nat \ {0}
      /\ DOMAIN sa = 0..(ix.n - 1) /\ \A p \in DOMAIN sa : sa[p] \in 0..(ix.n - 1)
      /\ IsSubsampled => ix.rate \in Nat \ {0}
      /\ IsSubsampled \/ ix.kind = "r" \/ ix.kind = "raw"
  BY <1>2, IndexFacts
<1>4. /\ op = "locate" /\ ix.kind # "raw" /\ range = found /\ ~IsEmpty(found)
      /\ frames = <<>> /\ out = <<>>
      /\ ix.kind = "r" =>
           jump.run = toehold.run /\ jump.jumps = 0 /\ ToeholdLeads(found.start, toehold.step + 1)
  BY <1>1, <1>2 DEF JumpInv
<1>5. /\ text' = text /\ sa' = sa /\ ix' = ix /\ op' = op /\ pat' = pat /\ left' = left
      /\ range' = range /\ toehold' = toehold /\ frames' = frames /\ value' = value
      /\ valid' = valid /\ out' = out /\ found' = found /\ stage' = "toehold"
  BY <1>1 DEF data, query
<1>6. /\ j \in Nat /\ rd \in RunDataRecord /\ toehold.step \in Nat
      /\ found.start \in Nat /\ found.end \in Nat
  BY <1>2 DEF Typed
<1>7. ix.kind # "r"
  <2> SUFFICES ASSUME ix.kind = "r" PROVE FALSE
    OBVIOUS
  <2>1. SampleAt(toehold.run) # NoSample
    BY <1>2, <1>4, ToeholdSample
  <2>2. QED
    BY <1>1, <1>4, <2>1
<1>8. IsSubsampled /\ GetSample(rd) = NoSample /\ ix.rate \in Nat \ {0}
  BY <1>1, <1>3, <1>4, <1>7 DEF SampleAt
<1>9. /\ q \in DOMAIN sa /\ TellsRun(rd, q) /\ j <= ix.rate
      /\ (sa[found.start] + toehold.step + 1 + j) % ix.n = sa[q]
      /\ SampleAhead(rd, q, ix.rate - j)
  BY <1>1, <1>2, <1>8 DEF JumpInv
<1>10. ix.rate - j \in Int
  BY <1>6, <1>8
<1>11. ix.rate - j >= 1 /\ SampleAhead(rd2, PsiAt(q), ix.rate - j - 1)
  <2> DEFINE steps == ix.rate - j
  <2>1. steps \in Int /\ SampleAhead(rd, q, steps)
    BY <1>9, <1>10
  <2> HIDE DEF steps, rd2
  <2>2. steps >= 1 /\ SampleAhead(PsiForRunData(rd), PsiAt(q), steps - 1)
    BY <1>2, <1>6, <1>8, <1>9, <2>1, JumpMoves
  <2>3. QED
    BY <2>2 DEF steps, rd2
<1>12. /\ rd2 \in RunDataRecord /\ rd2.pos = PsiAt(q) /\ TellsRun(rd2, PsiAt(q))
  BY <1>3, <1>6, <1>9, PsiForRunDataIs
<1>13. PsiAt(q) \in DOMAIN sa /\ sa[PsiAt(q)] = (sa[q] + 1) % ix.n
  BY <1>3, <1>9, PsiIs
<1>14. found.start \in DOMAIN sa
  <2>1. found.start < found.end /\ found.end <= ix.n
    BY <1>1, <1>2, <1>4 DEF FoundInv, IsEmpty
  <2>2. QED
    BY <1>3, <1>6, <2>1
<1>15. (sa[found.start] + toehold.step + 1 + (j + 1)) % ix.n = sa[PsiAt(q)]
  <2> DEFINE v == sa[found.start]
             a == v + toehold.step + 1 + j
  <2>1. v \in Int /\ a \in Int
    <3>1. v \in Int
      BY <1>3, <1>14
    <3> HIDE DEF v
    <3>2. QED
      BY <1>6, <3>1
  <2>2. v + toehold.step + 1 + (j + 1) = a + 1
    <3> HIDE DEF v
    <3>1. QED
      BY <1>6, <2>1
  <2>3. a % ix.n = sa[q]
    BY <1>9
  <2> HIDE DEF a, v
  <2>4. ((a % ix.n) + 1) % ix.n = (a + 1) % ix.n
    BY <1>3, <2>1, ModMod
  <2>5. (v + toehold.step + 1 + (j + 1)) % ix.n = sa[PsiAt(q)]
    BY <1>13, <2>2, <2>3, <2>4
  <2>6. QED
    BY <2>5 DEF v
<1> HIDE DEF rd2, q, j, rd
<1>16. jump'.run = rd2 /\ jump'.jumps = j + 1 /\ jump' \in [run : RunDataRecord, jumps : Nat]
  BY <1>1, <1>6, <1>12
<1>17. Typed'
  BY <1>2, <1>5, <1>16 DEF Typed
<1>18. j + 1 <= ix.rate /\ ix.rate - (j + 1) = ix.rate - j - 1
  BY <1>6, <1>8, <1>11
<1>19. JumpInv'
  <2>1. TellsRun(jump.run, jump.run.pos)'
    <3>1. TellsRun(rd2, PsiAt(q)) /\ jump'.run.pos = PsiAt(q)
      BY <1>12, <1>16
    <3> DEFINE r == PsiAt(q)
    <3> HIDE DEF r
    <3>2. HasRun => /\ rd2.c = ix.run[RunAt(r)].c /\ rd2.rnk = RankInSymbol(RunAt(r))
                    /\ rd2.isStart => r = HeadOf(RunAt(r))
      BY <3>1 DEF TellsRun, r
    <3>3. jump'.run.pos = r
      BY <3>1 DEF r
    <3>4. UNCHANGED data
      BY <1>1
    <3>5. RunAt(r)' = RunAt(r)' /\ \A p : RunAt(p)' = RunAt(p)
      BY <3>4, HeadsStay
    <3>6. \A k : RankInSymbol(k)' = RankInSymbol(k)
      BY <3>4, HeadsStay
    <3>7. \A k : HeadOf(k)' = HeadOf(k)
      BY <3>4, HeadsStay
    <3>8. HasRun' <=> HasRun
      BY <3>4, HeadsStay
    <3>9. RunAt(jump.run.pos)' = RunAt(r)
      BY <1>5, <3>3 DEF RunAt
    <3>10. RankInSymbol(RunAt(jump.run.pos))' = RankInSymbol(RunAt(r))
      BY <1>5, <3>9 DEF RankInSymbol
    <3>11. HeadOf(RunAt(jump.run.pos))' = HeadOf(RunAt(r))
      BY <1>5, <3>9 DEF HeadOf
    <3>12. HasRun' => /\ jump'.run.c = ix'.run[RunAt(jump.run.pos)'].c
                      /\ jump'.run.rnk = RankInSymbol(RunAt(jump.run.pos))'
                      /\ jump'.run.isStart => jump'.run.pos = HeadOf(RunAt(jump.run.pos))'
      BY <1>5, <1>16, <3>2, <3>3, <3>8, <3>9, <3>10, <3>11
    <3>13. QED
      BY <3>12 DEF TellsRun
  <2>2. SampleAhead(jump.run, jump.run.pos, ix.rate - jump.jumps)'
    <3> DEFINE r == PsiAt(q)
    <3>1. PICK k \in DOMAIN ix.run, l \in 0..(ix.rate - j - 1) :
            /\ HeadSampled(k) /\ HeadAhead(k, l, r)
            /\ l = 0 /\ HasRun => rd2.isStart
      BY <1>11 DEF SampleAhead
    <3>2. UNCHANGED data /\ jump'.run.pos = r
      BY <1>1, <1>12, <1>16
    <3> HIDE DEF r
    <3>3. HeadSampled(k)' /\ HeadAhead(k, l, jump.run.pos)' /\ (HasRun' <=> HasRun)
      BY <1>5, <3>1, <3>2, HeadsStay DEF HeadAhead, HeadOf
    <3>4. \E k_1 \in DOMAIN ix'.run, l_1 \in 0..(ix'.rate - jump'.jumps) :
            /\ HeadSampled(k_1)' /\ HeadAhead(k_1, l_1, jump.run.pos)'
            /\ l_1 = 0 /\ HasRun' => jump'.run.isStart
      BY <1>5, <1>16, <1>18, <3>1, <3>3
    <3>5. QED
      BY <3>4 DEF SampleAhead
  <2>3. (jump.run.pos \in DOMAIN sa
         /\ (sa[found.start] + toehold.step + 1 + jump.jumps) % ix.n = sa[jump.run.pos]
         /\ jump.jumps <= ix.rate)'
    BY <1>5, <1>12, <1>13, <1>15, <1>16, <1>18
  <2>4. (op = "locate" /\ ix.kind # "raw" /\ range = found /\ ~IsEmpty(found)
         /\ frames = <<>> /\ out = <<>> /\ ix.kind # "r")'
    BY <1>4, <1>5, <1>7 DEF IsEmpty
  <2>5. QED
    BY <2>1, <2>2, <2>3, <2>4 DEF JumpInv
<1>20. BoundInv'
  BY <1>5, <1>16, <1>18 DEF BoundInv
<1>21. FoundInv'
  BY <1>1, <1>2, <1>5 DEF FoundInv, InRange
<1>22. ReportInv'
  BY <1>2, <1>4, <1>5 DEF ReportInv, ReportsSuffixArray
<1>23. SearchInv' /\ ToeholdInv' /\ WalkInv'
  BY <1>5 DEF SearchInv, ToeholdInv, WalkInv
<1>24. QED
  BY <1>1, <1>2, <1>17, <1>19, <1>20, <1>21, <1>22, <1>23, IndexStays DEF QueryInv

\* A sample found is that of the position the jumps have reached.
LEMMA JumpSample ==
  ASSUME IndexIsRight, IsSubsampled, NEW rd, rd.pos \in DOMAIN sa, TellsRun(rd, rd.pos),
         GetSample(rd) # NoSample
  PROVE  GetSample(rd) = TextPos(sa, rd.pos)
<1>1. TextIsIndexed /\ RunsPartition /\ SamplesAreRight
  BY IndexFacts
<1>2. \E k \in DOMAIN ix.run : HeadOf(k) = rd.pos /\ AsksHead(rd, k)
  <2>1. CASE ix.layout = "position"
    <3>1. rd.pos \in ix.sampled
      BY <2>1 DEF GetSample, SampleAtPosition
    <3>2. PICK k \in DOMAIN ix.run : HeadOf(k) = rd.pos
      BY <1>1, <2>1, <3>1 DEF SamplesAreRight
    <3>3. QED
      BY <2>1, <3>2 DEF AsksHead
  <2>2. CASE ix.layout # "position"
    <3> DEFINE k == RunAt(rd.pos)
    <3>1. rd.isStart
      BY <2>2 DEF GetSample, SampleOfHead
    <3>2. rd.c = ix.run[k].c /\ rd.rnk = RankInSymbol(k) /\ rd.pos = HeadOf(k)
      BY <2>2, <3>1 DEF TellsRun, HasRun
    <3>3. k \in DOMAIN ix.run
      BY <1>1, RunOfPosition
    <3> HIDE DEF k
    <3>4. AsksHead(rd, k)
      BY <2>2, <3>1, <3>2 DEF AsksHead
    <3>5. QED
      BY <3>2, <3>3, <3>4
  <2>3. QED
    BY <2>1, <2>2
<1>3. PICK k \in DOMAIN ix.run : HeadOf(k) = rd.pos /\ AsksHead(rd, k)
  BY <1>2
<1>4. /\ HeadSampled(k) => GetSample(rd) = TextPos(sa, HeadOf(k))
      /\ ~HeadSampled(k) => GetSample(rd) = NoSample
  BY <1>1, <1>3, SampleSays
<1>5. QED
  BY <1>3, <1>4

\* ComputeToehold gives the value of the first position of the range.
LEMMA ToeholdIs ==
  ASSUME QueryInv, stage = "toehold", SampleAt(jump.run) # NoSample
  PROVE  Toehold = sa[found.start] /\ found.start \in DOMAIN sa
<1>1. Typed /\ IndexIsRight /\ FoundInv /\ JumpInv
  BY DEF QueryInv
<1>2. /\ TextIsIndexed /\ RunsPartition /\ ix.n \in Nat \ {0} /\ DOMAIN sa = 0..(ix.n - 1)
      /\ \A p \in DOMAIN sa : sa[p] \in 0..(ix.n - 1)
      /\ IsSubsampled \/ ix.kind = "r" \/ ix.kind = "raw"
  BY <1>1, IndexFacts
<1>3. /\ jump.jumps \in Nat /\ toehold.step \in Nat /\ found.start \in Nat /\ found.end \in Nat
      /\ found.start < found.end /\ found.end <= ix.n /\ ix.kind # "raw"
  BY <1>1 DEF Typed, FoundInv, JumpInv, IsEmpty
<1> DEFINE n == ix.n
           v == sa[found.start]
           s == SampleAt(jump.run)
           j == jump.jumps
           steps == toehold.step
<1>4. found.start \in DOMAIN sa
  BY <1>2, <1>3
<1>5. v \in 0..(n - 1) /\ n \in Nat \ {0} /\ j \in Nat /\ steps \in Nat
  BY <1>2, <1>3, <1>4
<1>6. \E p \in DOMAIN sa : s = TextPos(sa, p) /\ (v + steps + 1 + j) % n = sa[p]
  <2>1. CASE ix.kind = "r"
    <3>1. jump.run = toehold.run /\ j = 0 /\ ToeholdLeads(found.start, steps + 1)
      BY <1>1, <2>1 DEF JumpInv
    <3>2. PICK k \in DOMAIN ix.run :
            HeadAhead(k, steps + 1, found.start) /\ SampleAt(toehold.run) = TextPos(sa, HeadOf(k))
      BY <1>1, <2>1, <3>1, ToeholdSample
    <3>3. (v + (steps + 1)) % n = sa[HeadOf(k)]
      BY <3>2 DEF HeadAhead
    <3>4. v + (steps + 1) = v + steps + 1 + j
      <4>1. v \in Int
        BY <1>5
      <4> HIDE DEF v
      <4>2. QED
        BY <1>5, <3>1, <4>1
    <3>5. HeadOf(k) \in DOMAIN sa
      BY <1>2, RunBounds
    <3> HIDE DEF v, n
    <3>6. QED
      BY <3>1, <3>2, <3>3, <3>4, <3>5
  <2>2. CASE IsSubsampled
    <3>1. /\ jump.run.pos \in DOMAIN sa /\ TellsRun(jump.run, jump.run.pos)
          /\ (v + steps + 1 + j) % n = sa[jump.run.pos]
      BY <1>1, <2>2 DEF JumpInv
    <3>2. s = GetSample(jump.run)
      BY <2>2 DEF SampleAt, IsSubsampled
    <3>3. GetSample(jump.run) = TextPos(sa, jump.run.pos)
      BY <1>1, <2>2, <3>1, <3>2, JumpSample
    <3> HIDE DEF v, n, s
    <3>4. QED
      BY <3>1, <3>2, <3>3
  <2>3. QED
    BY <1>2, <1>3, <2>1, <2>2
<1>7. PICK p \in DOMAIN sa : s = TextPos(sa, p) /\ (v + steps + 1 + j) % n = sa[p]
  BY <1>6
<1> DEFINE w == sa[p]
<1>8. s \in 0..(n - 1) /\ w \in 0..(n - 1) /\ (s + 1) % n = w /\ (v + steps + 1 + j) % n = w
  BY <1>2, <1>7, TextPosAdd, PositionsAre
<1> HIDE DEF n, v, s, j, steps, w
<1>9. (((s + 1 + n - j) % n) + n - steps - 1) % n = v
  BY <1>5, <1>8, ToeholdValue
<1>10. QED
  BY <1>4, <1>9 DEF Toehold, n, v, s, j, steps

\* phi of a value, and phi where it is trusted.
LEMMA PhiIs ==
  ASSUME IndexIsRight, ix.kind # "raw", NEW p \in DOMAIN sa
  PROVE  /\ Phi(sa[p]).value \in DOMAIN sa /\ Phi(sa[p]).valid \in BOOLEAN
         /\ p # ix.n - 1 /\ Phi(sa[p]).valid => Phi(sa[p]).value = sa[p + 1]
         /\ p # ix.n - 1 /\ ix.kind = "r" => Phi(sa[p]).value = sa[p + 1]
<1>1. sa[p] \in DOMAIN sa
  BY IndexFacts
<1>2. PhiIsTrusted
  BY DEF IndexIsRight
<1>3. Phi(sa[p]) \in [value : DOMAIN sa, valid : BOOLEAN]
  BY <1>1, <1>2 DEF PhiIsTrusted
<1>4. p # ix.n - 1 /\ Phi(sa[p]).valid => Phi(sa[p]).value = sa[p + 1]
  BY <1>2 DEF PhiIsTrusted
<1>5. ix.kind = "r" => Phi(sa[p]).valid
  BY <1>1, <1>2 DEF PhiIsTrusted
<1>6. QED
  BY <1>3, <1>4, <1>5

\* What a step of the walk has to establish, said of the values it leaves.
LEMMA WalkFrom ==
  ASSUME UNCHANGED data, found' = found, op' = "locate", stage' = "phi",
         found.start < found.end, Len(out') <= found.end - found.start,
         ix.kind # "raw" => out' # <<>>,
         NEW next, next = found.start + Len(out'),
         ~IsSubsampled => frames' = <<>> /\ range' = [start |-> next, end |-> found.end],
         IsSubsampled => StackInv(frames', next, found.end),
         ix.kind \in {"r", "sr"} => value' = sa[next - 1],
         HasValidity /\ frames' # <<>> =>
           IF valid' THEN value' = sa[next] ELSE value' = Phi(sa[next - 1]).value
  PROVE  WalkInv'
<1>1. text' = text /\ sa' = sa /\ ix' = ix
  BY DEF data
<1>2. NextPosition' = next
  BY DEF NextPosition
<1>3. IsSubsampled' <=> IsSubsampled
  BY <1>1 DEF IsSubsampled
<1>4. IsSubsampled => StackInv(frames, NextPosition, found.end)'
  BY <1>2, StackStays
<1>5. Phi(sa[NextPosition - 1])' = Phi(sa[next - 1])
  BY <1>1, <1>2, PhiStays
<1>6. HasValidity' <=> HasValidity
  BY <1>1 DEF HasValidity
<1>7. (HasValidity /\ frames # <<>> =>
         IF valid THEN value = sa[NextPosition] ELSE value = Phi(sa[NextPosition - 1]).value)'
  BY <1>1, <1>2, <1>5, <1>6
<1>8. (IsSubsampled => StackInv(frames, NextPosition, found.end))'
  BY <1>3, <1>4
<1>9. (~IsSubsampled => frames = <<>> /\ range = [start |-> NextPosition, end |-> found.end])'
  BY <1>2, <1>3
<1>10. QED
  BY <1>1, <1>2, <1>7, <1>8, <1>9 DEF WalkInv

\* No position is pending.
LEMMA NothingPending ==
  ASSUME NEW next \in Nat
  PROVE  StackInv(<<>>, next, next)
<1>1. <<>> \in Seq(Frame) /\ DOMAIN <<>> = {}
  OBVIOUS
<1>2. \A p \in next .. (next - 1) : FALSE
  OBVIOUS
<1>3. QED
  BY <1>1, <1>2 DEF StackInv, RunsAreRight, RunsInside, RunsOrdered, RunsCover

\* The sample found gives the value of the first position of the range, and the
\* walk starts over the rest.
LEMMA ToeholdReportKeeps ==
  ASSUME QueryInv, ToeholdReport
  PROVE  QueryInv' /\ out' = <<sa[found.start]>>
<1> DEFINE first == found.start
           v == sa[first]
<1>1. /\ stage = "toehold" /\ SampleAt(jump.run) # NoSample /\ out' = <<Toehold>>
      /\ range' = UpdateRange(range)
      /\ IF HasValidity THEN StartWithValidity(Toehold, range') ELSE StartPlain(Toehold, range')
      /\ stage' = "phi"
      /\ UNCHANGED <<data, query, left, toehold, jump, found>>
  BY DEF ToeholdReport
<1>2. /\ Typed /\ IndexIsRight /\ FoundInv /\ JumpInv /\ ReportInv /\ BoundInv
  BY <1>1 DEF QueryInv
<1>3. /\ TextIsIndexed /\ RunsPartition /\ LFIsRight /\ SamplesAreRight /\ ix.n \in Nat \ {0}
      /\ DOMAIN sa = 0..(ix.n - 1) /\ \A p \in DOMAIN sa : sa[p] \in 0..(ix.n - 1)
      /\ IsSubsampled => ix.rate \in Nat \ {0}
      /\ IsSubsampled \/ ix.kind = "r" \/ ix.kind = "raw"
  BY <1>2, IndexFacts
<1>4. /\ op = "locate" /\ ix.kind # "raw" /\ range = found /\ found.start < found.end
      /\ frames = <<>>
  BY <1>1, <1>2 DEF JumpInv, IsEmpty
<1>5. /\ text' = text /\ sa' = sa /\ ix' = ix /\ op' = op /\ pat' = pat /\ left' = left
      /\ toehold' = toehold /\ jump' = jump /\ found' = found
  BY <1>1 DEF data, query
<1>6. /\ found \in [start : Nat, end : Nat] /\ first \in Nat /\ found.end \in Nat
      /\ found.end <= ix.n
  BY <1>1, <1>2 DEF Typed, FoundInv
<1>7. Toehold = v /\ first \in DOMAIN sa
  BY <1>1, ToeholdIs
<1>8. v \in 0..(ix.n - 1) /\ v \in DOMAIN sa /\ v \in Nat
  <2> HIDE DEF first
  <2>1. QED
    BY <1>3, <1>7
<1>9. /\ range' = [start |-> first + 1, end |-> found.end]
      /\ range'.start = first + 1 /\ range'.end = found.end /\ range' \in [start : Nat, end : Nat]
  <2>1. range' = [found EXCEPT !.start = @ + 1]
    BY <1>1, <1>4 DEF UpdateRange
  <2>2. range' = [start |-> first + 1, end |-> found.end]
    BY <1>6, <2>1
  <2> HIDE DEF first
  <2>3. first + 1 \in Nat
    BY <1>6
  <2>4. QED
    BY <1>6, <2>2, <2>3
<1>10. /\ IsEmpty(range') => first + 1 = found.end
       /\ ~IsEmpty(range') => first + 1 < found.end
  <2> HIDE DEF first
  <2>1. first < found.end
    BY <1>4 DEF first
  <2>2. QED
    BY <1>6, <1>9, <2>1 DEF IsEmpty
<1> DEFINE fs == <<[runs |-> SplitRange(range'), level |-> 1]>>
<1>11. ASSUME IsSubsampled, ~IsEmpty(range')
       PROVE  StackInv(fs, first + 1, found.end)
  <2> DEFINE rng == range'
  <2>1. /\ rng.start \in Nat /\ rng.end \in Nat /\ rng.start < rng.end /\ rng.end <= ix.n
        /\ rng.start = first + 1 /\ rng.end = found.end
    BY <1>6, <1>9, <1>10, <1>11
  <2> HIDE DEF rng
  <2>2. StackInv(<<[runs |-> SplitRange(rng), level |-> 1]>>, rng.start, rng.end)
    BY <1>3, <1>11, <2>1, FirstCall
  <2>3. QED
    BY <2>1, <2>2 DEF rng
<1>12. IsEmpty(range') => StackInv(<<>>, first + 1, found.end)
  <2> HIDE DEF first
  <2>1. first + 1 \in Nat
    BY <1>6
  <2>2. StackInv(<<>>, first + 1, first + 1)
    BY <2>1, NothingPending
  <2>3. QED
    BY <1>10, <2>2
<1> HIDE DEF fs
<1>13. /\ ~IsSubsampled => frames' = <<>>
       /\ IsSubsampled => (frames' = IF IsEmpty(range') THEN <<>> ELSE fs)
       /\ ~HasValidity \/ IsEmpty(range') => value' = v /\ valid' = valid
       /\ HasValidity /\ ~IsEmpty(range') => value' = Phi(v).value /\ valid' = Phi(v).valid
  <2>0. IsSubsampled <=> ix.kind # "r"
    BY <1>3, <1>4 DEF IsSubsampled
  <2>1. CASE HasValidity
    <3>1. ix.kind # "r"
      BY <2>1 DEF HasValidity
    <3>2. CASE IsEmpty(range')
      BY <1>1, <1>7, <2>0, <2>1, <3>1, <3>2 DEF StartWithValidity
    <3>3. CASE ~IsEmpty(range')
      BY <1>1, <1>7, <2>0, <2>1, <3>1, <3>3 DEF StartWithValidity, fs
    <3>4. QED
      BY <3>2, <3>3
  <2>2. CASE ~HasValidity
    <3>1. CASE ix.kind = "r" \/ IsEmpty(range')
      BY <1>1, <1>7, <2>0, <2>2, <3>1 DEF StartPlain
    <3>2. CASE ix.kind # "r" /\ ~IsEmpty(range')
      BY <1>1, <1>7, <2>0, <2>2, <3>2 DEF StartPlain, fs
    <3>3. QED
      BY <3>1, <3>2
  <2>3. QED
    BY <2>1, <2>2
<1>14. value' \in DOMAIN sa /\ valid' \in BOOLEAN
  <2>1. Phi(v).value \in DOMAIN sa /\ Phi(v).valid \in BOOLEAN
    BY <1>2, <1>4, <1>7, PhiIs
  <2>2. QED
    BY <1>2, <1>8, <1>13, <2>1 DEF Typed
<1>15. IsSubsampled => StackInv(frames', first + 1, found.end)
  BY <1>11, <1>12, <1>13
<1>16. out' = <<v>> /\ Len(out') = 1 /\ out' \in Seq(Nat) /\ out' # <<>>
  BY <1>1, <1>7, <1>8
<1>17. WalkInv'
  <2> DEFINE next == first + 1
  <2>1. next = found.start + Len(out') /\ Len(out') <= found.end - found.start
    BY <1>4, <1>6, <1>16
  <2>2. next - 1 = first
    BY <1>6
  <2>3. ~IsSubsampled => frames' = <<>> /\ range' = [start |-> next, end |-> found.end]
    BY <1>9, <1>13
  <2>4. ix.kind \in {"r", "sr"} => value' = sa[next - 1]
    <3>1. ix.kind \in {"r", "sr"} => ~HasValidity
      BY DEF HasValidity
    <3>2. QED
      BY <1>13, <2>2, <3>1
  <2>5. HasValidity /\ frames' # <<>> =>
           IF valid' THEN value' = sa[next] ELSE value' = Phi(sa[next - 1]).value
    <3> SUFFICES ASSUME HasValidity, frames' # <<>>
                 PROVE  IF valid' THEN value' = sa[next] ELSE value' = Phi(sa[next - 1]).value
      OBVIOUS
    <3>1. IsSubsampled
      BY DEF HasValidity, IsSubsampled
    <3>2. ~IsEmpty(range') /\ value' = Phi(v).value /\ valid' = Phi(v).valid
      BY <1>13, <3>1
    <3>3. first # ix.n - 1
      BY <1>3, <1>6, <1>10, <3>2
    <3>4. Phi(v).valid => Phi(v).value = sa[first + 1]
      BY <1>2, <1>4, <1>7, <3>3, PhiIs
    <3>5. QED
      BY <2>2, <3>2, <3>4
  <2>6. IsSubsampled => StackInv(frames', next, found.end)
    BY <1>15
  <2> HIDE DEF next
  <2>7. QED
    BY <1>1, <1>4, <1>5, <1>16, <2>1, <2>3, <2>4, <2>5, <2>6, WalkFrom
<1>18. Typed'
  <2>1. frames' \in Seq(Frame)
    <3>1. CASE frames' = <<>>
      BY <3>1
    <3>2. CASE frames' # <<>>
      BY <1>13, <1>15, <3>2 DEF StackInv
    <3>3. QED
      BY <3>1, <3>2
  <2>2. value' \in Nat
    BY <1>3, <1>14
  <2>3. QED
    BY <1>1, <1>2, <1>5, <1>9, <1>14, <1>16, <2>1, <2>2 DEF Typed
<1>19. ReportInv'
  <2>1. found.end - found.start >= 1
    BY <1>4, <1>6
  <2>2. DOMAIN out' = {1} /\ out'[1] = sa[found.start] /\ found.start + 1 - 1 = found.start
    BY <1>6, <1>16
  <2>3. QED
    BY <1>1, <1>5, <1>16, <2>1, <2>2 DEF ReportInv, ReportsSuffixArray
<1>20. FoundInv' /\ BoundInv'
  BY <1>1, <1>2, <1>5 DEF FoundInv, InRange, BoundInv
<1>21. SearchInv' /\ ToeholdInv' /\ JumpInv'
  BY <1>1 DEF SearchInv, ToeholdInv, JumpInv
<1>22. QED
  BY <1>1, <1>2, <1>16, <1>17, <1>18, <1>19, <1>20, <1>21, IndexStays DEF QueryInv

-----------------------------------------------------------------------------
(* The walk. *)

\* What every step of the walk starts from.
LEMMA WalkFacts ==
  ASSUME QueryInv, stage = "phi"
  PROVE  /\ Typed /\ IndexIsRight /\ FoundInv /\ WalkInv /\ ReportInv /\ BoundInv
         /\ op = "locate" /\ found.start \in Nat /\ found.end \in Nat /\ found.end <= ix.n
         /\ found.start < found.end
         /\ Len(out) \in Nat /\ Len(out) <= found.end - found.start
         /\ NextPosition \in Nat /\ NextPosition = found.start + Len(out)
         /\ NextPosition <= found.end
         /\ ix.kind # "raw" => NextPosition # 0 /\ NextPosition - 1 \in DOMAIN sa /\ out # <<>>
         /\ out \in Seq(Nat) /\ ReportsSuffixArray
<1>1. /\ Typed /\ IndexIsRight /\ FoundInv /\ WalkInv /\ ReportInv /\ BoundInv
  BY DEF QueryInv
<1>2. /\ op = "locate" /\ found.start \in Nat /\ found.end \in Nat /\ found.end <= ix.n
      /\ found.start < found.end
      /\ Len(out) <= found.end - found.start /\ out \in Seq(Nat)
      /\ ReportsSuffixArray
      /\ ix.kind # "raw" => out # <<>>
  BY <1>1 DEF Typed, FoundInv, WalkInv, ReportInv
<1>3. Len(out) \in Nat /\ (out # <<>> => Len(out) >= 1)
  BY <1>2
<1>4. DOMAIN sa = 0..(ix.n - 1) /\ ix.n \in Nat
  BY <1>1, IndexFacts
<1>5. NextPosition = found.start + Len(out)
  BY DEF NextPosition
<1> DEFINE a == found.start
           b == found.end
           l == Len(out)
           p == NextPosition
           n == ix.n
<1>6. /\ a \in Nat /\ b \in Nat /\ l \in Nat /\ a < b /\ b <= n /\ n \in Nat /\ l <= b - a
      /\ p = a + l
  BY <1>2, <1>3, <1>4, <1>5
<1>7. p \in Nat /\ p <= b /\ (l >= 1 => p # 0 /\ p - 1 \in 0..(n - 1))
  <2> HIDE DEF a, b, l, p, n
  <2>1. QED
    BY <1>6
<1>8. ix.kind # "raw" => NextPosition # 0 /\ NextPosition - 1 \in DOMAIN sa /\ out # <<>>
  BY <1>2, <1>3, <1>4, <1>7
<1>9. QED
  BY <1>1, <1>2, <1>3, <1>5, <1>7, <1>8

\* The current run starts with the image of the position reported next.
LEMMA RunFacts ==
  ASSUME QueryInv, Pending
  PROVE  /\ stage = "phi" /\ frames # <<>> /\ IsSubsampled /\ ix.kind # "raw" /\ ix.kind # "r"
         /\ (HasValidity \/ ix.kind = "sr")
         /\ StackInv(frames, NextPosition, found.end)
         /\ NextPosition \in DOMAIN sa /\ NextPosition < found.end
         /\ NextPosition - 1 \in DOMAIN sa \ {ix.n - 1} /\ (NextPosition - 1) + 1 = NextPosition
         /\ Top.level \in Nat \ {0} /\ Top.level <= ix.rate + 1 /\ ix.rate \in Nat \ {0}
         /\ RunIsRight(Run, Top.level) /\ Lo(Run, Top.level) = NextPosition /\ Run \in RunRecord
<1>1. stage = "phi" /\ frames # <<>>
  BY DEF Pending
<1>2. /\ Typed /\ IndexIsRight /\ WalkInv /\ NextPosition \in Nat /\ found.end \in Nat
      /\ found.end <= ix.n
      /\ ix.kind # "raw" => NextPosition # 0 /\ NextPosition - 1 \in DOMAIN sa
  BY <1>1, WalkFacts
<1>3. IsSubsampled /\ StackInv(frames, NextPosition, found.end)
  BY <1>1, <1>2 DEF WalkInv
<1>4. ix.kind # "raw" /\ ix.kind # "r" /\ (HasValidity \/ ix.kind = "sr")
  BY <1>3 DEF IsSubsampled, HasValidity
<1>5. TextIsIndexed /\ ix.rate \in Nat \ {0} /\ ix.n \in Nat \ {0} /\ DOMAIN sa = 0..(ix.n - 1)
  BY <1>2, <1>3, IndexFacts
<1>6. /\ TopRun(frames) \in RunRecord /\ TopLevel(frames) \in Nat \ {0}
      /\ TopLevel(frames) <= ix.rate + 1 /\ RunIsRight(TopRun(frames), TopLevel(frames))
      /\ Lo(TopRun(frames), TopLevel(frames)) = NextPosition
      /\ Hi(TopRun(frames), TopLevel(frames)) \in Nat
      /\ NextPosition < Hi(TopRun(frames), TopLevel(frames))
      /\ Hi(TopRun(frames), TopLevel(frames)) <= found.end
  BY <1>1, <1>2, <1>3, <1>5, TopEnds
<1>7. Run = TopRun(frames) /\ Top.level = TopLevel(frames)
  BY DEF Run, Top, TopRun, TopLevel
<1> DEFINE p == NextPosition
           h == Hi(TopRun(frames), TopLevel(frames))
<1>8. p \in Nat /\ p # 0 /\ h \in Nat /\ p < h /\ h <= found.end
  BY <1>2, <1>4, <1>6
<1> HIDE DEF p, h
<1>9. p < found.end /\ p \in DOMAIN sa /\ p - 1 \in DOMAIN sa \ {ix.n - 1} /\ (p - 1) + 1 = p
  BY <1>2, <1>5, <1>8
<1>10. QED
  BY <1>1, <1>3, <1>4, <1>5, <1>6, <1>7, <1>9 DEF p

\* At the limit no psi step passed a sampled head, so phi is right.
LEMMA LimitIsRight ==
  ASSUME QueryInv, Pending, AtLimit
  PROVE  Phi(sa[NextPosition - 1]).value = sa[NextPosition]
<1> DEFINE p == NextPosition
           level == Top.level
<1>1. /\ IsSubsampled /\ level \in Nat \ {0} /\ level <= ix.rate + 1 /\ ix.rate \in Nat \ {0}
      /\ RunIsRight(Run, level) /\ Lo(Run, level) = p /\ Run \in RunRecord
      /\ p - 1 \in DOMAIN sa \ {ix.n - 1} /\ (p - 1) + 1 = p
  BY RunFacts
<1>2. PhiRightPastSamples
  BY WalkFacts DEF IndexIsRight, Pending
<1>3. ix.rate < level
  BY DEF AtLimit
<1> HIDE DEF level, p
<1>4. level - 2 = ix.rate - 1
  BY <1>1, <1>3
<1>5. Run.start \in Run.start .. (Run.end - 1) /\ Image(Run.start, Run.end, level)
  <2>1. Run.start \in Nat /\ Run.end \in Nat /\ Run.start < Run.end
        /\ Image(Run.start, Run.end, level)
    BY <1>1 DEF RunIsRight, RunRecord
  <2>2. QED
    BY <2>1
<1>6. Origin(Run.start, level) = p
  BY <1>1 DEF Lo
<1>7. \A k \in DOMAIN ix.run, l \in 0..(ix.rate - 1) : HeadSampled(k) => ~HeadAhead(k, l, p)
  BY <1>4, <1>5, <1>6 DEF Image
<1>8. \A k \in DOMAIN ix.run, l \in 0..(ix.rate - 1) :
        HeadSampled(k) => ~HeadAhead(k, l, (p - 1) + 1)
  BY <1>1, <1>7
<1> DEFINE r == p - 1
<1>9. r \in DOMAIN sa \ {ix.n - 1} /\ r + 1 = p
  BY <1>1
<1> HIDE DEF r
<1>10. Phi(sa[r]).value = sa[r + 1]
  BY <1>1, <1>2, <1>7, <1>9 DEF PhiRightPastSamples
<1>11. QED
  BY <1>9, <1>10 DEF r, p

\* The values reported after a step that reports the entry of the next position.
LEMMA ReportIs ==
  ASSUME QueryInv, stage = "phi", NextPosition < found.end, found' = found, UNCHANGED data,
         out' = Append(out, sa[NextPosition])
  PROVE  /\ out' \in Seq(Nat) /\ ReportsSuffixArray' /\ out' # <<>>
         /\ Len(out') <= found.end - found.start
         /\ NextPosition + 1 = found.start + Len(out')
<1>1. /\ found.start \in Nat /\ found.end \in Nat /\ found.end <= ix.n
      /\ Len(out) \in Nat /\ Len(out) <= found.end - found.start /\ NextPosition \in Nat
      /\ NextPosition = found.start + Len(out) /\ out \in Seq(Nat) /\ ReportsSuffixArray
      /\ IndexIsRight
  BY WalkFacts
<1>2. /\ ix.n \in Nat /\ DOMAIN sa = 0..(ix.n - 1) /\ \A p \in DOMAIN sa : sa[p] \in 0..(ix.n - 1)
  BY <1>1, IndexFacts
<1> DEFINE p == NextPosition
           v == sa[p]
<1>3. p \in DOMAIN sa /\ v \in Nat
  <2>1. p \in DOMAIN sa
    BY <1>1, <1>2
  <2> HIDE DEF p
  <2>2. QED
    BY <1>2, <2>1
<1>4. out' \in Seq(Nat) /\ Len(out') = Len(out) + 1 /\ out' # <<>>
  BY <1>1, <1>3
<1>5. Len(out') <= found.end - found.start /\ NextPosition + 1 = found.start + Len(out')
  BY <1>1, <1>4
<1>6. ASSUME NEW k \in DOMAIN out' PROVE out'[k] = sa[found.start + k - 1]
  <2>1. CASE k = Len(out) + 1
    <3>1. out'[k] = v
      BY <1>1, <1>3, <2>1
    <3>2. p = found.start + k - 1
      BY <1>1, <2>1
    <3>3. QED
      BY <3>1, <3>2
  <2>2. CASE k # Len(out) + 1
    <3>1. k \in DOMAIN out /\ out'[k] = out[k]
      BY <1>1, <1>3, <1>4, <2>2
    <3>2. QED
      BY <1>1, <3>1 DEF ReportsSuffixArray
  <2>3. QED
    BY <2>1, <2>2
<1>7. ReportsSuffixArray'
  BY <1>6 DEF ReportsSuffixArray, data
<1>8. QED
  BY <1>4, <1>5, <1>7

\* A step of the walk leaves QueryInv when its registers stand for the position
\* that is next after it.
LEMMA WalkKeeps ==
  ASSUME QueryInv, stage = "phi", stage' = "phi",
         UNCHANGED <<data, query, left, toehold, jump, found>>,
         range' \in [start : Nat, end : Nat], valid' \in BOOLEAN, value' \in Nat,
         NEW next,
         \/ out' = out /\ next = NextPosition
         \/ /\ out' = Append(out, sa[NextPosition]) /\ next = NextPosition + 1
            /\ NextPosition < found.end,
         ~IsSubsampled => frames' = <<>> /\ range' = [start |-> next, end |-> found.end],
         IsSubsampled => StackInv(frames', next, found.end),
         ix.kind \in {"r", "sr"} => value' = sa[next - 1],
         HasValidity /\ frames' # <<>> =>
           IF valid' THEN value' = sa[next] ELSE value' = Phi(sa[next - 1]).value
  PROVE  QueryInv'
<1>1. /\ Typed /\ IndexIsRight /\ FoundInv /\ WalkInv /\ ReportInv /\ BoundInv
      /\ op = "locate" /\ found.start \in Nat /\ found.end \in Nat /\ found.start < found.end
      /\ Len(out) \in Nat /\ Len(out) <= found.end - found.start
      /\ NextPosition = found.start + Len(out)
      /\ ix.kind # "raw" => out # <<>>
      /\ out \in Seq(Nat) /\ ReportsSuffixArray
  BY WalkFacts
<1>2. /\ text' = text /\ sa' = sa /\ ix' = ix /\ op' = op /\ pat' = pat /\ left' = left
      /\ toehold' = toehold /\ jump' = jump /\ found' = found /\ UNCHANGED data
  BY DEF data, query
<1>3. /\ out' \in Seq(Nat) /\ ReportsSuffixArray' /\ (ix.kind # "raw" => out' # <<>>)
      /\ Len(out') <= found.end - found.start
      /\ next = found.start + Len(out')
  <2>1. CASE out' = out /\ next = NextPosition
    <3>1. ReportsSuffixArray'
      BY <1>1, <1>2, <2>1 DEF ReportsSuffixArray
    <3>2. QED
      BY <1>1, <2>1, <3>1
  <2>2. CASE /\ out' = Append(out, sa[NextPosition]) /\ next = NextPosition + 1
             /\ NextPosition < found.end
    BY <1>2, <2>2, ReportIs
  <2>3. QED
    BY <2>1, <2>2
<1>4. WalkInv'
  BY <1>1, <1>2, <1>3, WalkFrom
<1>5. frames' \in Seq(Frame)
  <2>1. CASE ~IsSubsampled
    BY <2>1
  <2>2. CASE IsSubsampled
    BY <2>2 DEF StackInv
  <2>3. QED
    BY <2>1, <2>2
<1>6. Typed'
  BY <1>1, <1>2, <1>3, <1>5 DEF Typed
<1>7. ReportInv'
  BY <1>2, <1>3 DEF ReportInv
<1>8. FoundInv' /\ BoundInv'
  BY <1>1, <1>2 DEF FoundInv, InRange, BoundInv
<1>9. SearchInv' /\ ToeholdInv' /\ JumpInv'
  BY DEF SearchInv, ToeholdInv, JumpInv
<1>10. QED
  BY <1>1, <1>2, <1>4, <1>6, <1>7, <1>8, <1>9, IndexStays DEF QueryInv

\* What a step of the walk with neither samples nor calls takes for granted.
LEMMA PlainFacts ==
  ASSUME QueryInv, stage = "phi", ~IsSubsampled, range.start < range.end
  PROVE  /\ range = [start |-> NextPosition, end |-> found.end] /\ frames = <<>>
         /\ NextPosition < found.end /\ NextPosition \in DOMAIN sa /\ sa[NextPosition] \in Nat
         /\ [range EXCEPT !.start = @ + 1] = [start |-> NextPosition + 1, end |-> found.end]
         /\ [start |-> NextPosition + 1, end |-> found.end] \in [start : Nat, end : Nat]
         /\ (NextPosition + 1) - 1 = NextPosition
         /\ value \in Nat /\ valid \in BOOLEAN
<1>1. /\ Typed /\ IndexIsRight /\ WalkInv /\ NextPosition \in Nat /\ found.end \in Nat
      /\ found.end <= ix.n
  BY WalkFacts
<1> DEFINE p == NextPosition
           b == found.end
<1>2. range = [start |-> p, end |-> b] /\ frames = <<>>
  BY <1>1 DEF WalkInv
<1>3. p \in Nat /\ b \in Nat /\ b <= ix.n /\ value \in Nat /\ valid \in BOOLEAN
  BY <1>1 DEF Typed
<1>4. ix.n \in Nat /\ DOMAIN sa = 0..(ix.n - 1) /\ \A q \in DOMAIN sa : sa[q] \in 0..(ix.n - 1)
  BY <1>1, IndexFacts
<1> HIDE DEF p, b
<1>5. p < b
  BY <1>2
<1>6. p \in DOMAIN sa /\ sa[p] \in Nat
  <2>1. p \in DOMAIN sa
    BY <1>3, <1>4, <1>5
  <2>2. QED
    BY <1>4, <2>1
<1>7. [range EXCEPT !.start = @ + 1] = [start |-> p + 1, end |-> b]
  BY <1>2
<1>8. [start |-> p + 1, end |-> b] \in [start : Nat, end : Nat] /\ (p + 1) - 1 = p
  BY <1>3
<1>9. QED
  BY <1>2, <1>3, <1>5, <1>6, <1>7, <1>8 DEF p, b

\* A CSARaw reads the value off the suffix array.
LEMMA RawStepKeeps ==
  ASSUME QueryInv, RawStep
  PROVE  QueryInv' /\ out' = Append(out, sa[NextPosition]) /\ NextPosition < found.end
<1>1. /\ stage = "phi" /\ ix.kind = "raw" /\ range.start < range.end
      /\ out' = Append(out, sa[range.start])
      /\ range' = [range EXCEPT !.start = @ + 1]
      /\ stage' = stage /\ frames' = frames /\ value' = value /\ valid' = valid
      /\ UNCHANGED <<data, query, left, toehold, jump, found>>
  BY DEF RawStep, Report, IsEmpty
<1>2. ~IsSubsampled /\ ~HasValidity
  BY <1>1 DEF IsSubsampled, HasValidity
<1>3. /\ range = [start |-> NextPosition, end |-> found.end] /\ frames = <<>>
      /\ NextPosition < found.end
      /\ range' = [start |-> NextPosition + 1, end |-> found.end]
      /\ range' \in [start : Nat, end : Nat] /\ value' \in Nat /\ valid' \in BOOLEAN
  BY <1>1, <1>2, PlainFacts
<1>4. out' = Append(out, sa[NextPosition])
  <2> DEFINE p == NextPosition
             b == found.end
  <2>1. range = [start |-> p, end |-> b]
    BY <1>3
  <2> HIDE DEF p, b
  <2>2. range.start = p
    BY <2>1
  <2>3. QED
    BY <1>1, <2>2 DEF p
<1> DEFINE next == NextPosition + 1
<1>5. next = NextPosition + 1 /\ range' = [start |-> next, end |-> found.end]
  BY <1>3
<1> HIDE DEF next
<1>6. QED
  BY <1>1, <1>2, <1>3, <1>4, <1>5, WalkKeeps

\* One phi of the plain loop of the r-csa: phi is right wherever it uses it.
LEMMA PhiStepKeeps ==
  ASSUME QueryInv, PhiStep
  PROVE  QueryInv' /\ out' = Append(out, sa[NextPosition]) /\ NextPosition < found.end
<1>1. /\ stage = "phi" /\ ix.kind = "r" /\ range.start < range.end
      /\ value' = Phi(value).value /\ out' = Append(out, value')
      /\ range' = [range EXCEPT !.start = @ + 1]
      /\ stage' = stage /\ frames' = frames /\ valid' = valid
      /\ UNCHANGED <<data, query, left, toehold, jump, found>>
  BY DEF PhiStep, Report, IsEmpty, PhiSimple
<1>2. ~IsSubsampled /\ ~HasValidity
  BY <1>1 DEF IsSubsampled, HasValidity
<1>3. /\ frames = <<>> /\ NextPosition < found.end
      /\ NextPosition \in DOMAIN sa /\ sa[NextPosition] \in Nat
      /\ range' = [start |-> NextPosition + 1, end |-> found.end]
      /\ range' \in [start : Nat, end : Nat] /\ valid' \in BOOLEAN
      /\ (NextPosition + 1) - 1 = NextPosition
  BY <1>1, <1>2, PlainFacts
<1>4. /\ IndexIsRight /\ WalkInv /\ NextPosition \in Nat /\ NextPosition # 0
      /\ NextPosition - 1 \in DOMAIN sa /\ found.end \in Nat /\ found.end <= ix.n
  BY <1>1, WalkFacts
<1>5. value = sa[NextPosition - 1]
  BY <1>1, <1>4 DEF WalkInv
<1>6. value' = sa[NextPosition]
  <2> DEFINE q == NextPosition - 1
  <2>1. q \in DOMAIN sa /\ q + 1 = NextPosition /\ q # ix.n - 1
    <3>1. ix.n \in Nat
      BY <1>4, IndexFacts
    <3>2. QED
      BY <1>3, <1>4, <3>1
  <2> HIDE DEF q
  <2>2. Phi(sa[q]).value = sa[q + 1]
    BY <1>1, <1>4, <2>1, PhiIs
  <2>3. QED
    BY <1>1, <1>5, <2>1, <2>2 DEF q
<1> DEFINE next == NextPosition + 1
<1>7. /\ next = NextPosition + 1 /\ range' = [start |-> next, end |-> found.end]
      /\ value' = sa[next - 1] /\ value' \in Nat /\ out' = Append(out, sa[NextPosition])
  BY <1>1, <1>3, <1>6
<1> HIDE DEF next
<1>8. QED
  BY <1>1, <1>2, <1>3, <1>7, WalkKeeps

\* A step of an SrCSA that reports the entry of the next position.
LEMMA PlainReport ==
  ASSUME QueryInv, Pending, ~HasValidity, value' = sa[NextPosition],
         out' = Append(out, value'), StackInv(frames', NextPosition + 1, found.end),
         UNCHANGED <<data, stage, query, left, range, toehold, jump, valid, found>>
  PROVE  QueryInv' /\ out' = Append(out, sa[NextPosition]) /\ NextPosition < found.end
<1>1. /\ stage = "phi" /\ IsSubsampled /\ NextPosition < found.end /\ NextPosition \in DOMAIN sa
  BY RunFacts
<1>2. Typed /\ IndexIsRight /\ NextPosition \in Nat
  BY <1>1, WalkFacts
<1> DEFINE next == NextPosition + 1
<1>3. next = NextPosition + 1 /\ next - 1 = NextPosition /\ StackInv(frames', next, found.end)
  BY <1>2
<1>4. range' \in [start : Nat, end : Nat] /\ valid' \in BOOLEAN
  BY <1>2 DEF Typed
<1>5. value' \in Nat
  <2>1. sa[NextPosition] \in 0..(ix.n - 1)
    BY <1>1, <1>2, IndexFacts
  <2>2. QED
    BY <2>1
<1>6. value' = sa[next - 1]
  BY <1>3
<1> HIDE DEF next
<1>7. QED
  BY <1>1, <1>3, <1>4, <1>5, <1>6, WalkKeeps

\* What a step of the walk knows of the calls pending.
LEMMA CallFacts ==
  ASSUME QueryInv, Pending
  PROVE  /\ TextIsIndexed /\ RunsPartition /\ LFIsRight /\ SamplesAreRight /\ IsSubsampled
         /\ NextPosition \in Nat /\ found.end \in Nat /\ StackInv(frames, NextPosition, found.end)
         /\ frames # <<>> /\ IndexIsRight /\ stage = "phi"
<1>1. IsSubsampled /\ StackInv(frames, NextPosition, found.end) /\ frames # <<>> /\ stage = "phi"
  BY RunFacts
<1>2. IndexIsRight /\ NextPosition \in Nat /\ found.end \in Nat
  BY <1>1, WalkFacts
<1>3. TextIsIndexed /\ RunsPartition /\ LFIsRight /\ SamplesAreRight
  BY <1>2, IndexFacts
<1>4. QED
  BY <1>1, <1>2, <1>3

\* A step of an SrCSA that finds a sample, and follows the rest of the run.
LEMMA TakeSampleKeeps ==
  ASSUME QueryInv, TakeSample
  PROVE  QueryInv' /\ out' = Append(out, sa[NextPosition]) /\ NextPosition < found.end
<1>1. /\ Pending /\ ~HasValidity /\ ~AtLimit /\ RunSample # NoSample
      /\ value' = ValueOfSample /\ out' = Append(out, value') /\ frames' = Follow(Shrunk(Run))
      /\ UNCHANGED <<data, stage, query, left, range, toehold, jump, valid, found>>
  BY DEF TakeSample, Report
<1> DEFINE p == NextPosition
           b == found.end
<1>2. /\ TextIsIndexed /\ RunsPartition /\ LFIsRight /\ SamplesAreRight /\ IsSubsampled
      /\ p \in Nat /\ b \in Nat /\ StackInv(frames, p, b) /\ frames # <<>>
  BY <1>1, CallFacts
<1> HIDE DEF p, b
<1>3. StackInv(Follow(Shrunk(Run)), p + 1, b)
  BY <1>1, <1>2, TakeFollows
<1>4. ValueOfSample = sa[p]
  BY <1>1, <1>2, SampleOfRunIs
<1>5. StackInv(frames', NextPosition + 1, found.end) /\ value' = sa[NextPosition]
  BY <1>1, <1>3, <1>4 DEF p, b
<1>6. QED
  BY <1>1, <1>5, PlainReport

\* A step of an SrCSA at the limit, where only phi is left.
LEMMA TakePhiKeeps ==
  ASSUME QueryInv, TakePhi
  PROVE  QueryInv' /\ out' = Append(out, sa[NextPosition]) /\ NextPosition < found.end
<1>1. /\ Pending /\ ~HasValidity /\ AtLimit
      /\ value' = Phi(value).value /\ out' = Append(out, value') /\ frames' = ShrinkRun
      /\ UNCHANGED <<data, stage, query, left, range, toehold, jump, valid, found>>
  BY DEF TakePhi, Report, PhiSimple
<1> DEFINE p == NextPosition
           b == found.end
<1>2. /\ TextIsIndexed /\ RunsPartition /\ LFIsRight /\ SamplesAreRight /\ IsSubsampled
      /\ p \in Nat /\ b \in Nat /\ StackInv(frames, p, b) /\ frames # <<>> /\ stage = "phi"
  BY <1>1, CallFacts
<1> HIDE DEF p, b
<1>3. StackInv(ShrinkRun, p + 1, b)
  BY <1>2, ShrinkKeeps
<1>4. StackInv(frames', NextPosition + 1, found.end)
  BY <1>1, <1>3 DEF p, b
<1>5. ix.kind = "sr"
  BY <1>1, RunFacts
<1>6. value = sa[NextPosition - 1]
  BY <1>2, <1>5, WalkFacts DEF WalkInv
<1>7. value' = sa[NextPosition]
  BY <1>1, <1>6, LimitIsRight
<1>8. QED
  BY <1>1, <1>4, <1>7, PlainReport

\* A value that is trusted, or that phi computed at the limit, is right.
LEMMA TrustedIsRight ==
  ASSUME QueryInv, Pending, HasValidity, valid \/ AtLimit
  PROVE  value = sa[NextPosition]
<1>1. WalkInv /\ stage = "phi" /\ frames # <<>>
  BY WalkFacts DEF Pending
<1>2. IF valid THEN value = sa[NextPosition] ELSE value = Phi(sa[NextPosition - 1]).value
  BY <1>1 DEF WalkInv
<1>3. CASE valid
  BY <1>2, <1>3
<1>4. CASE ~valid
  BY <1>2, <1>4, LimitIsRight
<1>5. QED
  BY <1>3, <1>4

\* SrCSAValidMark and SrCSAValidArea report a value they trust and compute the
\* next one.
LEMMA ReportTrustedKeeps ==
  ASSUME QueryInv, ReportTrusted
  PROVE  QueryInv' /\ out' = Append(out, sa[NextPosition]) /\ NextPosition < found.end
<1>1. /\ Pending /\ HasValidity /\ (valid \/ AtLimit) /\ out' = Append(out, value)
      /\ frames' = ShrinkRun /\ value' = Phi(value).value /\ valid' = Phi(value).valid
      /\ stage' = stage /\ range' = range
      /\ UNCHANGED <<data, query, left, toehold, jump, found>>
  BY DEF ReportTrusted, Report
<1>2. value = sa[NextPosition]
  BY <1>1, TrustedIsRight
<1> DEFINE p == NextPosition
           b == found.end
<1>3. /\ TextIsIndexed /\ RunsPartition /\ LFIsRight /\ SamplesAreRight /\ IsSubsampled
      /\ p \in Nat /\ b \in Nat /\ StackInv(frames, p, b) /\ frames # <<>>
      /\ IndexIsRight /\ stage = "phi"
  BY <1>1, CallFacts
<1>4. /\ p \in DOMAIN sa /\ p < b /\ ix.kind # "raw" /\ ix.kind \notin {"r", "sr"}
      /\ ix.rate \in Nat \ {0}
  BY <1>1, RunFacts DEF HasValidity
<1>5. Typed /\ b <= ix.n
  BY <1>3, WalkFacts
<1> HIDE DEF p, b
<1>6. StackInv(ShrinkRun, p + 1, b)
  BY <1>3, ShrinkKeeps
<1>7. ShrinkRun # <<>> => p # ix.n - 1
  <2> SUFFICES ASSUME ShrinkRun # <<>> PROVE p # ix.n - 1
    OBVIOUS
  <2> DEFINE fs == ShrinkRun
             h == Hi(TopRun(fs), TopLevel(fs))
             q == p + 1
  <2>1. fs # <<>> /\ StackInv(fs, q, b) /\ q \in Nat /\ b \in Nat /\ ix.rate \in Nat
    BY <1>3, <1>4, <1>6
  <2> HIDE DEF fs, q
  <2>2. h \in Nat /\ q < h /\ h <= b
    BY <1>3, <2>1, TopEnds
  <2>3. ix.n \in Nat
    BY <1>3, IndexFacts
  <2> HIDE DEF h
  <2>4. QED
    BY <1>3, <1>5, <2>2, <2>3 DEF q
<1>8. /\ Phi(sa[p]).value \in DOMAIN sa /\ Phi(sa[p]).valid \in BOOLEAN
      /\ p # ix.n - 1 /\ Phi(sa[p]).valid => Phi(sa[p]).value = sa[p + 1]
  BY <1>3, <1>4, PhiIs
<1> DEFINE next == p + 1
<1>9. next = NextPosition + 1 /\ next - 1 = NextPosition
  BY <1>3 DEF p
<1>10. StackInv(frames', next, found.end)
  BY <1>1, <1>6 DEF b
<1>11. value' \in Nat /\ valid' \in BOOLEAN
  <2>1. DOMAIN sa = 0..(ix.n - 1)
    BY <1>3, IndexFacts
  <2>2. QED
    BY <1>1, <1>2, <1>8, <2>1 DEF p
<1>12. frames' # <<>> =>
         IF valid' THEN value' = sa[next] ELSE value' = Phi(sa[next - 1]).value
  <2>1. frames' # <<>> /\ valid' => value' = sa[next]
    BY <1>1, <1>2, <1>7, <1>8 DEF p
  <2>2. value' = Phi(sa[next - 1]).value
    BY <1>1, <1>2, <1>9
  <2>3. QED
    BY <2>1, <2>2
<1>13. range' \in [start : Nat, end : Nat]
  BY <1>1, <1>5 DEF Typed
<1>14. out' = Append(out, sa[NextPosition]) /\ NextPosition < found.end
  BY <1>1, <1>2, <1>4 DEF p, b
<1> HIDE DEF next
<1>15. QED
  BY <1>1, <1>3, <1>4, <1>9, <1>10, <1>11, <1>12, <1>13, <1>14, WalkKeeps

\* A sample replaces a value that is not trusted.
LEMMA UseSampleKeeps ==
  ASSUME QueryInv, UseSample
  PROVE  QueryInv' /\ out' = out
<1>1. /\ Pending /\ HasValidity /\ ~AtLimit /\ RunSample # NoSample
      /\ value' = ValueOfSample /\ valid' = TRUE /\ frames' = frames /\ out' = out
      /\ stage' = stage /\ range' = range
      /\ UNCHANGED <<data, query, left, toehold, jump, found>>
  BY DEF UseSample
<1> DEFINE p == NextPosition
           b == found.end
<1>2. /\ TextIsIndexed /\ RunsPartition /\ LFIsRight /\ SamplesAreRight /\ IsSubsampled
      /\ p \in Nat /\ b \in Nat /\ StackInv(frames, p, b) /\ frames # <<>>
      /\ IndexIsRight /\ stage = "phi"
  BY <1>1, CallFacts
<1>3. Typed
  BY <1>2, WalkFacts
<1> HIDE DEF p, b
<1>4. value' = sa[p] /\ p \in DOMAIN sa
  BY <1>1, <1>2, SampleOfRunIs
<1>5. sa[p] \in Nat
  <2>1. sa[p] \in 0..(ix.n - 1)
    BY <1>2, <1>4, IndexFacts
  <2>2. QED
    BY <2>1
<1>6. ix.kind \notin {"r", "sr"}
  BY <1>1 DEF HasValidity
<1>7. range' \in [start : Nat, end : Nat] /\ valid' \in BOOLEAN /\ value' \in Nat
  BY <1>1, <1>3, <1>4, <1>5 DEF Typed
<1>8. StackInv(frames', p, found.end) /\ p = NextPosition
  BY <1>1, <1>2 DEF p, b
<1>9. HasValidity /\ frames' # <<>> =>
        IF valid' THEN value' = sa[p] ELSE value' = Phi(sa[p - 1]).value
  BY <1>1, <1>4
<1>10. QED
  BY <1>1, <1>2, <1>6, <1>7, <1>8, <1>9, WalkKeeps

\* One psi step of the recursion: the run is replaced by its images.
LEMMA DescendKeeps ==
  ASSUME QueryInv, Descend
  PROVE  QueryInv' /\ out' = out
<1>1. /\ Pending /\ ~AtLimit /\ RunSample = NoSample
      /\ value' = value /\ valid' = valid /\ frames' = Follow(Run) /\ out' = out
      /\ stage' = stage /\ range' = range
      /\ UNCHANGED <<data, query, left, toehold, jump, found>>
  BY DEF Descend
<1> DEFINE p == NextPosition
           b == found.end
<1>2. /\ TextIsIndexed /\ RunsPartition /\ LFIsRight /\ SamplesAreRight /\ IsSubsampled
      /\ p \in Nat /\ b \in Nat /\ StackInv(frames, p, b) /\ frames # <<>>
      /\ IndexIsRight /\ stage = "phi"
  BY <1>1, CallFacts
<1>3. Typed /\ WalkInv
  BY <1>2, WalkFacts
<1> HIDE DEF p, b
<1>4. StackInv(Follow(Run), p, b)
  BY <1>1, <1>2, DescendFollows
<1>5. StackInv(frames', p, found.end) /\ p = NextPosition
  BY <1>1, <1>4 DEF p, b
<1>6. range' \in [start : Nat, end : Nat] /\ valid' \in BOOLEAN /\ value' \in Nat
  BY <1>1, <1>3 DEF Typed
<1>7. /\ ix.kind \in {"r", "sr"} => value' = sa[p - 1]
      /\ HasValidity /\ frames' # <<>> =>
           IF valid' THEN value' = sa[p] ELSE value' = Phi(sa[p - 1]).value
  BY <1>1, <1>2, <1>3, <1>5 DEF WalkInv
<1>8. QED
  BY <1>1, <1>2, <1>5, <1>6, <1>7, WalkKeeps

\* When every call has returned every position of the range was reported.
LEMMA AnswerKeeps ==
  ASSUME QueryInv, Answer
  PROVE  /\ QueryInv' /\ out' = out /\ found' = found
         /\ Len(out) = found.end - found.start
<1>1. /\ stage = "phi" /\ frames = <<>>
      /\ ix.kind \in {"raw", "r"} => ~(range.start < range.end)
      /\ stage' = "answered"
      /\ UNCHANGED <<data, query, left, range, toehold, jump, frames, value, valid, out, found>>
  BY DEF Answer, IsEmpty
<1>2. /\ Typed /\ IndexIsRight /\ FoundInv /\ WalkInv /\ ReportInv /\ BoundInv
      /\ found.start \in Nat /\ found.end \in Nat
      /\ Len(out) \in Nat /\ Len(out) <= found.end - found.start
      /\ NextPosition = found.start + Len(out) /\ NextPosition <= found.end
      /\ NextPosition \in Nat
  BY <1>1, WalkFacts
<1> DEFINE p == NextPosition
           b == found.end
<1>3. p \in Nat /\ b \in Nat /\ p <= b
  BY <1>2
<1>4. p = b
  <2>1. CASE ~IsSubsampled
    <3>1. range = [start |-> p, end |-> b]
      BY <1>1, <1>2, <2>1 DEF WalkInv
    <3>2. ix.kind \in {"raw", "r"}
      BY <1>2, <2>1, IndexFacts
    <3> HIDE DEF p, b
    <3>3. ~(p < b)
      BY <1>1, <3>1, <3>2
    <3>4. QED
      BY <1>3, <3>3
  <2>2. CASE IsSubsampled
    <3>1. RunsCover(<<>>, p, b)
      BY <1>1, <1>2, <2>2 DEF WalkInv, StackInv
    <3> HIDE DEF p, b
    <3>2. \A q \in p .. (b - 1) : FALSE
      BY <3>1 DEF RunsCover
    <3>3. QED
      BY <1>3, <3>2
  <2>3. QED
    BY <2>1, <2>2
<1>5. Len(out) = found.end - found.start
  BY <1>2, <1>4
<1>6. /\ text' = text /\ sa' = sa /\ ix' = ix /\ op' = op /\ pat' = pat /\ left' = left
      /\ toehold' = toehold /\ jump' = jump /\ found' = found /\ UNCHANGED data
  BY <1>1 DEF data, query
<1>7. Typed'
  BY <1>1, <1>2, <1>6 DEF Typed
<1>8. ReportInv'
  BY <1>1, <1>2, <1>5, <1>6 DEF ReportInv, ReportsSuffixArray
<1>9. FoundInv' /\ BoundInv'
  BY <1>1, <1>2, <1>6 DEF FoundInv, InRange, BoundInv
<1>10. SearchInv' /\ ToeholdInv' /\ JumpInv' /\ WalkInv'
  BY <1>1 DEF SearchInv, ToeholdInv, JumpInv, WalkInv
<1>11. QED
  BY <1>1, <1>2, <1>5, <1>6, <1>7, <1>8, <1>9, <1>10, IndexStays DEF QueryInv

\* A step that changes nothing keeps the invariant.
LEMMA NothingKeeps ==
  ASSUME QueryInv, UNCHANGED vars
  PROVE  QueryInv'
<1>1. /\ text' = text /\ sa' = sa /\ ix' = ix /\ stage' = stage /\ op' = op /\ pat' = pat
      /\ left' = left /\ range' = range /\ toehold' = toehold /\ jump' = jump
      /\ frames' = frames /\ value' = value /\ valid' = valid /\ out' = out /\ found' = found
      /\ UNCHANGED data
  BY DEF vars, data, query
<1>2. /\ Typed /\ SearchInv /\ ToeholdInv /\ FoundInv /\ JumpInv /\ ReportInv /\ BoundInv
      /\ stage # "off" => IndexIsRight
  BY DEF QueryInv
<1>3. Typed' /\ SearchInv' /\ FoundInv' /\ ReportInv' /\ BoundInv'
  <2>1. Typed'
    BY <1>1, <1>2 DEF Typed
  <2>2. SearchInv'
    BY <1>1, <1>2 DEF SearchInv, RangeIsSuffix, InRange
  <2>3. FoundInv' /\ ReportInv' /\ BoundInv'
    BY <1>1, <1>2 DEF FoundInv, InRange, ReportInv, ReportsSuffixArray, BoundInv
  <2>4. QED
    BY <2>1, <2>2, <2>3
<1>4. stage' # "off" => IndexIsRight'
  BY <1>1, <1>2, IndexStays
<1>5. ToeholdInv'
  <2> SUFFICES ASSUME stage = "search", op = "locate", left < Len(pat), ~IsEmpty(range)
               PROVE  toehold.step >= left
                      /\ ToeholdLeads(range.start, toehold.step - left + 1)'
    BY <1>1 DEF ToeholdInv, IsEmpty
  <2> DEFINE first == range.start
             steps == toehold.step - left + 1
  <2>1. toehold.step >= left /\ ToeholdLeads(first, steps)
    BY <1>2 DEF ToeholdInv
  <2> HIDE DEF first, steps
  <2>2. PICK k \in DOMAIN ix.run : NamesHead(toehold.run, k) /\ HeadAhead(k, steps, first)
    BY <2>1 DEF ToeholdLeads
  <2>3. NamesHead(toehold.run, k)' /\ HeadAhead(k, toehold.step - left + 1, range.start)'
    BY <1>1, <2>2
    DEF NamesHead, HeadAhead, HeadOf, RankInSymbol, HasPosition, HasRun, IsSubsampled, first, steps
  <2>4. ToeholdLeads(range.start, toehold.step - left + 1)'
    BY <1>1, <2>3 DEF ToeholdLeads
  <2>5. QED
    BY <2>1, <2>4
<1>6. JumpInv'
  <2> SUFFICES ASSUME stage = "toehold"
               PROVE  JumpInv'
    BY <1>1 DEF JumpInv
  <2> DEFINE q == jump.run.pos
             first == found.start
             ahead == toehold.step + 1
             steps == ix.rate - jump.jumps
  <2>1. /\ op = "locate" /\ ix.kind # "raw" /\ range = found /\ ~IsEmpty(found)
        /\ frames = <<>> /\ out = <<>>
        /\ ix.kind = "r" =>
             jump.run = toehold.run /\ jump.jumps = 0 /\ ToeholdLeads(first, ahead)
        /\ IsSubsampled =>
             /\ q \in DOMAIN sa
             /\ (sa[found.start] + toehold.step + 1 + jump.jumps) % ix.n = sa[q]
             /\ TellsRun(jump.run, q)
             /\ jump.jumps <= ix.rate
             /\ SampleAhead(jump.run, q, steps)
    BY <1>2 DEF JumpInv
  <2>2. IsSubsampled' <=> IsSubsampled
    BY <1>1 DEF IsSubsampled
  <2>3. ToeholdLeads(first, ahead) => ToeholdLeads(found.start, toehold.step + 1)'
    <3> SUFFICES ASSUME ToeholdLeads(first, ahead)
                 PROVE  ToeholdLeads(found.start, toehold.step + 1)'
      OBVIOUS
    <3>1. PICK k \in DOMAIN ix.run : NamesHead(toehold.run, k) /\ HeadAhead(k, ahead, first)
      BY DEF ToeholdLeads
    <3>2. NamesHead(toehold.run, k)' /\ HeadAhead(k, toehold.step + 1, found.start)'
      BY <1>1, <3>1
      DEF NamesHead, HeadAhead, HeadOf, RankInSymbol, HasPosition, HasRun, IsSubsampled
    <3>3. QED
      BY <1>1, <3>2 DEF ToeholdLeads
  <2>4. TellsRun(jump.run, q) => TellsRun(jump.run, jump.run.pos)'
    BY <1>1 DEF TellsRun, HasRun, RunAt, RankInSymbol, HeadOf
  <2>5. SampleAhead(jump.run, q, steps)
          => SampleAhead(jump.run, jump.run.pos, ix.rate - jump.jumps)'
    <3> SUFFICES ASSUME SampleAhead(jump.run, q, steps)
                 PROVE  SampleAhead(jump.run, jump.run.pos, ix.rate - jump.jumps)'
      OBVIOUS
    <3>1. PICK k \in DOMAIN ix.run, l \in 0..(ix.rate - jump.jumps) :
            HeadSampled(k) /\ HeadAhead(k, l, q) /\ (l = 0 /\ HasRun => jump.run.isStart)
      BY DEF SampleAhead
    <3> HIDE DEF q
    <3>2. HeadSampled(k)' /\ (HasRun' <=> HasRun)
      BY <1>1, <3>1, HeadsStay
    <3>3. HeadAhead(k, l, jump.run.pos)'
      BY <1>1, <3>1 DEF HeadAhead, HeadOf, q
    <3>4. \E k_1 \in DOMAIN ix'.run, l_1 \in 0..(ix'.rate - jump'.jumps) :
            /\ HeadSampled(k_1)' /\ HeadAhead(k_1, l_1, jump.run.pos)'
            /\ l_1 = 0 /\ HasRun' => jump'.run.isStart
      BY <1>1, <3>1, <3>2, <3>3
    <3>5. QED
      BY <3>4 DEF SampleAhead
  <2>6. (op = "locate" /\ ix.kind # "raw" /\ range = found /\ ~IsEmpty(found)
         /\ frames = <<>> /\ out = <<>>
         /\ (ix.kind = "r" => jump.run = toehold.run /\ jump.jumps = 0)
         /\ (IsSubsampled =>
               /\ jump.run.pos \in DOMAIN sa
               /\ (sa[found.start] + toehold.step + 1 + jump.jumps) % ix.n = sa[jump.run.pos]
               /\ jump.jumps <= ix.rate))'
    BY <1>1, <2>1, <2>2 DEF IsEmpty
  <2>7. ix.kind = "r" => ToeholdLeads(found.start, toehold.step + 1)'
    BY <2>1, <2>3
  <2>8. IsSubsampled => /\ TellsRun(jump.run, jump.run.pos)'
                        /\ SampleAhead(jump.run, jump.run.pos, ix.rate - jump.jumps)'
    BY <2>1, <2>4, <2>5
  <2>9. ix'.kind = ix.kind
    BY <1>1
  <2> HIDE DEF q, first, ahead, steps
  <2>10. QED
    BY <2>2, <2>6, <2>7, <2>8, <2>9 DEF JumpInv
<1>7. CASE stage = "phi"
  <2> DEFINE p == NextPosition
             b == found.end
  <2>1. Typed /\ WalkInv
    BY <1>7, WalkFacts
  <2>2. /\ ~IsSubsampled => frames = <<>> /\ range = [start |-> p, end |-> b]
        /\ IsSubsampled => StackInv(frames, p, b)
        /\ ix.kind \in {"r", "sr"} => value = sa[p - 1]
        /\ HasValidity /\ frames # <<>> =>
             IF valid THEN value = sa[p] ELSE value = Phi(sa[p - 1]).value
    BY <1>7, <2>1 DEF WalkInv
  <2>3. range' \in [start : Nat, end : Nat] /\ valid' \in BOOLEAN /\ value' \in Nat
    BY <1>1, <2>1 DEF Typed
  <2>4. UNCHANGED <<data, query, left, toehold, jump, found>>
    BY DEF vars
  <2>5. p = NextPosition /\ b = found.end
    OBVIOUS
  <2> HIDE DEF p, b
  <2>6. /\ ~IsSubsampled => frames' = <<>> /\ range' = [start |-> p, end |-> found.end]
        /\ ix.kind \in {"r", "sr"} => value' = sa[p - 1]
        /\ HasValidity /\ frames' # <<>> =>
             IF valid' THEN value' = sa[p] ELSE value' = Phi(sa[p - 1]).value
    BY <1>1, <2>2, <2>5
  <2>7. IsSubsampled => StackInv(frames', p, found.end)
    BY <1>1, <2>2, <2>5
  <2>8. QED
    BY <1>1, <1>7, <2>3, <2>4, <2>5, <2>6, <2>7, WalkKeeps
<1>8. CASE stage # "phi"
  <2>1. WalkInv'
    BY <1>1, <1>8 DEF WalkInv
  <2>2. QED
    BY <1>3, <1>4, <1>5, <1>6, <2>1 DEF QueryInv
<1>9. QED
  BY <1>7, <1>8

\* Every step keeps the invariant of the queries.
LEMMA StepKeeps ==
  ASSUME QueryInv, [Next]_vars
  PROVE  QueryInv'
<1>1. CASE Query
  BY <1>1, QueryKeeps
<1>2. CASE SearchStep
  BY <1>2, SearchStepKeeps
<1>3. CASE SearchEnd
  BY <1>3, SearchEndKeeps
<1>4. CASE ToeholdJump
  BY <1>4, ToeholdJumpKeeps
<1>5. CASE ToeholdReport
  BY <1>5, ToeholdReportKeeps
<1>6. CASE RawStep
  BY <1>6, RawStepKeeps
<1>7. CASE PhiStep
  BY <1>7, PhiStepKeeps
<1>8. CASE TakeSample
  BY <1>8, TakeSampleKeeps
<1>9. CASE TakePhi
  BY <1>9, TakePhiKeeps
<1>10. CASE ReportTrusted
  BY <1>10, ReportTrustedKeeps
<1>11. CASE UseSample
  BY <1>11, UseSampleKeeps
<1>12. CASE Descend
  BY <1>12, DescendKeeps
<1>13. CASE Answer
  BY <1>13, AnswerKeeps
<1>14. CASE UNCHANGED vars
  BY <1>14, NothingKeeps
<1>15. QED
  BY <1>1, <1>2, <1>3, <1>4, <1>5, <1>6, <1>7, <1>8, <1>9, <1>10, <1>11, <1>12, <1>13, <1>14
  DEF Next, Step

\* The stack of calls stands for the positions not reported yet.
LEMMA RestFollows ==
  ASSUME QueryInv
  PROVE  PendingIsRest
<1> SUFFICES ASSUME stage = "phi", ix.kind \notin {"raw", "r"}
             PROVE  PendingIsRest
  BY DEF PendingIsRest
<1> DEFINE next == NextPosition
           b == found.end
           Seen(f, k) == {(sa[q] + ix.n + 1 - frames[f].level) % ix.n :
                            q \in frames[f].runs[k].start .. (frames[f].runs[k].end - 1)}
           Rest == {sa[p] : p \in next .. (b - 1)}
<1>1. /\ WalkInv /\ IndexIsRight /\ next \in Nat /\ b \in Nat
  BY WalkFacts
<1>2. IsSubsampled
  BY <1>1, IndexFacts
<1>3. /\ StackInv(frames, next, b) /\ TextIsIndexed /\ ix.n \in Nat \ {0} /\ ix.rate \in Nat
      /\ DOMAIN sa = 0..(ix.n - 1) /\ \A p \in DOMAIN sa : sa[p] \in 0..(ix.n - 1)
  BY <1>1, <1>2, IndexFacts DEF WalkInv
<1>4. ASSUME NEW f \in DOMAIN frames, NEW k \in DOMAIN frames[f].runs,
             NEW q \in frames[f].runs[k].start .. (frames[f].runs[k].end - 1)
      PROVE  /\ sa[Origin(q, frames[f].level)] = (sa[q] + ix.n + 1 - frames[f].level) % ix.n
             /\ Origin(q, frames[f].level) \in next .. (b - 1)
             /\ Origin(q, frames[f].level) = Lo(frames[f].runs[k], frames[f].level)
                                               + (q - frames[f].runs[k].start)
  <2> DEFINE run == frames[f].runs[k]
             level == frames[f].level
  <2>1. /\ run \in RunRecord /\ RunIsRight(run, level) /\ level \in Nat \ {0}
        /\ Lo(run, level) \in Nat /\ Hi(run, level) \in Nat
    BY <1>3, <1>4, StackTypes
  <2>2. next <= Lo(run, level) /\ Hi(run, level) <= b
    BY <1>3 DEF StackInv, RunsInside
  <2>3. q \in run.start .. (run.end - 1)
    BY <1>4
  <2> HIDE DEF run, level
  <2>4. /\ run.start \in Nat /\ run.end \in Nat /\ run.end <= ix.n
        /\ Origin(q, level) = Origin(run.start, level) + (q - run.start)
    BY <2>1, <2>3 DEF RunRecord, RunIsRight, Image
  <2>5. q \in DOMAIN sa
    BY <1>3, <2>3, <2>4
  <2> DEFINE o == Origin(q, level)
             lo == Lo(run, level)
             hi == Hi(run, level)
  <2>6. o \in DOMAIN sa /\ (sa[o] + level - 1) % ix.n = sa[q]
    BY <1>3, <2>1, <2>5, OriginType
  <2>7. o = lo + (q - run.start) /\ hi = lo + (run.end - run.start)
    BY <2>4 DEF Lo, Hi
  <2>8. /\ lo \in Nat /\ hi \in Nat /\ next <= lo /\ hi <= b /\ q \in Int
    BY <2>1, <2>2, <2>3, <2>4
  <2> HIDE DEF o, lo, hi, next, b
  <2>9. o \in next .. (b - 1)
    BY <1>1, <2>3, <2>4, <2>7, <2>8
  <2>10. sa[o] = (sa[q] + ix.n + 1 - level) % ix.n
    <3> DEFINE v == sa[o]
               w == sa[q]
               n == ix.n
    <3>1. v \in 0..(n - 1) /\ w \in 0..(n - 1) /\ n \in Nat \ {0} /\ (v + level - 1) % n = w
      BY <1>3, <2>5, <2>6
    <3> HIDE DEF v, w, n
    <3>2. (v + (level - 1)) % n = w /\ v + (level - 1) \in Int /\ n + 1 - level \in Int
      BY <2>1, <3>1
    <3>3. (((v + (level - 1)) % n) + (n + 1 - level)) % n = (v + (level - 1) + (n + 1 - level)) % n
      BY <3>1, <3>2, ModMod
    <3>4. v + (level - 1) + (n + 1 - level) = v + n /\ w + (n + 1 - level) = w + n + 1 - level
      BY <2>1, <3>1
    <3>5. (v + n) % n = v
      BY <3>1, SMT
    <3>6. (w + n + 1 - level) % n = v
      BY <3>2, <3>3, <3>4, <3>5
    <3>7. QED
      BY <3>6 DEF v, w, n
  <2>11. QED
    BY <2>7, <2>9, <2>10 DEF run, level, o, lo
<1>5. ASSUME NEW f \in DOMAIN frames, NEW k \in DOMAIN frames[f].runs, NEW v \in Seen(f, k)
      PROVE  v \in Rest
  <2>1. PICK q \in frames[f].runs[k].start .. (frames[f].runs[k].end - 1) :
          v = (sa[q] + ix.n + 1 - frames[f].level) % ix.n
    BY <1>5
  <2> HIDE DEF next, b
  <2>2. QED
    BY <1>4, <2>1
<1>6. ASSUME NEW p \in next .. (b - 1)
      PROVE  \E f \in DOMAIN frames : \E k \in DOMAIN frames[f].runs : sa[p] \in Seen(f, k)
  <2>1. PICK f \in DOMAIN frames : \E k \in DOMAIN frames[f].runs :
          Lo(frames[f].runs[k], frames[f].level) <= p
          /\ p < Hi(frames[f].runs[k], frames[f].level)
    BY <1>3, <1>6 DEF StackInv, RunsCover
  <2>2. PICK k \in DOMAIN frames[f].runs :
          Lo(frames[f].runs[k], frames[f].level) <= p
          /\ p < Hi(frames[f].runs[k], frames[f].level)
    BY <2>1
  <2> DEFINE run == frames[f].runs[k]
             level == frames[f].level
             lo == Lo(run, level)
             q == run.start + (p - lo)
  <2>3. run \in RunRecord /\ Lo(run, level) \in Nat /\ RunIsRight(run, level)
    BY <1>3, StackTypes
  <2>4. lo \in Nat /\ run.start \in Nat /\ run.end \in Nat /\ lo <= p /\ p \in Int
        /\ p < lo + (run.end - run.start)
    BY <1>1, <2>2, <2>3 DEF RunRecord, Lo, Hi
  <2> HIDE DEF run, level, lo
  <2>5. q \in run.start .. (run.end - 1) /\ lo + (q - run.start) = p
    BY <2>4
  <2> HIDE DEF q, next, b
  <2>6. sa[p] = (sa[q] + ix.n + 1 - level) % ix.n
    BY <1>4, <2>5 DEF run, level, lo
  <2>7. sa[p] \in Seen(f, k)
    BY <2>5, <2>6 DEF run, level
  <2>8. QED
    BY <2>7
<1>7. UNION {UNION {Seen(f, k) : k \in DOMAIN frames[f].runs} : f \in DOMAIN frames} = Rest
  <2> HIDE DEF Seen
  <2>1. ASSUME NEW v \in Rest
        PROVE  v \in UNION {UNION {Seen(f, k) : k \in DOMAIN frames[f].runs} : f \in DOMAIN frames}
    <3>1. PICK p \in next .. (b - 1) : v = sa[p]
      OBVIOUS
    <3>2. QED
      BY <1>6, <3>1
  <2> HIDE DEF Rest
  <2>2. QED
    BY <1>5, <2>1
<1>8. frames # <<>> => (sa[Run.start] + ix.n + 1 - Top.level) % ix.n = sa[next]
  <2> SUFFICES ASSUME frames # <<>>
               PROVE  (sa[Run.start] + ix.n + 1 - Top.level) % ix.n = sa[next]
    OBVIOUS
  <2>1. Lo(Run, Top.level) = next
    BY RunFacts DEF Pending
  <2>2. /\ Top.runs # <<>> /\ RunIsRight(TopRun(frames), TopLevel(frames))
        /\ frames \in Seq(Frame)
    BY <1>1, <1>3, TopEnds DEF StackInv, Top
  <2>3. /\ Len(frames) \in DOMAIN frames /\ frames[Len(frames)] = Top
        /\ 1 \in DOMAIN Top.runs /\ Top.runs[1] = TopRun(frames)
        /\ TopRun(frames) \in RunRecord
    BY <2>2, TopIs DEF Top
  <2>4. TopRun(frames) = Run /\ TopLevel(frames) = Top.level
    BY DEF TopRun, TopLevel, Run, Top
  <2> DEFINE f == Len(frames)
             q == Run.start
  <2>5. f \in DOMAIN frames /\ frames[f] = Top /\ 1 \in DOMAIN Top.runs /\ Top.runs[1] = Run
    BY <2>3, <2>4
  <2>6. q \in Run.start .. (Run.end - 1)
    <3>1. Run.start \in Nat /\ Run.end \in Nat /\ Run.start < Run.end
      BY <2>2, <2>3, <2>4 DEF RunRecord, RunIsRight
    <3>2. QED
      BY <3>1
  <2> HIDE DEF f, q, next, b
  <2>7. /\ sa[Origin(q, Top.level)] = (sa[q] + ix.n + 1 - Top.level) % ix.n
        /\ Origin(q, Top.level) = Lo(Run, Top.level) + (q - Run.start)
    BY <1>4, <2>5, <2>6
  <2>8. Origin(q, Top.level) = Lo(Run, Top.level)
    BY DEF Lo, q
  <2>9. QED
    BY <2>1, <2>7, <2>8 DEF q
<1>9. QED
  BY <1>7, <1>8 DEF PendingIsRest

\* The invariant gives the safety properties of the queries.
LEMMA SafetyFollows ==
  ASSUME QueryInv, ix.rate \in Nat
  PROVE  ReportsSuffixArray /\ PendingIsRest /\ ToeholdBounded
<1>1. ReportsSuffixArray
  BY DEF QueryInv, ReportInv
<1>2. ToeholdBounded
  BY DEF QueryInv, Typed, BoundInv, ToeholdBounded
<1>3. QED
  BY <1>1, <1>2, RestFollows

-----------------------------------------------------------------------------
(* The samples an index keeps, as the queries look them up. *)

\* The partial rank of a run, past the runs of the symbols below, is its index among
\* all runs in the order of the alphabet.
LEMMA InAlphabetIs ==
  ASSUME TextIsBuilt, ItemsAreRight, HasItems(ix), NEW i \in 0..(Size(base.run) - 1)
  PROVE  InAlphabet(ByAlphabet(base.run)[i]) = i
<1> DEFINE n == Size(text)
           run == base.run
           r == Size(run)
           k == ByAlphabet(run)[i]
           c == run[k].c
           A == {m \in DOMAIN run : run[m].c < c}
           B == {m \in DOMAIN run : m < k /\ run[m].c = c}
<1>1. /\ Tiles(n, base.bwt, run, r) /\ base.C = Cumulative(base.bwt) /\ base.bwt = BWT(text, sa)
      /\ n \in Nat \ {0}
  BY DEF ItemsAreRight
<1>2. Compact(base.bwt, n)
  BY <1>1, BuiltText
<1> HIDE DEF n, r, run
<1>3. /\ DOMAIN run = 0..(r - 1) /\ r \in Nat \ {0} /\ i \in 0..(r - 1)
      /\ \A m \in 0..(r - 1) : run[m].c \in Nat
  BY <1>1 DEF Tiles, run, r
<1>4. k \in 0..(r - 1) /\ Cardinality({m \in DOMAIN run : AlphabetBefore(run, m, k)}) = i
  <2>1. /\ ByAlphabet(run) \in [0..(r - 1) -> 0..(r - 1)]
        /\ \A j \in 0..(r - 1) :
             Cardinality({m \in DOMAIN run : AlphabetBefore(run, m, ByAlphabet(run)[j])}) = j
    BY <1>1, ByAlphabetIs
  <2>2. QED
    BY <1>3, <2>1
<1> HIDE DEF k
<1>5. c \in Nat
  BY <1>3, <1>4
<1>6. RunsBelow(c) = Cardinality(A)
  <2>1. CASE c = 0
    <3>1. A = {}
      BY <1>3, <2>1
    <3>2. QED
      BY <2>1, <3>1, FS_EmptySet DEF RunsBelow
  <2>2. CASE c # 0
    <3>1. ix.cumRuns = [d \in 0..(Size(base.C) - 2) |-> Cardinality({m \in DOMAIN run : run[m].c <= d})]
      BY DEF HasItems, CumulativeRuns, run
    <3>2. c - 1 \in 0..(Size(base.C) - 2)
      <4>1. PICK s : CountsOf(n, base.bwt, base.C, s)
        BY <1>1, <1>2, CountsAre
      <4>2. /\ s \in Nat \ {0} /\ Size(base.C) = s + 1
            /\ \A p \in 0..(n - 1) : base.bwt[p] \in 0..(s - 1)
        BY <4>1 DEF CountsOf
      <4>3. /\ run[k].start \in 0..(n - 1) /\ run[k].end \in Nat /\ run[k].start < run[k].end
            /\ \A p \in run[k].start .. (run[k].end - 1) : base.bwt[p] = run[k].c
        BY <1>1, <1>4 DEF Tiles
      <4>4. run[k].start \in run[k].start .. (run[k].end - 1)
        BY <1>1, <4>3
      <4>5. c \in 0..(s - 1)
        BY <4>2, <4>3, <4>4
      <4>6. QED
        BY <1>5, <2>2, <4>2, <4>5
    <3>3. {m \in DOMAIN run : run[m].c <= c - 1} = A
      <4> HIDE DEF c
      <4>1. \A m \in DOMAIN run : run[m].c <= c - 1 <=> run[m].c < c
        BY <1>3, <1>5
      <4>2. QED
        BY <4>1
    <3>4. ix.cumRuns[c - 1] = Cardinality(A)
      <4> DEFINE d == c - 1
      <4>1. d \in 0..(Size(base.C) - 2) /\ {m \in DOMAIN run : run[m].c <= d} = A
        BY <3>2, <3>3
      <4> HIDE DEF d, A
      <4>2. ix.cumRuns[d] = Cardinality({m \in DOMAIN run : run[m].c <= d})
        BY <3>1, <4>1
      <4>3. QED
        BY <4>1, <4>2 DEF d
    <3>5. 0 < c
      BY <1>5, <2>2
    <3>6. QED
      BY <3>4, <3>5 DEF RunsBelow
  <2>3. QED
    BY <2>1, <2>2
<1>7. RankInSymbol(k) = Cardinality(B) /\ ix.run = run
  BY DEF RankInSymbol, HasItems, run
<1>8. Cardinality(A \cup B) = Cardinality(A) + Cardinality(B)
  <2>1. IsFiniteSet(DOMAIN run)
    BY <1>3, PositionsBelow
  <2>2. A \subseteq DOMAIN run /\ B \subseteq DOMAIN run
    OBVIOUS
  <2>3. IsFiniteSet(A) /\ IsFiniteSet(B)
    BY <2>1, <2>2, FS_Subset
  <2>4. A \cap B = {}
    <3> HIDE DEF c
    <3>1. ASSUME NEW m \in A, m \in B PROVE FALSE
      <4>1. m \in 0..(r - 1) /\ run[m].c < c /\ run[m].c = c
        BY <1>3, <3>1
      <4>2. QED
        BY <1>5, <4>1
    <3> HIDE DEF A, B
    <3>2. QED
      BY <3>1
  <2> HIDE DEF A, B
  <2>5. Cardinality(A \cup B) = Cardinality(A) + Cardinality(B) - Cardinality(A \cap B)
    BY <2>3, FS_Union
  <2>6. Cardinality(A) \in Nat /\ Cardinality(B) \in Nat /\ Cardinality({}) = 0
    BY <2>3, FS_CardinalityType, FS_EmptySet
  <2>7. Cardinality(A \cap B) = 0
    BY <2>4, <2>6
  <2>8. QED
    BY ONLY <2>5, <2>6, <2>7
<1>9. {m \in DOMAIN run : AlphabetBefore(run, m, k)} = A \cup B
  BY DEF AlphabetBefore
<1>10. InAlphabet(k) = RunsBelow(c) + RankInSymbol(k)
  BY <1>7 DEF InAlphabet
<1> HIDE DEF A, B, c
<1>11. QED
  BY <1>4, <1>6, <1>7, <1>8, <1>9, <1>10 DEF k, run

\* The layout asks for a head where the sub-sampling stored its sample.
LEMMA HeadAtIs ==
  ASSUME TextIsBuilt, ItemsAreRight, HasItems(ix), ix.layout \in {"position", "alphabet", "psi"},
         NEW x \in 0..(Size(base.run) - 1)
  PROVE  HeadAt(Order[x]) = SampledAt[x]
<1> DEFINE r == Size(base.run)
           run == base.run
<1>1. Tiles(Size(text), base.bwt, run, r) /\ ix.run = run /\ DOMAIN run = 0..(r - 1)
  BY DEF ItemsAreRight, HasItems, Tiles
<1>2. CASE ix.layout = "position"
  <2>1. Order[x] = x /\ SampledAt[x] = run[x].start
    BY <1>1, <1>2 DEF Order, SampledAt
  <2>2. QED
    BY <1>1, <1>2, <2>1 DEF HeadAt, HeadOf
<1>3. CASE ix.layout = "psi"
  <2>1. Order[x] = ByAlphabet(run)[x] /\ SampledAt[x] = x
    BY <1>3 DEF Order, SampledAt
  <2>2. InAlphabet(ByAlphabet(run)[x]) = x
    BY InAlphabetIs
  <2>3. QED
    BY <1>3, <2>1, <2>2 DEF HeadAt
<1>4. CASE ix.layout = "alphabet"
  <2>1. Order[x] = x /\ SampledAt[x] = CHOOSE i \in 0..(r - 1) : ByAlphabet(run)[i] = x
    BY <1>1, <1>4 DEF Order, SampledAt
  <2>2. \E i \in 0..(r - 1) : ByAlphabet(run)[i] = x
    BY <1>1, ByAlphabetIs
  <2>3. SampledAt[x] \in 0..(r - 1) /\ ByAlphabet(run)[SampledAt[x]] = x
    BY <2>1, <2>2
  <2>4. InAlphabet(ByAlphabet(run)[SampledAt[x]]) = SampledAt[x]
    BY <2>3, InAlphabetIs
  <2>5. QED
    BY <1>4, <2>1, <2>3, <2>4 DEF HeadAt
<1>5. QED
  BY <1>2, <1>3, <1>4

\* Different samples are stored at different places.
LEMMA PlacesDiffer ==
  ASSUME TextIsBuilt, ItemsAreRight, HasItems(ix), ix.layout \in {"position", "alphabet", "psi"},
         NEW x \in 0..(Size(base.run) - 1), NEW y \in 0..(Size(base.run) - 1),
         SampledAt[x] = SampledAt[y]
  PROVE  x = y
<1> DEFINE r == Size(base.run)
           run == base.run
<1>1. Tiles(Size(text), base.bwt, run, r)
  BY DEF ItemsAreRight
<1>2. CASE ix.layout = "position"
  <2>1. SampledAt[x] = run[x].start /\ SampledAt[y] = run[y].start
    BY <1>2 DEF SampledAt
  <2>2. run[x].start = run[y].start
    BY <2>1
  <2>3. x \in 0..(r - 1) /\ y \in 0..(r - 1)
    OBVIOUS
  <2> HIDE DEF r, run
  <2>4. QED
    BY ONLY <1>1, <2>2, <2>3, HeadNamesRun
<1>3. CASE ix.layout = "psi"
  BY <1>3 DEF SampledAt
<1>4. CASE ix.layout = "alphabet"
  <2>1. /\ SampledAt[x] = CHOOSE i \in 0..(r - 1) : ByAlphabet(run)[i] = x
        /\ SampledAt[y] = CHOOSE i \in 0..(r - 1) : ByAlphabet(run)[i] = y
    BY <1>4 DEF SampledAt
  <2>2. \A z \in 0..(r - 1) : \E i \in 0..(r - 1) : ByAlphabet(run)[i] = z
    BY <1>1, ByAlphabetIs
  <2>3. ByAlphabet(run)[SampledAt[x]] = x /\ ByAlphabet(run)[SampledAt[y]] = y
    BY <2>1, <2>2
  <2>4. QED
    BY <2>3
<1>5. QED
  BY <1>2, <1>3, <1>4

\* A head is sampled when the sub-sampling kept it, and its sample is its text position.
LEMMA HeadSampledIs ==
  ASSUME BuildInv, HasSubsamples, NEW x \in 0..(Size(base.run) - 1)
  PROVE  /\ Order[x] \in DOMAIN ix.run /\ base.head[x] = TextPos(sa, HeadOf(Order[x]))
         /\ HeadSampled(Order[x]) <=> x \in KeptSamples
         /\ x \in KeptSamples => Sample(HeadAt(Order[x])) = base.head[x]
<1> DEFINE r == Size(base.run)
<1>1. /\ TextIsBuilt /\ ItemsAreRight /\ HasItems(ix) /\ SubsamplesIn(ix, SampledAt)
      /\ SamplingProofs!IInv /\ SamplingDone
  BY SubsamplesReady
<1>2. ix.layout \in {"position", "alphabet", "psi"}
  BY DEF BuildInv, Inputs
<1>3. KeptSamples \subseteq 0..(r - 1)
  BY <1>1, KeptIs
<1>4. HeadAt(Order[x]) = SampledAt[x]
  BY <1>1, <1>2, HeadAtIs
<1>5. ix.sampled = {SampledAt[y] : y \in KeptSamples}
  BY <1>1 DEF SubsamplesIn
<1>6. HeadSampled(Order[x]) <=> x \in KeptSamples
  <2>1. ASSUME SampledAt[x] \in ix.sampled
        PROVE  x \in KeptSamples
    <3>1. PICK y \in KeptSamples : SampledAt[x] = SampledAt[y]
      BY <1>5, <2>1
    <3>2. y \in 0..(r - 1)
      BY <1>3
    <3>3. x = y
      BY <1>1, <1>2, <3>1, <3>2, PlacesDiffer
    <3>4. QED
      BY <3>3
  <2>2. QED
    BY <1>4, <1>5, <2>1 DEF HeadSampled
<1>7. x \in KeptSamples => Sample(HeadAt(Order[x])) = base.head[x]
  BY <1>1, <1>4 DEF SubsamplesIn, Sample, PlaceIn
<1>8. Order[x] \in DOMAIN ix.run /\ base.head[x] = TextPos(sa, HeadOf(Order[x]))
  <2>1. /\ Order \in [0..(r - 1) -> 0..(r - 1)] /\ DOMAIN base.run = 0..(r - 1)
        /\ \A k \in 0..(r - 1) : base.head[k] = TextPos(sa, base.run[Order[k]].start)
    BY <1>1 DEF ItemsAreRight, Tiles
  <2>2. ix.run = base.run
    BY <1>1 DEF HasItems
  <2>3. QED
    BY <2>1, <2>2 DEF HeadOf
<1>9. QED
  BY <1>6, <1>7, <1>8

\* Every head is one of the base items.
LEMMA HeadHasItem ==
  ASSUME ItemsAreRight, HasItems(ix), NEW k \in DOMAIN ix.run
  PROVE  \E x \in 0..(Size(base.run) - 1) : Order[x] = k
BY DEF ItemsAreRight, HasItems, Tiles

\* Between two items, in the text, psi leads from the one head to the other.
LEMMA HeadAheadIs ==
  ASSUME TextIsBuilt, ItemsAreRight, HasItems(ix),
         NEW x \in 0..(Size(base.run) - 1), NEW p \in DOMAIN sa, NEW l \in Nat,
         base.head[x] + 1 = sa[p] + l
  PROVE  HeadAhead(Order[x], l, p)
<1>1. TextIsIndexed
  BY ItemsServe
<1>2. /\ base.head[x] = TextPos(sa, HeadOf(Order[x])) /\ HeadOf(Order[x]) \in DOMAIN sa
  <2> DEFINE r == Size(base.run)
             n == Size(text)
  <2>1. /\ Order \in [0..(r - 1) -> 0..(r - 1)] /\ Tiles(n, base.bwt, base.run, r)
        /\ \A k \in 0..(r - 1) : base.head[k] = TextPos(sa, base.run[Order[k]].start)
    BY DEF ItemsAreRight
  <2>2. ix.run = base.run /\ ix.n = n
    BY DEF HasItems
  <2> HIDE DEF r, n
  <2>3. Order[x] \in 0..(r - 1)
    BY <2>1 DEF r
  <2>4. base.run[Order[x]].start \in 0..(n - 1) /\ base.head[x] = TextPos(sa, base.run[Order[x]].start)
    BY <2>1, <2>3 DEF Tiles, r
  <2>5. DOMAIN sa = 0..(n - 1)
    BY <1>1, <2>2, PositionsAre
  <2>6. QED
    BY <2>2, <2>4, <2>5 DEF HeadOf
<1>3. (TextPos(sa, HeadOf(Order[x])) + 1) % ix.n = sa[HeadOf(Order[x])]
  BY <1>1, <1>2, TextPosAdd
<1>4. QED
  BY <1>2, <1>3 DEF HeadAhead

\* From any head fewer than rate psi steps lead to a sampled one.
LEMMA SampledAhead ==
  ASSUME BuildInv, HasSubsamples, NEW x \in 0..(Size(base.run) - 1)
  PROVE  \E m \in KeptSamples : /\ m \in 0..(Size(base.run) - 1)
                                /\ base.head[m] - base.head[x] \in 0..(ix.rate - 1)
<1>1. /\ ItemsAreRight /\ SamplingProofs!IInv /\ SamplingDone /\ ix.rate \in Nat \ {0}
  BY SubsamplesReady
<1>2. /\ KeptSamples \subseteq 0..(Size(base.run) - 1)
      /\ \A k \in 0..(Size(base.run) - 1) : base.head[k] \in Nat
  BY <1>1, KeptIs, HeadsAreNat
<1>3. CASE x \in KeptSamples
  <2>1. base.head[x] - base.head[x] = 0
    BY <1>2
  <2>2. base.head[x] - base.head[x] \in 0..(ix.rate - 1)
    BY <1>1, <2>1
  <2>3. QED
    BY <1>3, <2>2
<1>4. CASE x \notin KeptSamples
  <2>1. PICK m \in KeptSamples : base.head[x] < base.head[m] /\ base.head[m] - base.head[x] < ix.rate
    BY <1>1, <1>4, KeptIs
  <2>2. m \in 0..(Size(base.run) - 1) /\ base.head[m] \in Nat /\ base.head[x] \in Nat
    BY <1>2
  <2>3. base.head[m] - base.head[x] \in 0..(ix.rate - 1)
    BY <1>1, <2>1, <2>2
  <2>4. QED
    BY <2>2, <2>3
<1>5. QED
  BY <1>3, <1>4

\* The samples of a sub-sampled index are right.
LEMMA SubsamplesRight ==
  ASSUME BuildInv, HasSubsamples
  PROVE  SamplesAreRight /\ IsSubsampled
<1>1. /\ TextIsBuilt /\ ItemsAreRight /\ HasItems(ix) /\ SubsamplesIn(ix, SampledAt)
      /\ SamplingProofs!IInv /\ SamplingDone
      /\ ix.kind \in {"sr", "vm", "va"} /\ ix.rate \in Nat \ {0}
  BY SubsamplesReady
<1>2. TextIsIndexed /\ RunsPartition
  BY <1>1, ItemsServe
<1>3. /\ ix.n \in Nat \ {0} /\ DOMAIN sa = 0..(ix.n - 1) /\ \A p \in DOMAIN sa : sa[p] \in 0..(ix.n - 1)
      /\ ix.n = Size(text) /\ Size(sa) = ix.n
  BY <1>1, <1>2, PositionsAre DEF HasItems
<1>4. \A k \in DOMAIN ix.run : \E x \in 0..(Size(base.run) - 1) : Order[x] = k
  BY <1>1, HeadHasItem
<1>5. \A k \in DOMAIN ix.run : HeadOf(k) \in DOMAIN sa
  BY <1>2, RunBounds
<1>6. \A k \in 0..(Size(base.run) - 1) : base.head[k] \in Nat
  BY <1>1, HeadsAreNat
<1>7. ASSUME NEW k \in DOMAIN ix.run, HeadSampled(k)
      PROVE  Sample(HeadAt(k)) = TextPos(sa, HeadOf(k))
  BY <1>4, <1>7, HeadSampledIs
<1>8. ASSUME NEW k \in DOMAIN ix.run, sa[HeadOf(k)] = 0
      PROVE  HeadSampled(k)
  <2>1. PICK x \in 0..(Size(base.run) - 1) : Order[x] = k
    BY <1>4
  <2>2. base.head[x] = ix.n - 1
    <3>1. base.head[x] = TextPos(sa, HeadOf(k))
      BY <2>1, HeadSampledIs
    <3>2. QED
      BY <1>3, <1>8, <3>1 DEF TextPos
  <2>3. x \in KeptSamples
    <3> SUFFICES ASSUME x \notin KeptSamples PROVE FALSE
      OBVIOUS
    <3>1. PICK m \in KeptSamples : base.head[x] < base.head[m]
      BY <1>1, KeptIs
    <3>2. m \in 0..(Size(base.run) - 1)
      BY <1>1, KeptIs
    <3>3. base.head[m] \in 0..(Size(text) - 1)
      BY <1>1, <3>2 DEF ItemsAreRight
    <3>4. QED
      BY <1>3, <2>2, <3>1, <3>3
  <2>4. QED
    BY <2>1, <2>3, HeadSampledIs
<1>9. ASSUME NEW k \in DOMAIN ix.run
      PROVE  \E m \in DOMAIN ix.run, l \in 0..(ix.rate - 1) : HeadSampled(m) /\ HeadAhead(m, l, HeadOf(k))
  <2>1. CASE HeadSampled(k)
    <3>1. sa[HeadOf(k)] \in 0..(ix.n - 1)
      BY <1>3, <1>5
    <3>2. (sa[HeadOf(k)] + 0) % ix.n = sa[HeadOf(k)]
      BY <1>3, <3>1, ModSmall
    <3>3. HeadAhead(k, 0, HeadOf(k)) /\ 0 \in 0..(ix.rate - 1)
      BY <1>1, <3>2 DEF HeadAhead
    <3>4. QED
      BY <2>1, <3>3
  <2>2. CASE ~HeadSampled(k)
    <3>1. PICK x \in 0..(Size(base.run) - 1) : Order[x] = k
      BY <1>4
    <3>2. PICK m \in KeptSamples : /\ m \in 0..(Size(base.run) - 1)
                                  /\ base.head[m] - base.head[x] \in 0..(ix.rate - 1)
      BY SampledAhead
    <3> DEFINE l == base.head[m] - base.head[x]
               p == HeadOf(k)
    <3>3. p \in DOMAIN sa /\ sa[p] \in 0..(ix.n - 1)
      BY <1>3, <1>5
    <3>4. base.head[x] = TextPos(sa, p) /\ sa[p] # 0
      BY <1>8, <2>2, <3>1, HeadSampledIs
    <3>5. base.head[x] + 1 = sa[p]
      <4> DEFINE v == sa[p]
      <4>1. base.head[x] = IF 0 < v THEN v - 1 ELSE Size(sa) - 1
        BY <3>4 DEF TextPos
      <4>2. v \in 0..(ix.n - 1) /\ v # 0
        BY <3>3, <3>4
      <4> HIDE DEF v
      <4>3. base.head[x] + 1 = v
        BY <1>3, <4>1, <4>2
      <4>4. QED
        BY <4>3 DEF v
    <3>6. l \in 0..(ix.rate - 1) /\ l \in Nat
      BY <3>2
    <3>7. base.head[m] + 1 = sa[p] + l
      <4>1. base.head[m] \in Nat /\ base.head[x] \in Nat
        BY <1>6, <3>2
      <4> HIDE DEF p
      <4>2. QED
        BY <3>5, <4>1
    <3> HIDE DEF l, p
    <3>8. HeadAhead(Order[m], l, p)
      BY <1>1, <3>2, <3>3, <3>6, <3>7, HeadAheadIs
    <3>9. HeadSampled(Order[m]) /\ Order[m] \in DOMAIN ix.run
      BY <3>2, HeadSampledIs
    <3>10. QED
      BY <3>6, <3>8, <3>9 DEF p
  <2>3. QED
    BY <2>1, <2>2
<1>10. ASSUME ix.layout = "position", NEW q \in ix.sampled
       PROVE  \E k \in DOMAIN ix.run : HeadOf(k) = q
  <2>1. PICK x \in KeptSamples : q = SampledAt[x]
    BY <1>1 DEF SubsamplesIn
  <2>2. x \in 0..(Size(base.run) - 1)
    BY <1>1, KeptIs
  <2>3. q = base.run[x].start /\ ix.run = base.run /\ x \in DOMAIN ix.run
    BY <1>1, <1>10, <2>1, <2>2 DEF SampledAt, HasItems, ItemsAreRight, Tiles
  <2>4. QED
    BY <2>3 DEF HeadOf
<1>11. IsSubsampled /\ ix.kind # "r"
  BY <1>1 DEF IsSubsampled
<1>12. QED
  BY <1>1, <1>7, <1>8, <1>9, <1>10, <1>11 DEF SamplesAreRight

\* An r-csa has the sample of every head where it looks it up.
LEMMA AllSamplesRight ==
  ASSUME BuildInv, phase = "done", ix.kind \in {"raw", "r"}
  PROVE  SamplesAreRight /\ ~IsSubsampled
<1> DEFINE r == Size(base.run)
<1>1. TextIsBuilt /\ ItemsAreRight /\ AllStored /\ HasItems(ix)
  BY ItemsReady DEF BuildInv, RCsaInv, AllStored
<1>2. ix.layout \in {"position", "alphabet", "psi"} /\ (ix.kind = "r" => ix.layout # "alphabet")
  BY DEF BuildInv, Inputs
<1>3. /\ Tiles(Size(text), base.bwt, base.run, r) /\ ix.run = base.run /\ DOMAIN ix.run = 0..(r - 1)
      /\ ix.samples = base.head
      /\ \A x \in 0..(r - 1) : base.head[x] = TextPos(sa, base.run[Order[x]].start)
  BY <1>1 DEF ItemsAreRight, HasItems, AllStored, Tiles
<1>4. ASSUME NEW k \in DOMAIN ix.run, ix.kind = "r"
      PROVE  (IF ix.layout = "psi" THEN SampleByCharRun(ix.run[k].c, RankInSymbol(k))
              ELSE SampleByRankRun(HeadOf(k))) = TextPos(sa, HeadOf(k))
  <2>1. PICK x \in 0..(r - 1) : Order[x] = k
    BY <1>1, HeadHasItem
  <2>2. base.head[x] = TextPos(sa, HeadOf(k))
    BY <1>3, <2>1 DEF HeadOf
  <2>3. CASE ix.layout = "psi"
    <3>1. InAlphabet(k) = x
      <4>1. ByAlphabet(base.run)[x] = k
        BY <2>1, <2>3 DEF Order
      <4>2. InAlphabet(ByAlphabet(base.run)[x]) = x
        BY <1>1, InAlphabetIs
      <4>3. QED
        BY <4>1, <4>2
    <3>2. SampleByCharRun(ix.run[k].c, RankInSymbol(k)) = base.head[x]
      BY <1>3, <3>1 DEF SampleByCharRun, InAlphabet
    <3>3. QED
      BY <2>2, <2>3, <3>2
  <2>4. CASE ix.layout # "psi"
    <3>1. x = k
      BY <1>3, <2>1, <2>4 DEF Order
    <3>2. HeadsBefore(base.run, base.run[k].start) = k
      BY <1>3, RankOfRun
    <3>3. SampleByRankRun(HeadOf(k)) = base.head[k]
      BY <1>3, <3>2 DEF SampleByRankRun, HeadsBefore, HeadOf
    <3>4. QED
      BY <2>2, <2>4, <3>1, <3>3
  <2>5. QED
    BY <2>3, <2>4
<1>5. ~IsSubsampled
  BY DEF IsSubsampled
<1>6. QED
  BY <1>4, <1>5 DEF SamplesAreRight

-----------------------------------------------------------------------------
(* phi, past the samples that were dropped. *)

\* One symbol on, a suffix that no run ends with and the one after it stay together,
\* and no run starts with the latter.
LEMMA AfterNext ==
  ASSUME TextIsBuilt, ItemsAreRight, HasItems(ix),
         NEW v \in 0..(Size(text) - 2), NEW w \in 0..(Size(text) - 1),
         \A k \in 0..(Size(base.run) - 1) : base.tail[k] # v, After(v, w)
  PROVE  /\ w + 1 \in 0..(Size(text) - 1) /\ After(v + 1, w + 1)
         /\ \A k \in 0..(Size(base.run) - 1) : base.head[k] # w
<1> DEFINE n == Size(text)
           r == Size(base.run)
           D == 0..(n - 1)
           bwt == base.bwt
           C == base.C
           run == base.run
           L(x) == BasicLF(bwt, C, x)
<1>1. /\ n \in Nat \ {0} /\ bwt = BWT(text, sa) /\ C = Cumulative(bwt) /\ Tiles(n, bwt, run, r)
      /\ Order \in [0..(r - 1) -> 0..(r - 1)]
      /\ \A k \in 0..(r - 1) : \E i \in 0..(r - 1) : Order[i] = k
      /\ \A k \in 0..(r - 1) : base.tail[k] = TextPos(sa, run[Order[k]].end - 1)
      /\ \A k \in 0..(r - 1) : base.head[k] = TextPos(sa, run[Order[k]].start)
  BY DEF ItemsAreRight
<1>2. /\ Size(sa) = n /\ sa \in [D -> D] /\ Compact(bwt, n)
      /\ \A p, q \in D : sa[p] = sa[q] => p = q
  BY <1>1, BuiltText
<1>3. \A p \in D : L(p) \in D /\ sa[L(p)] = TextPos(sa, p)
  BY <1>1, BasicLFRight
<1>4. \A x \in D : \E p \in D : L(p) = x
  BY <1>1, <1>2, LFOrders
<1>5. /\ \A p \in D : TextPos(sa, p) \in D
      /\ \A p, q \in D : TextPos(sa, p) = TextPos(sa, q) => p = q
  BY BeforeEntry
<1>6. TextIsIndexed /\ ix.n = n /\ ix.bwt = bwt /\ DOMAIN sa = D
  BY <1>2, ItemsServe DEF HasItems
<1>7. v \in 0..(n - 2) /\ w \in D
  OBVIOUS
<1>8. PICK p \in D : sa[p] = v /\ sa[(p + 1) % n] = w
  BY DEF After
<1>9. PICK q \in D : L(q) = p
  BY <1>4
<1>10. TextPos(sa, q) = v
  BY <1>3, <1>8, <1>9
<1>11. \A k \in 0..(r - 1) : base.tail[k] # v
  OBVIOUS
<1> HIDE DEF n, r, bwt, C, run
<1>12. \A x \in D : sa[x] \in D /\ TextPos(sa, x) = IF 0 < sa[x] THEN sa[x] - 1 ELSE n - 1
  BY <1>2 DEF TextPos
<1>13. sa[q] = v + 1
  <2> DEFINE a == sa[q]
  <2>1. a \in D /\ v = IF 0 < a THEN a - 1 ELSE n - 1
    BY <1>10, <1>12
  <2> HIDE DEF a
  <2>2. a = v + 1
    BY <1>1, <1>7, <2>1
  <2>3. QED
    BY <2>2 DEF a
<1>14. \A k \in 0..(r - 1) : run[k].end - 1 # q
  <2> TAKE k \in 0..(r - 1)
  <2>1. PICK i \in 0..(r - 1) : Order[i] = k
    BY <1>1
  <2>2. base.tail[i] # v /\ base.tail[i] = TextPos(sa, run[k].end - 1)
    BY <1>1, <1>11, <2>1
  <2>3. QED
    BY <1>10, <2>2
<1>15. q \notin RunTails(bwt)
  BY <1>1, <1>14 DEF Tiles
<1>16. q + 1 \in D /\ bwt[q + 1] = bwt[q] /\ DOMAIN bwt = D
  <2>1. DOMAIN bwt = D
    BY <1>2 DEF Compact
  <2>2. Size(bwt) = n
    BY <1>1, <2>1, SizeIs
  <2>3. ~(q = n - 1 \/ bwt[q] # bwt[q + 1])
    BY <1>15, <2>1, <2>2 DEF RunTails
  <2>4. q + 1 \in D
    BY <1>1, <2>3
  <2>5. QED
    BY <2>1, <2>3, <2>4
<1>17. L(q + 1) = p + 1
  <2>1. Compact(bwt, n) /\ C = Cumulative(bwt) /\ q \in 0..(n - 1) /\ q + 1 \in 0..(n - 1)
    BY <1>1, <1>2, <1>16
  <2>2. bwt[q + 1] = bwt[q]
    BY <1>16
  <2>3. BasicLF(bwt, C, q + 1) = BasicLF(bwt, C, q) + 1
    BY ONLY <2>1, <2>2, LFKeepsNeighbours
  <2>4. QED
    BY <1>9, <2>3
<1> HIDE DEF L
<1>18. p + 1 \in D /\ (p + 1) % n = p + 1
  <2>1. p + 1 \in D
    BY <1>3, <1>16, <1>17
  <2>2. QED
    BY <1>1, <2>1, ModSmall
<1>19. TextPos(sa, q + 1) = w
  BY <1>3, <1>8, <1>16, <1>17, <1>18
<1>20. w # n - 1
  <2> SUFFICES ASSUME w = n - 1 PROVE FALSE
    OBVIOUS
  <2>1. \A x \in D : /\ bwt[x] = Comp(text, text[TextPos(sa, x)])
                    /\ text[TextPos(sa, x)] \in Symbols(text)
    BY <1>6, BwtIs
  <2>2. text[v] = text[n - 1]
    BY <1>6, <1>10, <1>16, <1>19, <2>1, CompInjective
  <2>3. \A i \in D : text[i] = 0 <=> i = n - 1
    BY <1>6, PositionsAre DEF TextIsIndexed
  <2>4. v \in D /\ n - 1 \in D /\ v # n - 1
    BY <1>1, <1>7
  <2>5. QED
    BY <2>2, <2>3, <2>4
<1>21. sa[q + 1] = w + 1 /\ w + 1 \in D
  <2> DEFINE a == sa[q + 1]
  <2>1. a \in D /\ w = IF 0 < a THEN a - 1 ELSE n - 1
    BY <1>12, <1>16, <1>19
  <2> HIDE DEF a
  <2>2. a = w + 1
    BY <1>1, <1>7, <1>20, <2>1
  <2>3. QED
    BY <2>1, <2>2 DEF a
<1>22. (q + 1) % n = q + 1
  BY <1>1, <1>16, ModSmall
<1>23. After(v + 1, w + 1)
  BY <1>13, <1>21, <1>22 DEF After, n
<1>24. ASSUME NEW k \in 0..(r - 1), base.head[k] = w
       PROVE  FALSE
  <2>1. /\ Order[k] \in 0..(r - 1) /\ run[Order[k]].start \in D /\ run[Order[k]].start \in RunHeads(bwt)
    BY <1>1 DEF Tiles
  <2>2. TextPos(sa, run[Order[k]].start) = w
    BY <1>1, <1>24
  <2>3. run[Order[k]].start = q + 1
    BY <1>5, <1>16, <1>19, <2>1, <2>2
  <2>4. q + 1 \in RunHeads(bwt)
    BY <2>1, <2>3
  <2>5. q + 1 # 0 /\ q + 1 - 1 = q
    BY <1>1, <1>9
  <2>6. QED
    BY <1>16, <2>4, <2>5 DEF RunHeads
<1>25. QED
  BY <1>21, <1>23, <1>24 DEF n, r

\* Up to the next text position that a run ends with, a suffix and the one after it
\* stay together, and no run starts on the way of the latter.
LEMMA AfterAhead ==
  ASSUME TextIsBuilt, ItemsAreRight, HasItems(ix),
         NEW v \in 0..(Size(text) - 1), NEW w \in 0..(Size(text) - 1), After(v, w),
         NEW d \in Nat, v + d \in 0..(Size(text) - 1),
         \A k \in 0..(Size(base.run) - 1) : ~(v <= base.tail[k] /\ base.tail[k] < v + d)
  PROVE  /\ w + d \in 0..(Size(text) - 1) /\ After(v + d, w + d)
         /\ \A k \in 0..(Size(base.run) - 1) : ~(w <= base.head[k] /\ base.head[k] < w + d)
<1> DEFINE n == Size(text)
           R == 0..(Size(base.run) - 1)
           Good(l) == /\ w + l \in 0..(n - 1) /\ After(v + l, w + l)
                      /\ \A k \in R : ~(w <= base.head[k] /\ base.head[k] < w + l)
           T == {l \in 0..d : ~Good(l)}
<1>1. /\ n \in Nat \ {0} /\ v \in 0..(n - 1) /\ w \in 0..(n - 1) /\ v + d \in 0..(n - 1)
  BY BuiltText
<1>2. \A k \in R : base.head[k] \in Nat
  BY HeadsAreNat
<1>3. \A k \in R : ~(v <= base.tail[k] /\ base.tail[k] < v + d)
  OBVIOUS
<1> HIDE DEF n, R
<1>4. SUFFICES ASSUME T # {}
               PROVE  FALSE
  <2>1. d \in 0..d
    OBVIOUS
  <2>2. Good(d)
    BY <1>4, <2>1
  <2>3. QED
    BY <2>2 DEF n, R
<1>5. PICK l \in T : \A m \in T : l <= m
  <2>1. T \in SUBSET Nat
    OBVIOUS
  <2> HIDE DEF T
  <2>2. QED
    BY <1>4, <2>1, MinExists
<1>6. l \in 0..d /\ ~Good(l) /\ l \in Nat
  BY <1>5
<1>7. CASE l = 0
  <2>1. w + 0 = w /\ v + 0 = v
    BY <1>1
  <2>2. ASSUME NEW k \in R PROVE ~(w <= base.head[k] /\ base.head[k] < w)
    BY <1>1, <1>2
  <2>3. QED
    BY <1>1, <1>6, <1>7, <2>1, <2>2
<1>8. CASE l # 0
  <2> DEFINE m == l - 1
             a == v + m
             b == w + m
  <2>1. m \in 0..d /\ ~(l <= m) /\ a + 1 = v + l /\ b + 1 = w + l /\ a \in 0..(n - 2)
        /\ v <= a /\ a < v + d /\ m + 1 = l
    BY <1>1, <1>6, <1>8
  <2>2. Good(m)
    BY <1>5, <2>1
  <2>3. b \in 0..(n - 1) /\ After(a, b) /\ \A k \in R : ~(w <= base.head[k] /\ base.head[k] < b)
    BY <2>2
  <2>4. \A k \in R : base.tail[k] # a
    BY <1>3, <2>1
  <2> HIDE DEF a, b, m
  <2>5. b + 1 \in 0..(n - 1) /\ After(a + 1, b + 1) /\ \A k \in R : base.head[k] # b
    BY <2>1, <2>3, <2>4, AfterNext DEF n, R
  <2>6. ASSUME NEW k \in R PROVE ~(w <= base.head[k] /\ base.head[k] < w + l)
    <3>1. base.head[k] \in Nat /\ base.head[k] # b /\ ~(w <= base.head[k] /\ base.head[k] < b)
      BY <1>2, <2>3, <2>5
    <3>2. b \in Nat /\ w \in Nat /\ b + 1 = w + l
      BY <1>1, <2>1, <2>3
    <3>3. QED
      BY <1>6, <3>1, <3>2
  <2>7. Good(l)
    BY <2>1, <2>5, <2>6
  <2>8. QED
    BY <1>6, <2>7
<1>9. QED
  BY <1>7, <1>8

\* From every text position on there is one that a run ends with, and a first one.
LEMMA NextTail ==
  ASSUME TextIsBuilt, ItemsAreRight, HasItems(ix), NEW v \in 0..(Size(text) - 1)
  PROVE  \E k \in 0..(Size(base.run) - 1) :
           /\ v <= base.tail[k] /\ base.tail[k] \in 0..(Size(text) - 1)
           /\ \A j \in 0..(Size(base.run) - 1) : ~(v <= base.tail[j] /\ base.tail[j] < base.tail[k])
<1> DEFINE n == Size(text)
           R == 0..(Size(base.run) - 1)
           T == {base.tail[k] : k \in {j \in R : v <= base.tail[j]}}
<1>1. n \in Nat \ {0} /\ v \in 0..(n - 1)
  BY BuiltText
<1>2. \A k \in R : base.tail[k] \in 0..(n - 1)
  BY DEF ItemsAreRight
<1>3. PICK e \in R : base.tail[e] = n - 1
  BY LastTailEnds
<1> HIDE DEF n, R
<1>4. T \in SUBSET Nat /\ T # {}
  BY <1>1, <1>2, <1>3
<1>5. PICK t \in T : \A u \in T : t <= u
  <2> HIDE DEF T
  <2>1. QED
    BY <1>4, MinExists
<1>6. PICK k \in R : v <= base.tail[k] /\ t = base.tail[k]
  BY <1>5
<1>7. ASSUME NEW j \in R PROVE ~(v <= base.tail[j] /\ base.tail[j] < base.tail[k])
  <2> SUFFICES ASSUME v <= base.tail[j] PROVE ~(base.tail[j] < base.tail[k])
    OBVIOUS
  <2>1. base.tail[j] \in T
    OBVIOUS
  <2>2. base.tail[k] <= base.tail[j]
    BY <1>5, <1>6, <2>1
  <2>3. base.tail[k] \in 0..(n - 1) /\ base.tail[j] \in 0..(n - 1)
    BY <1>2
  <2>4. QED
    BY <1>1, <2>2, <2>3
<1>8. base.tail[k] \in 0..(n - 1)
  BY <1>2
<1>9. QED
  BY <1>6, <1>7, <1>8 DEF n, R

\* A sub-mark is the first of all marks at or after v if its sample is kept.
LEMMA PhiOfKept ==
  ASSUME BuildInv, HasSubsamples, NEW v \in 0..(Size(text) - 1),
         NEW k \in 0..(Size(base.run) - 1), v <= base.tail[k], LinkOf(k) \in KeptSamples,
         \A j \in 0..(Size(base.run) - 1) : ~(v <= base.tail[j] /\ base.tail[j] < base.tail[k])
  PROVE  After(v, Phi(v).value)
<1> DEFINE r == Size(base.run)
           w == Cardinality(KeptSamples)
           s == SoftSuccessor(v)
<1>1. /\ TextIsBuilt /\ ItemsAreRight /\ HasItems(ix) /\ MarksAreRight /\ SubsamplesIn(ix, SampledAt)
  BY SubsamplesReady
<1>2. /\ BackLinkOf(LinkOf(k)) = k
      /\ \A j \in 0..(r - 1) : base.tail[j] \in 0..(Size(text) - 1)
  BY <1>1 DEF ItemsAreRight
<1>3. /\ DOMAIN ix.marks = 0..(w - 1)
      /\ \A o, q \in 0..(w - 1) : o < q => ix.marks[o] < ix.marks[q]
      /\ \A x \in KeptSamples : \E o \in 0..(w - 1) : ix.marks[o] = base.tail[BackLinkOf(x)]
  BY <1>1 DEF SubsamplesIn
<1>4. PICK o \in 0..(w - 1) : ix.marks[o] = base.tail[k]
  BY <1>2, <1>3
<1>5. /\ s \in DOMAIN ix.marks /\ v <= ix.marks[s]
      /\ \A q \in DOMAIN ix.marks : q < s => ix.marks[q] < v
  BY <1>1, SuccessorIs
<1>6. /\ Size(text) \in Nat /\ v \in Nat /\ base.tail[k] \in Nat
  <2> DEFINE n == Size(text)
  <2>1. n \in Nat /\ v \in 0..(n - 1) /\ base.tail[k] \in 0..(n - 1)
    BY <1>1, <1>2 DEF ItemsAreRight
  <2> HIDE DEF n
  <2>2. QED
    BY <2>1 DEF n
<1>7. ix.marks[s] = base.tail[k] \/ ix.marks[s] < base.tail[k]
  <2>1. ~(o < s)
    <3>1. o < s => ix.marks[o] < v
      BY <1>3, <1>5
    <3>2. QED
      BY <1>4, <1>6, <3>1
  <2>2. o \in Int /\ s \in Int
    BY <1>3, <1>5
  <2>3. s = o \/ s < o
    BY <2>1, <2>2
  <2>4. QED
    BY <1>3, <1>4, <1>5, <2>3
<1>8. \A j \in 0..(r - 1) : ~(v <= base.tail[j] /\ base.tail[j] < ix.marks[s])
  <2> TAKE j \in 0..(r - 1)
  <2>1. base.tail[j] \in Int
    BY <1>2
  <2>2. PICK i \in 0..(r - 1) : ix.marks[s] = base.tail[i]
    BY <1>1, <1>5 DEF MarksAreRight
  <2>3. base.tail[i] \in Int
    BY <1>2
  <2>4. ~(v <= base.tail[j] /\ base.tail[j] < base.tail[k])
    OBVIOUS
  <2> HIDE DEF s
  <2>5. QED
    BY <1>6, <1>7, <2>1, <2>2, <2>3, <2>4
<1>9. QED
  BY <1>1, <1>8, PhiIsRight

\* phi leads to any suffix from which fewer than rate psi steps reach no sampled head.
LEMMA PhiPastDropped ==
  ASSUME BuildInv, HasSubsamples, NEW p \in 0..(Size(text) - 2),
         \A k \in DOMAIN ix.run, l \in 0..(ix.rate - 1) :
           HeadSampled(k) => ~HeadAhead(k, l, p + 1)
  PROVE  Phi(sa[p]).value = sa[p + 1]
<1> DEFINE n == Size(text)
           R == 0..(Size(base.run) - 1)
           v == sa[p]
           w == sa[p + 1]
<1>1. /\ TextIsBuilt /\ ItemsAreRight /\ HasItems(ix) /\ SamplingProofs!IInv /\ SamplingDone
      /\ ix.rate \in Nat \ {0}
  BY SubsamplesReady
<1>2. /\ n \in Nat \ {0} /\ sa \in [0..(n - 1) -> 0..(n - 1)]
  BY <1>1, BuiltText
<1>3. p \in 0..(n - 2)
  OBVIOUS
<1> HIDE DEF n
<1>4. p \in 0..(n - 1) /\ p + 1 \in 0..(n - 1) /\ v \in 0..(n - 1) /\ w \in 0..(n - 1)
  BY <1>2, <1>3
<1>5. After(v, w)
  <2>1. (p + 1) % n = p + 1
    BY <1>2, <1>4, ModSmall
  <2>2. QED
    BY <1>4, <2>1 DEF After, n
<1>6. PICK k \in R : /\ v <= base.tail[k] /\ base.tail[k] \in 0..(n - 1)
                     /\ \A j \in R : ~(v <= base.tail[j] /\ base.tail[j] < base.tail[k])
  <2> HIDE DEF v
  <2>1. QED
    BY <1>1, <1>4, NextTail DEF n
<1> DEFINE d == base.tail[k] - v
           x == LinkOf(k)
<1>7. d \in Nat /\ v + d = base.tail[k]
  <2> HIDE DEF v
  <2>1. QED
    BY <1>2, <1>4, <1>6
<1>8. /\ x \in R /\ After(base.tail[k], base.head[x])
  BY <1>1 DEF ItemsAreRight
<1> HIDE DEF v, w, d, x
<1>9. /\ w + d \in 0..(n - 1) /\ After(v + d, w + d)
      /\ \A j \in R : ~(w <= base.head[j] /\ base.head[j] < w + d)
  BY <1>1, <1>4, <1>5, <1>6, <1>7, AfterAhead DEF n
<1>10. base.head[x] = w + d
  BY <1>1, <1>7, <1>8, <1>9, AfterOne
<1>11. CASE x \in KeptSamples
  <2>1. After(v, Phi(v).value)
    BY <1>4, <1>6, <1>11, PhiOfKept DEF n, x
  <2>2. Phi(v).value = sa[p + 1]
    BY <1>1, <1>3, <2>1, AfterEntry DEF n, v
  <2>3. QED
    BY <2>2 DEF v
<1>12. CASE x \notin KeptSamples
  <2>1. DroppedBetween(x)
    BY <1>1, <1>8, <1>12, KeptBetween
  <2>2. PICK m \in KeptSamples, y \in R :
          /\ base.head[y] < base.head[x] /\ base.head[x] < base.head[m]
          /\ base.head[m] - base.head[y] <= ix.rate
    BY <2>1 DEF DroppedBetween
  <2>3. m \in R /\ \A j \in R : base.head[j] \in Nat
    BY <1>1, KeptIs, HeadsAreNat
  <2>4. base.head[y] < w
    <3>1. ~(w <= base.head[y] /\ base.head[y] < w + d)
      BY <1>9
    <3>2. base.head[y] \in Nat /\ w \in Nat /\ base.head[y] < w + d
      BY <1>4, <1>10, <2>2, <2>3
    <3>3. QED
      BY <3>1, <3>2
  <2>5. ASSUME NEW z \in KeptSamples, z \in R, NEW l \in 0..(ix.rate - 1), base.head[z] + 1 = w + l
        PROVE  FALSE
    <3>1. HeadSampled(Order[z]) /\ Order[z] \in DOMAIN ix.run
      BY <2>5, HeadSampledIs
    <3>2. p + 1 \in DOMAIN sa /\ base.head[z] + 1 = sa[p + 1] + l
      BY <1>2, <1>4, <2>5 DEF w
    <3>3. HeadAhead(Order[z], l, p + 1)
      BY <1>1, <2>5, <3>2, HeadAheadIs
    <3>4. QED
      BY <2>5, <3>1, <3>3
  <2>6. CASE base.head[y] + 1 = w
    <3>1. PICK z \in KeptSamples : z \in R /\ base.head[z] - base.head[y] \in 0..(ix.rate - 1)
      BY SampledAhead
    <3>2. base.head[z] + 1 = w + (base.head[z] - base.head[y])
      <4>1. base.head[z] \in Nat /\ base.head[y] \in Nat
        BY <2>3, <3>1
      <4>2. QED
        BY <2>6, <4>1
    <3>3. QED
      BY <2>5, <3>1, <3>2
  <2>7. CASE base.head[y] + 1 # w
    <3> DEFINE l == base.head[m] + 1 - w
    <3>1. /\ base.head[m] \in Nat /\ base.head[y] \in Nat /\ base.head[x] \in Nat /\ w \in Nat
      BY <1>4, <1>8, <2>3
    <3>2. l \in 0..(ix.rate - 1) /\ base.head[m] + 1 = w + l
      BY <1>1, <1>7, <1>10, <2>2, <2>4, <2>7, <3>1
    <3> HIDE DEF l
    <3>3. QED
      BY <2>3, <2>5, <3>2
  <2>8. QED
    BY <2>6, <2>7
<1>13. QED
  BY <1>11, <1>12

\* What the queries take for granted of an index holds of every one that is built.
LEMMA IndexBecomesRight ==
  ASSUME BuildInv, phase = "done"
  PROVE  IndexIsRight /\ ix.rate \in Nat
<1>1. TextIsBuilt /\ ItemsAreRight /\ Inputs
  BY ItemsReady DEF BuildInv
<1>2. HasItems(ix)
  <2>1. CASE ix.kind \in {"raw", "r"}
    BY <2>1 DEF BuildInv, RCsaInv, AllStored
  <2>2. CASE ix.kind \notin {"raw", "r"}
    BY <2>2, SubsamplesReady DEF HasSubsamples
  <2>3. QED
    BY <2>1, <2>2
<1>3. TextIsIndexed /\ RunsPartition /\ LFIsRight
  BY <1>1, <1>2, ItemsServe
<1>4. SamplesAreRight /\ (ix.kind \in {"raw", "r"} <=> ~IsSubsampled)
  <2>1. CASE ix.kind \in {"raw", "r"}
    BY <2>1, AllSamplesRight
  <2>2. CASE ix.kind \notin {"raw", "r"}
    BY <2>2, SubsamplesRight DEF HasSubsamples
  <2>3. QED
    BY <2>1, <2>2
<1>5. DOMAIN sa = 0..(Size(text) - 1) /\ ix.n = Size(text) /\ ix.n \in Nat \ {0}
      /\ sa \in [0..(ix.n - 1) -> 0..(ix.n - 1)]
  BY <1>2, <1>3, PositionsAre DEF HasItems
<1>6. PhiRightPastSamples
  <2> SUFFICES ASSUME IsSubsampled, NEW p \in DOMAIN sa \ {ix.n - 1},
                      \A k \in DOMAIN ix.run, l \in 0..(ix.rate - 1) :
                        HeadSampled(k) => ~HeadAhead(k, l, p + 1)
               PROVE  Phi(sa[p]).value = sa[p + 1]
    BY DEF PhiRightPastSamples
  <2>1. HasSubsamples
    BY <1>4 DEF HasSubsamples
  <2>2. p \in 0..(Size(text) - 2)
    <3> DEFINE n == ix.n
    <3>1. p \in 0..(n - 1) /\ p # n - 1 /\ n \in Nat \ {0} /\ n = Size(text)
      BY <1>5
    <3> HIDE DEF n
    <3>2. p \in 0..(n - 2)
      BY <3>1
    <3>3. QED
      BY <3>1, <3>2
  <2>3. QED
    BY <2>1, <2>2, PhiPastDropped
<1>7. ix.kind # "raw" => PhiIsTrusted
  <2> SUFFICES ASSUME ix.kind # "raw" PROVE PhiIsTrusted
    OBVIOUS
  <2>1. PhiTrusted
    BY PhiBecomesTrusted
  <2>2. ASSUME NEW v \in DOMAIN sa
        PROVE  /\ Phi(v) \in [value : DOMAIN sa, valid : BOOLEAN]
               /\ ix.kind = "r" => Phi(v).valid
    <3>1. Phi(v).value \in DOMAIN sa /\ Phi(v).valid \in BOOLEAN
      BY <1>5, <2>1 DEF PhiTrusted
    <3>2. Phi(v) = [value |-> Phi(v).value, valid |-> Phi(v).valid]
      BY DEF Phi
    <3>3. ix.kind = "r" => Phi(v).valid
      BY DEF Phi, SampleForPhi, Validate, InitialValidity
    <3>4. Phi(v) \in [value : DOMAIN sa, valid : BOOLEAN]
      BY <3>1, <3>2
    <3>5. QED
      BY <3>3, <3>4
  <2>3. ASSUME NEW p \in DOMAIN sa \ {ix.n - 1}, Phi(sa[p]).valid
        PROVE  Phi(sa[p]).value = sa[p + 1]
    <3>1. sa[p] \in 0..(Size(text) - 1)
      BY <1>5
    <3>2. After(sa[p], Phi(sa[p]).value)
      BY <2>1, <2>3, <3>1 DEF PhiTrusted
    <3>3. p \in 0..(Size(text) - 2)
      <4> DEFINE n == ix.n
      <4>1. p \in 0..(n - 1) /\ p # n - 1 /\ n \in Nat \ {0} /\ n = Size(text)
        BY <1>5
      <4> HIDE DEF n
      <4>2. p \in 0..(n - 2)
        BY <4>1
      <4>3. QED
        BY <4>1, <4>2
    <3>4. QED
      BY <1>1, <3>2, <3>3, AfterEntry
  <2>4. QED
    BY <2>2, <2>3 DEF PhiIsTrusted
<1>8. ix.rate \in Nat
  BY <1>1 DEF Inputs
<1>9. QED
  BY <1>1, <1>3, <1>4, <1>6, <1>7, <1>8 DEF IndexIsRight, Inputs

-----------------------------------------------------------------------------
(* From the input to the answers. *)

\* Construction and queries at once: what was built is right, and so is what every
\* register of a query stands for.
SystemInv == BuildInv /\ QueryInv

\* The limit of the levels is a number, 0 for the classes that have none.
LEMMA RateIsNat ==
  ASSUME BuildInv
  PROVE  ix.rate \in Nat
  BY DEF BuildInv, Inputs

\* Construction reads and writes the index, never the text or its suffix array,
\* and is over before the index is loaded.
LEMMA BuildIs ==
  ASSUME Build
  PROVE  /\ phase # "done" /\ text' = text /\ sa' = sa /\ UNCHANGED queryVars
<1>1. BuildStep /\ UNCHANGED queryVars
  BY DEF Build
<1>2. phase # "done" /\ text' = text /\ sa' = sa
  BY <1>1 DEF BuildStep, IndexStep, BuildBase, StoreRCsa, StartSampling, SampleStep,
     StoreSubsamples, StartValidity, ValidityStep, StoreValidity, data
<1>3. QED
  BY <1>1, <1>2

\* Before the index is loaded QueryInv only says that no query was asked.
LEMMA OffKeeps ==
  ASSUME QueryInv, stage = "off", text' = text, sa' = sa,
         UNCHANGED <<query, left, range, toehold, jump, frames, value, valid, out, found>>,
         stage' \in {"off", "ready"}, stage' # "off" => IndexIsRight'
  PROVE  QueryInv'
<1>1. op' = op /\ pat' = pat
  BY DEF query
<1>2. Typed' /\ ReportInv' /\ BoundInv'
  BY <1>1 DEF QueryInv, Typed, ReportInv, ReportsSuffixArray, BoundInv
<1>3. SearchInv' /\ ToeholdInv' /\ FoundInv' /\ JumpInv' /\ WalkInv'
  BY DEF SearchInv, ToeholdInv, FoundInv, JumpInv, WalkInv
<1>4. QED
  BY <1>2, <1>3 DEF QueryInv

\* Before the construction no query is pending: the invariant holds of idle registers.
LEMMA IdleInv ==
  ASSUME Init
  PROVE  QueryInv
<1>1. Typed
  <2>1. /\ range \in [start : Nat, end : Nat] /\ found \in [start : Nat, end : Nat]
        /\ NoRun \in RunDataRecord
    BY DEF Init, NoRange, NoRun, RunDataRecord
  <2>2. toehold = [step |-> 0, run |-> NoRun] /\ jump = [run |-> NoRun, jumps |-> 0]
    BY DEF Init, NoToehold, NoJump
  <2>3. toehold \in [step : Nat, run : RunDataRecord] /\ jump \in [run : RunDataRecord, jumps : Nat]
    BY <2>1, <2>2
  <2>4. /\ frames \in Seq(Frame) /\ out \in Seq(Nat)
        /\ pat \in Seq(Nat) /\ left \in 0..Len(pat)
    BY DEF Init
  <2>5. QED
    BY <2>1, <2>3, <2>4 DEF Init, Typed
<1>2. ReportInv /\ BoundInv
  BY DEF Init, ReportInv, ReportsSuffixArray, BoundInv, NoJump, NoRange
<1>3. SearchInv /\ ToeholdInv /\ FoundInv /\ JumpInv /\ WalkInv /\ stage = "off"
  BY DEF Init, SearchInv, ToeholdInv, FoundInv, JumpInv, WalkInv
<1>4. QED
  BY <1>1, <1>2, <1>3 DEF QueryInv

\* Every step of the construction, the load and the queries keeps the invariant.
LEMMA SystemInvStep ==
  ASSUME SystemInv, [SystemNext]_systemVars
  PROVE  SystemInv'
<1>1. BuildInv /\ QueryInv /\ (stage # "off" => phase = "done")
  BY DEF SystemInv, BuildInv, Stages
<1>2. BuildInv'
  BY <1>1, BuildInvStep
<1>3. CASE Build
  <2>1. stage = "off" /\ stage' = "off" /\ text' = text /\ sa' = sa
        /\ UNCHANGED <<query, left, range, toehold, jump, frames, value, valid, out, found>>
    BY <1>1, <1>3, BuildIs DEF queryVars
  <2>2. QED
    BY <1>1, <1>2, <2>1, OffKeeps DEF SystemInv
<1>4. CASE Load
  <2>1. stage = "off" /\ stage' = "ready" /\ text' = text /\ sa' = sa /\ UNCHANGED data
        /\ phase = "done" /\ UNCHANGED jobVars
        /\ UNCHANGED <<query, left, range, toehold, jump, frames, value, valid, out, found>>
    BY <1>4 DEF Load, data
  <2>2. IndexIsRight
    BY <1>1, <2>1, IndexBecomesRight
  <2>3. IndexIsRight'
    BY <2>1, <2>2, IndexStays
  <2>4. QED
    BY <1>1, <1>2, <2>1, <2>3, OffKeeps DEF SystemInv
<1>5. CASE OnIndex(Query) \/ OnIndex(Step)
  <2>1. Next
    BY <1>5 DEF OnIndex, Next
  <2>2. QED
    BY <1>1, <1>2, <2>1, StepKeeps DEF SystemInv
<1>6. CASE UNCHANGED systemVars
  <2>1. UNCHANGED vars
    BY <1>6 DEF systemVars, queryVars, vars
  <2>2. QED
    BY <1>1, <1>2, <2>1, NothingKeeps DEF SystemInv
<1>7. QED
  BY <1>3, <1>4, <1>5, <1>6 DEF SystemNext

\* A query is asked of an index that was built right, and every register of it
\* stands for what it should.
THEOREM CsaQueriesKeepInvariant == Spec => []SystemInv
<1>1. SystemInit => SystemInv
  BY BuildInvInit, IdleInv DEF SystemInit, SystemInv
<1>2. SystemInv /\ [SystemNext]_systemVars => SystemInv'
  BY SystemInvStep
<1>3. QED
  BY <1>1, <1>2, PTL DEF Spec

\* What every register of a query stands for, from the search to the walk: the
\* inductive invariant the theorems below follow from.
THEOREM CsaQueriesAreRight == Spec => []QueryInv
<1>1. SystemInv => QueryInv
  BY DEF SystemInv
<1>2. QED
  BY <1>1, CsaQueriesKeepInvariant, PTL

\* Every value a Locate reports, toehold, sample or phi, is the suffix-array
\* entry of its position, from the first position of the range on.
THEOREM CsaReportsAreRight == Spec => []ReportsSuffixArray
<1>1. SystemInv => ReportsSuffixArray
  BY RateIsNat, SafetyFollows DEF SystemInv
<1>2. QED
  BY <1>1, CsaQueriesKeepInvariant, PTL

\* The recursion of PhiForwardForRange never loses a position or visits one twice:
\* its pending runs are the images of exactly the positions not reported yet.
THEOREM CsaNothingIsLost == Spec => []PendingIsRest
<1>1. SystemInv => PendingIsRest
  BY RateIsNat, SafetyFollows DEF SystemInv
<1>2. QED
  BY <1>1, CsaQueriesKeepInvariant, PTL

\* The loop of ComputeSAValue, which has no bound of its own, makes at most as many
\* psi steps as the sampling rate.
THEOREM CsaToeholdLoopEnds == Spec => []ToeholdBounded
<1>1. SystemInv => ToeholdBounded
  BY RateIsNat, SafetyFollows DEF SystemInv
<1>2. QED
  BY <1>1, CsaQueriesKeepInvariant, PTL

-----------------------------------------------------------------------------
(* The refinement of LocateSpec. *)

\* What the range found says of the occurrences of the pattern.
LEMMA FoundSays ==
  ASSUME QueryInv, stage \in {"toehold", "phi", "answered"}
  PROVE  /\ TextIsIndexed /\ found \in [start : Nat, end : Nat]
         /\ found.start <= found.end /\ found.end <= ix.n
         /\ \A p \in DOMAIN sa : InRange(found, p) <=> sa[p] \in Occurrences(text, pat)
  BY IndexFacts DEF QueryInv, Typed, FoundInv

\* The entry reported next is an occurrence that was not reported yet.
LEMMA NextIsNew ==
  ASSUME QueryInv, stage \in {"toehold", "phi"}, NextPosition < found.end
  PROVE  /\ sa[NextPosition] \in Occurrences(text, pat)
         /\ sa[NextPosition] \notin {out[k] : k \in DOMAIN out}
<1>1. /\ TextIsIndexed /\ found.start \in Nat /\ found.end \in Nat /\ found.end <= ix.n
      /\ ReportsSuffixArray /\ out \in Seq(Nat)
  BY IndexFacts DEF QueryInv, Typed, FoundInv, ReportInv
<1>2. DOMAIN sa = 0..(ix.n - 1) /\ ix.n \in Nat /\ \A p, q \in DOMAIN sa : sa[p] = sa[q] => p = q
  BY <1>1, TextSize DEF TextIsIndexed
<1> DEFINE next == NextPosition
<1>3. next \in Int /\ next = found.start + Len(out) /\ next \in DOMAIN sa
      /\ InRange(found, next)
  BY <1>1, <1>2 DEF NextPosition, InRange
<1>4. ASSUME NEW k \in DOMAIN out PROVE out[k] # sa[next]
  <2>1. out[k] = sa[found.start + k - 1]
    BY <1>1 DEF ReportsSuffixArray
  <2>2. k \in 1..Len(out) /\ k \in Nat
    BY <1>1
  <2> HIDE DEF next
  <2>3. found.start + k - 1 \in DOMAIN sa /\ found.start + k - 1 # next
    BY <1>1, <1>2, <1>3, <2>2
  <2>4. QED
    BY <1>2, <1>3, <2>1, <2>3
<1>5. QED
  BY <1>3, <1>4, FoundSays

\* When every position of the range was reported, every occurrence was.
LEMMA AllReported ==
  ASSUME TextIsIndexed, NEW rng \in [start : Nat, end : Nat],
         rng.start <= rng.end, rng.end <= ix.n, NEW occ \in SUBSET DOMAIN text,
         \A p \in DOMAIN sa : InRange(rng, p) <=> sa[p] \in occ,
         NEW o \in Seq(Nat), Len(o) = rng.end - rng.start,
         \A k \in DOMAIN o : o[k] = sa[rng.start + k - 1]
  PROVE  {o[k] : k \in DOMAIN o} = occ
<1>1. /\ rng.start \in Nat /\ rng.end \in Nat
      /\ DOMAIN sa = 0..(ix.n - 1) /\ ix.n \in Nat /\ DOMAIN o = 1..(rng.end - rng.start)
  BY TextSize
<1>2. ASSUME NEW k \in DOMAIN o PROVE o[k] \in occ
  <2>1. rng.start + k - 1 \in DOMAIN sa /\ InRange(rng, rng.start + k - 1)
    BY <1>1 DEF InRange
  <2>2. QED
    BY <2>1
<1>3. ASSUME NEW v \in occ PROVE \E k \in DOMAIN o : o[k] = v
  <2>1. PICK p \in rng.start .. (rng.end - 1) : p \in DOMAIN sa /\ sa[p] = v
    BY RangeCounts
  <2>2. p - rng.start + 1 \in DOMAIN o /\ rng.start + (p - rng.start + 1) - 1 = p
    BY <1>1
  <2>3. QED
    BY <2>1, <2>2
<1>4. QED
  BY <1>2, <1>3

\* LocateSpec counts and looks for occurrences with the same operators.
LEMMA SameOperators ==
  /\ \A t, p : Promise!Occurrences(t, p) = Occurrences(t, p)
  /\ \A t, m : Promise!Patterns(t, m) = Patterns(t, m)
  /\ \A S : Promise!Cardinality(S) = Cardinality(S)
<1>1. \A t, p : Promise!Occurrences(t, p) = Occurrences(t, p)
  BY DEF Promise!Occurrences, Occurrences
<1>2. \A t, m : Promise!Patterns(t, m) = Patterns(t, m)
  BY DEF Promise!Patterns, Patterns
<1>3. ASSUME NEW S PROVE Promise!Cardinality(S) = Cardinality(S)
  BY DEF Promise!Cardinality, Cardinality
<1>4. QED
  BY <1>1, <1>2, <1>3

\* The state of LocateSpec and its answer to a Count.
SpecState == IF stage \in {"off", "ready", "answered"} THEN "idle" ELSE op
SpecCount == IF op = "count" /\ stage = "answered" THEN found.end - found.start ELSE 0

\* A step that reports the entry of the next position is a Report of LocateSpec.
LEMMA ReportImplements ==
  ASSUME QueryInv, stage \in {"toehold", "phi"}, stage' = "phi", op = "locate",
         NextPosition < found.end, out' = Append(out, sa[NextPosition]),
         text' = text, UNCHANGED query
  PROVE  Promise!Report
<1>1. op' = op /\ pat' = pat
  BY DEF query
<1>2. SpecState = "locate" /\ SpecState' = SpecState /\ SpecCount' = SpecCount
  BY <1>1 DEF SpecState, SpecCount
<1>3. \E v \in Promise!Occurrences(text, pat) \ Promise!Reported : out' = Append(out, v)
  BY NextIsNew, SameOperators DEF Promise!Reported
<1>4. QED
  BY <1>1, <1>2, <1>3 DEF Promise!Report, SpecState, SpecCount

\* A step of the search or the walk that reports nothing is not seen.
LEMMA SilentStep ==
  ASSUME stage \in {"search", "toehold", "phi"}, stage' \in {"search", "toehold", "phi"},
         out' = out, text' = text, UNCHANGED query
  PROVE  UNCHANGED Promise!vars
<1>1. op' = op /\ pat' = pat
  BY DEF query
<1>2. SpecState' = SpecState /\ SpecCount' = SpecCount
  BY <1>1 DEF SpecState, SpecCount
<1>3. QED
  BY <1>1, <1>2 DEF Promise!vars, SpecState, SpecCount

\* A query that is answered answers what LocateSpec asks for.
LEMMA AnswerImplements ==
  ASSUME QueryInv, QueryInv', stage \in {"search", "phi"}, stage' = "answered",
         stage = "phi" => op = "locate",
         out' = out, UNCHANGED data, UNCHANGED query
  PROVE  Promise!AnswerLocate \/ Promise!AnswerCount
<1>1. /\ op' = op /\ pat' = pat /\ op \in {"locate", "count"}
      /\ text' = text /\ sa' = sa /\ ix' = ix
  BY DEF data, query, QueryInv, Typed
<1>2. SpecState = op /\ SpecState' = "idle" /\ SpecCount = 0
  BY <1>1 DEF SpecState, SpecCount
<1> DEFINE occ == Occurrences(text, pat)
<1>3. /\ TextIsIndexed /\ found' \in [start : Nat, end : Nat]
      /\ found'.start <= found'.end /\ found'.end <= ix.n
      /\ \A p \in DOMAIN sa : InRange(found', p) <=> sa[p] \in occ
      /\ out \in Seq(Nat) /\ \A k \in DOMAIN out : out[k] = sa[found'.start + k - 1]
      /\ op = "locate" => Len(out) = found'.end - found'.start
  <2>1. TextIsIndexed
    BY IndexFacts DEF QueryInv
  <2>2. /\ found' \in [start : Nat, end : Nat]
        /\ found'.start <= found'.end /\ found'.end <= ix.n
        /\ \A p \in DOMAIN sa : InRange(found', p) <=> sa[p] \in occ
    BY <1>1 DEF QueryInv, Typed, FoundInv, InRange
  <2>3. /\ out \in Seq(Nat) /\ \A k \in DOMAIN out : out[k] = sa[found'.start + k - 1]
        /\ op = "locate" => Len(out) = found'.end - found'.start
    BY <1>1 DEF QueryInv, Typed, ReportInv, ReportsSuffixArray
  <2>4. QED
    BY <2>1, <2>2, <2>3
<1>4. occ \in SUBSET DOMAIN text
  BY DEF Occurrences
<1> HIDE DEF occ
<1>5. CASE op = "locate"
  <2>1. SpecCount' = 0
    BY <1>1, <1>5 DEF SpecCount
  <2>2. {out[k] : k \in DOMAIN out} = occ
    BY <1>3, <1>4, <1>5, AllReported
  <2>3. Promise!Reported = Promise!Occurrences(text, pat)
    BY <2>2, SameOperators DEF Promise!Reported, occ
  <2>4. Promise!AnswerLocate
    BY <1>1, <1>2, <1>5, <2>1, <2>3 DEF Promise!AnswerLocate, SpecState, SpecCount
  <2>5. QED
    BY <2>4
<1>6. CASE op = "count"
  <2>1. Cardinality(occ) = found'.end - found'.start
    BY <1>3, <1>4, RangeCounts
  <2>2. SpecCount' = Promise!Cardinality(Promise!Occurrences(text, pat))
    BY <1>1, <1>6, <2>1, SameOperators DEF SpecCount, occ
  <2>3. Promise!AnswerCount
    BY <1>1, <1>2, <1>6, <2>2 DEF Promise!AnswerCount, SpecState, SpecCount
  <2>4. QED
    BY <2>3
<1>7. QED
  BY <1>1, <1>5, <1>6

\* Every step of a query is a step of LocateSpec or not seen by it.
LEMMA StepImplements ==
  ASSUME QueryInv, QueryInv', Next
  PROVE  [Promise!Next]_(Promise!vars)
<1>1. CASE Query
  <2>1. /\ stage \in {"ready", "answered"} /\ stage' = "search" /\ op' \in {"locate", "count"}
        /\ pat' \in Patterns(text, MaxPattern) /\ out' = <<>> /\ text' = text
    BY <1>1 DEF Query, data
  <2>2. SpecState = "idle" /\ SpecState' = op' /\ SpecCount' = 0
    BY <2>1 DEF SpecState, SpecCount
  <2>3. Promise!Query
    BY <2>1, <2>2, SameOperators DEF Promise!Query, SpecState, SpecCount
  <2>4. QED
    BY <2>3 DEF Promise!Next
<1>2. CASE SearchStep
  <2>1. stage = "search" /\ stage' = "search" /\ out' = out /\ text' = text /\ UNCHANGED query
    BY <1>2 DEF SearchStep, data
  <2>2. QED
    BY <2>1, SilentStep
<1>3. CASE SearchEnd
  <2>1. /\ stage = "search" /\ stage' \in {"answered", "toehold", "phi"} /\ out' = out
        /\ UNCHANGED data /\ text' = text /\ UNCHANGED query
    BY <1>3 DEF SearchEnd, data
  <2>2. CASE stage' = "answered"
    BY <2>1, <2>2, AnswerImplements DEF Promise!Next
  <2>3. CASE stage' \in {"toehold", "phi"}
    BY <2>1, <2>3, SilentStep
  <2>4. QED
    BY <2>1, <2>2, <2>3
<1>4. CASE ToeholdJump
  <2>1. stage = "toehold" /\ stage' = "toehold" /\ out' = out /\ text' = text /\ UNCHANGED query
    BY <1>4 DEF ToeholdJump, data
  <2>2. QED
    BY <2>1, SilentStep
<1>5. CASE ToeholdReport
  <2>1. stage = "toehold" /\ stage' = "phi" /\ text' = text /\ UNCHANGED query
    BY <1>5 DEF ToeholdReport, data
  <2>2. op = "locate" /\ out = <<>> /\ found.start < found.end
        /\ found.start \in Nat /\ found.end \in Nat
    BY <2>1 DEF QueryInv, JumpInv, IsEmpty, Typed
  <2>3. out' = <<sa[found.start]>>
    BY <1>5, ToeholdReportKeeps
  <2>4. Len(out) = 0 /\ NextPosition = found.start /\ NextPosition < found.end
    BY <2>2 DEF NextPosition
  <2>5. out' = Append(out, sa[NextPosition])
    BY <2>2, <2>3, <2>4
  <2>6. Promise!Report
    BY <2>1, <2>2, <2>4, <2>5, ReportImplements
  <2>7. QED
    BY <2>6 DEF Promise!Next
<1>6. CASE RawStep \/ PhiStep \/ TakeSample \/ TakePhi \/ ReportTrusted
  <2>1. stage = "phi" /\ stage' = "phi" /\ text' = text /\ UNCHANGED query
    BY <1>6 DEF RawStep, PhiStep, TakeSample, TakePhi, ReportTrusted, Pending, data
  <2>2. out' = Append(out, sa[NextPosition]) /\ NextPosition < found.end
    BY <1>6, RawStepKeeps, PhiStepKeeps, TakeSampleKeeps, TakePhiKeeps, ReportTrustedKeeps
  <2>3. op = "locate"
    BY <2>1, WalkFacts
  <2>4. Promise!Report
    BY <2>1, <2>2, <2>3, ReportImplements
  <2>5. QED
    BY <2>4 DEF Promise!Next
<1>7. CASE UseSample \/ Descend
  <2>1. stage = "phi" /\ stage' = "phi" /\ out' = out /\ text' = text /\ UNCHANGED query
    BY <1>7 DEF UseSample, Descend, Pending, data
  <2>2. QED
    BY <2>1, SilentStep
<1>8. CASE Answer
  <2>1. stage = "phi" /\ stage' = "answered" /\ out' = out /\ UNCHANGED data /\ UNCHANGED query
    BY <1>8 DEF Answer
  <2>2. op = "locate"
    BY <2>1, WalkFacts
  <2>3. QED
    BY <2>1, <2>2, AnswerImplements DEF Promise!Next
<1>9. QED
  BY <1>1, <1>2, <1>3, <1>4, <1>5, <1>6, <1>7, <1>8 DEF Next, Step

\* An index of the psi-based family, from its input to its answers, implements
\* LocateSpec: a Locate reports every occurrence once and nothing else, a Count
\* returns their number.
THEOREM CsaImplementsPromise == Spec => ImplementsPromise
<1>1. SystemInit => Promise!Init
  BY DEF SystemInit, Init, Promise!Init
<1>2. ASSUME SystemInv, SystemInv', [SystemNext]_systemVars
      PROVE  [Promise!Next]_(Promise!vars)
  <2>1. QueryInv /\ QueryInv'
    BY <1>2 DEF SystemInv
  <2>2. CASE Build \/ Load \/ UNCHANGED systemVars
    <3>1. /\ text' = text /\ pat' = pat /\ out' = out /\ op' = op /\ found' = found
          /\ stage' = stage \/ (stage = "off" /\ stage' = "ready")
      BY <2>2, BuildIs DEF Load, systemVars, queryVars, data, query
    <3>2. SpecState' = SpecState /\ SpecCount' = SpecCount
      BY <3>1 DEF SpecState, SpecCount
    <3>3. QED
      BY <3>1, <3>2 DEF Promise!vars, SpecState, SpecCount
  <2>3. CASE OnIndex(Query) \/ OnIndex(Step)
    <3>1. Next
      BY <2>3 DEF OnIndex, Next
    <3>2. QED
      BY <2>1, <3>1, StepImplements
  <2>4. QED
    BY <1>2, <2>2, <2>3 DEF SystemNext
<1>3. QED
  BY <1>1, <1>2, CsaQueriesKeepInvariant, PTL DEF Spec, ImplementsPromise, Promise!Spec

=============================================================================
