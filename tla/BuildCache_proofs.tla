--------------------------- MODULE BuildCache_proofs ---------------------------
(***************************************************************************)
(* Proofs about the files of construction: what the guards of the stages   *)
(* protect, whatever builds share a directory and wherever they stop, and  *)
(* what stops leave clean that tear no stage.                              *)
(***************************************************************************)
EXTENDS BuildCache, SequenceTheorems, TLAPS

-----------------------------------------------------------------------------
(* Stages. *)

\* The one name that a process registers for a file of another name.
Alias(item) == item[1] = "psiFirstIdx" /\ item[2] = "plain"

\* The guards under which a file is written, by some stage of some class.
GuardsOf(x) ==
  LET with(key, type) == {<<key, type, x[3]>>}
      key == x[1]
  IN CASE x[2] \in {"bv", "rank", "select"} -> with(key, "bv")
       [] x[2] = "rle" -> {Base("psi")}
       [] x[2] = "plain" /\ x[3] = NoRate ->
            (CASE key \in {"first", "firstText", "last", "lastText"} -> {Base("first")}
               [] key = "firstSorted" -> {x, Base("firstToLast")}
               [] key = "lastSorted" -> {x, Base("lastToFirst")}
               [] key = "cumulative" -> {Base("firstIdxAlpha")}
               [] OTHER -> {x})
       [] x[2] = "plain" /\ x[3] # NoRate ->
            (CASE key = "lastText" -> with("lastIdx", "plain")
               [] key = "firstText" -> with("firstIdx", "plain")
               [] key = "firstByLast" -> with("firstToLast", "plain")
               [] key = "lastByFirst" -> with("lastToFirst", "plain")
               [] key = "firstValidArea" -> with("firstValidMark", "plain")
               [] key = "lastValidArea" -> with("lastValidMark", "plain")
               [] key \in {"firstIdxAlpha", "lastToFirstAlpha"} -> with("firstTextAlpha", "plain")
               [] OTHER -> {x})
       [] x[2] = "iv" ->
            (CASE key = "psiLastText" /\ x[3] = NoRate -> {PsiHeads}
               [] key = "psiFirstIdx" -> with("psiFirstText", "iv")
               [] key = "psiValidArea" -> {x, <<"psiValidMark", "bv", x[3]>>}
               [] OTHER -> {x})

\* A stage writes x.
Writes(S, x) == \E i \in DOMAIN S.groups : \E j \in DOMAIN S.groups[i] : S.groups[i][j].item = x

Filled(q) == Len(q) \in Nat \ {0} /\ DOMAIN q = 1..Len(q)

\* A stage has files, of which one is a guard, and guards each under its own.
Good(S) ==
  /\ Filled(S.groups) /\ \A i \in DOMAIN S.groups : Filled(S.groups[i])
  /\ \A x : Writes(S, x) => ~Alias(x) /\ \E g \in GuardsOf(x) : g \in S.guards
  /\ \E g \in S.guards : Writes(S, g)
  /\ \A g \in S.guards : ~Alias(g)

\* Sequences of such stages.
GoodStages(q) == \E T : q \in Seq(T) /\ \A S \in T : Good(S)

\* What a sequence of files must be for a stage to be one of these.
GoodFiles(guards, writes) ==
  /\ Filled(writes)
  /\ \A i \in DOMAIN writes :
       ~Alias(writes[i].item) /\ \E g \in GuardsOf(writes[i].item) : g \in guards
  /\ \E i \in DOMAIN writes : writes[i].item \in guards
  /\ \A g \in guards : ~Alias(g)

\* A stage is good when its files are.
LEMMA StageIsGood ==
  ASSUME NEW guards, NEW writes, GoodFiles(guards, writes)
  PROVE  Good(Stage(guards, writes))
<1> DEFINE S == Stage(guards, writes)
           n == Len(writes)
<1>1. n \in Nat \ {0} /\ DOMAIN writes = 1..n
  BY DEF GoodFiles, Filled
<1>2. S.guards = guards /\ S.groups = [i \in 1..n |-> <<writes[i]>>]
  BY <1>1 DEF Stage, Groups
<1>3. Filled(S.groups) /\ \A i \in DOMAIN S.groups : Filled(S.groups[i])
  BY <1>1, <1>2 DEF Filled
<1>4. DOMAIN S.groups = 1..n /\ \A i \in 1..n : DOMAIN S.groups[i] = {1} /\ S.groups[i][1] = writes[i]
  BY <1>1, <1>2
<1> HIDE DEF S
<1>5. \A x : Writes(S, x) <=> \E i \in DOMAIN writes : writes[i].item = x
  BY <1>1, <1>4 DEF Writes
<1>6. Good(S)
  BY <1>2, <1>3, <1>5 DEF Good, GoodFiles
<1>7. QED
  BY <1>6 DEF S

\* So is a stage whose files are opened together.
LEMMA BufferedIsGood ==
  ASSUME NEW guards, NEW writes, GoodFiles(guards, writes)
  PROVE  Good(Buffered(guards, writes))
<1> DEFINE S == Buffered(guards, writes)
<1>1. S.guards = guards /\ S.groups = <<writes>>
  BY DEF Buffered, Groups
<1>2. DOMAIN S.groups = {1} /\ S.groups[1] = writes /\ Len(S.groups) = 1
  BY <1>1
<1> HIDE DEF S
<1>3. \A x : Writes(S, x) <=> \E i \in DOMAIN writes : writes[i].item = x
  BY <1>2 DEF Writes
<1>4. Good(S)
  BY <1>1, <1>2, <1>3 DEF Good, GoodFiles, Filled
<1>5. QED
  BY <1>4 DEF S

\* A stage of one file that is its own guard.
LEMMA SingleIsGood ==
  ASSUME NEW item, NEW from, ~Alias(item), item \in GuardsOf(item)
  PROVE  Good(Single(item, from))
<1> DEFINE writes == <<File(item, from)>>
<1>1. Len(writes) = 1 /\ DOMAIN writes = 1..1 /\ writes[1].item = item
  BY DEF File
<1>2. GoodFiles({item}, writes)
  BY <1>1 DEF GoodFiles, Filled
<1>3. QED
  BY <1>2, StageIsGood DEF Single

\* Two files under the guards of one stage.
LEMMA PairIsGood ==
  ASSUME NEW guards, NEW x, NEW y, NEW from, NEW from2,
         ~Alias(x), ~Alias(y), \A g \in guards : ~Alias(g),
         \E g \in GuardsOf(x) : g \in guards, \E g \in GuardsOf(y) : g \in guards,
         x \in guards \/ y \in guards
  PROVE  GoodFiles(guards, <<File(x, from), File(y, from2)>>)
<1> DEFINE writes == <<File(x, from), File(y, from2)>>
<1>1. Len(writes) = 2 /\ DOMAIN writes = 1..2 /\ writes[1].item = x /\ writes[2].item = y
  BY DEF File
<1> HIDE DEF writes
<1>2. GoodFiles(guards, writes)
  BY <1>1 DEF GoodFiles, Filled
<1>3. QED
  BY <1>2 DEF writes

\* constructBitVectorFromIntVector guards on the bit vector, which it writes first.
LEMMA BitVectorIsGood ==
  ASSUME NEW key, NEW rate, NEW from
  PROVE  Good(BitVector(key, rate, from))
<1> DEFINE writes == <<File(<<key, "bv", rate>>, from), File(<<key, "rank", rate>>, from),
                       File(<<key, "select", rate>>, from)>>
           guard == <<key, "bv", rate>>
<1>1. /\ Len(writes) = 3 /\ DOMAIN writes = 1..3 /\ writes[1].item = guard
      /\ writes[2].item = <<key, "rank", rate>> /\ writes[3].item = <<key, "select", rate>>
  BY DEF File
<1>2. \A type \in {"bv", "rank", "select"} :
        GuardsOf(<<key, type, rate>>) = {guard} /\ ~Alias(<<key, type, rate>>)
  BY DEF GuardsOf, Alias
<1>3. GoodFiles({guard}, writes)
  <2> HIDE DEF writes
  <2>1. ~Alias(guard)
    BY <1>2
  <2>2. QED
    BY <1>1, <1>2, <2>1 DEF GoodFiles, Filled
<1>4. QED
  BY <1>3, StageIsGood DEF BitVector

\* Sequences of stages.
LEMMA GoodConcat ==
  ASSUME NEW p, NEW q, GoodStages(p), GoodStages(q)
  PROVE  /\ GoodStages(p \o q) /\ Len(p) \in Nat /\ Len(q) \in Nat
         /\ DOMAIN p = 1..Len(p) /\ DOMAIN q = 1..Len(q)
         /\ Len(p \o q) = Len(p) + Len(q)
         /\ \A i \in 1..Len(p) : (p \o q)[i] = p[i]
         /\ \A i \in 1..Len(q) : (p \o q)[i + Len(p)] = q[i]
<1>1. PICK T : p \in Seq(T) /\ \A S \in T : Good(S)
  BY DEF GoodStages
<1>2. PICK U : q \in Seq(U) /\ \A S \in U : Good(S)
  BY DEF GoodStages
<1>3. p \in Seq(T \cup U) /\ q \in Seq(T \cup U)
  BY <1>1, <1>2
<1>4. p \o q \in Seq(T \cup U) /\ \A S \in T \cup U : Good(S)
  BY <1>1, <1>2, <1>3
<1>5. QED
  BY <1>3, <1>4 DEF GoodStages

\* The stages of a sequence one by one.
LEMMA GoodEach ==
  ASSUME NEW q, GoodStages(q), NEW i \in DOMAIN q
  PROVE  Good(q[i]) /\ Len(q) \in Nat /\ DOMAIN q = 1..Len(q)
BY DEF GoodStages

\* Short sequences.
LEMMA GoodTuples ==
  ASSUME NEW a, NEW b, NEW c, NEW d, NEW e, NEW f, NEW g
  PROVE  /\ GoodStages(<<>>)
         /\ Good(a) => GoodStages(<<a>>)
         /\ Good(a) /\ Good(b) => GoodStages(<<a, b>>)
         /\ Good(a) /\ Good(b) /\ Good(c) => GoodStages(<<a, b, c>>)
         /\ Good(a) /\ Good(b) /\ Good(c) /\ Good(d) => GoodStages(<<a, b, c, d>>)
         /\ Good(a) /\ Good(b) /\ Good(c) /\ Good(d) /\ Good(e) => GoodStages(<<a, b, c, d, e>>)
         /\ Good(a) /\ Good(b) /\ Good(c) /\ Good(d) /\ Good(e) /\ Good(f) =>
              GoodStages(<<a, b, c, d, e, f>>)
         /\ Good(a) /\ Good(b) /\ Good(c) /\ Good(d) /\ Good(e) /\ Good(f) /\ Good(g) =>
              GoodStages(<<a, b, c, d, e, f, g>>)
<1>0. ASSUME NEW q, NEW T, q \in Seq(T), \A S \in T : Good(S)
      PROVE  GoodStages(q)
  BY <1>0 DEF GoodStages
<1>1. ASSUME TRUE PROVE GoodStages(<<>>)
  <2> DEFINE q == <<>>
             T == {}
  <2>1. q \in Seq(T) /\ \A S \in T : Good(S)
    BY <1>1
  <2> HIDE DEF q, T
  <2>2. GoodStages(q)
    BY <1>0, <2>1
  <2>3. QED
    BY <2>2 DEF q
<1>2. ASSUME Good(a) PROVE GoodStages(<<a>>)
  <2> DEFINE q == <<a>>
             T == {a}
  <2>1. q \in Seq(T) /\ \A S \in T : Good(S)
    BY <1>2
  <2> HIDE DEF q, T
  <2>2. GoodStages(q)
    BY <1>0, <2>1
  <2>3. QED
    BY <2>2 DEF q
<1>3. ASSUME Good(a), Good(b) PROVE GoodStages(<<a, b>>)
  <2> DEFINE q == <<a, b>>
             T == {a, b}
  <2>1. q \in Seq(T) /\ \A S \in T : Good(S)
    BY <1>3
  <2> HIDE DEF q, T
  <2>2. GoodStages(q)
    BY <1>0, <2>1
  <2>3. QED
    BY <2>2 DEF q
<1>4. ASSUME Good(a), Good(b), Good(c) PROVE GoodStages(<<a, b, c>>)
  <2> DEFINE q == <<a, b, c>>
             T == {a, b, c}
  <2>1. q \in Seq(T) /\ \A S \in T : Good(S)
    BY <1>4
  <2> HIDE DEF q, T
  <2>2. GoodStages(q)
    BY <1>0, <2>1
  <2>3. QED
    BY <2>2 DEF q
<1>5. ASSUME Good(a), Good(b), Good(c), Good(d) PROVE GoodStages(<<a, b, c, d>>)
  <2> DEFINE q == <<a, b, c, d>>
             T == {a, b, c, d}
  <2>1. q \in Seq(T) /\ \A S \in T : Good(S)
    BY <1>5
  <2> HIDE DEF q, T
  <2>2. GoodStages(q)
    BY <1>0, <2>1
  <2>3. QED
    BY <2>2 DEF q
<1>6. ASSUME Good(a), Good(b), Good(c), Good(d), Good(e) PROVE GoodStages(<<a, b, c, d, e>>)
  <2> DEFINE q == <<a, b, c, d, e>>
             T == {a, b, c, d, e}
  <2>1. q \in Seq(T) /\ \A S \in T : Good(S)
    BY <1>6
  <2> HIDE DEF q, T
  <2>2. GoodStages(q)
    BY <1>0, <2>1
  <2>3. QED
    BY <2>2 DEF q
<1>7. ASSUME Good(a), Good(b), Good(c), Good(d), Good(e), Good(f) PROVE GoodStages(<<a, b, c, d, e, f>>)
  <2> DEFINE q == <<a, b, c, d, e, f>>
             T == {a, b, c, d, e, f}
  <2>1. q \in Seq(T) /\ \A S \in T : Good(S)
    BY <1>7
  <2> HIDE DEF q, T
  <2>2. GoodStages(q)
    BY <1>0, <2>1
  <2>3. QED
    BY <2>2 DEF q
<1>8. ASSUME Good(a), Good(b), Good(c), Good(d), Good(e), Good(f), Good(g) PROVE GoodStages(<<a, b, c, d, e, f, g>>)
  <2> DEFINE q == <<a, b, c, d, e, f, g>>
             T == {a, b, c, d, e, f, g}
  <2>1. q \in Seq(T) /\ \A S \in T : Good(S)
    BY <1>8
  <2> HIDE DEF q, T
  <2>2. GoodStages(q)
    BY <1>0, <2>1
  <2>3. QED
    BY <2>2 DEF q
<1>9. QED
  BY <1>1, <1>2, <1>3, <1>4, <1>5, <1>6, <1>7, <1>8

\* Files that are guards of their own stage.
LEMMA OwnGuards ==
  /\ \A key \in {"text", "sa", "bwt", "alphabet", "bwtRle", "firstSorted", "lastSorted",
                 "psiFirstAsc"} :
       ~Alias(Base(key)) /\ Base(key) \in GuardsOf(Base(key))
  /\ \A k \in Rates :
       /\ \A key \in {"first", "lastIdx", "firstToLast", "firstIdx", "lastToFirst",
                      "firstValidMark", "lastValidMark"} :
            ~Alias(<<key, "plain", k>>) /\ <<key, "plain", k>> \in GuardsOf(<<key, "plain", k>>)
       /\ \A key \in {"psiFirstText", "psiLastText", "psiLink", "psiValidMark", "psiValidArea"} :
            ~Alias(<<key, "iv", k>>) /\ <<key, "iv", k>> \in GuardsOf(<<key, "iv", k>>)
  /\ \A key \in {"psiFirstText", "psiLink", "psiCumulative"} :
       ~Alias(Typed(key, "iv")) /\ Typed(key, "iv") \in GuardsOf(Typed(key, "iv"))
BY BuildCacheAssumption DEF Alias, GuardsOf, Base, Typed

\* Files that are written under a guard of another name.
LEMMA OtherGuards ==
  /\ \A key \in {"first", "firstText", "last", "lastText"} :
       ~Alias(Base(key)) /\ GuardsOf(Base(key)) = {Base("first")}
  /\ ~Alias(Base("firstToLast")) /\ Base("firstToLast") \in GuardsOf(Base("firstToLast"))
  /\ Base("firstToLast") \in GuardsOf(Base("firstSorted"))
  /\ ~Alias(Base("lastToFirst")) /\ Base("lastToFirst") \in GuardsOf(Base("lastToFirst"))
  /\ Base("lastToFirst") \in GuardsOf(Base("lastSorted"))
  /\ \A key \in {"firstIdxAlpha", "cumulative"} :
       ~Alias(Base(key)) /\ GuardsOf(Base(key)) = {Base("firstIdxAlpha")}
  /\ ~Alias(Base("psi")) /\ ~Alias(Typed("psi", "rle"))
  /\ GuardsOf(Base("psi")) = {Base("psi")} /\ GuardsOf(Typed("psi", "rle")) = {Base("psi")}
  /\ ~Alias(PsiTails) /\ GuardsOf(PsiTails) = {PsiHeads}
BY BuildCacheAssumption DEF Alias, GuardsOf, Base, Typed, PsiTails, PsiHeads

\* The same for the files of a rate.
LEMMA OtherGuardsAtRate ==
  ASSUME NEW k \in Rates
  PROVE  /\ \A pair \in {<<"lastText", "lastIdx">>, <<"firstText", "firstIdx">>,
                         <<"firstByLast", "firstToLast">>, <<"lastByFirst", "lastToFirst">>,
                         <<"firstValidArea", "firstValidMark">>,
                         <<"lastValidArea", "lastValidMark">>,
                         <<"firstIdxAlpha", "firstTextAlpha">>,
                         <<"lastToFirstAlpha", "firstTextAlpha">>,
                         <<"firstTextAlpha", "firstTextAlpha">>} :
              /\ ~Alias(<<pair[1], "plain", k>>)
              /\ GuardsOf(<<pair[1], "plain", k>>) = {<<pair[2], "plain", k>>}
         /\ ~Alias(<<"psiFirstIdx", "iv", k>>)
         /\ GuardsOf(<<"psiFirstIdx", "iv", k>>) = {<<"psiFirstText", "iv", k>>}
         /\ <<"psiValidMark", "bv", k>> \in GuardsOf(<<"psiValidArea", "iv", k>>)
         /\ \A key : ~Alias(<<key, "bv", k>>)
BY BuildCacheAssumption DEF Alias, GuardsOf

-----------------------------------------------------------------------------
(* The stages of every class. *)

\* A stage of q is skipped or done only if g is there.
Guarded(q, g) == \E i \in DOMAIN q : q[i].guards = {g}

\* A guard of one part of a sequence is a guard of the whole.
LEMMA GuardedConcat ==
  ASSUME NEW p, NEW q, NEW g, GoodStages(p), GoodStages(q), Guarded(p, g) \/ Guarded(q, g)
  PROVE  Guarded(p \o q, g)
<1>1. /\ Len(p) \in Nat /\ Len(q) \in Nat /\ DOMAIN p = 1..Len(p) /\ DOMAIN q = 1..Len(q)
      /\ DOMAIN (p \o q) = 1..Len(p \o q) /\ Len(p \o q) = Len(p) + Len(q)
      /\ \A i \in 1..Len(p) : (p \o q)[i] = p[i]
      /\ \A i \in 1..Len(q) : (p \o q)[i + Len(p)] = q[i]
  BY GoodConcat DEF GoodStages
<1>2. CASE Guarded(p, g)
  <2>1. PICK i \in 1..Len(p) : p[i].guards = {g}
    BY <1>1, <1>2 DEF Guarded
  <2>2. i \in DOMAIN (p \o q)
    BY <1>1
  <2>3. QED
    BY <1>1, <2>1, <2>2 DEF Guarded
<1>3. CASE Guarded(q, g)
  <2>1. PICK i \in 1..Len(q) : q[i].guards = {g}
    BY <1>1, <1>3 DEF Guarded
  <2>2. i + Len(p) \in DOMAIN (p \o q)
    BY <1>1
  <2>3. QED
    BY <1>1, <2>1, <2>2 DEF Guarded
<1>4. QED
  BY <1>2, <1>3

\* constructIndexBaseItems.
LEMMA BaseIsGood == GoodStages(BaseStages) /\ Guarded(BaseStages, Base("first"))
<1> DEFINE fromSa == {Base("bwt"), Base("sa")}
           runs == <<File(Base("first"), fromSa), File(Base("firstText"), fromSa),
                     File(Base("last"), fromSa), File(Base("lastText"), fromSa)>>
<1>1. /\ Len(runs) = 4 /\ DOMAIN runs = 1..4
      /\ runs[1].item = Base("first") /\ runs[2].item = Base("firstText")
      /\ runs[3].item = Base("last") /\ runs[4].item = Base("lastText")
  BY DEF File
<1>2. Good(Buffered({Base("first")}, runs))
  <2> HIDE DEF runs
  <2>1. GoodFiles({Base("first")}, runs)
    BY <1>1, OtherGuards DEF GoodFiles, Filled
  <2>2. QED
    BY <2>1, BufferedIsGood
<1>3. /\ Good(Single(Base("text"), {})) /\ Good(Single(Base("sa"), {Base("text")}))
      /\ Good(Single(Base("bwt"), {Base("text"), Base("sa")}))
      /\ Good(Single(Base("alphabet"), {Base("bwt")}))
      /\ Good(Single(Base("bwtRle"), {Base("bwt"), Base("alphabet")}))
  BY OwnGuards, SingleIsGood
<1>4. BaseStages = <<Single(Base("text"), {}), Single(Base("sa"), {Base("text")}),
                     Single(Base("bwt"), {Base("text"), Base("sa")}),
                     Buffered({Base("first")}, runs), Single(Base("alphabet"), {Base("bwt")}),
                     Single(Base("bwtRle"), {Base("bwt"), Base("alphabet")})>>
  BY DEF BaseStages
<1>5. BaseStages[4] = Buffered({Base("first")}, runs) /\ 4 \in DOMAIN BaseStages
  BY <1>4
<1>6. Buffered({Base("first")}, runs).guards = {Base("first")}
  BY DEF Buffered, Groups
<1> HIDE DEF runs
<1>7. GoodStages(BaseStages)
  BY <1>2, <1>3, <1>4, GoodTuples
<1>8. QED
  BY <1>5, <1>6, <1>7 DEF Guarded

\* construct of the r-index and of the sr-index.
LEMMA RIndexIsGood == GoodStages(RIndexStages) /\ Guarded(RIndexStages, Base("first"))
<1> DEFINE own == <<BackwardLinksStage, BitVector("firstText", NoRate, {Base("firstText"), Base("bwt")})>>
<1>1. Good(BackwardLinksStage)
  <2>1. ~Alias(Base("firstSorted"))
    BY OwnGuards
  <2>2. GoodFiles({Base("firstToLast")},
                  <<File(Base("firstSorted"), {Base("firstText")}),
                    File(Base("firstToLast"), {Base("firstText")})>>)
    BY <2>1, OtherGuards, PairIsGood
  <2>3. QED
    BY <2>2, StageIsGood DEF BackwardLinksStage
<1>2. GoodStages(own)
  BY <1>1, BitVectorIsGood, GoodTuples
<1>3. RIndexStages = BaseStages \o own
  BY DEF RIndexStages
<1> HIDE DEF own
<1>4. QED
  BY <1>2, <1>3, BaseIsGood, GoodConcat, GuardedConcat

\* construct of the sr-index (constructSRI).
LEMMA SrIndexIsGood ==
  ASSUME NEW k \in Rates
  PROVE  /\ GoodStages(SrIndexStages(k))
         /\ Guarded(SrIndexStages(k), <<"lastIdx", "plain", k>>)
<1> DEFINE own == <<Single(Base("lastSorted"), {Base("lastText")}), ForwardSamplesStage(k),
                    BitVector("lastIdx", k, {<<"lastIdx", "plain", k>>, Base("last")}),
                    ForwardMarksStage(k),
                    BitVector("firstByLast", k, {<<"firstByLast", "plain", k>>, Base("bwt")})>>
<1>1. Good(ForwardSamplesStage(k))
  <2>1. ~Alias(<<"lastText", "plain", k>>)
        /\ GuardsOf(<<"lastText", "plain", k>>) = {<<"lastIdx", "plain", k>>}
    BY OtherGuardsAtRate
  <2>2. \A from : GoodFiles({<<"lastIdx", "plain", k>>},
                  <<File(<<"lastIdx", "plain", k>>, from), File(<<"lastText", "plain", k>>, from)>>)
    BY <2>1, OwnGuards, PairIsGood
  <2>3. QED
    BY <2>2, StageIsGood DEF ForwardSamplesStage
<1>2. Good(ForwardMarksStage(k))
  <2>1. ~Alias(<<"firstByLast", "plain", k>>)
        /\ GuardsOf(<<"firstByLast", "plain", k>>) = {<<"firstToLast", "plain", k>>}
    BY OtherGuardsAtRate
  <2>2. \A from : GoodFiles({<<"firstToLast", "plain", k>>},
                  <<File(<<"firstByLast", "plain", k>>, from),
                    File(<<"firstToLast", "plain", k>>, from)>>)
    BY <2>1, OwnGuards, PairIsGood
  <2>3. QED
    BY <2>2, StageIsGood DEF ForwardMarksStage
<1>3. Good(Single(Base("lastSorted"), {Base("lastText")}))
  BY OwnGuards, SingleIsGood
<1>4. GoodStages(own)
  BY <1>1, <1>2, <1>3, BitVectorIsGood, GoodTuples
<1>5. own[2] = ForwardSamplesStage(k) /\ 2 \in DOMAIN own
  OBVIOUS
<1>6. ForwardSamplesStage(k).guards = {<<"lastIdx", "plain", k>>}
  BY DEF ForwardSamplesStage, Stage, Groups
<1>7. SrIndexStages(k) = RIndexStages \o own
  BY DEF SrIndexStages
<1> HIDE DEF own
<1>8. Guarded(own, <<"lastIdx", "plain", k>>)
  BY <1>5, <1>6 DEF Guarded
<1>9. QED
  BY <1>4, <1>7, <1>8, RIndexIsGood, GoodConcat, GuardedConcat

\* The validity marks and areas of the three plain layouts.
LEMMA ValidityIsGood ==
  ASSUME NEW k \in Rates, NEW mark, NEW area, NEW marks, NEW sorted, NEW submarks, NEW samples,
         \/ mark = "firstValidMark" /\ area = "firstValidArea"
         \/ mark = "lastValidMark" /\ area = "lastValidArea"
  PROVE  /\ GoodStages(ValidityStages(mark, area, k, marks, sorted, submarks, samples))
         /\ Guarded(ValidityStages(mark, area, k, marks, sorted, submarks, samples),
                    <<mark, "plain", k>>)
<1> DEFINE from == {Base(marks), Base(sorted), <<submarks, "plain", k>>}
           guard == <<mark, "plain", k>>
           files2 == <<File(guard, from), File(<<area, "plain", k>>, from)>>
           bits == BitVector(mark, k, {guard, <<samples, "plain", k>>})
           q == ValidityStages(mark, area, k, marks, sorted, submarks, samples)
<1>1. ~Alias(<<area, "plain", k>>) /\ GuardsOf(<<area, "plain", k>>) = {guard}
  BY OtherGuardsAtRate
<1>2. ~Alias(guard) /\ guard \in GuardsOf(guard)
  BY OwnGuards
<1>3. GoodFiles({guard}, files2)
  BY <1>1, <1>2, PairIsGood
<1>4. Good(Buffered({guard}, files2)) /\ Buffered({guard}, files2).guards = {guard}
  BY <1>3, BufferedIsGood DEF Buffered, Groups
<1>5. q = <<Buffered({guard}, files2), bits>>
  BY DEF ValidityStages
<1>6. Good(bits)
  BY BitVectorIsGood
<1> HIDE DEF q, bits, files2, guard
<1>7. GoodStages(q)
  BY <1>4, <1>5, <1>6, GoodTuples
<1>8. q[1].guards = {guard} /\ 1 \in DOMAIN q
  BY <1>4, <1>5
<1>9. Guarded(q, guard)
  BY <1>8 DEF Guarded
<1>10. QED
  BY <1>7, <1>9 DEF q, guard

\* constructPsi.
LEMMA PsiIsGood ==
  /\ Good(PsiStage({Base("psi")})) /\ PsiStage({Base("psi")}).guards = {Base("psi")}
<1>1. GoodFiles({Base("psi")},
                <<File(Base("psi"), FromRle), File(Typed("psi", "rle"), FromRle)>>)
  BY OtherGuards, PairIsGood
<1>2. QED
  BY <1>1, StageIsGood DEF PsiStage, Stage, Groups

\* construct of the r-csa, and of the sr-csa up to its samples.
LEMMA RCsaIsGood ==
  GoodStages(RCsaStages) /\ Guarded(RCsaStages, Base("first")) /\ Guarded(RCsaStages, Base("psi"))
<1> DEFINE own == <<PsiStage({Base("psi")}), ForwardLinksStage,
                    BitVector("lastText", NoRate, {Base("lastText"), Base("bwt")})>>
<1>1. Good(ForwardLinksStage)
  <2>1. ~Alias(Base("lastSorted"))
    BY OwnGuards
  <2>2. \A from, from2 : GoodFiles({Base("lastToFirst")},
          <<File(Base("lastSorted"), from), File(Base("lastToFirst"), from2)>>)
    BY <2>1, OtherGuards, PairIsGood
  <2>3. QED
    BY <2>2, StageIsGood DEF ForwardLinksStage
<1>2. GoodStages(own)
  BY <1>1, PsiIsGood, BitVectorIsGood, GoodTuples
<1>3. own[1] = PsiStage({Base("psi")}) /\ 1 \in DOMAIN own
  OBVIOUS
<1>4. RCsaStages = BaseStages \o own
  BY DEF RCsaStages
<1> HIDE DEF own
<1>5. Guarded(own, Base("psi"))
  BY <1>3, PsiIsGood DEF Guarded
<1>6. QED
  BY <1>2, <1>4, <1>5, BaseIsGood, GoodConcat, GuardedConcat

\* constructSrCSACommonsWithBWTRuns.
LEMMA SrCsaIsGood ==
  ASSUME NEW k \in Rates
  PROVE  /\ GoodStages(SrCsaStages(k)) /\ Guarded(SrCsaStages(k), Base("psi"))
         /\ Guarded(SrCsaStages(k), <<"firstIdx", "plain", k>>)
<1> DEFINE own == <<Single(Base("firstSorted"), {Base("firstText")}), BackwardSamplesStage(k),
                    BackwardMarksStage(k),
                    BitVector("lastByFirst", k, {<<"lastByFirst", "plain", k>>, Base("bwt")})>>
<1>1. Good(BackwardSamplesStage(k))
  <2>1. ~Alias(<<"firstText", "plain", k>>)
        /\ GuardsOf(<<"firstText", "plain", k>>) = {<<"firstIdx", "plain", k>>}
    BY OtherGuardsAtRate
  <2>2. \A from : GoodFiles({<<"firstIdx", "plain", k>>},
                  <<File(<<"firstIdx", "plain", k>>, from), File(<<"firstText", "plain", k>>, from)>>)
    BY <2>1, OwnGuards, PairIsGood
  <2>3. QED
    BY <2>2, StageIsGood DEF BackwardSamplesStage
<1>2. Good(BackwardMarksStage(k))
  <2>1. ~Alias(<<"lastByFirst", "plain", k>>)
        /\ GuardsOf(<<"lastByFirst", "plain", k>>) = {<<"lastToFirst", "plain", k>>}
    BY OtherGuardsAtRate
  <2>2. \A from : GoodFiles({<<"lastToFirst", "plain", k>>},
                  <<File(<<"lastByFirst", "plain", k>>, from),
                    File(<<"lastToFirst", "plain", k>>, from)>>)
    BY <2>1, OwnGuards, PairIsGood
  <2>3. QED
    BY <2>2, StageIsGood DEF BackwardMarksStage
<1>3. Good(Single(Base("firstSorted"), {Base("firstText")}))
  BY OwnGuards, SingleIsGood
<1>4. GoodStages(own)
  BY <1>1, <1>2, <1>3, BitVectorIsGood, GoodTuples
<1>5. own[2] = BackwardSamplesStage(k) /\ 2 \in DOMAIN own
  OBVIOUS
<1>6. BackwardSamplesStage(k).guards = {<<"firstIdx", "plain", k>>}
  BY DEF BackwardSamplesStage, Stage, Groups
<1>7. SrCsaStages(k) = RCsaStages \o own
  BY DEF SrCsaStages
<1> HIDE DEF own
<1>8. Guarded(own, <<"firstIdx", "plain", k>>)
  BY <1>5, <1>6 DEF Guarded
<1>9. QED
  BY <1>4, <1>7, <1>8, RCsaIsGood, GoodConcat, GuardedConcat

\* construct(SrCSA).
LEMMA PositionIsGood ==
  ASSUME NEW k \in Rates
  PROVE  /\ GoodStages(PositionStages(k)) /\ Guarded(PositionStages(k), Base("psi"))
         /\ Guarded(PositionStages(k), <<"firstIdx", "plain", k>>)
<1> DEFINE own == <<SamplesPositionStage(k), BitVector("first", k, {<<"first", "plain", k>>, Base("bwt")})>>
<1>1. Good(SamplesPositionStage(k))
  BY OwnGuards, SingleIsGood DEF SamplesPositionStage
<1>2. GoodStages(own)
  BY <1>1, BitVectorIsGood, GoodTuples
<1>3. PositionStages(k) = SrCsaStages(k) \o own
  BY DEF PositionStages
<1> HIDE DEF own
<1>4. QED
  BY <1>2, <1>3, SrCsaIsGood, GoodConcat, GuardedConcat

\* construct(SrCSASlim).
LEMMA AlphabetIsGood ==
  ASSUME NEW k \in Rates
  PROVE  /\ GoodStages(AlphabetStages(k)) /\ Guarded(AlphabetStages(k), Base("psi"))
         /\ Guarded(AlphabetStages(k), Base("firstIdxAlpha"))
<1> DEFINE own == <<SortedByAlphabetStage, SubsamplesSortedStage(k),
                    BitVector("firstIdxAlpha", k, {<<"firstIdxAlpha", "plain", k>>, Base("first")})>>
<1>1. Good(SortedByAlphabetStage)
  <2>1. \A from : GoodFiles({Base("firstIdxAlpha")},
          <<File(Base("firstIdxAlpha"), from), File(Base("cumulative"), from)>>)
    BY OtherGuards, PairIsGood
  <2>2. QED
    BY <2>1, BufferedIsGood DEF SortedByAlphabetStage
<1>2. Good(SubsamplesSortedStage(k))
  <2> DEFINE S == SubsamplesSortedStage(k)
             idx == <<"firstIdxAlpha", "plain", k>>
             text == <<"firstTextAlpha", "plain", k>>
             links == <<"lastToFirstAlpha", "plain", k>>
  <2>1. /\ Len(S.groups) = 2 /\ DOMAIN S.groups = {1, 2} /\ S.guards = {text}
        /\ Len(S.groups[1]) = 2 /\ DOMAIN S.groups[1] = {1, 2}
        /\ Len(S.groups[2]) = 1 /\ DOMAIN S.groups[2] = {1}
    BY DEF SubsamplesSortedStage, Groups
  <2>2. /\ S.groups[1][1].item = text /\ S.groups[1][2].item = idx
        /\ S.groups[2][1].item = links
    BY DEF SubsamplesSortedStage, Groups, File
  <2>3. \A x \in {idx, text, links} : ~Alias(x) /\ GuardsOf(x) = {text}
    BY OtherGuardsAtRate
  <2> HIDE DEF S, idx, text, links
  <2>4. \A x : Writes(S, x) <=> x \in {idx, text, links}
    BY <2>1, <2>2 DEF Writes
  <2>5. Filled(S.groups) /\ \A i \in DOMAIN S.groups : Filled(S.groups[i])
    BY <2>1 DEF Filled
  <2>6. Good(S)
    BY <2>1, <2>3, <2>4, <2>5 DEF Good
  <2>7. QED
    BY <2>6 DEF S
<1>3. GoodStages(own)
  BY <1>1, <1>2, BitVectorIsGood, GoodTuples
<1>4. own[1] = SortedByAlphabetStage /\ 1 \in DOMAIN own
  OBVIOUS
<1>5. SortedByAlphabetStage.guards = {Base("firstIdxAlpha")}
  BY DEF SortedByAlphabetStage, Buffered, Groups
<1>6. AlphabetStages(k) = SrCsaStages(k) \o own
  BY DEF AlphabetStages
<1> HIDE DEF own
<1>7. Guarded(own, Base("firstIdxAlpha"))
  BY <1>4, <1>5 DEF Guarded
<1>8. QED
  BY <1>3, <1>6, <1>7, SrCsaIsGood, GoodConcat, GuardedConcat

\* constructItems of the classes over psi runs.
LEMMA RCsaPsiIsGood == GoodStages(RCsaPsiStages) /\ Guarded(RCsaPsiStages, Base("psi"))
<1> DEFINE own == <<PsiStage({Base("psi")}), PsiRunsStage,
                    BitVector("psiLastText", NoRate, {PsiTails, Base("bwt")}),
                    Single(PsiLinks, {PsiTails})>>
<1>1. Good(PsiRunsStage)
  <2>1. ~Alias(PsiHeads) /\ PsiHeads \in GuardsOf(PsiHeads)
    BY OwnGuards DEF PsiHeads
  <2>2. \A from, from2 : GoodFiles({PsiHeads}, <<File(PsiHeads, from), File(PsiTails, from2)>>)
    BY <2>1, OtherGuards, PairIsGood
  <2>3. QED
    BY <2>2, StageIsGood DEF PsiRunsStage
<1>2. Good(Single(PsiLinks, {PsiTails}))
  BY OwnGuards, SingleIsGood DEF PsiLinks
<1>3. GoodStages(own)
  BY <1>1, <1>2, PsiIsGood, BitVectorIsGood, GoodTuples
<1>4. own[1] = PsiStage({Base("psi")}) /\ 1 \in DOMAIN own
  OBVIOUS
<1>5. RCsaPsiStages = BaseStages \o own
  BY DEF RCsaPsiStages, RCsaPsiFrom
<1> HIDE DEF own
<1>6. Guarded(own, Base("psi"))
  BY <1>4, PsiIsGood DEF Guarded
<1>7. QED
  BY <1>3, <1>5, <1>6, BaseIsGood, GoodConcat, GuardedConcat

\* constructItems(SrCSAWithPsiRun).
LEMMA SrCsaPsiIsGood ==
  ASSUME NEW k \in Rates
  PROVE  GoodStages(SrCsaPsiStages(k)) /\ Guarded(SrCsaPsiStages(k), Base("psi"))
<1> DEFINE own == <<Single(Base("psiFirstAsc"), {PsiHeads}), PsiSubsamplesStage(k),
                    PsiSubmarksStage(k),
                    BitVector("psiLastText", k, {<<"psiLastText", "iv", k>>, Base("bwt")}),
                    PsiSubmarkLinksStage(k),
                    BitVector("psiFirstIdx", k, {<<"psiFirstIdx", "iv", k>>, PsiHeads}),
                    PsiCumulativeStage>>
<1>1. Good(PsiSubsamplesStage(k))
  <2>1. ~Alias(<<"psiFirstIdx", "iv", k>>)
        /\ GuardsOf(<<"psiFirstIdx", "iv", k>>) = {<<"psiFirstText", "iv", k>>}
    BY OtherGuardsAtRate
  <2>2. \A from : GoodFiles({<<"psiFirstText", "iv", k>>},
          <<File(<<"psiFirstIdx", "iv", k>>, from), File(<<"psiFirstText", "iv", k>>, from)>>)
    BY <2>1, OwnGuards, PairIsGood
  <2>3. QED
    BY <2>2, StageIsGood DEF PsiSubsamplesStage
<1>2. Good(PsiSubmarksStage(k))
  <2> DEFINE marks == <<"psiLastText", "iv", k>>
             writes == <<File(marks, PsiSampleLinks(k) \cup {PsiTails})>>
  <2>1. Len(writes) = 1 /\ DOMAIN writes = 1..1 /\ writes[1].item = marks
    BY DEF File
  <2>2. ~Alias(marks) /\ marks \in GuardsOf(marks) /\ ~Alias(<<"psiLastText", "bv", k>>)
    BY OwnGuards, OtherGuardsAtRate
  <2>3. PsiSubmarksStage(k) = Stage({marks, <<"psiLastText", "bv", k>>}, writes)
    BY DEF PsiSubmarksStage
  <2> HIDE DEF marks, writes
  <2>4. GoodFiles({marks, <<"psiLastText", "bv", k>>}, writes)
    BY <2>1, <2>2 DEF GoodFiles, Filled
  <2>5. QED
    BY <2>3, <2>4, StageIsGood
<1>3. Good(PsiSubmarkLinksStage(k)) /\ Good(PsiCumulativeStage)
  BY OwnGuards, SingleIsGood DEF PsiSubmarkLinksStage, PsiCumulativeStage
<1>4. Good(Single(Base("psiFirstAsc"), {PsiHeads}))
  BY OwnGuards, SingleIsGood
<1>5. GoodStages(own)
  BY <1>1, <1>2, <1>3, <1>4, BitVectorIsGood, GoodTuples
<1>6. SrCsaPsiStages(k) = RCsaPsiStages \o own
  BY DEF SrCsaPsiStages
<1> HIDE DEF own
<1>7. QED
  BY <1>5, <1>6, RCsaPsiIsGood, GoodConcat, GuardedConcat

\* constructItems of the classes with validity over psi runs.
LEMMA PsiValidityIsGood ==
  ASSUME NEW k \in Rates
  PROVE  GoodStages(PsiValidMarkStages(k)) /\ GoodStages(<<PsiValidAreaStage(k)>>)
<1>1. Good(PsiValidityStage(k))
  <2>1. ~Alias(<<"psiValidMark", "iv", k>>) /\ ~Alias(<<"psiValidArea", "iv", k>>)
        /\ ~Alias(<<"psiValidMark", "bv", k>>)
    BY OwnGuards, OtherGuardsAtRate
  <2>2. \A from : GoodFiles({<<"psiValidMark", "iv", k>>, <<"psiValidMark", "bv", k>>},
          <<File(<<"psiValidMark", "iv", k>>, from), File(<<"psiValidArea", "iv", k>>, from)>>)
    BY <2>1, OwnGuards, OtherGuardsAtRate, PairIsGood
  <2>3. QED
    BY <2>2, StageIsGood DEF PsiValidityStage
<1>2. Good(PsiValidAreaStage(k))
  BY OwnGuards, SingleIsGood DEF PsiValidAreaStage
<1>3. QED
  BY <1>1, <1>2, BitVectorIsGood, GoodTuples DEF PsiValidMarkStages

-----------------------------------------------------------------------------
(* What an index loads. *)

ClassAtRate(v, k) == v \in Variants /\ IF v.kind = "r" THEN k = NoRate ELSE k \in Rates

\* The guards of an item are other items, or sole guards of a stage of q.
Protected(x, items, q) == ~Alias(x) /\ \A g \in GuardsOf(x) : g \in items \/ Guarded(q, g)

\* The guards of the items that load asks for.
LEMMA ItemGuards ==
  /\ \A key \in {"alphabet", "bwtRle", "firstToLast", "lastToFirst"} :
       ~Alias(Base(key)) /\ GuardsOf(Base(key)) = {Base(key)}
  /\ \A key \in {"firstToLast", "lastToFirst", "firstTextAlpha"}, k \in Rates :
       ~Alias(<<key, "plain", k>>) /\ GuardsOf(<<key, "plain", k>>) = {<<key, "plain", k>>}
  /\ \A key \in {"psiFirstText", "psiLink", "psiCumulative"}, k \in Rates \cup {NoRate} :
       ~Alias(<<key, "iv", k>>) /\ GuardsOf(<<key, "iv", k>>) = {<<key, "iv", k>>}
  /\ \A k \in Rates :
       ~Alias(<<"psiValidArea", "iv", k>>)
       /\ GuardsOf(<<"psiValidArea", "iv", k>>) =
            {<<"psiValidArea", "iv", k>>, <<"psiValidMark", "bv", k>>}
<1>1. \A key \in {"alphabet", "bwtRle", "firstToLast", "lastToFirst"} :
        ~Alias(Base(key)) /\ GuardsOf(Base(key)) = {Base(key)}
  BY DEF Alias, GuardsOf, Base
<1>2. \A key \in {"firstToLast", "lastToFirst", "firstTextAlpha"}, k \in Rates :
        ~Alias(<<key, "plain", k>>) /\ GuardsOf(<<key, "plain", k>>) = {<<key, "plain", k>>}
  BY BuildCacheAssumption DEF Alias, GuardsOf
<1>3. \A key \in {"psiFirstText", "psiLink", "psiCumulative"}, k \in Rates \cup {NoRate} :
        ~Alias(<<key, "iv", k>>) /\ GuardsOf(<<key, "iv", k>>) = {<<key, "iv", k>>}
  BY DEF Alias, GuardsOf
<1>4. \A k \in Rates :
        ~Alias(<<"psiValidArea", "iv", k>>)
        /\ GuardsOf(<<"psiValidArea", "iv", k>>) =
             {<<"psiValidArea", "iv", k>>, <<"psiValidMark", "bv", k>>}
  BY DEF Alias, GuardsOf
<1>5. QED
  BY <1>1, <1>2, <1>3, <1>4

\* A bit vector guards itself, its rank and its select.
LEMMA BvGuards ==
  ASSUME NEW key, NEW k, NEW type \in {"bv", "rank", "select"}
  PROVE  ~Alias(<<key, type, k>>) /\ GuardsOf(<<key, type, k>>) = {<<key, "bv", k>>}
BY DEF Alias, GuardsOf

\* An index that loads a bit vector with its rank loads their guard.
LEMMA BvProtected ==
  ASSUME NEW items, NEW q, NEW key, NEW k, BvRank(key, k) \subseteq items
  PROVE  /\ \A x \in BvRank(key, k) : Protected(x, items, q)
         /\ \A x \in BvSelect(key, k) : Protected(x, items, q)
         /\ Protected(<<key, "bv", k>>, items, q)
<1>1. ASSUME NEW type \in {"bv", "rank", "select"}
      PROVE  Protected(<<key, type, k>>, items, q)
  <2>1. ~Alias(<<key, type, k>>) /\ GuardsOf(<<key, type, k>>) = {<<key, "bv", k>>}
    BY BvGuards
  <2>2. <<key, "bv", k>> \in items
    BY DEF BvRank
  <2>3. QED
    BY <2>1, <2>2 DEF Protected
<1>2. /\ Protected(<<key, "bv", k>>, items, q) /\ Protected(<<key, "rank", k>>, items, q)
      /\ Protected(<<key, "select", k>>, items, q)
  BY <1>1
<1>3. QED
  BY <1>2 DEF BvRank, BvSelect

\* The valid marks and areas of a class at a rate.
ValidItems(v, k, mark, area, type) ==
  (IF v.kind # "sr" THEN {<<mark, "bv", k>>} ELSE {})
  \cup (IF v.kind = "va" THEN BvRank(mark, k) \cup {<<area, type, k>>} ELSE {})

\* Whatever class load(config) is asked for, its stages are good and protect its items.
LEMMA ClassIsGood ==
  ASSUME NEW v, NEW k, ClassAtRate(v, k)
  PROVE  /\ GoodStages(StagesOf(v, k))
         /\ \A x \in ItemsOf(v, k) : Protected(x, ItemsOf(v, k), StagesOf(v, k))
<1> DEFINE items == ItemsOf(v, k)
           q == StagesOf(v, k)
           valid == v.kind \in {"vm", "va"}
<1>1. /\ v.layout \in {"bwt", "position", "alphabet", "psi"} /\ v.kind \in {"r", "sr", "vm", "va"}
      /\ v.layout = "alphabet" => v.kind # "r"
      /\ v.kind = "r" => k = NoRate
      /\ v.kind # "r" => k \in Rates
  BY BuildCacheAssumption DEF ClassAtRate
<1>2. Base("alphabet") = <<"alphabet", "plain", NoRate>>
  BY DEF Base
<1>3. CASE v.layout = "bwt" /\ v.kind = "r"
  <2>1. q = RIndexStages
    BY <1>3 DEF StagesOf
  <2>2. items = {Base("alphabet"), Base("bwtRle"), Base("lastText"), Base("firstToLast")}
                \cup BvSelect("firstText", NoRate)
    BY <1>3 DEF ItemsOf, AtRate, Base
  <2> HIDE DEF items, q
  <2>3. BvRank("firstText", NoRate) \subseteq items
    BY <2>2 DEF BvSelect
  <2>4. \A x \in {Base("alphabet"), Base("bwtRle"), Base("lastText"), Base("firstToLast")} :
          Protected(x, items, q)
    BY <2>1, <2>2, ItemGuards, OtherGuards, RIndexIsGood DEF Protected
  <2>5. \A x \in BvSelect("firstText", NoRate) : Protected(x, items, q)
    BY <2>3, BvProtected
  <2>6. GoodStages(q) /\ \A x \in items : Protected(x, items, q)
    BY <2>1, <2>2, <2>4, <2>5, RIndexIsGood
  <2>7. QED
    BY <2>6 DEF items, q
<1>4. CASE v.layout = "bwt" /\ v.kind # "r"
  <2> DEFINE base == {Base("alphabet"), Base("bwtRle"), <<"lastText", "plain", k>>,
                      <<"firstToLast", "plain", k>>}
             more == ValidItems(v, k, "firstValidMark", "firstValidArea", "plain")
             vs == ValidityStages("firstValidMark", "firstValidArea", k,
                                  "firstText", "firstSorted", "firstByLast", "lastText")
  <2>1. q = SrIndexStages(k) \o (IF valid THEN vs ELSE <<>>) /\ k \in Rates
    BY <1>1, <1>4 DEF StagesOf
  <2>2. items = base \cup BvSelect("firstByLast", k) \cup BvRank("lastIdx", k) \cup more
    BY <1>4 DEF ItemsOf, AtRate, Base, ValidItems
  <2> HIDE DEF items, q, vs
  <2>3. GoodStages(vs) /\ Guarded(vs, <<"firstValidMark", "plain", k>>)
    BY <2>1, ValidityIsGood DEF vs
  <2>4. /\ GoodStages(q) /\ Guarded(q, <<"lastIdx", "plain", k>>)
        /\ valid => Guarded(q, <<"firstValidMark", "plain", k>>)
    <3>1. GoodStages(IF valid THEN vs ELSE <<>>)
      BY <2>3, GoodTuples
    <3>2. valid => Guarded(IF valid THEN vs ELSE <<>>, <<"firstValidMark", "plain", k>>)
      BY <2>3
    <3>3. QED
      BY <2>1, <3>1, <3>2, SrIndexIsGood, GoodConcat, GuardedConcat
  <2>5. \A x \in base : Protected(x, items, q)
    <3>1. /\ ~Alias(Base("alphabet")) /\ GuardsOf(Base("alphabet")) = {Base("alphabet")}
          /\ ~Alias(Base("bwtRle")) /\ GuardsOf(Base("bwtRle")) = {Base("bwtRle")}
          /\ ~Alias(<<"firstToLast", "plain", k>>)
          /\ GuardsOf(<<"firstToLast", "plain", k>>) = {<<"firstToLast", "plain", k>>}
      BY <2>1, ItemGuards
    <3>2. /\ ~Alias(<<"lastText", "plain", k>>)
          /\ GuardsOf(<<"lastText", "plain", k>>) = {<<"lastIdx", "plain", k>>}
      BY <2>1, OtherGuardsAtRate
    <3>3. QED
      BY <2>2, <2>4, <3>1, <3>2 DEF Protected
  <2>6. \A x \in BvSelect("firstByLast", k) \cup BvRank("lastIdx", k) : Protected(x, items, q)
    <3>1. BvRank("firstByLast", k) \subseteq items /\ BvRank("lastIdx", k) \subseteq items
      BY <2>2 DEF BvSelect
    <3>2. QED
      BY <3>1, BvProtected
  <2>7. ASSUME NEW x \in more PROVE Protected(x, items, q)
    <3>1. CASE x = <<"firstValidArea", "plain", k>> /\ v.kind = "va"
      <4>1. /\ ~Alias(<<"firstValidArea", "plain", k>>)
            /\ GuardsOf(<<"firstValidArea", "plain", k>>) = {<<"firstValidMark", "plain", k>>}
        BY <2>1, OtherGuardsAtRate
      <4>2. QED
        BY <2>4, <3>1, <4>1 DEF Protected
    <3>2. CASE x = <<"firstValidMark", "bv", k>>
      <4>1. <<"firstValidMark", "bv", k>> \in items
        BY <2>2, <2>7, <3>2
      <4>2. /\ ~Alias(<<"firstValidMark", "bv", k>>)
            /\ GuardsOf(<<"firstValidMark", "bv", k>>) = {<<"firstValidMark", "bv", k>>}
        BY BvGuards
      <4>3. QED
        BY <3>2, <4>1, <4>2 DEF Protected
    <3>3. CASE v.kind = "va" /\ x \in BvRank("firstValidMark", k)
      <4>1. BvRank("firstValidMark", k) \subseteq items
        BY <2>2, <3>3 DEF ValidItems
      <4>2. QED
        BY <3>3, <4>1, BvProtected
    <3>4. QED
      BY <2>7, <3>1, <3>2, <3>3 DEF ValidItems
  <2>8. \A x \in items : Protected(x, items, q)
    BY <2>2, <2>5, <2>6, <2>7
  <2>9. QED
    BY <2>4, <2>8 DEF items, q
<1>5. CASE v.layout = "position" /\ v.kind = "r"
  <2>1. q = RCsaStages
    BY <1>5 DEF StagesOf
  <2>2. items = {Base("alphabet"), Typed("psi", "rle"), Base("firstText"), Base("lastToFirst")}
                \cup BvSelect("lastText", NoRate)
    BY <1>5 DEF ItemsOf, AtRate, Base
  <2> HIDE DEF items, q
  <2>3. BvRank("lastText", NoRate) \subseteq items
    BY <2>2 DEF BvSelect
  <2>4. \A x \in {Base("alphabet"), Typed("psi", "rle"), Base("firstText"), Base("lastToFirst")} :
          Protected(x, items, q)
    BY <2>1, <2>2, ItemGuards, OtherGuards, RCsaIsGood DEF Protected
  <2>5. \A x \in BvSelect("lastText", NoRate) : Protected(x, items, q)
    BY <2>3, BvProtected
  <2>6. GoodStages(q) /\ \A x \in items : Protected(x, items, q)
    BY <2>1, <2>2, <2>4, <2>5, RCsaIsGood
  <2>7. QED
    BY <2>6 DEF items, q
<1>6. CASE v.layout \in {"position", "alphabet"} /\ v.kind # "r" 
  <2> DEFINE position == v.layout = "position"
             base == {Base("alphabet"), Typed("psi", "rle")}
             own == IF position
                    THEN {<<"firstText", "plain", k>>, <<"lastToFirst", "plain", k>>}
                         \cup BvSelect("first", k)
                    ELSE {<<"firstTextAlpha", "plain", k>>, <<"lastToFirstAlpha", "plain", k>>}
                         \cup BvRank("firstIdxAlpha", k) \cup {Base("cumulative")}
             more == ValidItems(v, k, "lastValidMark", "lastValidArea", "plain")
             vs == ValidityStages("lastValidMark", "lastValidArea", k,
                                  "lastText", "lastSorted", "lastByFirst", "firstText")
             stages == IF position THEN PositionStages(k) ELSE AlphabetStages(k)
  <2>1. q = stages \o (IF valid THEN vs ELSE <<>>) /\ k \in Rates
    BY <1>1, <1>6 DEF StagesOf
  <2>2. items = base \cup BvSelect("lastByFirst", k) \cup own \cup more
    BY <1>6 DEF ItemsOf, AtRate, ValidItems
  <2> HIDE DEF items, q, vs
  <2>3. GoodStages(vs) /\ Guarded(vs, <<"lastValidMark", "plain", k>>)
    BY <2>1, ValidityIsGood DEF vs
  <2>4. /\ GoodStages(q) /\ Guarded(q, Base("psi"))
        /\ position => Guarded(q, <<"firstIdx", "plain", k>>)
        /\ ~position => Guarded(q, Base("firstIdxAlpha"))
        /\ valid => Guarded(q, <<"lastValidMark", "plain", k>>)
    <3>1. GoodStages(IF valid THEN vs ELSE <<>>)
      BY <2>3, GoodTuples
    <3>2. valid => Guarded(IF valid THEN vs ELSE <<>>, <<"lastValidMark", "plain", k>>)
      BY <2>3
    <3>3. /\ GoodStages(stages) /\ Guarded(stages, Base("psi"))
          /\ position => Guarded(stages, <<"firstIdx", "plain", k>>)
          /\ ~position => Guarded(stages, Base("firstIdxAlpha"))
      BY <2>1, PositionIsGood, AlphabetIsGood
    <3> HIDE DEF stages
    <3>4. QED
      BY <2>1, <3>1, <3>2, <3>3, GoodConcat, GuardedConcat
  <2>5. \A x \in base : Protected(x, items, q)
    BY <2>1, <2>2, <2>4, ItemGuards, OtherGuards DEF Protected
  <2>6. \A x \in BvSelect("lastByFirst", k) : Protected(x, items, q)
    <3>1. BvRank("lastByFirst", k) \subseteq items
      BY <2>2 DEF BvSelect
    <3>2. QED
      BY <3>1, BvProtected
  <2>7. ASSUME NEW x \in own PROVE Protected(x, items, q)
    <3>1. CASE position
      <4>1. CASE x \in {<<"firstText", "plain", k>>, <<"lastToFirst", "plain", k>>}
        <5>1. /\ ~Alias(<<"lastToFirst", "plain", k>>)
              /\ GuardsOf(<<"lastToFirst", "plain", k>>) = {<<"lastToFirst", "plain", k>>}
          BY <2>1, ItemGuards
        <5>2. /\ ~Alias(<<"firstText", "plain", k>>)
              /\ GuardsOf(<<"firstText", "plain", k>>) = {<<"firstIdx", "plain", k>>}
          BY <2>1, OtherGuardsAtRate
        <5>3. QED
          BY <2>2, <2>4, <3>1, <4>1, <5>1, <5>2 DEF Protected
      <4>2. CASE x \in BvSelect("first", k)
        <5>1. BvRank("first", k) \subseteq items
          BY <2>2, <3>1 DEF BvSelect
        <5>2. QED
          BY <4>2, <5>1, BvProtected
      <4>3. QED
        BY <2>7, <3>1, <4>1, <4>2
    <3>2. CASE ~position
      <4>1. CASE x \in {<<"firstTextAlpha", "plain", k>>, <<"lastToFirstAlpha", "plain", k>>}
        <5>1. /\ ~Alias(<<"firstTextAlpha", "plain", k>>)
              /\ GuardsOf(<<"firstTextAlpha", "plain", k>>) = {<<"firstTextAlpha", "plain", k>>}
          BY <2>1, ItemGuards
        <5>2. /\ ~Alias(<<"lastToFirstAlpha", "plain", k>>)
              /\ GuardsOf(<<"lastToFirstAlpha", "plain", k>>) = {<<"firstTextAlpha", "plain", k>>}
          BY <2>1, OtherGuardsAtRate
        <5>3. QED
          BY <2>2, <3>2, <4>1, <5>1, <5>2 DEF Protected
      <4>2. CASE x \in BvRank("firstIdxAlpha", k)
        <5>1. BvRank("firstIdxAlpha", k) \subseteq items
          BY <2>2, <3>2
        <5>2. QED
          BY <4>2, <5>1, BvProtected
      <4>3. CASE x = Base("cumulative")
        BY <2>4, <3>2, <4>3, OtherGuards DEF Protected
      <4>4. QED
        BY <2>7, <3>2, <4>1, <4>2, <4>3
    <3>3. QED
      BY <3>1, <3>2
  <2>8. ASSUME NEW x \in more PROVE Protected(x, items, q)
    <3>1. CASE x = <<"lastValidArea", "plain", k>> /\ v.kind = "va"
      <4>1. /\ ~Alias(<<"lastValidArea", "plain", k>>)
            /\ GuardsOf(<<"lastValidArea", "plain", k>>) = {<<"lastValidMark", "plain", k>>}
        BY <2>1, OtherGuardsAtRate
      <4>2. QED
        BY <2>4, <3>1, <4>1 DEF Protected
    <3>2. CASE x = <<"lastValidMark", "bv", k>>
      <4>1. <<"lastValidMark", "bv", k>> \in items
        BY <2>2, <2>8, <3>2
      <4>2. /\ ~Alias(<<"lastValidMark", "bv", k>>)
            /\ GuardsOf(<<"lastValidMark", "bv", k>>) = {<<"lastValidMark", "bv", k>>}
        BY BvGuards
      <4>3. QED
        BY <3>2, <4>1, <4>2 DEF Protected
    <3>3. CASE v.kind = "va" /\ x \in BvRank("lastValidMark", k)
      <4>1. BvRank("lastValidMark", k) \subseteq items
        BY <2>2, <3>3 DEF ValidItems
      <4>2. QED
        BY <3>3, <4>1, BvProtected
    <3>4. QED
      BY <2>8, <3>1, <3>2, <3>3 DEF ValidItems
  <2>9. \A x \in items : Protected(x, items, q)
    BY <2>2, <2>5, <2>6, <2>7, <2>8
  <2>10. QED
    BY <2>4, <2>9 DEF items, q
<1>7. CASE v.layout = "psi" /\ v.kind = "r"
  <2>1. q = RCsaPsiStages
    BY <1>7 DEF StagesOf
  <2>2. items = {Base("alphabet"), Typed("psi", "rle"), <<"psiFirstText", "iv", NoRate>>,
                 <<"psiLink", "iv", NoRate>>} \cup BvSelect("psiLastText", NoRate)
    BY <1>7 DEF ItemsOf, AtRate
  <2> HIDE DEF items, q
  <2>3. BvRank("psiLastText", NoRate) \subseteq items
    BY <2>2 DEF BvSelect
  <2>4. \A x \in {Base("alphabet"), Typed("psi", "rle"), <<"psiFirstText", "iv", NoRate>>,
                  <<"psiLink", "iv", NoRate>>} : Protected(x, items, q)
    BY <2>1, <2>2, ItemGuards, OtherGuards, RCsaPsiIsGood DEF Protected
  <2>5. \A x \in BvSelect("psiLastText", NoRate) : Protected(x, items, q)
    BY <2>3, BvProtected
  <2>6. GoodStages(q) /\ \A x \in items : Protected(x, items, q)
    BY <2>1, <2>2, <2>4, <2>5, RCsaPsiIsGood
  <2>7. QED
    BY <2>6 DEF items, q
<1>8. CASE v.layout = "psi" /\ v.kind # "r"
  <2> DEFINE base == {Base("alphabet"), Typed("psi", "rle"), Typed("psiCumulative", "iv"),
                      <<"psiFirstText", "iv", k>>, <<"psiLink", "iv", k>>}
             more == ValidItems(v, k, "psiValidMark", "psiValidArea", "iv")
             vm == IF valid THEN PsiValidMarkStages(k) ELSE <<>>
             va == IF v.kind = "va" THEN <<PsiValidAreaStage(k)>> ELSE <<>>
  <2>1. q = SrCsaPsiStages(k) \o vm \o va /\ k \in Rates
    BY <1>1, <1>8 DEF StagesOf
  <2>2. items = base \cup BvSelect("psiLastText", k) \cup BvRank("psiFirstIdx", k) \cup more
    BY <1>8 DEF ItemsOf, AtRate, ValidItems
  <2>3. GoodStages(vm) /\ GoodStages(va)
    BY <2>1, PsiValidityIsGood, GoodTuples
  <2> HIDE DEF items, q, vm, va
  <2>4. GoodStages(q) /\ Guarded(q, Base("psi"))
    BY <2>1, <2>3, SrCsaPsiIsGood, GoodConcat, GuardedConcat
  <2>5. \A x \in base : Protected(x, items, q)
    <3>1. /\ ~Alias(Base("alphabet")) /\ GuardsOf(Base("alphabet")) = {Base("alphabet")}
          /\ ~Alias(Typed("psi", "rle")) /\ GuardsOf(Typed("psi", "rle")) = {Base("psi")}
      BY ItemGuards, OtherGuards
    <3>2. /\ ~Alias(Typed("psiCumulative", "iv"))
          /\ GuardsOf(Typed("psiCumulative", "iv")) = {Typed("psiCumulative", "iv")}
      BY ItemGuards DEF Typed
    <3>3. /\ ~Alias(<<"psiFirstText", "iv", k>>)
          /\ GuardsOf(<<"psiFirstText", "iv", k>>) = {<<"psiFirstText", "iv", k>>}
          /\ ~Alias(<<"psiLink", "iv", k>>)
          /\ GuardsOf(<<"psiLink", "iv", k>>) = {<<"psiLink", "iv", k>>}
      BY <2>1, ItemGuards
    <3>4. QED
      BY <2>2, <2>4, <3>1, <3>2, <3>3 DEF Protected
  <2>6. \A x \in BvSelect("psiLastText", k) \cup BvRank("psiFirstIdx", k) : Protected(x, items, q)
    <3>1. BvRank("psiLastText", k) \subseteq items /\ BvRank("psiFirstIdx", k) \subseteq items
      BY <2>2 DEF BvSelect
    <3>2. QED
      BY <3>1, BvProtected
  <2>7. ASSUME NEW x \in more PROVE Protected(x, items, q)
    <3>1. CASE x = <<"psiValidArea", "iv", k>> /\ v.kind = "va"
      BY <2>1, <2>2, <3>1, ItemGuards DEF Protected, ValidItems
    <3>2. CASE x = <<"psiValidMark", "bv", k>>
      <4>1. <<"psiValidMark", "bv", k>> \in items
        BY <2>2, <2>7, <3>2
      <4>2. /\ ~Alias(<<"psiValidMark", "bv", k>>)
            /\ GuardsOf(<<"psiValidMark", "bv", k>>) = {<<"psiValidMark", "bv", k>>}
        BY BvGuards
      <4>3. QED
        BY <3>2, <4>1, <4>2 DEF Protected
    <3>3. CASE v.kind = "va" /\ x \in BvRank("psiValidMark", k)
      <4>1. BvRank("psiValidMark", k) \subseteq items
        BY <2>2, <3>3 DEF ValidItems
      <4>2. QED
        BY <3>3, <4>1, BvProtected
    <3>4. QED
      BY <2>7, <3>1, <3>2, <3>3 DEF ValidItems
  <2>8. \A x \in items : Protected(x, items, q)
    BY <2>2, <2>5, <2>6, <2>7
  <2>9. QED
    BY <2>4, <2>8 DEF items, q
<1> HIDE DEF items, q
<1>9. GoodStages(q) /\ \A x \in items : Protected(x, items, q)
  BY <1>1, <1>3, <1>4, <1>5, <1>6, <1>7, <1>8 DEF items, q
<1>10. QED
  BY <1>9 DEF items, q

-----------------------------------------------------------------------------
(* The invariant. *)

\* An index that was built and loaded: its items are right, and the guards they
\* were written under are there.
Kept(fs, ix) ==
  /\ ClassAtRate(ix.v, ix.k)
  /\ \A x \in ItemsOf(ix.v, ix.k) :
       /\ x \in DOMAIN fs /\ fs[x] \in {x, <<x[1], "iv", x[3]>>}
       /\ \A g \in GuardsOf(x) : g \in DOMAIN fs

\* How far a build b got, F being the files that are there: a guard of every
\* stage before its own is there, and the files of the groups it has opened.
Progress(q, b, F) ==
  /\ \A i \in DOMAIN q : i < b.at => \E g \in q[i].guards : g \in F
  /\ b.at \in DOMAIN q =>
       LET groups == q[b.at].groups
       IN /\ b.group \in DOMAIN groups /\ b.closed + 1 \in DOMAIN groups[b.group]
          /\ \A i \in DOMAIN groups : i < b.group \/ (i = b.group /\ b.open) =>
               \A j \in DOMAIN groups[i] : groups[i][j].item \in F

\* A stage that has opened files opens none of an index that was loaded.
Apart(S, indexes) == \A ix \in indexes : \A x \in ItemsOf(ix.v, ix.k) : ~Writes(S, x)

Untouched(q, b, indexes) ==
  b.at \in DOMAIN q /\ (b.open \/ b.group > 1) => Apart(q[b.at], indexes)

Builds == [v : Variants, k : Rates \cup {NoRate}, at : Nat \ {0}, group : Nat \ {0},
           closed : Nat, open : BOOLEAN]

Underway(b, fs, indexes) ==
  LET q == StagesOf(b.v, b.k)
  IN /\ b \in Builds /\ ClassAtRate(b.v, b.k)
     /\ Progress(q, b, DOMAIN fs) /\ Untouched(q, b, indexes)

BuiltInv ==
  /\ \A name \in DOMAIN fileMap : Alias(name)
  /\ \A ix \in loaded : Kept(files, ix)
  /\ build # Idle => Underway(build, files, loaded)
  /\ BuiltStaysBuilt

-----------------------------------------------------------------------------
(* What a step keeps. *)

\* Only the alias leads to a file of another name.
LEMMA Names ==
  ASSUME \A name \in DOMAIN fileMap : Alias(name), NEW x, ~Alias(x)
  PROVE  Lookup(x) = x /\ (Exists(x) <=> x \in DOMAIN files)
<1>1. x \notin DOMAIN fileMap
  OBVIOUS
<1>2. QED
  BY <1>1 DEF Lookup, FileOf, Exists

\* A class at a rate has good stages, and the stages of a build are those.
LEMMA StagesAre ==
  ASSUME NEW b, b \in Builds
  PROVE  StagesTable[b.v][b.k] = StagesOf(b.v, b.k)
<1>1. b.v \in Variants /\ b.k \in Rates \cup {NoRate}
  BY DEF Builds
<1>2. QED
  BY <1>1 DEF StagesTable

\* A stage whose guards are not there writes no file of a loaded index.
LEMMA OpensApart ==
  ASSUME NEW S, NEW fs, NEW indexes, Good(S),
         \A g \in S.guards : g \notin DOMAIN fs,
         \A ix \in indexes : Kept(fs, ix)
  PROVE  Apart(S, indexes)
<1>1. SUFFICES ASSUME NEW ix \in indexes, NEW x \in ItemsOf(ix.v, ix.k), Writes(S, x)
               PROVE  FALSE
  BY DEF Apart
<1>2. PICK g \in GuardsOf(x) : g \in S.guards
  BY <1>1 DEF Good
<1>3. g \in DOMAIN fs
  BY <1>1, <1>2 DEF Kept
<1>4. QED
  BY <1>2, <1>3

\* An index is kept when the directory grows and its items do not change.
LEMMA KeptIsKept ==
  ASSUME NEW fs, NEW gs, NEW ix, Kept(fs, ix), DOMAIN fs \subseteq DOMAIN gs,
         \A x \in ItemsOf(ix.v, ix.k) : gs[x] = fs[x]
  PROVE  Kept(gs, ix)
BY DEF Kept

\* So is the progress of a build.
LEMMA ProgressGrows ==
  ASSUME NEW q, NEW b, NEW F, NEW G, Progress(q, b, F), F \subseteq G
  PROVE  Progress(q, b, G)
BY DEF Progress

\* The first file of a stage is the next after a guard of the stage before is there.
LEMMA StageBegins ==
  ASSUME NEW q, NEW c, NEW F, GoodStages(q), c.at \in Nat \ {0},
         \A i \in DOMAIN q : i < c.at => \E g \in q[i].guards : g \in F,
         c.group = 1, c.closed = 0, c.open = FALSE, NEW indexes
  PROVE  Progress(q, c, F) /\ Untouched(q, c, indexes)
<1>1. ASSUME c.at \in DOMAIN q
      PROVE  /\ 1 \in DOMAIN q[c.at].groups
             /\ 1 \in DOMAIN q[c.at].groups[1]
             /\ DOMAIN q[c.at].groups \subseteq Nat \ {0}
  BY <1>1, GoodEach DEF Good, Filled
<1>2. QED
  BY <1>1 DEF Progress, Untouched

\* A stage ends with a guard of it in the directory, and the next begins.
LEMMA StageEnds ==
  ASSUME NEW q, NEW b, NEW c, NEW F, GoodStages(q), b.at \in DOMAIN q,
         Progress(q, b, F), \E g \in q[b.at].guards : g \in F,
         c.at = b.at + 1, c.group = 1, c.closed = 0, c.open = FALSE, NEW indexes
  PROVE  Progress(q, c, F) /\ Untouched(q, c, indexes)
<1>1. Len(q) \in Nat /\ DOMAIN q = 1..Len(q)
  BY GoodEach
<1>2. c.at \in Nat \ {0}
  BY <1>1
<1>3. ASSUME NEW i \in DOMAIN q, i < c.at PROVE \E g \in q[i].guards : g \in F
  <2>1. i < b.at \/ i = b.at
    BY <1>1, <1>3
  <2>2. QED
    BY <2>1 DEF Progress
<1>4. QED
  BY <1>2, <1>3, StageBegins

-----------------------------------------------------------------------------

\* The state between two steps of a build, in the terms of its class.
LEMMA AtStage ==
  ASSUME BuiltInv, build # Idle
  PROVE  /\ build \in Builds /\ ClassAtRate(build.v, build.k)
         /\ Stages = StagesOf(build.v, build.k) /\ GoodStages(Stages)
         /\ Progress(Stages, build, DOMAIN files) /\ Untouched(Stages, build, loaded)
         /\ Building <=> build.at \in DOMAIN Stages
         /\ Building => Good(Current)
<1>1. Underway(build, files, loaded)
  BY DEF BuiltInv
<1>2. build \in Builds /\ ClassAtRate(build.v, build.k)
  BY <1>1 DEF Underway
<1>3. Stages = StagesOf(build.v, build.k)
  BY <1>2, StagesAre DEF Stages
<1>4. GoodStages(Stages)
  BY <1>2, <1>3, ClassIsGood
<1>5. Len(Stages) \in Nat /\ DOMAIN Stages = 1..Len(Stages)
  BY <1>4 DEF GoodStages
<1>6. build.at \in Nat \ {0}
  BY <1>2 DEF Builds
<1>7. Building <=> build.at \in DOMAIN Stages
  BY <1>5, <1>6 DEF Building
<1>8. Building => Good(Current)
  BY <1>4, <1>7, GoodEach DEF Current
<1>9. QED
  BY <1>1, <1>2, <1>3, <1>4, <1>7, <1>8 DEF Underway

\* A build that starts has passed no stage.
LEMMA StartKeeps ==
  ASSUME BuiltInv, NEW v \in Variants, NEW k \in Rates, Start(v, k)
  PROVE  BuiltInv'
<1> DEFINE rate == IF v.kind = "r" THEN NoRate ELSE k
           b == [v |-> v, k |-> rate, at |-> 1, group |-> 1, closed |-> 0, open |-> FALSE]
<1>1. build' = b /\ result' = [how |-> "none"] /\ UNCHANGED <<files, loaded>>
      /\ fileMap' \in {fileMap, <<>>}
  BY DEF Start
<1>2. ClassAtRate(v, rate)
  BY DEF ClassAtRate
<1>3. b \in Builds
  BY DEF Builds
<1>4. /\ b.v = v /\ b.k = rate /\ b.at = 1 /\ b.group = 1 /\ b.closed = 0 /\ b.open = FALSE
  OBVIOUS
<1> HIDE DEF b, rate
<1>5. GoodStages(StagesOf(v, rate))
  BY <1>2, ClassIsGood
<1>6. \A i \in DOMAIN StagesOf(v, rate) : ~(i < 1)
  <2>1. Len(StagesOf(v, rate)) \in Nat
        /\ DOMAIN StagesOf(v, rate) = 1..Len(StagesOf(v, rate))
    BY <1>5 DEF GoodStages
  <2>2. QED
    BY <2>1
<1>12. 1 \in Nat \ {0}
  OBVIOUS
<1>7. Progress(StagesOf(v, rate), b, DOMAIN files) /\ Untouched(StagesOf(v, rate), b, loaded)
  BY <1>4, <1>5, <1>6, <1>12, StageBegins
<1>8. Underway(b, files, loaded)
  BY <1>2, <1>3, <1>4, <1>7 DEF Underway
<1>9. \A name \in DOMAIN fileMap' : Alias(name)
  <2>1. DOMAIN <<>> = {}
    OBVIOUS
  <2>2. QED
    BY <1>1, <2>1 DEF BuiltInv
<1>10. BuiltStaysBuilt'
  BY <1>1 DEF BuiltStaysBuilt
<1>11. QED
  BY <1>1, <1>8, <1>9, <1>10 DEF BuiltInv

\* A stage is skipped for a guard that is there.
LEMMA SkipKeeps == BuiltInv /\ SkipStage => BuiltInv'
<1> SUFFICES ASSUME BuiltInv, SkipStage PROVE BuiltInv'
  OBVIOUS
<1>1. /\ Building /\ build' = NextStage /\ UNCHANGED <<files, fileMap, loaded, result>>
      /\ build # Idle /\ \E g \in Current.guards : Exists(g)
  BY DEF SkipStage, Building
<1>2. /\ build \in Builds /\ ClassAtRate(build.v, build.k)
      /\ Stages = StagesOf(build.v, build.k) /\ GoodStages(Stages)
      /\ Progress(Stages, build, DOMAIN files) /\ build.at \in DOMAIN Stages /\ Good(Current)
  BY <1>1, AtStage
<1>3. \E g \in Stages[build.at].guards : g \in DOMAIN files
  BY <1>1, <1>2, Names DEF Good, Current, BuiltInv
<1>4. /\ build' \in Builds /\ build'.v = build.v /\ build'.k = build.k
      /\ build'.at = build.at + 1 /\ build'.group = 1 /\ build'.closed = 0
      /\ build'.open = FALSE
  <2>1. build' = [v |-> build.v, k |-> build.k, at |-> build.at + 1, group |-> 1,
                  closed |-> 0, open |-> FALSE]
    BY <1>1, <1>2 DEF NextStage, Builds
  <2>2. build.v \in Variants /\ build.k \in Rates \cup {NoRate} /\ build.at + 1 \in Nat \ {0}
    BY <1>2 DEF Builds
  <2>3. QED
    BY <2>1, <2>2 DEF Builds
<1>5. Progress(Stages, build', DOMAIN files) /\ Untouched(Stages, build', loaded)
  BY <1>2, <1>3, <1>4, StageEnds
<1>6. Underway(build', files, loaded)
  BY <1>2, <1>4, <1>5 DEF Underway
<1>7. QED
  BY <1>1, <1>6 DEF BuiltInv, BuiltStaysBuilt

\* Opening a group cuts no file of a loaded index: the guard of such a file is there.
LEMMA OpenKeeps == BuiltInv /\ OpenGroup => BuiltInv'
<1> SUFFICES ASSUME BuiltInv, OpenGroup PROVE BuiltInv'
  OBVIOUS
<1>1. /\ Building /\ ~build.open /\ build # Idle /\ UNCHANGED <<fileMap, loaded, result>>
      /\ Begun \/ \A g \in Current.guards : ~Exists(g)
      /\ files' = Override(files, [f \in {Lookup(Group[i].item) : i \in DOMAIN Group} |-> Cut])
      /\ build' = [build EXCEPT !.open = TRUE]
  BY DEF OpenGroup, Building
<1>2. /\ build \in Builds /\ ClassAtRate(build.v, build.k)
      /\ Stages = StagesOf(build.v, build.k) /\ GoodStages(Stages)
      /\ Progress(Stages, build, DOMAIN files) /\ Untouched(Stages, build, loaded)
      /\ build.at \in DOMAIN Stages /\ Good(Current)
  BY <1>1, AtStage
<1>3. Apart(Current, loaded)
  <2>1. CASE Begun
    BY <1>2, <2>1 DEF Untouched, Begun, Current
  <2>2. CASE \A g \in Current.guards : ~Exists(g)
    <3>1. \A g \in Current.guards : g \notin DOMAIN files
      BY <1>2, <2>2, Names DEF Good, BuiltInv
    <3>2. QED
      BY <1>2, <3>1, OpensApart DEF BuiltInv
  <2>3. QED
    BY <1>1, <2>1, <2>2
<1>4. build.group \in DOMAIN Current.groups /\ Group = Current.groups[build.group]
  BY <1>2 DEF Progress, Current, Group
<1>5. \A i \in DOMAIN Group : Writes(Current, Group[i].item) /\ Lookup(Group[i].item) = Group[i].item
  <2>1. ASSUME NEW i \in DOMAIN Group PROVE Writes(Current, Group[i].item)
    BY <1>4 DEF Writes
  <2>2. \A i \in DOMAIN Group : ~Alias(Group[i].item)
    BY <1>2, <2>1 DEF Good
  <2>3. QED
    BY <2>1, <2>2, Names DEF BuiltInv
<1>6. /\ DOMAIN files' = DOMAIN files \cup {Group[i].item : i \in DOMAIN Group}
      /\ \A x \in DOMAIN files' : x \notin {Group[i].item : i \in DOMAIN Group} => files'[x] = files[x]
  <2> DEFINE T == {Lookup(Group[i].item) : i \in DOMAIN Group}
  <2>1. T = {Group[i].item : i \in DOMAIN Group}
    BY <1>5
  <2> HIDE DEF T
  <2>2. files' = Override(files, [f \in T |-> Cut])
    BY <1>1 DEF T
  <2>3. QED
    BY <2>1, <2>2 DEF Override
<1>7. \A ix \in loaded : Kept(files', ix)
  <2>1. SUFFICES ASSUME NEW ix \in loaded PROVE Kept(files', ix)
    OBVIOUS
  <2>2. Kept(files, ix)
    BY DEF BuiltInv
  <2>3. ASSUME NEW x \in ItemsOf(ix.v, ix.k) PROVE files'[x] = files[x]
    <3>1. x \in DOMAIN files
      BY <2>2 DEF Kept
    <3>2. ~Writes(Current, x)
      BY <1>3 DEF Apart
    <3>3. x \notin {Group[i].item : i \in DOMAIN Group}
      BY <1>5, <3>2
    <3>4. QED
      BY <1>6, <3>1, <3>3
  <2>4. QED
    BY <1>6, <2>2, <2>3, KeptIsKept
<1>8. /\ build' \in Builds /\ build'.v = build.v /\ build'.k = build.k
      /\ build'.at = build.at /\ build'.group = build.group /\ build'.closed = build.closed
      /\ build'.open = TRUE
  BY <1>1, <1>2 DEF Builds
<1>9. Progress(Stages, build', DOMAIN files')
  <2>1. Progress(Stages, build, DOMAIN files')
    BY <1>2, <1>6, ProgressGrows
  <2>2. \A j \in DOMAIN Group : Group[j].item \in DOMAIN files'
    BY <1>6
  <2>3. QED
    BY <1>4, <1>8, <2>1, <2>2 DEF Progress, Current
<1>10. Untouched(Stages, build', loaded)
  BY <1>3, <1>8 DEF Untouched, Current
<1>11. Underway(build', files', loaded)
  BY <1>2, <1>8, <1>9, <1>10 DEF Underway
<1>12. QED
  BY <1>1, <1>7, <1>11 DEF BuiltInv, BuiltStaysBuilt

\* Closing a file changes none of a loaded index either, and the last ends the stage.
LEMMA CloseKeeps == BuiltInv /\ CloseFile => BuiltInv'
<1> SUFFICES ASSUME BuiltInv, CloseFile PROVE BuiltInv'
  OBVIOUS
<1> DEFINE f == Group[build.closed + 1]
           content == IF {f.item} \cap f.from = {} /\ \A item \in f.from : Right(item)
                      THEN f.item ELSE Wrong
<1>1. /\ Building /\ build.open /\ build # Idle /\ UNCHANGED <<loaded, result>>
      /\ files' = [files EXCEPT ![Lookup(f.item)] = content] /\ fileMap' = Registered(f.item)
      /\ build' = IF build.closed + 1 < Len(Group)
                  THEN [build EXCEPT !.closed = @ + 1]
                  ELSE IF build.group < Len(Current.groups)
                  THEN [build EXCEPT !.group = @ + 1, !.closed = 0, !.open = FALSE]
                  ELSE NextStage
  BY DEF CloseFile, Building
<1>2. /\ build \in Builds /\ ClassAtRate(build.v, build.k)
      /\ Stages = StagesOf(build.v, build.k) /\ GoodStages(Stages)
      /\ Progress(Stages, build, DOMAIN files) /\ Untouched(Stages, build, loaded)
      /\ build.at \in DOMAIN Stages /\ Good(Current)
  BY <1>1, AtStage
<1>3. Apart(Current, loaded)
  BY <1>1, <1>2 DEF Untouched, Current
<1>4. /\ build.group \in DOMAIN Current.groups /\ Group = Current.groups[build.group]
      /\ build.closed + 1 \in DOMAIN Group
  BY <1>2 DEF Progress, Current, Group
<1>5. Writes(Current, f.item)
  BY <1>4 DEF Writes
<1>6. Lookup(f.item) = f.item
  BY <1>2, <1>5, Names DEF Good, BuiltInv
<1>7. /\ DOMAIN files' = DOMAIN files
      /\ \A x \in DOMAIN files : x # f.item => files'[x] = files[x]
  BY <1>1, <1>6
<1>8. \A ix \in loaded : Kept(files', ix)
  <2>1. SUFFICES ASSUME NEW ix \in loaded PROVE Kept(files', ix)
    OBVIOUS
  <2>2. Kept(files, ix)
    BY DEF BuiltInv
  <2>3. \A x \in ItemsOf(ix.v, ix.k) : files'[x] = files[x]
    BY <1>3, <1>5, <1>7, <2>2 DEF Kept, Apart
  <2>4. QED
    BY <1>7, <2>2, <2>3, KeptIsKept
<1>9. \A name \in DOMAIN fileMap' : Alias(name)
  <2> DEFINE alias == <<f.item[1], "plain", f.item[3]>>
  <2>1. CASE f.item[1] = "psiFirstIdx" /\ f.item[2] = "iv"
    <3>1. Alias(alias)
      BY <2>1 DEF Alias
    <3> HIDE DEF f
    <3>2. DOMAIN fileMap' = DOMAIN fileMap \cup {alias}
      BY <1>1, <2>1 DEF Registered, Override
    <3>3. QED
      BY <3>1, <3>2 DEF BuiltInv
  <2>2. CASE ~(f.item[1] = "psiFirstIdx" /\ f.item[2] = "iv")
    BY <1>1, <2>2 DEF Registered, BuiltInv
  <2>3. QED
    BY <2>1, <2>2
<1> HIDE DEF f, content
<1>10. Underway(build', files', loaded)
  <2>1. /\ build.v \in Variants /\ build.k \in Rates \cup {NoRate} /\ build.at \in Nat \ {0}
        /\ build.group \in Nat \ {0} /\ build.closed \in Nat /\ build.open = TRUE
    BY <1>1, <1>2 DEF Builds
  <2>2. Filled(Current.groups) /\ Filled(Group)
    BY <1>2, <1>4 DEF Good
  <2>3. Progress(Stages, build, DOMAIN files')
    BY <1>2, <1>7
  <2>4. CASE build.closed + 1 < Len(Group)
    <3>1. build' = [v |-> build.v, k |-> build.k, at |-> build.at, group |-> build.group,
                    closed |-> build.closed + 1, open |-> TRUE]
      <4>1. build' = [build EXCEPT !.closed = @ + 1]
        BY <1>1, <2>4
      <4>2. QED
        BY <1>2, <2>1, <4>1 DEF Builds
    <3>2. /\ build' \in Builds /\ build'.v = build.v /\ build'.k = build.k
          /\ build'.at = build.at /\ build'.group = build.group
          /\ build'.closed = build.closed + 1 /\ build'.open = TRUE
      BY <2>1, <3>1 DEF Builds
    <3>3. build'.closed + 1 \in DOMAIN Group
      BY <2>1, <2>2, <2>4, <3>2 DEF Filled
    <3>4. Progress(Stages, build', DOMAIN files')
      BY <1>1, <1>4, <2>3, <3>2, <3>3 DEF Progress, Current
    <3>5. Untouched(Stages, build', loaded)
      BY <1>3, <3>2 DEF Untouched, Current
    <3>6. QED
      BY <1>2, <3>2, <3>4, <3>5 DEF Underway
  <2>5. CASE ~(build.closed + 1 < Len(Group)) /\ build.group < Len(Current.groups)
    <3>1. build' = [v |-> build.v, k |-> build.k, at |-> build.at, group |-> build.group + 1,
                    closed |-> 0, open |-> FALSE]
      <4>1. build' = [build EXCEPT !.group = @ + 1, !.closed = 0, !.open = FALSE]
        BY <1>1, <2>5
      <4>2. QED
        BY <1>2, <4>1 DEF Builds
    <3>2. /\ build' \in Builds /\ build'.v = build.v /\ build'.k = build.k
          /\ build'.at = build.at /\ build'.group = build.group + 1
          /\ build'.closed = 0 /\ build'.open = FALSE
      BY <2>1, <3>1 DEF Builds
    <3>3. build'.group \in DOMAIN Current.groups
      BY <2>1, <2>2, <2>5, <3>2 DEF Filled
    <3>4. 1 \in DOMAIN Current.groups[build'.group]
      BY <1>2, <3>3 DEF Good, Filled
    <3>5. \A i \in DOMAIN Current.groups : i < build'.group => i < build.group \/ i = build.group
      BY <2>1, <2>2, <3>2 DEF Filled
    <3>6. Progress(Stages, build', DOMAIN files')
      <4>1. /\ \A i \in DOMAIN Stages : i < build.at => \E g \in Stages[i].guards : g \in DOMAIN files'
            /\ \A i \in DOMAIN Current.groups : i < build.group \/ i = build.group =>
                 \A j \in DOMAIN Current.groups[i] : Current.groups[i][j].item \in DOMAIN files'
        BY <1>1, <1>2, <2>3 DEF Progress, Current
      <4>2. /\ build'.closed + 1 \in DOMAIN Current.groups[build'.group]
            /\ \A i \in DOMAIN Current.groups :
                 i < build'.group \/ (i = build'.group /\ build'.open) => i < build.group \/ i = build.group
        BY <3>2, <3>4, <3>5
      <4>3. QED
        BY <3>2, <3>3, <4>1, <4>2 DEF Progress, Current
    <3>7. Untouched(Stages, build', loaded)
      BY <1>3, <3>2 DEF Untouched, Current
    <3>8. QED
      BY <1>2, <3>2, <3>6, <3>7 DEF Underway
  <2>6. CASE ~(build.closed + 1 < Len(Group)) /\ ~(build.group < Len(Current.groups))
    <3>1. build' = [v |-> build.v, k |-> build.k, at |-> build.at + 1, group |-> 1,
                    closed |-> 0, open |-> FALSE]
      <4>1. build' = NextStage
        BY <1>1, <2>6
      <4>2. QED
        BY <1>2, <4>1 DEF NextStage, Builds
    <3>2. /\ build' \in Builds /\ build'.v = build.v /\ build'.k = build.k
          /\ build'.at = build.at + 1 /\ build'.group = 1
          /\ build'.closed = 0 /\ build'.open = FALSE
      BY <2>1, <3>1 DEF Builds
    <3>3. \A i \in DOMAIN Current.groups : i < build.group \/ i = build.group
      BY <1>4, <2>1, <2>2, <2>6 DEF Filled
    <3>4. \A i \in DOMAIN Current.groups : \A j \in DOMAIN Current.groups[i] :
            Current.groups[i][j].item \in DOMAIN files'
      BY <1>1, <1>2, <2>3, <3>3 DEF Progress, Current
    <3>5. \E g \in Stages[build.at].guards : g \in DOMAIN files'
      <4>1. PICK g \in Current.guards : Writes(Current, g)
        BY <1>2 DEF Good
      <4>2. g \in DOMAIN files'
        BY <3>4, <4>1 DEF Writes
      <4>3. QED
        BY <4>1, <4>2 DEF Current
    <3>6. Progress(Stages, build', DOMAIN files') /\ Untouched(Stages, build', loaded)
      BY <1>2, <2>3, <3>2, <3>5, StageEnds
    <3>7. QED
      BY <1>2, <3>2, <3>6 DEF Underway
  <2>7. QED
    BY <2>4, <2>5, <2>6
<1>11. QED
  BY <1>1, <1>8, <1>9, <1>10 DEF BuiltInv, BuiltStaysBuilt

\* What a build that ended has loaded right is kept: its guards are there too.
LEMMA LoadKeeps == BuiltInv /\ Load => BuiltInv'
<1> SUFFICES ASSUME BuiltInv, Load PROVE BuiltInv'
  OBVIOUS
<1> DEFINE items == ItemsOf(build.v, build.k)
           index == [v |-> build.v, k |-> build.k]
           how == IF \E item \in items : ~Exists(item) THEN "throws"
                  ELSE IF \A item \in items : Right(item) THEN "right" ELSE "wrong"
<1>1. /\ build # Idle /\ build.at > Len(Stages) /\ build' = Idle /\ UNCHANGED <<files, fileMap>>
      /\ result' = [how |-> how, index |-> index]
      /\ loaded' = IF how = "right" THEN loaded \cup {index} ELSE loaded
  BY DEF Load
<1>2. /\ build \in Builds /\ ClassAtRate(build.v, build.k)
      /\ Stages = StagesOf(build.v, build.k) /\ GoodStages(Stages)
      /\ Progress(Stages, build, DOMAIN files)
  BY <1>1, AtStage
<1>3. \A x \in items : Protected(x, items, Stages)
  BY <1>2, ClassIsGood
<1>4. index.v = build.v /\ index.k = build.k
  OBVIOUS
<1> HIDE DEF items, index
<1>5. \A x \in items : Lookup(x) = x /\ (Exists(x) <=> x \in DOMAIN files)
  BY <1>3, Names DEF Protected, BuiltInv
<1>6. \A g : Guarded(Stages, g) => g \in DOMAIN files
  <2>1. Len(Stages) \in Nat /\ DOMAIN Stages = 1..Len(Stages) /\ build.at \in Nat
    BY <1>2 DEF GoodStages, Builds
  <2>2. \A i \in DOMAIN Stages : i < build.at
    BY <1>1, <2>1
  <2>3. QED
    BY <1>2, <2>2 DEF Progress, Guarded
<1>7. ASSUME how = "right" PROVE Kept(files, index)
  <2>1. \A x \in items : Exists(x) /\ Right(x)
    BY <1>7
  <2>2. \A x \in items : x \in DOMAIN files /\ files[x] \in {x, <<x[1], "iv", x[3]>>}
    BY <1>5, <2>1 DEF Right
  <2>3. \A x \in items : \A g \in GuardsOf(x) : g \in DOMAIN files
    BY <1>3, <1>6, <2>2 DEF Protected
  <2>4. QED
    BY <1>2, <1>4, <2>2, <2>3 DEF Kept, items
<1>8. ASSUME Kept(files, index) PROVE how = "right"
  <2>1. \A x \in items : x \in DOMAIN files /\ files[x] \in {x, <<x[1], "iv", x[3]>>}
    BY <1>4, <1>8 DEF Kept, items
  <2>2. \A x \in items : Exists(x) /\ Right(x)
    BY <1>5, <2>1 DEF Right
  <2>3. QED
    BY <2>2
<1>9. \A ix \in loaded' : Kept(files, ix)
  BY <1>1, <1>7 DEF BuiltInv
<1>10. BuiltStaysBuilt'
  <2>1. result'.how = how /\ result'.index = index
    BY <1>1
  <2>2. ASSUME index \in loaded' PROVE how = "right"
    BY <1>8, <1>9, <2>2
  <2>3. QED
    BY <2>1, <2>2 DEF BuiltStaysBuilt
<1>11. QED
  BY <1>1, <1>9, <1>10 DEF BuiltInv

\* The invariant holds: a build of any class at any rate, and a process that stops
\* anywhere in one, leave what was loaded and the guards it was written under.
THEOREM BuiltInvHolds == Spec => []BuiltInv
<1>1. Init => BuiltInv
  <2>1. DOMAIN <<>> = {}
    OBVIOUS
  <2>2. QED
    BY <2>1 DEF Init, BuiltInv, BuiltStaysBuilt
<1>2. BuiltInv /\ [Next]_vars => BuiltInv'
  <2> SUFFICES ASSUME BuiltInv, [Next]_vars PROVE BuiltInv'
    OBVIOUS
  <2>1. CASE \E v \in Variants, k \in Rates : Start(v, k)
    BY <2>1, StartKeeps
  <2>2. CASE SkipStage
    BY <2>2, SkipKeeps
  <2>3. CASE OpenGroup
    BY <2>3, OpenKeeps
  <2>4. CASE CloseFile
    BY <2>4, CloseKeeps
  <2>5. CASE Load
    BY <2>5, LoadKeeps
  <2>6. CASE Stop
    <3>1. DOMAIN <<>> = {}
      OBVIOUS
    <3>2. QED
      BY <2>6, <3>1 DEF Stop, BuiltInv, BuiltStaysBuilt
  <2>7. CASE UNCHANGED vars
    BY <2>7 DEF vars, BuiltInv, BuiltStaysBuilt
  <2>8. QED
    BY <2>1, <2>2, <2>3, <2>4, <2>5, <2>6, <2>7 DEF Next
<1>3. QED
  BY <1>1, <1>2, PTL DEF Spec

\* No build and no stop damages an index that was built and loaded right:
\* building it again in the same directory loads it right (the guards of
\* construct and constructItems).
THEOREM BuiltIndexesStay == Spec => []BuiltStaysBuilt
<1>1. BuiltInv => BuiltStaysBuilt
  BY DEF BuiltInv
<1>2. QED
  BY <1>1, BuiltInvHolds, PTL

-----------------------------------------------------------------------------
(* What the files of a stage are to each other. *)

\* What is in the directory with a guard: all that the stages it guards write.
Needs(x) ==
  LET key == x[1]
      with(keys) == {<<other, x[2], x[3]>> : other \in keys}
      typed(keys, type) == {<<other, type, x[3]>> : other \in keys}
  IN {x} \cup
     CASE x[2] = "bv" ->
            {<<key, "rank", x[3]>>, <<key, "select", x[3]>>}
            \cup (CASE key = "psiLastText" -> typed({"psiLastText"}, "iv")
                    [] key = "psiValidMark" -> typed({"psiValidMark", "psiValidArea"}, "iv")
                    [] OTHER -> {})
       [] x[2] = "plain" /\ x[3] = NoRate ->
            (CASE key = "first" -> with({"firstText", "last", "lastText"})
               [] key = "firstToLast" -> with({"firstSorted"})
               [] key = "lastToFirst" -> with({"lastSorted"})
               [] key = "psi" -> typed({"psi"}, "rle")
               [] key = "firstIdxAlpha" -> with({"cumulative"})
               [] OTHER -> {})
       [] x[2] = "plain" /\ x[3] # NoRate ->
            (CASE key = "lastIdx" -> with({"lastText"})
               [] key = "firstIdx" -> with({"firstText"})
               [] key = "firstToLast" -> with({"firstByLast"})
               [] key = "lastToFirst" -> with({"lastByFirst"})
               [] key = "firstValidMark" -> with({"firstValidArea"})
               [] key = "lastValidMark" -> with({"lastValidArea"})
               [] key = "firstTextAlpha" -> with({"firstIdxAlpha", "lastToFirstAlpha"})
               [] OTHER -> {})
       [] x[2] = "iv" ->
            (CASE key = "psiFirstText" -> IF x[3] = NoRate THEN with({"psiLastText"})
                                                           ELSE with({"psiFirstIdx"})
               [] key = "psiValidMark" -> with({"psiValidArea"})
               [] OTHER -> {})
       [] OTHER -> {}

\* What sr_csa_psi.h stores for the sub-samples, and the name it looks it up by.
SubHeads(k) == <<"psiFirstText", "iv", k>>
SubIdx(k) == <<"psiFirstIdx", "iv", k>>
SubTails(k) == <<"psiLastText", "iv", k>>
SubAlias(k) == <<"psiFirstIdx", "plain", k>>

\* The files that may be left half done, because the only guard of their stage
\* is written after them.
Retry(x) ==
  \E k \in Rates : x \in {<<"firstByLast", "plain", k>>, <<"lastByFirst", "plain", k>>, SubIdx(k)}

Redo(x) ==
  LET key == CASE x[1] = "firstByLast" -> "firstToLast"
               [] x[1] = "lastByFirst" -> "lastToFirst"
               [] OTHER -> "psiFirstText"
  IN <<key, x[2], x[3]>>

\* Files that are neither retried nor the guard of one that is, nor part of the
\* links that an alias makes.
Usual(x) ==
  \/ x[1] \notin {"firstByLast", "lastByFirst", "psiFirstIdx",
                  "firstToLast", "lastToFirst", "psiFirstText", "psiLastText"}
  \/ x[2] \notin {"plain", "iv"}
  \/ x[1] \in {"firstToLast", "lastToFirst", "psiFirstText", "psiLastText"} /\ x[3] = NoRate

\* The shape of a stage: it writes each file once, each guard stands for all of
\* them; a file that may be retried comes first and alone, under a guard that the
\* stage writes later, and so do the sub-sampled tails.
Distinct(S) ==
  \A i1, i2 \in DOMAIN S.groups : \A j1 \in DOMAIN S.groups[i1], j2 \in DOMAIN S.groups[i2] :
    S.groups[i1][j1].item = S.groups[i2][j2].item => i1 = i2 /\ j1 = j2

First(S, x) == DOMAIN S.groups[1] = {1} /\ S.groups[1][1].item = x

Tidy(S) ==
  /\ Distinct(S)
  /\ \A g \in S.guards : \A x : Writes(S, x) => x \in Needs(g)
  /\ \A x : Writes(S, x) /\ ~Usual(x) =>
       \/ Retry(x) /\ First(S, x) /\ S.guards = {Redo(x)} /\ Writes(S, Redo(x))
       \/ \E y : Retry(y) /\ x = Redo(y) /\ Writes(S, y)
       \/ \E k \in Rates : x = SubTails(k) /\ First(S, x) /\ x \in S.guards

\* A stage fits where the items of A are: it reads none but those, or the alias of
\* one, and what its files stand for is there or its own.
Reads(S, A, y) ==
  \/ y \in A /\ ~Alias(y) /\ ~Writes(S, y)
  \/ \E k \in Rates : /\ y = SubAlias(k) /\ Writes(S, SubTails(k)) /\ SubHeads(k) \in A
                      /\ SubIdx(k) \in A /\ ~Writes(S, SubIdx(k))

Fits(S, A) ==
  /\ \A i \in DOMAIN S.groups : \A j \in DOMAIN S.groups[i] : \A y \in S.groups[i][j].from :
       Reads(S, A, y)
  /\ \A x : Writes(S, x) => \A y \in Needs(x) : Writes(S, y) \/ y \in A

\* A stage before the j-th writes x.
Before(q, j, x) == \E i \in DOMAIN q : i < j /\ Writes(q[i], x)

Quiet(S) == \A k \in Rates : ~Writes(S, SubHeads(k))

\* The stages of q fit one after the other, or are skipped for a guard that is
\* there, where the items of A are, and make those of B; the sub-sampled tails
\* follow the sub-sampled heads, which only the layout of psi runs has.
IsList(q) == \E T : q \in Seq(T)

Chain(layout, q, A, B) ==
  /\ IsList(q)
  /\ \A j \in DOMAIN q :
       /\ Tidy(q[j])
       /\ \E C : /\ \A x \in C : x \in A \/ Before(q, j, x)
                 /\ Fits(q[j], C) \/ \E g \in q[j].guards : g \in C
       /\ layout = "psi" \/ Quiet(q[j])
       /\ \A k \in Rates : Writes(q[j], SubHeads(k)) =>
            j + 1 \in DOMAIN q /\ Writes(q[j + 1], SubTails(k))
  /\ \A x \in B : \E j \in DOMAIN q : Writes(q[j], x)

\* Chains are joined.
LEMMA ChainConcat ==
  ASSUME NEW layout, NEW p, NEW q, NEW A, NEW B, NEW C,
         Chain(layout, p, A, B), Chain(layout, q, A \cup B, C)
  PROVE  Chain(layout, p \o q, A, B \cup C)
<1> DEFINE r == p \o q
           n == Len(p)
<1>1. /\ IsList(r) /\ n \in Nat /\ Len(q) \in Nat /\ DOMAIN p = 1..n /\ DOMAIN q = 1..Len(q)
      /\ DOMAIN r = 1..(n + Len(q))
      /\ \A j \in 1..n : r[j] = p[j]
      /\ \A j \in 1..Len(q) : r[j + n] = q[j]
  <2>1. PICK T : p \in Seq(T)
    BY DEF Chain, IsList
  <2>2. PICK U : q \in Seq(U)
    BY DEF Chain, IsList
  <2>3. p \in Seq(T \cup U) /\ q \in Seq(T \cup U)
    BY <2>1, <2>2
  <2>4. r \in Seq(T \cup U)
    BY <2>3
  <2>5. QED
    BY <2>3, <2>4 DEF IsList
<1> HIDE DEF r, n
<1>2. ASSUME NEW j \in 1..n, NEW x, Before(p, j, x) PROVE Before(r, j, x)
  <2>1. PICK i \in DOMAIN p : i < j /\ Writes(p[i], x)
    BY <1>2 DEF Before
  <2>2. i \in DOMAIN r /\ r[i] = p[i]
    BY <1>1
  <2>3. QED
    BY <2>1, <2>2 DEF Before
<1>3. ASSUME NEW j \in 1..Len(q), NEW x, x \in B \/ Before(q, j, x) PROVE Before(r, j + n, x)
  <2>1. CASE x \in B
    <3>1. PICK i \in DOMAIN p : Writes(p[i], x)
      BY <2>1 DEF Chain
    <3>2. i \in DOMAIN r /\ r[i] = p[i] /\ i < j + n
      BY <1>1
    <3>3. QED
      BY <3>1, <3>2 DEF Before
  <2>2. CASE Before(q, j, x)
    <3>1. PICK i \in DOMAIN q : i < j /\ Writes(q[i], x)
      BY <2>2 DEF Before
    <3>2. i + n \in DOMAIN r /\ r[i + n] = q[i] /\ i + n < j + n
      BY <1>1, <3>1
    <3>3. QED
      BY <3>1, <3>2 DEF Before
  <2>3. QED
    BY <1>3, <2>1, <2>2
<1>4. ASSUME NEW j \in DOMAIN r
      PROVE  /\ Tidy(r[j])
             /\ \E D : /\ \A x \in D : x \in A \/ Before(r, j, x)
                       /\ Fits(r[j], D) \/ \E g \in r[j].guards : g \in D
             /\ layout = "psi" \/ Quiet(r[j])
             /\ \A k \in Rates : Writes(r[j], SubHeads(k)) =>
                  j + 1 \in DOMAIN r /\ Writes(r[j + 1], SubTails(k))
  <2>1. CASE j \in 1..n
    <3>1. r[j] = p[j] /\ j \in DOMAIN p
      BY <1>1, <2>1
    <3>2. PICK D : /\ \A x \in D : x \in A \/ Before(p, j, x)
                   /\ Fits(p[j], D) \/ \E g \in p[j].guards : g \in D
      BY <3>1 DEF Chain
    <3>3. \A x \in D : x \in A \/ Before(r, j, x)
      BY <1>2, <2>1, <3>2
    <3>4. Tidy(p[j]) /\ (layout = "psi" \/ Quiet(p[j]))
      BY <3>1 DEF Chain
    <3>5. ASSUME NEW k \in Rates, Writes(p[j], SubHeads(k))
          PROVE  j + 1 \in DOMAIN r /\ Writes(r[j + 1], SubTails(k))
      <4>1. j + 1 \in DOMAIN p /\ Writes(p[j + 1], SubTails(k))
        BY <3>1, <3>5 DEF Chain
      <4>2. QED
        BY <1>1, <4>1
    <3>6. QED
      BY <3>1, <3>2, <3>3, <3>4, <3>5
  <2>2. CASE j \notin 1..n
    <3>1. PICK l \in DOMAIN q : j = l + n /\ r[j] = q[l]
      <4>1. j - n \in 1..Len(q) /\ j = (j - n) + n
        BY <1>1, <2>2
      <4>2. QED
        BY <1>1, <4>1
    <3>2. PICK D : /\ \A x \in D : x \in A \cup B \/ Before(q, l, x)
                   /\ Fits(q[l], D) \/ \E g \in q[l].guards : g \in D
      BY <3>1 DEF Chain
    <3>3. \A x \in D : x \in A \/ Before(r, j, x)
      BY <1>1, <1>3, <3>1, <3>2
    <3>4. Tidy(q[l]) /\ (layout = "psi" \/ Quiet(q[l]))
      BY <3>1 DEF Chain
    <3>5. ASSUME NEW k \in Rates, Writes(q[l], SubHeads(k))
          PROVE  j + 1 \in DOMAIN r /\ Writes(r[j + 1], SubTails(k))
      <4>1. l + 1 \in DOMAIN q /\ Writes(q[l + 1], SubTails(k))
        BY <3>1, <3>5 DEF Chain
      <4>2. (l + 1) + n = j + 1 /\ j + 1 \in DOMAIN r
        BY <1>1, <3>1, <4>1
      <4>3. r[(l + 1) + n] = q[l + 1]
        BY <1>1, <4>1
      <4>4. QED
        BY <4>1, <4>2, <4>3
    <3>6. QED
      BY <3>1, <3>2, <3>3, <3>4, <3>5
  <2>3. QED
    BY <2>1, <2>2
<1>5. ASSUME NEW x \in B \cup C PROVE \E j \in DOMAIN r : Writes(r[j], x)
  <2>1. CASE x \in B
    <3>1. PICK i \in DOMAIN p : Writes(p[i], x)
      BY <2>1 DEF Chain
    <3>2. QED
      BY <1>1, <3>1
  <2>2. CASE x \in C
    <3>1. PICK i \in DOMAIN q : Writes(q[i], x)
      BY <2>2 DEF Chain
    <3>2. i + n \in DOMAIN r /\ r[i + n] = q[i]
      BY <1>1
    <3>3. QED
      BY <3>1, <3>2
  <2>3. QED
    BY <1>5, <2>1, <2>2
<1>6. Chain(layout, r, A, B \cup C)
  BY <1>1, <1>4, <1>5 DEF Chain
<1>7. QED
  BY <1>6 DEF r

\* One stage.
LEMMA ChainOne ==
  ASSUME NEW layout, NEW S, NEW A, NEW B, Tidy(S),
         Fits(S, A) \/ \E g \in S.guards : g \in A,
         Quiet(S), \A x \in B : Writes(S, x)
  PROVE  Chain(layout, <<S>>, A, B)
<1> DEFINE q == <<S>>
<1>1. q \in Seq({S}) /\ DOMAIN q = {1} /\ q[1] = S
  OBVIOUS
<1> HIDE DEF q
<1>2. Chain(layout, q, A, B)
  BY <1>1 DEF Chain, IsList, Quiet
<1>3. QED
  BY <1>2 DEF q

\* A chain reads what it needs from any larger directory, and makes any less.
LEMMA ChainWiden ==
  ASSUME NEW layout, NEW q, NEW A, NEW B, NEW C, NEW D,
         Chain(layout, q, A, B), \A x \in A : x \in C, \A x \in D : x \in B
  PROVE  Chain(layout, q, C, D)
<1>1. ASSUME NEW j \in DOMAIN q
      PROVE \E E : /\ \A x \in E : x \in C \/ Before(q, j, x)
                   /\ Fits(q[j], E) \/ \E g \in q[j].guards : g \in E
  <2>1. PICK E : /\ \A x \in E : x \in A \/ Before(q, j, x)
                 /\ Fits(q[j], E) \/ \E g \in q[j].guards : g \in E
    BY DEF Chain
  <2>2. \A x \in E : x \in C \/ Before(q, j, x)
    BY <2>1
  <2>3. QED
    BY <2>1, <2>2
<1>2. QED
  BY <1>1 DEF Chain
\* Names of what may be retried: its guard is another file, that tells it, is
\* neither retried itself nor one of the sub-sampled tails.
LEMMA RetryNames ==
  /\ \A x : Retry(x) => x # Redo(x) /\ ~Retry(Redo(x)) /\ ~Usual(x) /\ ~Usual(Redo(x))
                /\ Needs(x) = {x}
  /\ \A x, y : Retry(x) /\ Retry(y) /\ Redo(x) = Redo(y) => x = y
  /\ \A x, k : Retry(x) => x # SubTails(k) /\ Redo(x) # SubTails(k) /\ x # SubHeads(k)
  /\ \A k \in Rates : Retry(SubIdx(k)) /\ Redo(SubIdx(k)) = SubHeads(k)
                      /\ ~Usual(SubHeads(k)) /\ ~Usual(SubTails(k))
<1>1. ASSUME NEW k \in Rates
      PROVE  \A x \in {<<"firstByLast", "plain", k>>, <<"lastByFirst", "plain", k>>, SubIdx(k)} :
               /\ x # Redo(x) /\ ~Usual(x) /\ ~Usual(Redo(x)) /\ Needs(x) = {x}
               /\ \A r : x # SubTails(r) /\ Redo(x) # SubTails(r) /\ x # SubHeads(r)
               /\ Redo(x)[3] = k /\ Redo(x)[1] \in {"firstToLast", "lastToFirst", "psiFirstText"}
  <2>0. k # NoRate
    BY BuildCacheAssumption
  <2>1. LET x == <<"firstByLast", "plain", k>>
        IN /\ Redo(x) = <<"firstToLast", "plain", k>> /\ Needs(x) = {x} 
           /\ ~Usual(x) /\ ~Usual(Redo(x))
    BY <2>0 DEF Redo, Needs, Usual
  <2>2. LET x == <<"lastByFirst", "plain", k>>
        IN /\ Redo(x) = <<"lastToFirst", "plain", k>> /\ Needs(x) = {x} 
           /\ ~Usual(x) /\ ~Usual(Redo(x))
    BY <2>0 DEF Redo, Needs, Usual
  <2>3. LET x == SubIdx(k)
        IN /\ Redo(x) = <<"psiFirstText", "iv", k>> /\ Needs(x) = {x} 
           /\ ~Usual(x) /\ ~Usual(Redo(x))
    BY <2>0 DEF Redo, Needs, Usual, SubIdx
  <2>4. QED
    BY <2>1, <2>2, <2>3 DEF SubIdx, SubTails, SubHeads
<1>2. ASSUME NEW k \in Rates
      PROVE  /\ Redo(<<"firstByLast", "plain", k>>) = <<"firstToLast", "plain", k>>
             /\ Redo(<<"lastByFirst", "plain", k>>) = <<"lastToFirst", "plain", k>>
             /\ Redo(SubIdx(k)) = SubHeads(k)
  BY DEF Redo, SubIdx, SubHeads
<1>3. ASSUME NEW x, Retry(x)
      PROVE  /\ x # Redo(x) /\ ~Usual(x) /\ ~Usual(Redo(x)) /\ Needs(x) = {x}
             /\ \A r : x # SubTails(r) /\ Redo(x) # SubTails(r) /\ x # SubHeads(r)
  BY <1>1, <1>3 DEF Retry
<1>4. ASSUME NEW x, Retry(x) PROVE ~Retry(Redo(x))
  <2>1. Redo(x)[1] \in {"firstToLast", "lastToFirst", "psiFirstText"}
    BY <1>1, <1>4 DEF Retry
  <2>2. \A y : Retry(y) => y[1] \in {"firstByLast", "lastByFirst", "psiFirstIdx"}
    BY DEF Retry, SubIdx
  <2>3. QED
    BY <2>1, <2>2
<1>5. ASSUME NEW x, NEW y, Retry(x), Retry(y), Redo(x) = Redo(y) PROVE x = y
  <2>1. PICK k \in Rates : x \in {<<"firstByLast", "plain", k>>, <<"lastByFirst", "plain", k>>,
                SubIdx(k)}
    BY <1>5 DEF Retry
  <2>2. PICK r \in Rates : y \in {<<"firstByLast", "plain", r>>, <<"lastByFirst", "plain", r>>,
                SubIdx(r)}
    BY <1>5 DEF Retry
  <2>3. Redo(x)[3] = k
    BY <1>1, <2>1
  <2>4. Redo(y)[3] = r
    BY <1>1, <2>2
  <2>5. y \in {<<"firstByLast", "plain", k>>, <<"lastByFirst", "plain", k>>, SubIdx(k)}
    BY <1>5, <2>2, <2>3, <2>4
  <2>6. /\ Redo(<<"firstByLast", "plain", k>>)[1] = "firstToLast"
        /\ Redo(<<"lastByFirst", "plain", k>>)[1] = "lastToFirst"
        /\ Redo(SubIdx(k))[1] = "psiFirstText"
    BY <1>2 DEF SubHeads
  <2>7. QED
    BY <1>5, <2>1, <2>5, <2>6
<1>6. ASSUME NEW k \in Rates
      PROVE  Retry(SubIdx(k)) /\ ~Usual(SubHeads(k)) /\ ~Usual(SubTails(k))
  <2>1. k # NoRate
    BY BuildCacheAssumption
  <2>2. ~Usual(SubHeads(k)) /\ ~Usual(SubTails(k))
    BY <2>1 DEF Usual, SubHeads, SubTails
  <2>3. QED
    BY <2>2 DEF Retry
<1>7. QED
  BY <1>2, <1>3, <1>4, <1>5, <1>6

\* What is in a stage: its guards and its files.
IsStage(S, guards, F) ==
  /\ S.guards = guards /\ Distinct(S)
  /\ \A i \in DOMAIN S.groups : \A j \in DOMAIN S.groups[i] : S.groups[i][j] \in F
  /\ \A f \in F : Writes(S, f.item)

\* A stage of usual files is tidy and fits where its sources are.
UsualFiles(guards, F, A) ==
  \A f \in F :
    /\ Usual(f.item) /\ \A g \in guards : f.item \in Needs(g)
    /\ \A x \in Needs(f.item) : x \in A \/ \E f2 \in F : x = f2.item
    /\ \A y \in f.from : y \in A /\ ~Alias(y) /\ \A f2 \in F : y # f2.item

\* A stage of usual files is a chain of its own.
LEMMA UsualChain ==
  ASSUME NEW layout, NEW S, NEW guards, NEW F, NEW A, NEW B,
         IsStage(S, guards, F), UsualFiles(guards, F, A), \A x \in B : \E f \in F : x = f.item
  PROVE  Chain(layout, <<S>>, A, B)
<1>1. \A x : Writes(S, x) => \E f \in F : x = f.item
  BY DEF Writes, IsStage
<1>2. \A x : Writes(S, x) => Usual(x)
  BY <1>1 DEF UsualFiles
<1>3. Tidy(S)
  <2>1. \A g \in S.guards : \A x : Writes(S, x) => x \in Needs(g)
    BY <1>1 DEF UsualFiles, IsStage
  <2>2. QED
    BY <1>2, <2>1 DEF Tidy, IsStage
<1>4. Fits(S, A)
  <2>1. ASSUME NEW i \in DOMAIN S.groups, NEW j \in DOMAIN S.groups[i],
               NEW y \in S.groups[i][j].from
        PROVE  Reads(S, A, y)
    <3>1. S.groups[i][j] \in F
      BY <2>1 DEF IsStage
    <3>2. y \in A /\ ~Alias(y) /\ \A f \in F : y # f.item
      BY <2>1, <3>1 DEF UsualFiles
    <3>3. QED
      BY <1>1, <3>2 DEF Reads
  <2>2. ASSUME NEW x, Writes(S, x), NEW y \in Needs(x) PROVE Writes(S, y) \/ y \in A
    <3>1. PICK f \in F : x = f.item
      BY <1>1, <2>2
    <3>2. y \in A \/ \E f2 \in F : y = f2.item
      BY <2>2, <3>1 DEF UsualFiles
    <3>3. QED
      BY <3>2 DEF IsStage
  <2>3. QED
    BY <2>1, <2>2 DEF Fits
<1>5. Quiet(S)
  <2>1. ASSUME NEW k \in Rates PROVE ~Usual(SubHeads(k))
    BY BuildCacheAssumption DEF Usual, SubHeads
  <2>2. QED
    BY <1>2, <2>1 DEF Quiet
<1>6. \A x \in B : Writes(S, x)
  BY DEF IsStage
<1>7. QED
  BY <1>3, <1>4, <1>5, <1>6, ChainOne

\* The constructors of stages.
LEMMA SingleChain ==
  ASSUME NEW layout, NEW item, NEW from, NEW A, Usual(item), Needs(item) = {item},
         \A y \in from : y \in A /\ ~Alias(y) /\ y # item
  PROVE  Chain(layout, <<Single(item, from)>>, A, {item})
<1> DEFINE S == Single(item, from)
           f == File(item, from)
<1>1. S.guards = {item} /\ S.groups = [i \in {1} |-> <<f>>]
  BY DEF Single, Stage, Groups
<1>2. /\ DOMAIN S.groups = {1} /\ DOMAIN S.groups[1] = {1} /\ S.groups[1][1] = f
      /\ f.item = item /\ f.from = from
  BY <1>1 DEF File
<1> HIDE DEF S, f
<1>3. IsStage(S, {item}, {f})
  BY <1>1, <1>2 DEF IsStage, Distinct, Writes
<1>4. UsualFiles({item}, {f}, A)
  BY <1>2 DEF UsualFiles
<1>5. Chain(layout, <<S>>, A, {item})
  BY <1>2, <1>3, <1>4, UsualChain
<1>6. QED
  BY <1>5 DEF S

\* A stage of two usual files, stored or buffered.
LEMMA PairChain ==
  ASSUME NEW layout, NEW guards, NEW x, NEW y, NEW from, NEW from2, NEW A, NEW S,
         \/ S = Stage(guards, <<File(x, from), File(y, from2)>>)
         \/ S = Buffered(guards, <<File(x, from), File(y, from2)>>),
         x # y, Usual(x), Usual(y), \A g \in guards : x \in Needs(g) /\ y \in Needs(g),
         \A z \in Needs(x) \cup Needs(y) : z \in A \/ z \in {x, y},
         \A z \in from \cup from2 : z \in A /\ ~Alias(z) /\ z # x /\ z # y
  PROVE  Chain(layout, <<S>>, A, {x, y})
<1> DEFINE a == File(x, from)
           b == File(y, from2)
<1>1. a.item = x /\ a.from = from /\ b.item = y /\ b.from = from2
  BY DEF File
<1> HIDE DEF a, b
<1>2. IsStage(S, guards, {a, b})
  <2>1. CASE S = Stage(guards, <<a, b>>)
    <3>1. S.guards = guards /\ S.groups = [i \in 1..2 |-> <<(<<a, b>>)[i]>>]
      BY <2>1 DEF Stage, Groups
    <3>2. /\ DOMAIN S.groups = {1, 2} /\ DOMAIN S.groups[1] = {1} /\ DOMAIN S.groups[2] = {1}
          /\ S.groups[1][1] = a /\ S.groups[2][1] = b
      BY <3>1
    <3>3. Distinct(S)
      BY <1>1, <3>2 DEF Distinct
    <3>4. Writes(S, x) /\ Writes(S, y)
      BY <1>1, <3>2 DEF Writes
    <3>5. QED
      BY <1>1, <3>1, <3>2, <3>3, <3>4 DEF IsStage
  <2>2. CASE S = Buffered(guards, <<a, b>>)
    <3>1. S.guards = guards /\ S.groups = << <<a, b>> >>
      BY <2>2 DEF Buffered, Groups
    <3>2. /\ DOMAIN S.groups = {1} /\ DOMAIN S.groups[1] = {1, 2}
          /\ S.groups[1][1] = a /\ S.groups[1][2] = b
      BY <3>1
    <3>3. Distinct(S)
      BY <1>1, <3>2 DEF Distinct
    <3>4. Writes(S, x) /\ Writes(S, y)
      BY <1>1, <3>2 DEF Writes
    <3>5. QED
      BY <1>1, <3>1, <3>2, <3>3, <3>4 DEF IsStage
  <2>3. QED
    BY <2>1, <2>2 DEF a, b
<1>3. UsualFiles(guards, {a, b}, A)
  BY <1>1 DEF UsualFiles
<1>4. \A z \in {x, y} : \E f \in {a, b} : z = f.item
  BY <1>1
<1>5. QED
  BY <1>2, <1>3, <1>4, UsualChain

\* A bit vector with its rank and its select.
LEMMA BitVectorChain ==
  ASSUME NEW layout, NEW key, NEW rate, NEW from, NEW A,
         \A y \in from : y \in A /\ ~Alias(y) /\ y[2] \in {"plain", "iv"},
         \A z \in Needs(<<key, "bv", rate>>) : z \in A \/ z[2] \in {"bv", "rank", "select"}
  PROVE  Chain(layout, <<BitVector(key, rate, from)>>, A, BvSelect(key, rate))
<1> DEFINE S == BitVector(key, rate, from)
           x == <<key, "bv", rate>>
           y == <<key, "rank", rate>>
           z == <<key, "select", rate>>
           a == File(x, from)
           b == File(y, from)
           c == File(z, from)
<1>1. /\ a.item = x /\ a.from = from /\ b.item = y /\ b.from = from
      /\ c.item = z /\ c.from = from
  BY DEF File
<1>2. S.guards = {x} /\ S.groups = [i \in 1..3 |-> <<(<<a, b, c>>)[i]>>]
  BY DEF BitVector, Stage, Groups
<1>3. BvSelect(key, rate) = {x, y, z}
  BY DEF BvSelect, BvRank
<1>4. x # y /\ x # z /\ y # z /\ Usual(x) /\ Usual(y) /\ Usual(z)
  BY DEF Usual
<1>5. x \in Needs(x) /\ y \in Needs(x) /\ z \in Needs(x) /\ Needs(y) = {y} /\ Needs(z) = {z}
  BY DEF Needs
<1>6. \A u \in Needs(x) : u \in A \/ u \in {x, y, z}
  <2>1. \A u \in Needs(x) : u[2] \in {"bv", "rank", "select"} => u \in {x, y, z}
    BY DEF Needs
  <2>2. QED
    BY <2>1
<1>7. \A u \in from : u # x /\ u # y /\ u # z
  OBVIOUS
<1> HIDE DEF S, a, b, c, x, y, z
<1>8. IsStage(S, {x}, {a, b, c})
  <2>1. /\ DOMAIN S.groups = {1, 2, 3} /\ DOMAIN S.groups[1] = {1}
        /\ DOMAIN S.groups[2] = {1} /\ DOMAIN S.groups[3] = {1}
        /\ S.groups[1][1] = a /\ S.groups[2][1] = b /\ S.groups[3][1] = c
    BY <1>2
  <2>2. Distinct(S)
    BY <1>1, <1>4, <2>1 DEF Distinct
  <2>3. Writes(S, x) /\ Writes(S, y) /\ Writes(S, z)
    BY <1>1, <2>1 DEF Writes
  <2>4. QED
    BY <1>1, <1>2, <2>1, <2>2, <2>3 DEF IsStage
<1>9. UsualFiles({x}, {a, b, c}, A)
  BY <1>1, <1>4, <1>5, <1>6, <1>7 DEF UsualFiles
<1>10. Chain(layout, <<S>>, A, {x, y, z})
  BY <1>1, <1>8, <1>9, UsualChain
<1>11. QED
  BY <1>3, <1>10 DEF S

\* A sequence that has the entries of two others.
LEMMA Joined ==
  ASSUME NEW T, NEW p \in Seq(T), NEW r \in Seq(T), NEW q \in Seq(T), NEW m \in Nat,
                NEW n \in Nat,
         Len(p) = m, Len(r) = n, Len(q) = m + n,
         \A i \in 1..m : q[i] = p[i], \A i \in 1..n : q[i + m] = r[i]
  PROVE  q = p \o r
<1>1. p \o r \in Seq(T) /\ Len(p \o r) = m + n
  BY ConcatProperties
<1>2. \A i \in 1..m : (p \o r)[i] = p[i]
  BY ConcatProperties
<1>3. \A i \in 1..n : (p \o r)[i + m] = r[i]
  BY ConcatProperties
<1>4. ASSUME NEW i \in 1..(m + n) PROVE q[i] = (p \o r)[i]
  <2>1. CASE i <= m
    BY <1>2, <2>1
  <2>2. CASE i > m
    <3>1. i - m \in 1..n /\ (i - m) + m = i
      BY <2>2
    <3>2. q[(i - m) + m] = r[i - m] /\ (p \o r)[(i - m) + m] = r[i - m]
      BY <1>3, <3>1
    <3>3. QED
      BY <3>1, <3>2
  <2>3. QED
    BY <2>1, <2>2
<1>5. QED
  BY <1>1, <1>4, SeqEqual

\* A pair as a concatenation.
LEMMA Tuple2 == \A a, b : <<a, b>> = <<a>> \o <<b>>
<1> SUFFICES ASSUME NEW a, NEW b PROVE <<a, b>> = <<a>> \o <<b>>
  OBVIOUS
<1> DEFINE p == <<a>>
           r == <<b>>
           q == <<a, b>>
           T == {a, b}
<1>1. /\ p \in Seq(T) /\ r \in Seq(T) /\ q \in Seq(T) /\ 1 \in Nat
      /\ Len(p) = 1 /\ Len(r) = 1 /\ Len(q) = 1 + 1
  OBVIOUS
<1>2. (\A i \in 1..1 : q[i] = p[i]) /\ \A i \in 1..1 : q[i + 1] = r[i]
  OBVIOUS
<1> HIDE DEF p, q, r, T
<1>3. q = p \o r
  BY <1>1, <1>2, Joined, ZenonT(60)
<1>4. QED
  BY <1>3 DEF p, q, r


\* A triple as a concatenation.
LEMMA Tuple3 == \A a, b, c : <<a, b, c>> = <<a>> \o <<b, c>>
<1> SUFFICES ASSUME NEW a, NEW b, NEW c PROVE <<a, b, c>> = <<a>> \o <<b, c>>
  OBVIOUS
<1> DEFINE p == <<a>>
           r == <<b, c>>
           q == <<a, b, c>>
           T == {a, b, c}
<1>1. /\ p \in Seq(T) /\ r \in Seq(T) /\ q \in Seq(T) /\ 1 \in Nat /\ 2 \in Nat
      /\ Len(p) = 1 /\ Len(r) = 2 /\ Len(q) = 1 + 2
  OBVIOUS
<1>2. (\A i \in 1..1 : q[i] = p[i]) /\ \A i \in 1..2 : q[i + 1] = r[i]
  OBVIOUS
<1> HIDE DEF p, q, r, T
<1>3. q = p \o r
  BY <1>1, <1>2, Joined, ZenonT(60)
<1>4. QED
  BY <1>3 DEF p, q, r

\* A chain is continued by one that reads what it has made.
LEMMA ChainAppend ==
  ASSUME NEW layout, NEW p, NEW q, NEW A, NEW B, NEW C, NEW D,
         Chain(layout, p, A, B), Chain(layout, q, C, D), \A x \in C : x \in A \/ x \in B
  PROVE  Chain(layout, p \o q, A, B \cup D)
<1>1. Chain(layout, q, A \cup B, D)
  <2>1. C \subseteq A \cup B
    OBVIOUS
  <2>2. QED
    BY <2>1, ChainWiden
<1>2. QED
  BY <1>1, ChainConcat

\* A stage whose first file may be retried, under the guard that is its second.
LEMMA RetryStage ==
  ASSUME NEW x, NEW from, NEW from2, NEW A, NEW S, Retry(x),
         S = Stage({Redo(x)}, <<File(x, from), File(Redo(x), from2)>>),
         Needs(x) = {x}, Needs(Redo(x)) = {Redo(x), x},
         \A z \in from \cup from2 : z \in A /\ ~Alias(z) /\ z # x /\ z # Redo(x)
  PROVE  /\ Tidy(S) /\ Fits(S, A) /\ Writes(S, x) /\ Writes(S, Redo(x))
         /\ \A y : Writes(S, y) => y = x \/ y = Redo(x)
<1> DEFINE y == Redo(x)
           a == File(x, from)
           b == File(y, from2)
<1>1. a.item = x /\ a.from = from /\ b.item = y /\ b.from = from2
  BY DEF File
<1>2. x # y
  BY RetryNames
<1>3. S = Stage({y}, <<a, b>>)
  OBVIOUS
<1> HIDE DEF a, b, y
<1>4. S.guards = {y} /\ S.groups = [i \in 1..2 |-> <<(<<a, b>>)[i]>>]
  BY <1>3 DEF Stage, Groups
<1>5. /\ DOMAIN S.groups = {1, 2} /\ DOMAIN S.groups[1] = {1} /\ DOMAIN S.groups[2] = {1}
      /\ S.groups[1][1] = a /\ S.groups[2][1] = b
  BY <1>4
<1>6. Distinct(S)
  BY <1>1, <1>2, <1>5 DEF Distinct
<1>7. \A z : Writes(S, z) <=> z = x \/ z = y
  BY <1>1, <1>5 DEF Writes
<1>8. Tidy(S)
  <2>1. \A g \in S.guards : \A z : Writes(S, z) => z \in Needs(g)
    BY <1>4, <1>7 DEF y
  <2>2. First(S, x)
    BY <1>1, <1>5 DEF First
  <2>3. ASSUME NEW z, Writes(S, z)
        PROVE  \/ Retry(z) /\ First(S, z) /\ S.guards = {Redo(z)} /\ Writes(S, Redo(z))
               \/ \E w : Retry(w) /\ z = Redo(w) /\ Writes(S, w)
    <3>1. CASE z = x
      BY <1>4, <1>7, <2>2, <3>1 DEF y
    <3>2. CASE z = y
      BY <1>7, <3>2 DEF y
    <3>3. QED
      BY <1>7, <2>3, <3>1, <3>2
  <2>4. QED
    BY <1>6, <2>1, <2>3 DEF Tidy
<1>9. Fits(S, A)
  <2>1. ASSUME NEW i \in DOMAIN S.groups, NEW j \in DOMAIN S.groups[i],
               NEW z \in S.groups[i][j].from
        PROVE  Reads(S, A, z)
    <3>1. z \in from \cup from2
      BY <1>1, <1>5, <2>1
    <3>2. z \in A /\ ~Alias(z) /\ z # x /\ z # y
      BY <3>1 DEF y
    <3>3. QED
      BY <1>7, <3>2 DEF Reads
  <2>2. ASSUME NEW z, Writes(S, z), NEW w \in Needs(z) PROVE Writes(S, w)
    BY <1>7, <2>2 DEF y
  <2>3. QED
    BY <2>1, <2>2 DEF Fits
<1>10. QED
  BY <1>7, <1>8, <1>9 DEF y

-----------------------------------------------------------------------------
(* The chains of the classes. *)

BaseItems == {Base("text"), Base("sa"), Base("bwt"), Base("first"), Base("firstText"),
              Base("last"), Base("lastText"), Base("alphabet"), Base("bwtRle")}

\* Items without a rate that stand for themselves, and those that do not.
LEMMA BaseNeeds ==
  /\ \A key \in {"text", "sa", "bwt", "firstText", "last", "lastText", "alphabet", "bwtRle",
                 "firstSorted", "lastSorted", "cumulative", "psiFirstAsc"} :
       Usual(Base(key)) /\ Needs(Base(key)) = {Base(key)}
  /\ \A key \in {"first", "firstToLast", "lastToFirst", "psi", "firstIdxAlpha"} : Usual(Base(key))
  /\ Needs(Base("first")) = {Base("first"), Base("firstText"), Base("last"), Base("lastText")}
  /\ Needs(Base("firstToLast")) = {Base("firstToLast"), Base("firstSorted")}
  /\ Needs(Base("lastToFirst")) = {Base("lastToFirst"), Base("lastSorted")}
  /\ Needs(Base("psi")) = {Base("psi"), Typed("psi", "rle")}
  /\ Needs(Base("firstIdxAlpha")) = {Base("firstIdxAlpha"), Base("cumulative")}
  /\ Usual(Typed("psi", "rle")) /\ Needs(Typed("psi", "rle")) = {Typed("psi", "rle")}
<1>1. \A key \in {"text", "sa", "bwt", "firstText", "last", "lastText", "alphabet", "bwtRle",
                  "firstSorted", "lastSorted", "cumulative", "psiFirstAsc"} :
        Usual(Base(key)) /\ Needs(Base(key)) = {Base(key)}
  BY DEF Base, Usual, Needs
<1>2. \A key \in {"first", "firstToLast", "lastToFirst", "psi", "firstIdxAlpha"} :
              Usual(Base(key))
  BY DEF Base, Usual
<1>3. /\ Needs(Base("first")) = {Base("first"), Base("firstText"), Base("last"), Base("lastText")}
      /\ Needs(Base("firstToLast")) = {Base("firstToLast"), Base("firstSorted")}
  BY DEF Base, Needs
<1>4. /\ Needs(Base("lastToFirst")) = {Base("lastToFirst"), Base("lastSorted")}
      /\ Needs(Base("psi")) = {Base("psi"), Typed("psi", "rle")}
  BY DEF Base, Typed, Needs
<1>5. Needs(Base("firstIdxAlpha")) = {Base("firstIdxAlpha"), Base("cumulative")}
  BY DEF Base, Needs
<1>6. Usual(Typed("psi", "rle")) /\ Needs(Typed("psi", "rle")) = {Typed("psi", "rle")}
  BY DEF Typed, Usual, Needs
<1>7. QED
  BY <1>1, <1>2, <1>3, <1>4, <1>5, <1>6

\* No item of a plain file without a rate, and none of another key, is the alias.
LEMMA NoAlias ==
  /\ \A key : key # "psiFirstIdx" => ~Alias(Base(key))
  /\ \A key, k : key # "psiFirstIdx" => ~Alias(<<key, "plain", k>>)
  /\ \A key, type, k : type # "plain" => ~Alias(<<key, type, k>>)
BY DEF Alias, Base

\* Two names differ if their keys do.
LEMMA BaseNames == \A a, b : a # b => Base(a) # Base(b)
BY DEF Base

\* constructIndexBaseItems: the first chain of every class.
LEMMA BaseChain == ASSUME NEW layout PROVE Chain(layout, BaseStages, {}, BaseItems)
<1> DEFINE fromSa == {Base("bwt"), Base("sa")}
           heads == File(Base("first"), fromSa)
           headTexts == File(Base("firstText"), fromSa)
           tails == File(Base("last"), fromSa)
           tailTexts == File(Base("lastText"), fromSa)
           a == Single(Base("text"), {})
           b == Single(Base("sa"), {Base("text")})
           c == Single(Base("bwt"), {Base("text"), Base("sa")})
           d == Buffered({Base("first")}, <<heads, headTexts, tails, tailTexts>>)
           e == Single(Base("alphabet"), {Base("bwt")})
           f == Single(Base("bwtRle"), {Base("bwt"), Base("alphabet")})
           runs == {Base("first"), Base("firstText"), Base("last"), Base("lastText")}
<1>1. Chain(layout, <<a>>, {}, {Base("text")})
  BY BaseNeeds, SingleChain
<1>2. Chain(layout, <<b>>, {Base("text")}, {Base("sa")})
  BY BaseNeeds, BaseNames, NoAlias, SingleChain
<1>3. Chain(layout, <<c>>, {Base("text"), Base("sa")}, {Base("bwt")})
  BY BaseNeeds, BaseNames, NoAlias, SingleChain
<1>4. Chain(layout, <<d>>, fromSa, runs)
  <2>1. /\ heads.item = Base("first") /\ heads.from = fromSa
        /\ headTexts.item = Base("firstText") /\ headTexts.from = fromSa
        /\ tails.item = Base("last") /\ tails.from = fromSa
        /\ tailTexts.item = Base("lastText") /\ tailTexts.from = fromSa
    BY DEF File
  <2>2. d.guards = {Base("first")} /\ d.groups = << <<heads, headTexts, tails, tailTexts>> >>
    BY DEF Buffered, Groups
  <2>3. \A x \in fromSa : x \notin runs /\ ~Alias(x)
    BY BaseNames, NoAlias
  <2>4. \A x, y \in {heads, headTexts, tails, tailTexts} : x # y => x.item # y.item
    BY <2>1, BaseNames
  <2> HIDE DEF d, heads, headTexts, tails, tailTexts
  <2>5. /\ DOMAIN d.groups = {1} /\ DOMAIN d.groups[1] = {1, 2, 3, 4}
        /\ d.groups[1][1] = heads /\ d.groups[1][2] = headTexts
        /\ d.groups[1][3] = tails /\ d.groups[1][4] = tailTexts
    BY <2>2
  <2>6. Distinct(d)
    <3>1. /\ heads.item # headTexts.item /\ heads.item # tails.item /\ heads.item # tailTexts.item
          /\ headTexts.item # tails.item /\ headTexts.item # tailTexts.item
          /\ tails.item # tailTexts.item
      BY <2>1, BaseNames
    <3>2. QED
      BY <2>5, <3>1 DEF Distinct
  <2>7. /\ Writes(d, heads.item) /\ Writes(d, headTexts.item)
        /\ Writes(d, tails.item) /\ Writes(d, tailTexts.item)
    BY <2>5 DEF Writes
  <2>8. IsStage(d, {Base("first")}, {heads, headTexts, tails, tailTexts})
    BY <2>2, <2>5, <2>6, <2>7 DEF IsStage
  <2>9. UsualFiles({Base("first")}, {heads, headTexts, tails, tailTexts}, fromSa)
    BY <2>1, <2>3, BaseNeeds DEF UsualFiles
  <2>10. \A x \in runs : \E y \in {heads, headTexts, tails, tailTexts} : x = y.item
    BY <2>1
  <2>11. QED
    BY <2>8, <2>9, <2>10, UsualChain
<1>5. Chain(layout, <<e>>, {Base("bwt")}, {Base("alphabet")})
  BY BaseNeeds, BaseNames, NoAlias, SingleChain
<1>6. Chain(layout, <<f>>, {Base("bwt"), Base("alphabet")}, {Base("bwtRle")})
  BY BaseNeeds, BaseNames, NoAlias, SingleChain
<1>7. BaseStages = <<a, b, c, d, e, f>>
  BY DEF BaseStages
<1> HIDE DEF a, b, c, d, e, f
<1>8. Chain(layout, <<a, b>>, {}, {Base("text")} \cup {Base("sa")})
  <2> DEFINE p == <<a>>
             x == <<b>>
             q == <<a, b>>
  <2>1. <<a, b>> = <<a>> \o <<b>>
    BY Tuple2, Zenon
  <2>2. q = p \o x
    BY <2>1
  <2>3. Chain(layout, p, {}, {Base("text")})
          /\ Chain(layout, x, {Base("text")}, {Base("sa")})
    BY <1>1, <1>2
  <2> HIDE DEF p, x, q
  <2>4. Chain(layout, q, {}, {Base("text")} \cup {Base("sa")})
    BY <2>2, <2>3, ChainAppend
  <2>5. QED
    BY <2>4 DEF q
<1>9. Chain(layout, <<a, b, c>>, {}, {Base("text")} \cup {Base("sa")} \cup {Base("bwt")})
  <2> DEFINE p == <<a, b>>
             x == <<c>>
             q == <<a, b, c>>
  <2>1. <<a, b, c>> = <<a, b>> \o <<c>>
    OBVIOUS
  <2>2. q = p \o x
    BY <2>1
  <2>3. Chain(layout, p, {},
             {Base("text")} \cup {Base("sa")})
          /\ Chain(layout, x, {Base("text"), Base("sa")}, {Base("bwt")})
    BY <1>8, <1>3
  <2> HIDE DEF p, x, q
  <2>4. Chain(layout, q, {}, {Base("text")} \cup {Base("sa")} \cup {Base("bwt")})
    BY <2>2, <2>3, ChainAppend
  <2>5. QED
    BY <2>4 DEF q
<1>10. Chain(layout, <<a, b, c, d>>, {},
             {Base("text")} \cup {Base("sa")} \cup {Base("bwt")} \cup runs)
  <2> DEFINE p == <<a, b, c>>
             x == <<d>>
             q == <<a, b, c, d>>
  <2>1. <<a, b, c, d>> = <<a, b, c>> \o <<d>>
    OBVIOUS
  <2>2. q = p \o x
    BY <2>1
  <2>3. Chain(layout, p, {},
             {Base("text")} \cup {Base("sa")} \cup {Base("bwt")})
          /\ Chain(layout, x, fromSa, runs)
    BY <1>9, <1>4
  <2> HIDE DEF p, x, q
  <2>4. Chain(layout, q, {}, {Base("text")} \cup {Base("sa")} \cup {Base("bwt")} \cup runs)
    BY <2>2, <2>3, ChainAppend
  <2>5. QED
    BY <2>4 DEF q
<1>11. Chain(layout, <<a, b, c, d, e>>, {},
             {Base("text")} \cup {Base("sa")} \cup {Base("bwt")} \cup runs
             \cup {Base("alphabet")})
  <2> DEFINE p == <<a, b, c, d>>
             x == <<e>>
             q == <<a, b, c, d, e>>
  <2>1. <<a, b, c, d, e>> = <<a, b, c, d>> \o <<e>>
    OBVIOUS
  <2>2. q = p \o x
    BY <2>1
  <2>3. Chain(layout, p, {},
             {Base("text")} \cup {Base("sa")} \cup {Base("bwt")} \cup runs)
          /\ Chain(layout, x, {Base("bwt")}, {Base("alphabet")})
    BY <1>10, <1>5
  <2> HIDE DEF p, x, q
  <2>4. Chain(layout, q, {},
             {Base("text")} \cup {Base("sa")} \cup {Base("bwt")} \cup runs
             \cup {Base("alphabet")})
    BY <2>2, <2>3, ChainAppend
  <2>5. QED
    BY <2>4 DEF q
<1>12. Chain(layout, <<a, b, c, d, e, f>>, {},
             {Base("text")} \cup {Base("sa")} \cup {Base("bwt")} \cup runs
             \cup {Base("alphabet")} \cup {Base("bwtRle")})
  <2> DEFINE p == <<a, b, c, d, e>>
             x == <<f>>
             q == <<a, b, c, d, e, f>>
  <2>1. <<a, b, c, d, e, f>> = <<a, b, c, d, e>> \o <<f>>
    OBVIOUS
  <2>2. q = p \o x
    BY <2>1
  <2>3. Chain(layout, p, {},
             {Base("text")} \cup {Base("sa")} \cup {Base("bwt")} \cup runs
             \cup {Base("alphabet")})
          /\ Chain(layout, x, {Base("bwt"), Base("alphabet")}, {Base("bwtRle")})
    BY <1>11, <1>6
  <2> HIDE DEF p, x, q
  <2>4. Chain(layout, q, {},
             {Base("text")} \cup {Base("sa")} \cup {Base("bwt")} \cup runs
             \cup {Base("alphabet")} \cup {Base("bwtRle")})
    BY <2>2, <2>3, ChainAppend
  <2>5. QED
    BY <2>4 DEF q
<1>13. QED
  BY <1>7, <1>12, ChainWiden DEF BaseItems

\* Items at a rate.
LEMMA RateNeeds ==
  ASSUME NEW k \in Rates
  PROVE  /\ \A key \in {"lastText", "firstText", "first", "firstValidArea", "lastValidArea",
                        "firstIdxAlpha", "lastToFirstAlpha"} :
              Usual(<<key, "plain", k>>) /\ Needs(<<key, "plain", k>>) = {<<key, "plain", k>>}
         /\ \A key \in {"lastIdx", "firstIdx", "firstValidMark", "lastValidMark",
                       "firstTextAlpha"} :
              Usual(<<key, "plain", k>>)
         /\ Needs(<<"lastIdx", "plain", k>>) = {<<"lastIdx", "plain", k>>, <<"lastText",
                       "plain", k>>}
         /\ Needs(<<"firstIdx", "plain", k>>) = {<<"firstIdx", "plain", k>>, <<"firstText",
                       "plain", k>>}
         /\ Needs(<<"firstToLast", "plain", k>>) =
              {<<"firstToLast", "plain", k>>, <<"firstByLast", "plain", k>>}
         /\ Needs(<<"lastToFirst", "plain", k>>) =
              {<<"lastToFirst", "plain", k>>, <<"lastByFirst", "plain", k>>}
         /\ Needs(<<"firstValidMark", "plain", k>>) =
              {<<"firstValidMark", "plain", k>>, <<"firstValidArea", "plain", k>>}
         /\ Needs(<<"lastValidMark", "plain", k>>) =
              {<<"lastValidMark", "plain", k>>, <<"lastValidArea", "plain", k>>}
         /\ Needs(<<"firstTextAlpha", "plain", k>>) =
              {<<"firstTextAlpha", "plain", k>>, <<"firstIdxAlpha", "plain", k>>,
               <<"lastToFirstAlpha", "plain", k>>}
<1>0. k # NoRate
  BY BuildCacheAssumption
<1>1. \A key \in {"lastText", "firstText", "first", "firstValidArea", "lastValidArea",
                  "firstIdxAlpha", "lastToFirstAlpha"} :
        Usual(<<key, "plain", k>>) /\ Needs(<<key, "plain", k>>) = {<<key, "plain", k>>}
  BY <1>0 DEF Usual, Needs
<1>2. \A key \in {"lastIdx", "firstIdx", "firstValidMark", "lastValidMark", "firstTextAlpha"} :
        Usual(<<key, "plain", k>>)
  BY DEF Usual
<1>3. /\ Needs(<<"lastIdx", "plain", k>>) = {<<"lastIdx", "plain", k>>, <<"lastText", "plain",
              k>>}
      /\ Needs(<<"firstIdx", "plain", k>>) = {<<"firstIdx", "plain", k>>, <<"firstText",
                    "plain", k>>}
  BY <1>0 DEF Needs
<1>4. /\ Needs(<<"firstToLast", "plain", k>>) =
           {<<"firstToLast", "plain", k>>, <<"firstByLast", "plain", k>>}
      /\ Needs(<<"lastToFirst", "plain", k>>) =
           {<<"lastToFirst", "plain", k>>, <<"lastByFirst", "plain", k>>}
  BY <1>0 DEF Needs
<1>5. /\ Needs(<<"firstValidMark", "plain", k>>) =
           {<<"firstValidMark", "plain", k>>, <<"firstValidArea", "plain", k>>}
      /\ Needs(<<"lastValidMark", "plain", k>>) =
           {<<"lastValidMark", "plain", k>>, <<"lastValidArea", "plain", k>>}
  BY <1>0 DEF Needs
<1>6. Needs(<<"firstTextAlpha", "plain", k>>) =
        {<<"firstTextAlpha", "plain", k>>, <<"firstIdxAlpha", "plain", k>>,
         <<"lastToFirstAlpha", "plain", k>>}
  BY <1>0 DEF Needs
<1>7. QED
  BY <1>1, <1>2, <1>3, <1>4, <1>5, <1>6

\* The values of psi at the ends of its runs.
LEMMA PsiNeeds ==
  /\ \A key \in {"psiFirstText", "psiLastText", "psiLink", "psiCumulative"} :
                Usual(Typed(key, "iv"))
  /\ Needs(PsiHeads) = {PsiHeads, PsiTails}
  /\ \A key \in {"psiLastText", "psiLink", "psiCumulative"} :
       Needs(Typed(key, "iv")) = {Typed(key, "iv")}
  /\ \A k \in Rates :
       /\ Usual(<<"psiLink", "iv", k>>)
                     /\ Needs(<<"psiLink", "iv", k>>) = {<<"psiLink", "iv", k>>}
       /\ Usual(<<"psiValidMark", "iv", k>>) /\ Usual(<<"psiValidArea", "iv", k>>)
       /\ Needs(<<"psiValidMark", "iv", k>>) =
            {<<"psiValidMark", "iv", k>>, <<"psiValidArea", "iv", k>>}
       /\ Needs(<<"psiValidArea", "iv", k>>) = {<<"psiValidArea", "iv", k>>}
       /\ Needs(SubHeads(k)) = {SubHeads(k), SubIdx(k)} /\ Needs(SubTails(k)) = {SubTails(k)}
<1>1. \A key \in {"psiFirstText", "psiLastText", "psiLink", "psiCumulative"} :
              Usual(Typed(key, "iv"))
  BY DEF Usual, Typed
<1>2. Needs(PsiHeads) = {PsiHeads, PsiTails}
  BY DEF Needs, PsiHeads, PsiTails, Typed
<1>3. \A key \in {"psiLastText", "psiLink", "psiCumulative"} :
        Needs(Typed(key, "iv")) = {Typed(key, "iv")}
  BY DEF Needs, Typed
<1>4. ASSUME NEW k \in Rates
      PROVE  /\ Usual(<<"psiLink", "iv", k>>)
                    /\ Needs(<<"psiLink", "iv", k>>) = {<<"psiLink", "iv", k>>}
             /\ Usual(<<"psiValidMark", "iv", k>>) /\ Usual(<<"psiValidArea", "iv", k>>)
  BY DEF Needs, Usual
<1>5. ASSUME NEW k \in Rates
      PROVE  /\ Needs(<<"psiValidMark", "iv", k>>) =
                  {<<"psiValidMark", "iv", k>>, <<"psiValidArea", "iv", k>>}
             /\ Needs(<<"psiValidArea", "iv", k>>) = {<<"psiValidArea", "iv", k>>}
  BY DEF Needs
<1>6. ASSUME NEW k \in Rates
      PROVE  Needs(SubHeads(k)) = {SubHeads(k), SubIdx(k)} /\ Needs(SubTails(k)) = {SubTails(k)}
  <2>1. k # NoRate
    BY BuildCacheAssumption
  <2>2. QED
    BY <2>1 DEF Needs, SubHeads, SubIdx, SubTails
<1>7. QED
  BY <1>1, <1>2, <1>3, <1>4, <1>5, <1>6

\* A bit vector of a vector that no valid mark and no tail of psi is.
LEMMA BvNeeds ==
  ASSUME NEW key, NEW k, key \notin {"psiLastText", "psiValidMark"}
  PROVE  \A z \in Needs(<<key, "bv", k>>) : z[2] \in {"bv", "rank", "select"}
BY DEF Needs

\* What the stages of a class leave in the directory.
RIndexItems ==
  BaseItems \cup ({Base("firstSorted"), Base("firstToLast")} \cup BvSelect("firstText", NoRate))

\* constructRIndex.
LEMMA RIndexChain ==
  ASSUME NEW layout
  PROVE  Chain(layout, RIndexStages, {}, RIndexItems)
<1> DEFINE a == BackwardLinksStage
           b == BitVector("firstText", NoRate, {Base("firstText"), Base("bwt")})
           fromA == {Base("firstText")}
           madeA == {Base("firstSorted"), Base("firstToLast")}
           fromB == {Base("firstText"), Base("bwt")}
           madeB == BvSelect("firstText", NoRate)
<1>1. Chain(layout, <<a>>, fromA, madeA)
  <2> DEFINE s == BackwardLinksStage
             x == Base("firstSorted")
             y == Base("firstToLast")
             own == {Base("firstText")}
             own2 == {Base("firstText")}
             guards == {Base("firstToLast")}
             all == own
  <2>1. \/ s = Stage(guards, <<File(x, own), File(y, own2)>>)
        \/ s = Buffered(guards, <<File(x, own), File(y, own2)>>)
    BY DEF BackwardLinksStage
  <2>2. Usual(x) /\ Usual(y) /\ \A g \in guards : x \in Needs(g) /\ y \in Needs(g)
    BY BaseNeeds
  <2>3. \A z \in Needs(x) \cup Needs(y) : z \in all \/ z \in {x, y}
    BY BaseNeeds
  <2>4. x # y /\ \A z \in all : ~Alias(z) /\ z # x /\ z # y
    BY BaseNames, NoAlias
  <2>5. \A z \in own \cup own2 : z \in all /\ ~Alias(z) /\ z # x /\ z # y
    BY <2>4
  <2> HIDE DEF s, x, y, own, own2, guards, all
  <2>6. Chain(layout, <<s>>, all, {x, y})
    BY <2>1, <2>2, <2>3, <2>4, <2>5, PairChain
  <2>7. QED
    BY <2>6 DEF s, x, y, own, own2, all
<1>2. Chain(layout, <<b>>, fromB, madeB)
  <2> DEFINE from == {Base("firstText"), Base("bwt")}
  <2>1. \A z \in Needs(<<"firstText", "bv", NoRate>>) : z \in from
                \/ z[2] \in {"bv", "rank", "select"}
    BY BvNeeds
  <2>2. \A y \in from : y \in from /\ ~Alias(y) /\ y[2] \in {"plain", "iv"}
    BY NoAlias DEF Base
  <2> HIDE DEF from
  <2>3. Chain(layout, <<BitVector("firstText", NoRate, from)>>, from, BvSelect("firstText",
                NoRate))
    BY <2>1, <2>2, BitVectorChain
  <2>4. QED
    BY <2>3 DEF from
<1>3. \A y \in fromA : y \in BaseItems
  BY DEF BaseItems
<1>4. \A y \in fromB : y \in BaseItems \/ y \in madeA
  BY DEF BaseItems
<1>5. RIndexStages = BaseStages \o <<a, b>>
  BY DEF RIndexStages
<1>6. \A y \in RIndexItems : y \in BaseItems \/ y \in madeA \cup madeB
  BY DEF RIndexItems
<1> HIDE DEF a, b, fromA, fromB, madeA, madeB
<1>7. Chain(layout, <<a>>, BaseItems, madeA)
  BY <1>1, <1>3, ChainWiden
<1>8. Chain(layout, <<a, b>>, BaseItems, madeA \cup madeB)
  <2> DEFINE p == <<a>>
             x == <<b>>
             q == <<a, b>>
             made == madeA
  <2>1. q = p \o x
    BY Tuple2, Zenon
  <2>2. Chain(layout, p, BaseItems, made)
          /\ Chain(layout, x, fromB, madeB)
    BY <1>7, <1>2
  <2>3. \A y \in fromB : y \in BaseItems \/ y \in made
    BY <1>4
  <2> HIDE DEF p, x, q, made
  <2>4. Chain(layout, q, BaseItems, made \cup madeB)
    BY <2>1, <2>2, <2>3, ChainAppend
  <2>5. QED
    BY <2>4 DEF q, made
<1>9. QED
  <2> DEFINE r == <<a, b>>
             made == madeA \cup madeB
  <2>1. Chain(layout, BaseStages, {}, BaseItems) /\ Chain(layout, r, BaseItems, made)
    BY <1>8, BaseChain
  <2>2. RIndexStages = BaseStages \o r
    BY <1>5
  <2>3. \A y \in RIndexItems : y \in BaseItems \/ y \in made
    BY <1>6
  <2> HIDE DEF r, made
  <2>4. Chain(layout, BaseStages \o r, {}, BaseItems \cup made)
    BY <2>1, ChainAppend
  <2>5. QED
    BY <2>2, <2>3, <2>4, ChainWiden

\* An item at a rate is none without a rate, and none of another key.
LEMMA RateNames ==
  ASSUME NEW k \in Rates
  PROVE  /\ \A a, b : Base(a) # <<b, "plain", k>>
         /\ \A a, b : a # b => <<a, "plain", k>> # <<b, "plain", k>>
         /\ \A a, b : Typed(a, "rle") # <<b, "plain", k>>
BY BuildCacheAssumption DEF Base, Typed

SrIndexItems(k) ==
  RIndexItems \cup
  ({Base("lastSorted")} \cup {<<"lastIdx", "plain", k>>, <<"lastText", "plain", k>>}
   \cup BvSelect("lastIdx", k) \cup {<<"firstByLast", "plain", k>>, <<"firstToLast", "plain", k>>}
   \cup BvSelect("firstByLast", k))

\* constructSRI.
LEMMA SrIndexChain ==
  ASSUME NEW layout, NEW k \in Rates
  PROVE  Chain(layout, SrIndexStages(k), {}, SrIndexItems(k))
<1> DEFINE a == Single(Base("lastSorted"), {Base("lastText")})
           b == ForwardSamplesStage(k)
           c == BitVector("lastIdx", k, {<<"lastIdx", "plain", k>>, Base("last")})
           d == ForwardMarksStage(k)
           e == BitVector("firstByLast", k, {<<"firstByLast", "plain", k>>, Base("bwt")})
           fromA == {Base("lastText")}
           madeA == {Base("lastSorted")}
           fromB == {Base("lastText"), Base("lastSorted"), Base("firstToLast")}
           madeB == {<<"lastIdx", "plain", k>>, <<"lastText", "plain", k>>}
           fromC == {<<"lastIdx", "plain", k>>, Base("last")}
           madeC == BvSelect("lastIdx", k)
           fromD == {<<"lastIdx", "plain", k>>, Base("first"), Base("firstText")}
           madeD == {<<"firstByLast", "plain", k>>, <<"firstToLast", "plain", k>>}
           fromE == {<<"firstByLast", "plain", k>>, Base("bwt")}
           madeE == BvSelect("firstByLast", k)
<1>1. Chain(layout, <<a>>, fromA, madeA)
  <2> DEFINE s == Single(Base("lastSorted"), {Base("lastText")})
             x == Base("lastSorted")
             own == {Base("lastText")}
  <2>1. s = Single(x, own)
    OBVIOUS
  <2>2. Usual(x) /\ Needs(x) = {x}
    BY BaseNeeds
  <2>3. \A y \in own : y \in own /\ ~Alias(y) /\ y # x
    BY BaseNames, NoAlias
  <2> HIDE DEF s, x, own
  <2>4. Chain(layout, <<s>>, own, {x})
    BY <2>1, <2>2, <2>3, SingleChain
  <2>5. QED
    BY <2>4 DEF s, x, own
<1>2. Chain(layout, <<b>>, fromB, madeB)
  <2> DEFINE s == ForwardSamplesStage(k)
             x == <<"lastIdx", "plain", k>>
             y == <<"lastText", "plain", k>>
             own == {Base("lastText"), Base("lastSorted"), Base("firstToLast")}
             own2 == {Base("lastText"), Base("lastSorted"), Base("firstToLast")}
             guards == {<<"lastIdx", "plain", k>>}
             all == own
  <2>1. \/ s = Stage(guards, <<File(x, own), File(y, own2)>>)
        \/ s = Buffered(guards, <<File(x, own), File(y, own2)>>)
    BY DEF ForwardSamplesStage
  <2>2. Usual(x) /\ Usual(y) /\ \A g \in guards : x \in Needs(g) /\ y \in Needs(g)
    BY RateNeeds
  <2>3. \A z \in Needs(x) \cup Needs(y) : z \in all \/ z \in {x, y}
    BY RateNeeds
  <2>4. x # y /\ \A z \in all : ~Alias(z) /\ z # x /\ z # y
    BY RateNames, NoAlias
  <2>5. \A z \in own \cup own2 : z \in all /\ ~Alias(z) /\ z # x /\ z # y
    BY <2>4
  <2> HIDE DEF s, x, y, own, own2, guards, all
  <2>6. Chain(layout, <<s>>, all, {x, y})
    BY <2>1, <2>2, <2>3, <2>4, <2>5, PairChain
  <2>7. QED
    BY <2>6 DEF s, x, y, own, own2, all
<1>3. Chain(layout, <<c>>, fromC, madeC)
  <2> DEFINE from == {<<"lastIdx", "plain", k>>, Base("last")}
  <2>1. \A z \in Needs(<<"lastIdx", "bv", k>>) : z \in from \/ z[2] \in {"bv", "rank", "select"}
    BY BvNeeds
  <2>2. \A y \in from : y \in from /\ ~Alias(y) /\ y[2] \in {"plain", "iv"}
    BY NoAlias DEF Base
  <2> HIDE DEF from
  <2>3. Chain(layout, <<BitVector("lastIdx", k, from)>>, from, BvSelect("lastIdx", k))
    BY <2>1, <2>2, BitVectorChain
  <2>4. QED
    BY <2>3 DEF from
<1>4. Chain(layout, <<d>>, fromD, madeD)
  <2> DEFINE s == ForwardMarksStage(k)
             x == <<"firstByLast", "plain", k>>
             y == <<"firstToLast", "plain", k>>
             own == {<<"lastIdx", "plain", k>>, Base("first"), Base("firstText")}
             own2 == {<<"lastIdx", "plain", k>>, Base("first"), Base("firstText")}
             all == own
  <2>1. s = Stage({y}, <<File(x, own), File(y, own2)>>)
    BY DEF ForwardMarksStage
  <2>2. Retry(x) /\ y = Redo(x)
    BY DEF Retry, Redo
  <2>3. Needs(y) = {y, x}
    BY RateNeeds
  <2>4. \A z \in own \cup own2 : z \in all /\ ~Alias(z) /\ z # x /\ z # y
    BY RateNames, NoAlias
  <2>5. \A r : SubHeads(r) # x /\ SubHeads(r) # y
    BY DEF SubHeads
  <2> HIDE DEF s, x, y, own, own2, all
  <2>6. Needs(x) = {x}
    BY <2>2, RetryNames
  <2>7. s = Stage({Redo(x)}, <<File(x, own), File(Redo(x), own2)>>)
    BY <2>1, <2>2
  <2>8. /\ Needs(Redo(x)) = {Redo(x), x}
        /\ \A z \in own \cup own2 : z \in all /\ ~Alias(z) /\ z # x /\ z # Redo(x)
    BY <2>2, <2>3, <2>4
  <2>9. /\ Tidy(s) /\ Fits(s, all) /\ Writes(s, x) /\ Writes(s, y)
        /\ \A z : Writes(s, z) => z = x \/ z = y
    BY <2>2, <2>6, <2>7, <2>8, RetryStage
  <2>10. Chain(layout, <<s>>, all, {x, y})
    BY <2>5, <2>9, ChainOne DEF Quiet
  <2>11. QED
    BY <2>10 DEF s, x, y, own, own2, all
<1>5. Chain(layout, <<e>>, fromE, madeE)
  <2> DEFINE from == {<<"firstByLast", "plain", k>>, Base("bwt")}
  <2>1. \A z \in Needs(<<"firstByLast", "bv", k>>) : z \in from
                \/ z[2] \in {"bv", "rank", "select"}
    BY BvNeeds
  <2>2. \A y \in from : y \in from /\ ~Alias(y) /\ y[2] \in {"plain", "iv"}
    BY NoAlias DEF Base
  <2> HIDE DEF from
  <2>3. Chain(layout, <<BitVector("firstByLast", k, from)>>, from, BvSelect("firstByLast", k))
    BY <2>1, <2>2, BitVectorChain
  <2>4. QED
    BY <2>3 DEF from
<1>6. \A y \in fromA : y \in RIndexItems
  BY DEF RIndexItems, BaseItems
<1>7. \A y \in fromB : y \in RIndexItems \/ y \in madeA
  BY DEF RIndexItems, BaseItems
<1>8. \A y \in fromC : y \in RIndexItems \/ y \in madeA \/ y \in madeB
  BY DEF RIndexItems, BaseItems
<1>9. \A y \in fromD : y \in RIndexItems \/ y \in madeA \/ y \in madeB \/ y \in madeC
  BY DEF RIndexItems, BaseItems
<1>10. \A y \in fromE : y \in RIndexItems \/ y \in madeA \/ y \in madeB \/ y \in madeC
              \/ y \in madeD
  BY DEF RIndexItems, BaseItems
<1>11. SrIndexStages(k) = RIndexStages \o <<a, b, c, d, e>>
  BY DEF SrIndexStages
<1>12. \A y \in SrIndexItems(k) : y \in RIndexItems
              \/ y \in madeA \cup madeB \cup madeC \cup madeD \cup madeE
  BY DEF SrIndexItems
<1> HIDE DEF a, b, c, d, e, fromA, fromB, fromC, fromD, fromE, madeA, madeB, madeC, madeD, madeE
<1>13. Chain(layout, <<a>>, RIndexItems, madeA)
  BY <1>1, <1>6, ChainWiden
<1>14. Chain(layout, <<a, b>>, RIndexItems, madeA \cup madeB)
  <2> DEFINE p == <<a>>
             x == <<b>>
             q == <<a, b>>
             made == madeA
  <2>1. q = p \o x
    BY Tuple2, Zenon
  <2>2. Chain(layout, p, RIndexItems, made)
          /\ Chain(layout, x, fromB, madeB)
    BY <1>13, <1>2
  <2>3. \A y \in fromB : y \in RIndexItems \/ y \in made
    BY <1>7
  <2> HIDE DEF p, x, q, made
  <2>4. Chain(layout, q, RIndexItems, made \cup madeB)
    BY <2>1, <2>2, <2>3, ChainAppend
  <2>5. QED
    BY <2>4 DEF q, made
<1>15. Chain(layout, <<a, b, c>>, RIndexItems, madeA \cup madeB \cup madeC)
  <2> DEFINE p == <<a, b>>
             x == <<c>>
             q == <<a, b, c>>
             made == madeA \cup madeB
  <2>1. q = p \o x
    OBVIOUS
  <2>2. Chain(layout, p, RIndexItems, made)
          /\ Chain(layout, x, fromC, madeC)
    BY <1>14, <1>3
  <2>3. \A y \in fromC : y \in RIndexItems \/ y \in made
    BY <1>8
  <2> HIDE DEF p, x, q, made
  <2>4. Chain(layout, q, RIndexItems, made \cup madeC)
    BY <2>1, <2>2, <2>3, ChainAppend
  <2>5. QED
    BY <2>4 DEF q, made
<1>16. Chain(layout, <<a, b, c, d>>, RIndexItems, madeA \cup madeB \cup madeC \cup madeD)
  <2> DEFINE p == <<a, b, c>>
             x == <<d>>
             q == <<a, b, c, d>>
             made == madeA \cup madeB \cup madeC
  <2>1. q = p \o x
    OBVIOUS
  <2>2. Chain(layout, p, RIndexItems, made)
          /\ Chain(layout, x, fromD, madeD)
    BY <1>15, <1>4
  <2>3. \A y \in fromD : y \in RIndexItems \/ y \in made
    BY <1>9
  <2> HIDE DEF p, x, q, made
  <2>4. Chain(layout, q, RIndexItems, made \cup madeD)
    BY <2>1, <2>2, <2>3, ChainAppend
  <2>5. QED
    BY <2>4 DEF q, made
<1>17. Chain(layout, <<a, b, c, d, e>>, RIndexItems, madeA \cup madeB \cup madeC \cup madeD
              \cup madeE)
  <2> DEFINE p == <<a, b, c, d>>
             x == <<e>>
             q == <<a, b, c, d, e>>
             made == madeA \cup madeB \cup madeC \cup madeD
  <2>1. q = p \o x
    OBVIOUS
  <2>2. Chain(layout, p, RIndexItems, made)
          /\ Chain(layout, x, fromE, madeE)
    BY <1>16, <1>5
  <2>3. \A y \in fromE : y \in RIndexItems \/ y \in made
    BY <1>10
  <2> HIDE DEF p, x, q, made
  <2>4. Chain(layout, q, RIndexItems, made \cup madeE)
    BY <2>1, <2>2, <2>3, ChainAppend
  <2>5. QED
    BY <2>4 DEF q, made
<1>18. QED
  <2> DEFINE r == <<a, b, c, d, e>>
             made == madeA \cup madeB \cup madeC \cup madeD \cup madeE
  <2>1. Chain(layout, RIndexStages, {}, RIndexItems) /\ Chain(layout, r, RIndexItems, made)
    BY <1>17, RIndexChain
  <2>2. SrIndexStages(k) = RIndexStages \o r
    BY <1>11
  <2>3. \A y \in SrIndexItems(k) : y \in RIndexItems \/ y \in made
    BY <1>12
  <2> HIDE DEF r, made
  <2>4. Chain(layout, RIndexStages \o r, {}, RIndexItems \cup made)
    BY <2>1, ChainAppend
  <2>5. QED
    BY <2>2, <2>3, <2>4, ChainWiden

\* constructSubmarksValidity and its bit vector, of either direction.
LEMMA ValidityChain ==
  ASSUME NEW layout, NEW k \in Rates, NEW mark, NEW area, NEW marks, NEW sorted, NEW submarks,
         NEW samples,
         \/ mark = "firstValidMark" /\ area = "firstValidArea"
         \/ mark = "lastValidMark" /\ area = "lastValidArea",
         marks \in {"firstText", "lastText"}, sorted \in {"firstSorted", "lastSorted"},
         submarks \in {"firstByLast", "lastByFirst"}, samples \in {"firstText", "lastText"}
  PROVE  Chain(layout, ValidityStages(mark, area, k, marks, sorted, submarks, samples),
               {Base(marks), Base(sorted), <<submarks, "plain", k>>, <<samples, "plain", k>>},
               {<<mark, "plain", k>>, <<area, "plain", k>>} \cup BvSelect(mark, k))
<1> DEFINE x == <<mark, "plain", k>>
           y == <<area, "plain", k>>
           from == {Base(marks), Base(sorted), <<submarks, "plain", k>>}
           from2 == {x, <<samples, "plain", k>>}
           made2 == BvSelect(mark, k)
           A == {Base(marks), Base(sorted), <<submarks, "plain", k>>, <<samples, "plain", k>>}
           s == Buffered({x}, <<File(x, from), File(y, from)>>)
           t == BitVector(mark, k, from2)
           p == <<s>>
           q == <<t>>
           r == <<s, t>>
<1>1. Usual(x) /\ Usual(y) /\ Needs(x) = {x, y} /\ Needs(y) = {y} /\ x # y
  BY RateNeeds
<1>2. \A z \in from : z \in from /\ ~Alias(z) /\ z # x /\ z # y
  BY RateNames, NoAlias
<1>3. \A z \in Needs(<<mark, "bv", k>>) : z \in from2 \/ z[2] \in {"bv", "rank", "select"}
  BY BvNeeds
<1>4. \A z \in from2 : z \in from2 /\ ~Alias(z) /\ z[2] \in {"plain", "iv"}
  BY NoAlias
<1>5. r = p \o q
  BY Tuple2, Zenon
<1>6. r = ValidityStages(mark, area, k, marks, sorted, submarks, samples)
  BY DEF ValidityStages, Stage, Buffered
<1>7. /\ \A z \in from : z \in A
      /\ \A z \in from2 : z \in A \/ z \in {x, y}
  OBVIOUS
<1> HIDE DEF x, y, from, from2, made2, A, r, p, q
<1>8. Chain(layout, <<s>>, from, {x, y})
  <2>1. s = Buffered({x}, <<File(x, from), File(y, from)>>)
    OBVIOUS
  <2> HIDE DEF s
  <2>2. /\ \A g \in {x} : x \in Needs(g) /\ y \in Needs(g)
        /\ \A z \in Needs(x) \cup Needs(y) : z \in from \/ z \in {x, y}
        /\ \A z \in from \cup from : z \in from /\ ~Alias(z) /\ z # x /\ z # y
    BY <1>1, <1>2
  <2>3. QED
    BY <1>1, <2>1, <2>2, PairChain
<1>9. Chain(layout, <<t>>, from2, made2)
  BY <1>3, <1>4, BitVectorChain DEF made2
<1>10. Chain(layout, p, from, {x, y}) /\ Chain(layout, q, from2, made2)
  BY <1>8, <1>9 DEF p, q
<1> HIDE DEF s, t
<1>11. Chain(layout, p, A, {x, y})
  BY <1>7, <1>10, ChainWiden
<1>12. Chain(layout, r, A, {x, y} \cup made2)
  BY <1>5, <1>7, <1>10, <1>11, ChainAppend
<1>13. QED
  BY <1>6, <1>12 DEF x, y, A, made2

\* An item of a typed file is none of a plain one.
LEMMA TypedNames ==
  /\ \A a, b, t : t # "plain" => Base(a) # Typed(b, t)
  /\ \A a, b, t, k : t # "plain" => Typed(a, t) # <<b, "plain", k>>
  /\ \A a, b, t : a # b => Typed(a, t) # Typed(b, t)
  /\ \A a, t : t # "plain" => ~Alias(Typed(a, t))
BY DEF Base, Typed, Alias

RCsaItems ==
  BaseItems \cup
  ({Base("psi"), Typed("psi", "rle")} \cup {Base("lastSorted"), Base("lastToFirst")}
   \cup BvSelect("lastText", NoRate))

\* constructRCSAWithBWTRuns.
LEMMA RCsaChain ==
  ASSUME NEW layout
  PROVE  Chain(layout, RCsaStages, {}, RCsaItems)
<1> DEFINE a == PsiStage({Base("psi")})
           b == ForwardLinksStage
           c == BitVector("lastText", NoRate, {Base("lastText"), Base("bwt")})
           fromA == FromRle
           madeA == {Base("psi"), Typed("psi", "rle")}
           fromB ==
             {Base("lastText")}
             \cup ({Base("lastText"), Base("last"), Base("first"), Typed("psi", "rle")}
             \cup FromRle)
           madeB == {Base("lastSorted"), Base("lastToFirst")}
           fromC == {Base("lastText"), Base("bwt")}
           madeC == BvSelect("lastText", NoRate)
<1>1. Chain(layout, <<a>>, fromA, madeA)
  <2> DEFINE s == PsiStage({Base("psi")})
             x == Base("psi")
             y == Typed("psi", "rle")
             own == FromRle
             own2 == FromRle
             guards == {Base("psi")}
             all == own
  <2>1. \/ s = Stage(guards, <<File(x, own), File(y, own2)>>)
        \/ s = Buffered(guards, <<File(x, own), File(y, own2)>>)
    BY DEF PsiStage
  <2>2. Usual(x) /\ Usual(y) /\ \A g \in guards : x \in Needs(g) /\ y \in Needs(g)
    BY BaseNeeds
  <2>3. \A z \in Needs(x) \cup Needs(y) : z \in all \/ z \in {x, y}
    BY BaseNeeds
  <2>4. x # y /\ \A z \in all : ~Alias(z) /\ z # x /\ z # y
    BY BaseNames, TypedNames, RateNames, NoAlias DEF FromRle
  <2>5. \A z \in own \cup own2 : z \in all /\ ~Alias(z) /\ z # x /\ z # y
    BY <2>4
  <2> HIDE DEF s, x, y, own, own2, guards, all
  <2>6. Chain(layout, <<s>>, all, {x, y})
    BY <2>1, <2>2, <2>3, <2>4, <2>5, PairChain
  <2>7. QED
    BY <2>6 DEF s, x, y, own, own2, all
<1>2. Chain(layout, <<b>>, fromB, madeB)
  <2> DEFINE s == ForwardLinksStage
             x == Base("lastSorted")
             y == Base("lastToFirst")
             own == {Base("lastText")}
             own2 == {Base("lastText"), Base("last"), Base("first"), Typed("psi", "rle")}
                           \cup FromRle
             guards == {Base("lastToFirst")}
             all == own \cup own2
  <2>1. \/ s = Stage(guards, <<File(x, own), File(y, own2)>>)
        \/ s = Buffered(guards, <<File(x, own), File(y, own2)>>)
    BY DEF ForwardLinksStage
  <2>2. Usual(x) /\ Usual(y) /\ \A g \in guards : x \in Needs(g) /\ y \in Needs(g)
    BY BaseNeeds
  <2>3. \A z \in Needs(x) \cup Needs(y) : z \in all \/ z \in {x, y}
    BY BaseNeeds
  <2>4. x # y /\ \A z \in all : ~Alias(z) /\ z # x /\ z # y
    BY BaseNames, TypedNames, RateNames, NoAlias DEF FromRle
  <2>5. \A z \in own \cup own2 : z \in all /\ ~Alias(z) /\ z # x /\ z # y
    BY <2>4
  <2> HIDE DEF s, x, y, own, own2, guards, all
  <2>6. Chain(layout, <<s>>, all, {x, y})
    BY <2>1, <2>2, <2>3, <2>4, <2>5, PairChain
  <2>7. QED
    BY <2>6 DEF s, x, y, own, own2, all
<1>3. Chain(layout, <<c>>, fromC, madeC)
  <2> DEFINE from == {Base("lastText"), Base("bwt")}
  <2>1. \A z \in Needs(<<"lastText", "bv", NoRate>>) : z \in from
                \/ z[2] \in {"bv", "rank", "select"}
    BY BvNeeds
  <2>2. \A y \in from : y \in from /\ ~Alias(y) /\ y[2] \in {"plain", "iv"}
    BY NoAlias DEF Base
  <2> HIDE DEF from
  <2>3. Chain(layout, <<BitVector("lastText", NoRate, from)>>, from, BvSelect("lastText", NoRate))
    BY <2>1, <2>2, BitVectorChain
  <2>4. QED
    BY <2>3 DEF from
<1>4. \A y \in fromA : y \in BaseItems
  BY DEF BaseItems, FromRle
<1>5. \A y \in fromB : y \in BaseItems \/ y \in madeA
  BY DEF BaseItems, FromRle
<1>6. \A y \in fromC : y \in BaseItems \/ y \in madeA \/ y \in madeB
  BY DEF BaseItems, FromRle
<1>7. RCsaStages = BaseStages \o <<a, b, c>>
  BY DEF RCsaStages
<1>8. \A y \in RCsaItems : y \in BaseItems \/ y \in madeA \cup madeB \cup madeC
  BY DEF RCsaItems
<1> HIDE DEF a, b, c, fromA, fromB, fromC, madeA, madeB, madeC
<1>9. Chain(layout, <<a>>, BaseItems, madeA)
  BY <1>1, <1>4, ChainWiden
<1>10. Chain(layout, <<a, b>>, BaseItems, madeA \cup madeB)
  <2> DEFINE p == <<a>>
             x == <<b>>
             q == <<a, b>>
             made == madeA
  <2>1. q = p \o x
    BY Tuple2, Zenon
  <2>2. Chain(layout, p, BaseItems, made)
          /\ Chain(layout, x, fromB, madeB)
    BY <1>9, <1>2
  <2>3. \A y \in fromB : y \in BaseItems \/ y \in made
    BY <1>5
  <2> HIDE DEF p, x, q, made
  <2>4. Chain(layout, q, BaseItems, made \cup madeB)
    BY <2>1, <2>2, <2>3, ChainAppend
  <2>5. QED
    BY <2>4 DEF q, made
<1>11. Chain(layout, <<a, b, c>>, BaseItems, madeA \cup madeB \cup madeC)
  <2> DEFINE p == <<a, b>>
             x == <<c>>
             q == <<a, b, c>>
             made == madeA \cup madeB
  <2>1. q = p \o x
    OBVIOUS
  <2>2. Chain(layout, p, BaseItems, made)
          /\ Chain(layout, x, fromC, madeC)
    BY <1>10, <1>3
  <2>3. \A y \in fromC : y \in BaseItems \/ y \in made
    BY <1>6
  <2> HIDE DEF p, x, q, made
  <2>4. Chain(layout, q, BaseItems, made \cup madeC)
    BY <2>1, <2>2, <2>3, ChainAppend
  <2>5. QED
    BY <2>4 DEF q, made
<1>12. QED
  <2> DEFINE r == <<a, b, c>>
             made == madeA \cup madeB \cup madeC
  <2>1. Chain(layout, BaseStages, {}, BaseItems) /\ Chain(layout, r, BaseItems, made)
    BY <1>11, BaseChain
  <2>2. RCsaStages = BaseStages \o r
    BY <1>7
  <2>3. \A y \in RCsaItems : y \in BaseItems \/ y \in made
    BY <1>8
  <2> HIDE DEF r, made
  <2>4. Chain(layout, BaseStages \o r, {}, BaseItems \cup made)
    BY <2>1, ChainAppend
  <2>5. QED
    BY <2>2, <2>3, <2>4, ChainWiden

SrCsaItems(k) ==
  RCsaItems \cup
  ({Base("firstSorted")} \cup {<<"firstIdx", "plain", k>>, <<"firstText", "plain", k>>}
   \cup {<<"lastByFirst", "plain", k>>, <<"lastToFirst", "plain", k>>}
   \cup BvSelect("lastByFirst", k))

\* constructSrCSACommonsWithBWTRuns.
LEMMA SrCsaChain ==
  ASSUME NEW layout, NEW k \in Rates
  PROVE  Chain(layout, SrCsaStages(k), {}, SrCsaItems(k))
<1> DEFINE a == Single(Base("firstSorted"), {Base("firstText")})
           b == BackwardSamplesStage(k)
           c == BackwardMarksStage(k)
           d == BitVector("lastByFirst", k, {<<"lastByFirst", "plain", k>>, Base("bwt")})
           fromA == {Base("firstText")}
           madeA == {Base("firstSorted")}
           fromB == {Base("firstText"), Base("firstSorted"), Base("lastToFirst")}
           madeB == {<<"firstIdx", "plain", k>>, <<"firstText", "plain", k>>}
           fromC == {<<"firstIdx", "plain", k>>, Typed("psi", "rle")} \cup FromRle \cup Runs
           madeC == {<<"lastByFirst", "plain", k>>, <<"lastToFirst", "plain", k>>}
           fromD == {<<"lastByFirst", "plain", k>>, Base("bwt")}
           madeD == BvSelect("lastByFirst", k)
<1>1. Chain(layout, <<a>>, fromA, madeA)
  <2> DEFINE s == Single(Base("firstSorted"), {Base("firstText")})
             x == Base("firstSorted")
             own == {Base("firstText")}
  <2>1. s = Single(x, own)
    OBVIOUS
  <2>2. Usual(x) /\ Needs(x) = {x}
    BY BaseNeeds
  <2>3. \A y \in own : y \in own /\ ~Alias(y) /\ y # x
    BY BaseNames, NoAlias
  <2> HIDE DEF s, x, own
  <2>4. Chain(layout, <<s>>, own, {x})
    BY <2>1, <2>2, <2>3, SingleChain
  <2>5. QED
    BY <2>4 DEF s, x, own
<1>2. Chain(layout, <<b>>, fromB, madeB)
  <2> DEFINE s == BackwardSamplesStage(k)
             x == <<"firstIdx", "plain", k>>
             y == <<"firstText", "plain", k>>
             own == {Base("firstText"), Base("firstSorted"), Base("lastToFirst")}
             own2 == {Base("firstText"), Base("firstSorted"), Base("lastToFirst")}
             guards == {<<"firstIdx", "plain", k>>}
             all == own
  <2>1. \/ s = Stage(guards, <<File(x, own), File(y, own2)>>)
        \/ s = Buffered(guards, <<File(x, own), File(y, own2)>>)
    BY DEF BackwardSamplesStage
  <2>2. Usual(x) /\ Usual(y) /\ \A g \in guards : x \in Needs(g) /\ y \in Needs(g)
    BY RateNeeds
  <2>3. \A z \in Needs(x) \cup Needs(y) : z \in all \/ z \in {x, y}
    BY RateNeeds
  <2>4. x # y /\ \A z \in all : ~Alias(z) /\ z # x /\ z # y
    BY RateNames, NoAlias
  <2>5. \A z \in own \cup own2 : z \in all /\ ~Alias(z) /\ z # x /\ z # y
    BY <2>4
  <2> HIDE DEF s, x, y, own, own2, guards, all
  <2>6. Chain(layout, <<s>>, all, {x, y})
    BY <2>1, <2>2, <2>3, <2>4, <2>5, PairChain
  <2>7. QED
    BY <2>6 DEF s, x, y, own, own2, all
<1>3. Chain(layout, <<c>>, fromC, madeC)
  <2> DEFINE s == BackwardMarksStage(k)
             x == <<"lastByFirst", "plain", k>>
             y == <<"lastToFirst", "plain", k>>
             own == {<<"firstIdx", "plain", k>>, Typed("psi", "rle")} \cup FromRle \cup Runs
             own2 == {<<"firstIdx", "plain", k>>, Typed("psi", "rle")} \cup FromRle \cup Runs
             all == own
  <2>1. s = Stage({y}, <<File(x, own), File(y, own2)>>)
    BY DEF BackwardMarksStage
  <2>2. Retry(x) /\ y = Redo(x)
    BY DEF Retry, Redo
  <2>3. Needs(y) = {y, x}
    BY RateNeeds
  <2>4. \A z \in own \cup own2 : z \in all /\ ~Alias(z) /\ z # x /\ z # y
    BY BaseNames, TypedNames, RateNames, NoAlias DEF FromRle, Runs
  <2>5. \A r : SubHeads(r) # x /\ SubHeads(r) # y
    BY DEF SubHeads
  <2> HIDE DEF s, x, y, own, own2, all
  <2>6. Needs(x) = {x}
    BY <2>2, RetryNames
  <2>7. s = Stage({Redo(x)}, <<File(x, own), File(Redo(x), own2)>>)
    BY <2>1, <2>2
  <2>8. /\ Needs(Redo(x)) = {Redo(x), x}
        /\ \A z \in own \cup own2 : z \in all /\ ~Alias(z) /\ z # x /\ z # Redo(x)
    BY <2>2, <2>3, <2>4
  <2>9. /\ Tidy(s) /\ Fits(s, all) /\ Writes(s, x) /\ Writes(s, y)
        /\ \A z : Writes(s, z) => z = x \/ z = y
    BY <2>2, <2>6, <2>7, <2>8, RetryStage
  <2>10. Chain(layout, <<s>>, all, {x, y})
    BY <2>5, <2>9, ChainOne DEF Quiet
  <2>11. QED
    BY <2>10 DEF s, x, y, own, own2, all
<1>4. Chain(layout, <<d>>, fromD, madeD)
  <2> DEFINE from == {<<"lastByFirst", "plain", k>>, Base("bwt")}
  <2>1. \A z \in Needs(<<"lastByFirst", "bv", k>>) : z \in from
                \/ z[2] \in {"bv", "rank", "select"}
    BY BvNeeds
  <2>2. \A y \in from : y \in from /\ ~Alias(y) /\ y[2] \in {"plain", "iv"}
    BY NoAlias DEF Base
  <2> HIDE DEF from
  <2>3. Chain(layout, <<BitVector("lastByFirst", k, from)>>, from, BvSelect("lastByFirst", k))
    BY <2>1, <2>2, BitVectorChain
  <2>4. QED
    BY <2>3 DEF from
<1>5. \A y \in fromA : y \in RCsaItems
  BY DEF RCsaItems, BaseItems, FromRle, Runs
<1>6. \A y \in fromB : y \in RCsaItems \/ y \in madeA
  BY DEF RCsaItems, BaseItems, FromRle, Runs
<1>7. \A y \in fromC : y \in RCsaItems \/ y \in madeA \/ y \in madeB
  BY DEF RCsaItems, BaseItems, FromRle, Runs
<1>8. \A y \in fromD : y \in RCsaItems \/ y \in madeA \/ y \in madeB \/ y \in madeC
  BY DEF RCsaItems, BaseItems, FromRle, Runs
<1>9. SrCsaStages(k) = RCsaStages \o <<a, b, c, d>>
  BY DEF SrCsaStages
<1>10. \A y \in SrCsaItems(k) : y \in RCsaItems \/ y \in madeA \cup madeB \cup madeC \cup madeD
  BY DEF SrCsaItems
<1> HIDE DEF a, b, c, d, fromA, fromB, fromC, fromD, madeA, madeB, madeC, madeD
<1>11. Chain(layout, <<a>>, RCsaItems, madeA)
  BY <1>1, <1>5, ChainWiden
<1>12. Chain(layout, <<a, b>>, RCsaItems, madeA \cup madeB)
  <2> DEFINE p == <<a>>
             x == <<b>>
             q == <<a, b>>
             made == madeA
  <2>1. q = p \o x
    BY Tuple2, Zenon
  <2>2. Chain(layout, p, RCsaItems, made)
          /\ Chain(layout, x, fromB, madeB)
    BY <1>11, <1>2
  <2>3. \A y \in fromB : y \in RCsaItems \/ y \in made
    BY <1>6
  <2> HIDE DEF p, x, q, made
  <2>4. Chain(layout, q, RCsaItems, made \cup madeB)
    BY <2>1, <2>2, <2>3, ChainAppend
  <2>5. QED
    BY <2>4 DEF q, made
<1>13. Chain(layout, <<a, b, c>>, RCsaItems, madeA \cup madeB \cup madeC)
  <2> DEFINE p == <<a, b>>
             x == <<c>>
             q == <<a, b, c>>
             made == madeA \cup madeB
  <2>1. q = p \o x
    OBVIOUS
  <2>2. Chain(layout, p, RCsaItems, made)
          /\ Chain(layout, x, fromC, madeC)
    BY <1>12, <1>3
  <2>3. \A y \in fromC : y \in RCsaItems \/ y \in made
    BY <1>7
  <2> HIDE DEF p, x, q, made
  <2>4. Chain(layout, q, RCsaItems, made \cup madeC)
    BY <2>1, <2>2, <2>3, ChainAppend
  <2>5. QED
    BY <2>4 DEF q, made
<1>14. Chain(layout, <<a, b, c, d>>, RCsaItems, madeA \cup madeB \cup madeC \cup madeD)
  <2> DEFINE p == <<a, b, c>>
             x == <<d>>
             q == <<a, b, c, d>>
             made == madeA \cup madeB \cup madeC
  <2>1. q = p \o x
    OBVIOUS
  <2>2. Chain(layout, p, RCsaItems, made)
          /\ Chain(layout, x, fromD, madeD)
    BY <1>13, <1>4
  <2>3. \A y \in fromD : y \in RCsaItems \/ y \in made
    BY <1>8
  <2> HIDE DEF p, x, q, made
  <2>4. Chain(layout, q, RCsaItems, made \cup madeD)
    BY <2>1, <2>2, <2>3, ChainAppend
  <2>5. QED
    BY <2>4 DEF q, made
<1>15. QED
  <2> DEFINE r == <<a, b, c, d>>
             made == madeA \cup madeB \cup madeC \cup madeD
  <2>1. Chain(layout, RCsaStages, {}, RCsaItems) /\ Chain(layout, r, RCsaItems, made)
    BY <1>14, RCsaChain
  <2>2. SrCsaStages(k) = RCsaStages \o r
    BY <1>9
  <2>3. \A y \in SrCsaItems(k) : y \in RCsaItems \/ y \in made
    BY <1>10
  <2> HIDE DEF r, made
  <2>4. Chain(layout, RCsaStages \o r, {}, RCsaItems \cup made)
    BY <2>1, ChainAppend
  <2>5. QED
    BY <2>2, <2>3, <2>4, ChainWiden

PositionItems(k) ==
  SrCsaItems(k) \cup ({<<"first", "plain", k>>} \cup BvSelect("first", k))

\* construct(SrCSA).
LEMMA PositionChain ==
  ASSUME NEW layout, NEW k \in Rates
  PROVE  Chain(layout, PositionStages(k), {}, PositionItems(k))
<1> DEFINE a == SamplesPositionStage(k)
           b == BitVector("first", k, {<<"first", "plain", k>>, Base("bwt")})
           fromA == {Base("first"), <<"firstIdx", "plain", k>>}
           madeA == {<<"first", "plain", k>>}
           fromB == {<<"first", "plain", k>>, Base("bwt")}
           madeB == BvSelect("first", k)
<1>1. Chain(layout, <<a>>, fromA, madeA)
  <2> DEFINE s == SamplesPositionStage(k)
             x == <<"first", "plain", k>>
             own == {Base("first"), <<"firstIdx", "plain", k>>}
  <2>1. s = Single(x, own)
    BY DEF SamplesPositionStage
  <2>2. Usual(x) /\ Needs(x) = {x}
    BY RateNeeds
  <2>3. \A y \in own : y \in own /\ ~Alias(y) /\ y # x
    BY RateNames, NoAlias
  <2> HIDE DEF s, x, own
  <2>4. Chain(layout, <<s>>, own, {x})
    BY <2>1, <2>2, <2>3, SingleChain
  <2>5. QED
    BY <2>4 DEF s, x, own
<1>2. Chain(layout, <<b>>, fromB, madeB)
  <2> DEFINE from == {<<"first", "plain", k>>, Base("bwt")}
  <2>1. \A z \in Needs(<<"first", "bv", k>>) : z \in from \/ z[2] \in {"bv", "rank", "select"}
    BY BvNeeds
  <2>2. \A y \in from : y \in from /\ ~Alias(y) /\ y[2] \in {"plain", "iv"}
    BY NoAlias DEF Base
  <2> HIDE DEF from
  <2>3. Chain(layout, <<BitVector("first", k, from)>>, from, BvSelect("first", k))
    BY <2>1, <2>2, BitVectorChain
  <2>4. QED
    BY <2>3 DEF from
<1>3. \A y \in fromA : y \in SrCsaItems(k)
  BY DEF SrCsaItems, RCsaItems, BaseItems
<1>4. \A y \in fromB : y \in SrCsaItems(k) \/ y \in madeA
  BY DEF SrCsaItems, RCsaItems, BaseItems
<1>5. PositionStages(k) = SrCsaStages(k) \o <<a, b>>
  BY DEF PositionStages
<1>6. \A y \in PositionItems(k) : y \in SrCsaItems(k) \/ y \in madeA \cup madeB
  BY DEF PositionItems
<1> HIDE DEF a, b, fromA, fromB, madeA, madeB
<1>7. Chain(layout, <<a>>, SrCsaItems(k), madeA)
  BY <1>1, <1>3, ChainWiden
<1>8. Chain(layout, <<a, b>>, SrCsaItems(k), madeA \cup madeB)
  <2> DEFINE p == <<a>>
             x == <<b>>
             q == <<a, b>>
             made == madeA
  <2>1. q = p \o x
    BY Tuple2, Zenon
  <2>2. Chain(layout, p, SrCsaItems(k), made)
          /\ Chain(layout, x, fromB, madeB)
    BY <1>7, <1>2
  <2>3. \A y \in fromB : y \in SrCsaItems(k) \/ y \in made
    BY <1>4
  <2> HIDE DEF p, x, q, made
  <2>4. Chain(layout, q, SrCsaItems(k), made \cup madeB)
    BY <2>1, <2>2, <2>3, ChainAppend
  <2>5. QED
    BY <2>4 DEF q, made
<1>9. QED
  <2> DEFINE r == <<a, b>>
             made == madeA \cup madeB
  <2>1. Chain(layout, SrCsaStages(k), {}, SrCsaItems(k)) /\ Chain(layout, r, SrCsaItems(k), made)
    BY <1>8, SrCsaChain
  <2>2. PositionStages(k) = SrCsaStages(k) \o r
    BY <1>5
  <2>3. \A y \in PositionItems(k) : y \in SrCsaItems(k) \/ y \in made
    BY <1>6
  <2> HIDE DEF r, made
  <2>4. Chain(layout, SrCsaStages(k) \o r, {}, SrCsaItems(k) \cup made)
    BY <2>1, ChainAppend
  <2>5. QED
    BY <2>2, <2>3, <2>4, ChainWiden

\* constructSubsamplingBackwardSamplesSortedByAlphabet.
LEMMA SubsamplesSortedChain ==
  ASSUME NEW layout, NEW k \in Rates
  PROVE  Chain(layout, <<SubsamplesSortedStage(k)>>,
               {Base("firstIdxAlpha"), <<"firstIdx", "plain", k>>, <<"firstText", "plain", k>>,
                <<"lastToFirst", "plain", k>>},
               {<<"firstTextAlpha", "plain", k>>, <<"firstIdxAlpha", "plain", k>>,
                <<"lastToFirstAlpha", "plain", k>>})
<1> DEFINE s == SubsamplesSortedStage(k)
           x == <<"firstTextAlpha", "plain", k>>
           y == <<"firstIdxAlpha", "plain", k>>
           z == <<"lastToFirstAlpha", "plain", k>>
           from == {Base("firstIdxAlpha"), <<"firstIdx", "plain", k>>, <<"firstText", "plain",
                         k>>}
           all == {Base("firstIdxAlpha"), <<"firstIdx", "plain", k>>, <<"firstText", "plain", k>>,
                   <<"lastToFirst", "plain", k>>}
           from2 == from \cup {<<"lastToFirst", "plain", k>>}
           a == File(x, from)
           b == File(y, from)
           c == File(z, from2)
<1>1. s = Groups({x}, <<<<a, b>>, <<c>>>>)
  BY DEF SubsamplesSortedStage
<1>2. /\ a.item = x /\ a.from = from /\ b.item = y /\ b.from = from
      /\ c.item = z /\ c.from = from2
  BY DEF File
<1>3. /\ Usual(x) /\ Usual(y) /\ Usual(z) /\ Needs(x) = {x, y, z} /\ Needs(y) = {y}
      /\ Needs(z) = {z}
  BY RateNeeds
<1>4. x # y /\ x # z /\ y # z
  OBVIOUS
<1>5. \A u \in all : u # x /\ u # y /\ u # z /\ ~Alias(u)
  BY RateNames, NoAlias
<1>6. \A u : u \in from \/ u \in from2 => u \in all
  OBVIOUS
<1> HIDE DEF s, x, y, z, from, from2, all, a, b, c
<1>7. s.guards = {x} /\ s.groups = <<<<a, b>>, <<c>>>>
  BY <1>1 DEF Groups
<1>8. IsStage(s, {x}, {a, b, c})
  <2>1. /\ DOMAIN s.groups = {1, 2} /\ DOMAIN s.groups[1] = {1, 2} /\ DOMAIN s.groups[2] = {1}
        /\ s.groups[1][1] = a /\ s.groups[1][2] = b /\ s.groups[2][1] = c
    BY <1>7
  <2>2. Distinct(s)
    BY <1>2, <1>4, <2>1 DEF Distinct
  <2>3. Writes(s, x) /\ Writes(s, y) /\ Writes(s, z)
    BY <1>2, <2>1 DEF Writes
  <2>4. QED
    BY <1>2, <1>7, <2>1, <2>2, <2>3 DEF IsStage
<1>9. UsualFiles({x}, {a, b, c}, all)
  BY <1>2, <1>3, <1>5, <1>6 DEF UsualFiles
<1>10. \A u \in {x, y, z} : \E f \in {a, b, c} : u = f.item
  BY <1>2
<1>11. Chain(layout, <<s>>, all, {x, y, z})
  BY <1>8, <1>9, <1>10, UsualChain
<1>12. QED
  BY <1>11 DEF s, x, y, z, all

AlphabetItems(k) ==
  SrCsaItems(k) \cup
  ({Base("firstIdxAlpha"), Base("cumulative")}
   \cup {<<"firstTextAlpha", "plain", k>>, <<"firstIdxAlpha", "plain", k>>,
          <<"lastToFirstAlpha", "plain", k>>}
   \cup BvSelect("firstIdxAlpha", k))

\* construct(SrCSASlim).
LEMMA AlphabetChain ==
  ASSUME NEW layout, NEW k \in Rates
  PROVE  Chain(layout, AlphabetStages(k), {}, AlphabetItems(k))
<1> DEFINE a == SortedByAlphabetStage
           b == SubsamplesSortedStage(k)
           c == BitVector("firstIdxAlpha", k, {<<"firstIdxAlpha", "plain", k>>, Base("first")})
           fromA == {Base("first"), Typed("psi", "rle")}
           madeA == {Base("firstIdxAlpha"), Base("cumulative")}
           fromB ==
             {Base("firstIdxAlpha"), <<"firstIdx", "plain", k>>, <<"firstText", "plain", k>>,
                           <<"lastToFirst", "plain", k>>}
           madeB ==
             {<<"firstTextAlpha", "plain", k>>, <<"firstIdxAlpha", "plain", k>>,
                           <<"lastToFirstAlpha", "plain", k>>}
           fromC == {<<"firstIdxAlpha", "plain", k>>, Base("first")}
           madeC == BvSelect("firstIdxAlpha", k)
<1>1. Chain(layout, <<a>>, fromA, madeA)
  <2> DEFINE s == SortedByAlphabetStage
             x == Base("firstIdxAlpha")
             y == Base("cumulative")
             own == {Base("first"), Typed("psi", "rle")}
             own2 == {Base("first"), Typed("psi", "rle")}
             guards == {Base("firstIdxAlpha")}
             all == own
  <2>1. \/ s = Stage(guards, <<File(x, own), File(y, own2)>>)
        \/ s = Buffered(guards, <<File(x, own), File(y, own2)>>)
    BY DEF SortedByAlphabetStage
  <2>2. Usual(x) /\ Usual(y) /\ \A g \in guards : x \in Needs(g) /\ y \in Needs(g)
    BY BaseNeeds
  <2>3. \A z \in Needs(x) \cup Needs(y) : z \in all \/ z \in {x, y}
    BY BaseNeeds
  <2>4. x # y /\ \A z \in all : ~Alias(z) /\ z # x /\ z # y
    BY BaseNames, TypedNames, RateNames, NoAlias
  <2>5. \A z \in own \cup own2 : z \in all /\ ~Alias(z) /\ z # x /\ z # y
    BY <2>4
  <2> HIDE DEF s, x, y, own, own2, guards, all
  <2>6. Chain(layout, <<s>>, all, {x, y})
    BY <2>1, <2>2, <2>3, <2>4, <2>5, PairChain
  <2>7. QED
    BY <2>6 DEF s, x, y, own, own2, all
<1>2. Chain(layout, <<b>>, fromB, madeB)
  BY SubsamplesSortedChain
<1>3. Chain(layout, <<c>>, fromC, madeC)
  <2> DEFINE from == {<<"firstIdxAlpha", "plain", k>>, Base("first")}
  <2>1. \A z \in Needs(<<"firstIdxAlpha", "bv", k>>) : z \in from
                \/ z[2] \in {"bv", "rank", "select"}
    BY BvNeeds
  <2>2. \A y \in from : y \in from /\ ~Alias(y) /\ y[2] \in {"plain", "iv"}
    BY NoAlias DEF Base
  <2> HIDE DEF from
  <2>3. Chain(layout, <<BitVector("firstIdxAlpha", k, from)>>, from, BvSelect("firstIdxAlpha", k))
    BY <2>1, <2>2, BitVectorChain
  <2>4. QED
    BY <2>3 DEF from
<1>4. \A y \in fromA : y \in SrCsaItems(k)
  BY DEF SrCsaItems, RCsaItems, BaseItems
<1>5. \A y \in fromB : y \in SrCsaItems(k) \/ y \in madeA
  BY DEF SrCsaItems, RCsaItems, BaseItems
<1>6. \A y \in fromC : y \in SrCsaItems(k) \/ y \in madeA \/ y \in madeB
  BY DEF SrCsaItems, RCsaItems, BaseItems
<1>7. AlphabetStages(k) = SrCsaStages(k) \o <<a, b, c>>
  BY DEF AlphabetStages
<1>8. \A y \in AlphabetItems(k) : y \in SrCsaItems(k) \/ y \in madeA \cup madeB \cup madeC
  BY DEF AlphabetItems
<1> HIDE DEF a, b, c, fromA, fromB, fromC, madeA, madeB, madeC
<1>9. Chain(layout, <<a>>, SrCsaItems(k), madeA)
  BY <1>1, <1>4, ChainWiden
<1>10. Chain(layout, <<a, b>>, SrCsaItems(k), madeA \cup madeB)
  <2> DEFINE p == <<a>>
             x == <<b>>
             q == <<a, b>>
             made == madeA
  <2>1. q = p \o x
    BY Tuple2, Zenon
  <2>2. Chain(layout, p, SrCsaItems(k), made)
          /\ Chain(layout, x, fromB, madeB)
    BY <1>9, <1>2
  <2>3. \A y \in fromB : y \in SrCsaItems(k) \/ y \in made
    BY <1>5
  <2> HIDE DEF p, x, q, made
  <2>4. Chain(layout, q, SrCsaItems(k), made \cup madeB)
    BY <2>1, <2>2, <2>3, ChainAppend
  <2>5. QED
    BY <2>4 DEF q, made
<1>11. Chain(layout, <<a, b, c>>, SrCsaItems(k), madeA \cup madeB \cup madeC)
  <2> DEFINE p == <<a, b>>
             x == <<c>>
             q == <<a, b, c>>
             made == madeA \cup madeB
  <2>1. q = p \o x
    OBVIOUS
  <2>2. Chain(layout, p, SrCsaItems(k), made)
          /\ Chain(layout, x, fromC, madeC)
    BY <1>10, <1>3
  <2>3. \A y \in fromC : y \in SrCsaItems(k) \/ y \in made
    BY <1>6
  <2> HIDE DEF p, x, q, made
  <2>4. Chain(layout, q, SrCsaItems(k), made \cup madeC)
    BY <2>1, <2>2, <2>3, ChainAppend
  <2>5. QED
    BY <2>4 DEF q, made
<1>12. QED
  <2> DEFINE r == <<a, b, c>>
             made == madeA \cup madeB \cup madeC
  <2>1. Chain(layout, SrCsaStages(k), {}, SrCsaItems(k)) /\ Chain(layout, r, SrCsaItems(k), made)
    BY <1>11, SrCsaChain
  <2>2. AlphabetStages(k) = SrCsaStages(k) \o r
    BY <1>7
  <2>3. \A y \in AlphabetItems(k) : y \in SrCsaItems(k) \/ y \in made
    BY <1>8
  <2> HIDE DEF r, made
  <2>4. Chain(layout, SrCsaStages(k) \o r, {}, SrCsaItems(k) \cup made)
    BY <2>1, ChainAppend
  <2>5. QED
    BY <2>2, <2>3, <2>4, ChainWiden

RCsaPsiItems ==
  BaseItems \cup
  ({Base("psi"), Typed("psi", "rle")} \cup {PsiHeads, PsiTails}
   \cup BvSelect("psiLastText", NoRate) \cup {PsiLinks})

\* constructItems(RCSAWithPsiRun).
LEMMA RCsaPsiChain ==
  ASSUME NEW layout
  PROVE  Chain(layout, RCsaPsiStages, {}, RCsaPsiItems)
<1> DEFINE a == PsiStage({Base("psi")})
           b == PsiRunsStage
           c == BitVector("psiLastText", NoRate, {PsiTails, Base("bwt")})
           d == Single(PsiLinks, {PsiTails})
           fromA == FromRle
           madeA == {Base("psi"), Typed("psi", "rle")}
           fromB ==
             (FromRle \cup {Base("first"), Base("firstText")}) \cup (FromRle
             \cup {Base("last"), Base("lastText")})
           madeB == {PsiHeads, PsiTails}
           fromC == {PsiTails, Base("bwt")}
           madeC == BvSelect("psiLastText", NoRate)
           fromD == {PsiTails}
           madeD == {PsiLinks}
<1>1. Chain(layout, <<a>>, fromA, madeA)
  <2> DEFINE s == PsiStage({Base("psi")})
             x == Base("psi")
             y == Typed("psi", "rle")
             own == FromRle
             own2 == FromRle
             guards == {Base("psi")}
             all == own
  <2>1. \/ s = Stage(guards, <<File(x, own), File(y, own2)>>)
        \/ s = Buffered(guards, <<File(x, own), File(y, own2)>>)
    BY DEF PsiStage
  <2>2. Usual(x) /\ Usual(y) /\ \A g \in guards : x \in Needs(g) /\ y \in Needs(g)
    BY BaseNeeds
  <2>3. \A z \in Needs(x) \cup Needs(y) : z \in all \/ z \in {x, y}
    BY BaseNeeds
  <2>4. x # y /\ \A z \in all : ~Alias(z) /\ z # x /\ z # y
    BY BaseNames, TypedNames, RateNames, NoAlias DEF FromRle
  <2>5. \A z \in own \cup own2 : z \in all /\ ~Alias(z) /\ z # x /\ z # y
    BY <2>4
  <2> HIDE DEF s, x, y, own, own2, guards, all
  <2>6. Chain(layout, <<s>>, all, {x, y})
    BY <2>1, <2>2, <2>3, <2>4, <2>5, PairChain
  <2>7. QED
    BY <2>6 DEF s, x, y, own, own2, all
<1>2. Chain(layout, <<b>>, fromB, madeB)
  <2> DEFINE s == PsiRunsStage
             x == PsiHeads
             y == PsiTails
             own == FromRle \cup {Base("first"), Base("firstText")}
             own2 == FromRle \cup {Base("last"), Base("lastText")}
             guards == {PsiHeads}
             all == own \cup own2
  <2>1. \/ s = Stage(guards, <<File(x, own), File(y, own2)>>)
        \/ s = Buffered(guards, <<File(x, own), File(y, own2)>>)
    BY DEF PsiRunsStage
  <2>2. Usual(x) /\ Usual(y) /\ \A g \in guards : x \in Needs(g) /\ y \in Needs(g)
    BY PsiNeeds DEF PsiHeads, PsiTails
  <2>3. \A z \in Needs(x) \cup Needs(y) : z \in all \/ z \in {x, y}
    BY PsiNeeds DEF PsiHeads, PsiTails
  <2>4. x # y /\ \A z \in all : ~Alias(z) /\ z # x /\ z # y
    BY BaseNames, TypedNames, RateNames, NoAlias DEF FromRle, PsiHeads, PsiTails
  <2>5. \A z \in own \cup own2 : z \in all /\ ~Alias(z) /\ z # x /\ z # y
    BY <2>4
  <2> HIDE DEF s, x, y, own, own2, guards, all
  <2>6. Chain(layout, <<s>>, all, {x, y})
    BY <2>1, <2>2, <2>3, <2>4, <2>5, PairChain
  <2>7. QED
    BY <2>6 DEF s, x, y, own, own2, all
<1>3. Chain(layout, <<c>>, fromC, madeC)
  <2> DEFINE from == {PsiTails, Base("bwt")}
  <2>1. \A z \in Needs(<<"psiLastText", "bv", NoRate>>) : z \in from
                \/ z[2] \in {"bv", "rank", "select"}
    BY DEF Needs, PsiTails, Typed
  <2>2. \A y \in from : y \in from /\ ~Alias(y) /\ y[2] \in {"plain", "iv"}
    BY NoAlias DEF Base, PsiTails, Typed
  <2> HIDE DEF from
  <2>3. Chain(layout, <<BitVector("psiLastText", NoRate, from)>>, from, BvSelect("psiLastText",
                NoRate))
    BY <2>1, <2>2, BitVectorChain
  <2>4. QED
    BY <2>3 DEF from
<1>4. Chain(layout, <<d>>, fromD, madeD)
  <2> DEFINE s == Single(PsiLinks, {PsiTails})
             x == PsiLinks
             own == {PsiTails}
  <2>1. s = Single(x, own)
    OBVIOUS
  <2>2. Usual(x) /\ Needs(x) = {x}
    BY PsiNeeds DEF PsiLinks
  <2>3. \A y \in own : y \in own /\ ~Alias(y) /\ y # x
    BY BaseNames, TypedNames, RateNames, NoAlias DEF PsiLinks, PsiTails
  <2> HIDE DEF s, x, own
  <2>4. Chain(layout, <<s>>, own, {x})
    BY <2>1, <2>2, <2>3, SingleChain
  <2>5. QED
    BY <2>4 DEF s, x, own
<1>5. \A y \in fromA : y \in BaseItems
  BY DEF BaseItems, FromRle
<1>6. \A y \in fromB : y \in BaseItems \/ y \in madeA
  BY DEF BaseItems, FromRle
<1>7. \A y \in fromC : y \in BaseItems \/ y \in madeA \/ y \in madeB
  BY DEF BaseItems, FromRle
<1>8. \A y \in fromD : y \in BaseItems \/ y \in madeA \/ y \in madeB \/ y \in madeC
  BY DEF BaseItems, FromRle
<1>9. RCsaPsiStages = BaseStages \o <<a, b, c, d>>
  BY DEF RCsaPsiStages, RCsaPsiFrom
<1>10. \A y \in RCsaPsiItems : y \in BaseItems \/ y \in madeA \cup madeB \cup madeC \cup madeD
  BY DEF RCsaPsiItems
<1> HIDE DEF a, b, c, d, fromA, fromB, fromC, fromD, madeA, madeB, madeC, madeD
<1>11. Chain(layout, <<a>>, BaseItems, madeA)
  BY <1>1, <1>5, ChainWiden
<1>12. Chain(layout, <<a, b>>, BaseItems, madeA \cup madeB)
  <2> DEFINE p == <<a>>
             x == <<b>>
             q == <<a, b>>
             made == madeA
  <2>1. q = p \o x
    BY Tuple2, Zenon
  <2>2. Chain(layout, p, BaseItems, made)
          /\ Chain(layout, x, fromB, madeB)
    BY <1>11, <1>2
  <2>3. \A y \in fromB : y \in BaseItems \/ y \in made
    BY <1>6
  <2> HIDE DEF p, x, q, made
  <2>4. Chain(layout, q, BaseItems, made \cup madeB)
    BY <2>1, <2>2, <2>3, ChainAppend
  <2>5. QED
    BY <2>4 DEF q, made
<1>13. Chain(layout, <<a, b, c>>, BaseItems, madeA \cup madeB \cup madeC)
  <2> DEFINE p == <<a, b>>
             x == <<c>>
             q == <<a, b, c>>
             made == madeA \cup madeB
  <2>1. q = p \o x
    OBVIOUS
  <2>2. Chain(layout, p, BaseItems, made)
          /\ Chain(layout, x, fromC, madeC)
    BY <1>12, <1>3
  <2>3. \A y \in fromC : y \in BaseItems \/ y \in made
    BY <1>7
  <2> HIDE DEF p, x, q, made
  <2>4. Chain(layout, q, BaseItems, made \cup madeC)
    BY <2>1, <2>2, <2>3, ChainAppend
  <2>5. QED
    BY <2>4 DEF q, made
<1>14. Chain(layout, <<a, b, c, d>>, BaseItems, madeA \cup madeB \cup madeC \cup madeD)
  <2> DEFINE p == <<a, b, c>>
             x == <<d>>
             q == <<a, b, c, d>>
             made == madeA \cup madeB \cup madeC
  <2>1. q = p \o x
    OBVIOUS
  <2>2. Chain(layout, p, BaseItems, made)
          /\ Chain(layout, x, fromD, madeD)
    BY <1>13, <1>4
  <2>3. \A y \in fromD : y \in BaseItems \/ y \in made
    BY <1>8
  <2> HIDE DEF p, x, q, made
  <2>4. Chain(layout, q, BaseItems, made \cup madeD)
    BY <2>1, <2>2, <2>3, ChainAppend
  <2>5. QED
    BY <2>4 DEF q, made
<1>15. QED
  <2> DEFINE r == <<a, b, c, d>>
             made == madeA \cup madeB \cup madeC \cup madeD
  <2>1. Chain(layout, BaseStages, {}, BaseItems) /\ Chain(layout, r, BaseItems, made)
    BY <1>14, BaseChain
  <2>2. RCsaPsiStages = BaseStages \o r
    BY <1>9
  <2>3. \A y \in RCsaPsiItems : y \in BaseItems \/ y \in made
    BY <1>10
  <2> HIDE DEF r, made
  <2>4. Chain(layout, BaseStages \o r, {}, BaseItems \cup made)
    BY <2>1, ChainAppend
  <2>5. QED
    BY <2>2, <2>3, <2>4, ChainWiden

\* constructSubsamplingBackwardSamplesForPhiForwardWithPsiRuns, then
\* constructSubmarksForPhiForwardWithPsiRuns: the tails follow the heads, whose
\* indices they read by the alias.
LEMMA SubsamplesChain ==
  ASSUME NEW k \in Rates
  PROVE  Chain("psi", <<PsiSubsamplesStage(k), PsiSubmarksStage(k)>>,
               {PsiHeads, Base("psiFirstAsc"), PsiLinks, PsiTails},
               {SubIdx(k), SubHeads(k), SubTails(k)})
<1> DEFINE s == PsiSubsamplesStage(k)
           t == PsiSubmarksStage(k)
           from == {PsiHeads, Base("psiFirstAsc"), PsiLinks}
           from2 == {SubAlias(k), PsiHeads, PsiTails}
           all == {PsiHeads, Base("psiFirstAsc"), PsiLinks, PsiTails}
           bv == <<"psiLastText", "bv", k>>
           f == File(SubTails(k), from2)
           q == <<s, t>>
           C == all \cup {SubIdx(k), SubHeads(k)}
<1>0. k # NoRate
  BY BuildCacheAssumption
<1>1. s = Stage({SubHeads(k)}, <<File(SubIdx(k), from), File(SubHeads(k), from)>>)
  BY DEF PsiSubsamplesStage, SubHeads, SubIdx
<1>2. t = Stage({SubTails(k), bv}, <<f>>)
  BY DEF PsiSubmarksStage, PsiSampleLinks, SubTails, SubAlias
<1>3. f.item = SubTails(k) /\ f.from = from2
  BY DEF File
<1>4. /\ \A u \in all : u # SubHeads(k) /\ u # SubIdx(k) /\ u # SubTails(k) /\ ~Alias(u)
      /\ SubTails(k) # SubHeads(k) /\ SubTails(k) # SubIdx(k)
      /\ \A r : SubTails(k) # SubHeads(r) /\ (SubHeads(r) = SubHeads(k) => r = k)
      /\ \A r : SubIdx(k) # SubHeads(r)
  BY <1>0 DEF PsiHeads, PsiTails, PsiLinks, Base, Typed, SubHeads, SubIdx, SubTails, Alias
<1>5. SubTails(k) \in Needs(bv) /\ SubTails(k) \in Needs(SubTails(k))
              /\ Needs(SubTails(k)) = {SubTails(k)}
  <2>1. SubTails(k) \in Needs(bv)
    BY DEF Needs, SubTails
  <2>2. QED
    BY <2>1, PsiNeeds
<1>6. DOMAIN q = {1, 2} /\ q[1] = s /\ q[2] = t /\ q \in Seq({s, t})
  OBVIOUS
<1>7. \A u \in from : u \in all
  OBVIOUS
<1>8. /\ \A u \in from2 : u = SubAlias(k) \/ u \in all
      /\ \A u \in all : u \in C
      /\ SubIdx(k) \in C /\ SubHeads(k) \in C
      /\ \A u \in C : u \in all \/ u = SubIdx(k) \/ u = SubHeads(k)
  OBVIOUS
<1> HIDE DEF s, t, from, from2, all, bv, f, q, C
<1>9. /\ Tidy(s) /\ Fits(s, all) /\ Writes(s, SubIdx(k)) /\ Writes(s, SubHeads(k))
      /\ \A y : Writes(s, y) => y = SubIdx(k) \/ y = SubHeads(k)
  <2>1. Retry(SubIdx(k)) /\ Redo(SubIdx(k)) = SubHeads(k) /\ Needs(SubIdx(k)) = {SubIdx(k)}
    BY RetryNames
  <2>2. Needs(SubHeads(k)) = {SubHeads(k), SubIdx(k)}
    BY PsiNeeds
  <2>3. \A z \in from \cup from : z \in all /\ ~Alias(z) /\ z # SubIdx(k) /\ z # SubHeads(k)
    BY <1>4, <1>7
  <2> DEFINE x == SubIdx(k)
             y == SubHeads(k)
  <2>4. /\ Retry(x) /\ s = Stage({Redo(x)}, <<File(x, from), File(Redo(x), from)>>)
        /\ Needs(x) = {x} /\ Needs(Redo(x)) = {Redo(x), x}
        /\ \A z \in from \cup from : z \in all /\ ~Alias(z) /\ z # x /\ z # Redo(x)
    BY <1>1, <2>1, <2>2, <2>3
  <2>5. Redo(x) = y
    BY <2>1
  <2> HIDE DEF x, y
  <2>6. /\ Tidy(s) /\ Fits(s, all) /\ Writes(s, x) /\ Writes(s, Redo(x))
        /\ \A z : Writes(s, z) => z = x \/ z = Redo(x)
    BY <2>4, RetryStage
  <2>7. QED
    BY <2>5, <2>6 DEF x, y
<1>10. /\ t.guards = {SubTails(k), bv} /\ DOMAIN t.groups = {1} /\ DOMAIN t.groups[1] = {1}
       /\ t.groups[1][1] = f
  <2>1. t.guards = {SubTails(k), bv} /\ t.groups = [i \in {1} |-> <<f>>]
    BY <1>2 DEF Stage, Groups
  <2>2. QED
    BY <2>1
<1>11. \A x : Writes(t, x) <=> x = SubTails(k)
  BY <1>3, <1>10 DEF Writes
<1>12. Tidy(t)
  <2>1. Distinct(t)
    BY <1>10 DEF Distinct
  <2>2. First(t, SubTails(k)) /\ SubTails(k) \in t.guards
    BY <1>3, <1>10 DEF First
  <2>3. \A g \in t.guards : \A x : Writes(t, x) => x \in Needs(g)
    BY <1>5, <1>10, <1>11
  <2>4. \A x : Writes(t, x) /\ ~Usual(x) =>
          \E r \in Rates : x = SubTails(r) /\ First(t, x) /\ x \in t.guards
    BY <1>11, <2>2
  <2>5. QED
    BY <2>1, <2>3, <2>4 DEF Tidy
<1>13. Fits(t, C)
  <2>1. ASSUME NEW i \in DOMAIN t.groups, NEW j \in DOMAIN t.groups[i],
                NEW u \in t.groups[i][j].from
        PROVE  Reads(t, C, u)
    <3>1. u \in from2
      BY <1>3, <1>10, <2>1
    <3>2. CASE u = SubAlias(k)
      <4>1. Writes(t, SubTails(k)) /\ ~Writes(t, SubIdx(k))
        BY <1>4, <1>11
      <4>2. QED
        BY <1>8, <3>2, <4>1 DEF Reads
    <3>3. CASE u \in all
      <4>1. u \in C /\ ~Alias(u) /\ ~Writes(t, u)
        BY <1>4, <1>8, <1>11, <3>3
      <4>2. QED
        BY <4>1 DEF Reads
    <3>4. QED
      BY <1>8, <3>1, <3>2, <3>3
  <2>2. ASSUME NEW x, Writes(t, x), NEW y \in Needs(x) PROVE Writes(t, y)
    BY <1>5, <1>11, <2>2
  <2>3. QED
    BY <2>1, <2>2 DEF Fits
<1>14. ASSUME NEW j \in DOMAIN q
       PROVE  /\ Tidy(q[j])
              /\ \E D : /\ \A x \in D : x \in all \/ Before(q, j, x)
                        /\ Fits(q[j], D) \/ \E g \in q[j].guards : g \in D
              /\ \A r \in Rates : Writes(q[j], SubHeads(r)) =>
                   j + 1 \in DOMAIN q /\ Writes(q[j + 1], SubTails(r))
  <2>1. CASE j = 1
    <3>1. q[j] = s /\ j + 1 = 2 /\ 2 \in DOMAIN q /\ q[2] = t
      BY <1>6, <2>1
    <3>2. \A r \in Rates : Writes(s, SubHeads(r)) => Writes(t, SubTails(r))
      BY <1>4, <1>9, <1>11
    <3>3. \A x \in all : x \in all \/ Before(q, j, x)
      OBVIOUS
    <3>4. QED
      BY <1>9, <3>1, <3>2, <3>3
  <2>2. CASE j = 2
    <3>1. q[j] = t
      BY <1>6, <2>2
    <3>2. \A r : ~Writes(t, SubHeads(r))
      BY <1>4, <1>11
    <3>3. Before(q, j, SubIdx(k)) /\ Before(q, j, SubHeads(k))
      <4>1. 1 \in DOMAIN q /\ 1 < j /\ q[1] = s
        BY <1>6, <2>2
      <4>2. QED
        BY <1>9, <4>1 DEF Before
    <3>4. \A x \in C : x \in all \/ Before(q, j, x)
      BY <1>8, <3>3
    <3>5. QED
      BY <1>12, <1>13, <3>1, <3>2, <3>4
  <2>3. QED
    BY <1>6, <1>14, <2>1, <2>2
<1>15. \A x \in {SubIdx(k), SubHeads(k), SubTails(k)} : \E j \in DOMAIN q : Writes(q[j], x)
  BY <1>6, <1>9, <1>11
<1>16. Chain("psi", q, all, {SubIdx(k), SubHeads(k), SubTails(k)})
  BY <1>6, <1>14, <1>15 DEF Chain, IsList
<1>17. QED
  BY <1>16 DEF q, s, t, all

SrCsaPsiItems(k) ==
  RCsaPsiItems \cup
  ({Base("psiFirstAsc")} \cup {SubIdx(k), SubHeads(k), SubTails(k)}
   \cup BvSelect("psiLastText", k) \cup {<<"psiLink", "iv", k>>} \cup BvSelect("psiFirstIdx", k)
   \cup {Typed("psiCumulative", "iv")})

\* constructItems(SrCSAWithPsiRun).
LEMMA SrCsaPsiChain ==
  ASSUME NEW k \in Rates
  PROVE  Chain("psi", SrCsaPsiStages(k), {}, SrCsaPsiItems(k))
<1> DEFINE a == Single(Base("psiFirstAsc"), {PsiHeads})
           b == PsiSubsamplesStage(k)
           c == PsiSubmarksStage(k)
           d == BitVector("psiLastText", k, {<<"psiLastText", "iv", k>>, Base("bwt")})
           e == PsiSubmarkLinksStage(k)
           f == BitVector("psiFirstIdx", k, {<<"psiFirstIdx", "iv", k>>, PsiHeads})
           g == PsiCumulativeStage
           fromA == {PsiHeads}
           madeA == {Base("psiFirstAsc")}
           fromBC == {PsiHeads, Base("psiFirstAsc"), PsiLinks, PsiTails}
           madeBC == {SubIdx(k), SubHeads(k), SubTails(k)}
           fromD == {<<"psiLastText", "iv", k>>, Base("bwt")}
           madeD == BvSelect("psiLastText", k)
           fromE == {<<"psiLastText", "iv", k>>}
           madeE == {<<"psiLink", "iv", k>>}
           fromF == {<<"psiFirstIdx", "iv", k>>, PsiHeads}
           madeF == BvSelect("psiFirstIdx", k)
           fromG == {Typed("psi", "rle"), PsiHeads}
           madeG == {Typed("psiCumulative", "iv")}
<1>1. Chain("psi", <<a>>, fromA, madeA)
  <2> DEFINE s == Single(Base("psiFirstAsc"), {PsiHeads})
             x == Base("psiFirstAsc")
             own == {PsiHeads}
  <2>1. s = Single(x, own)
    OBVIOUS
  <2>2. Usual(x) /\ Needs(x) = {x}
    BY BaseNeeds
  <2>3. \A y \in own : y \in own /\ ~Alias(y) /\ y # x
    BY BaseNames, TypedNames, RateNames, NoAlias DEF PsiHeads
  <2> HIDE DEF s, x, own
  <2>4. Chain("psi", <<s>>, own, {x})
    BY <2>1, <2>2, <2>3, SingleChain
  <2>5. QED
    BY <2>4 DEF s, x, own
<1>2. Chain("psi", <<b, c>>, fromBC, madeBC)
  BY SubsamplesChain
<1>3. Chain("psi", <<d>>, fromD, madeD)
  <2> DEFINE from == {<<"psiLastText", "iv", k>>, Base("bwt")}
  <2>1. \A z \in Needs(<<"psiLastText", "bv", k>>) : z \in from
                \/ z[2] \in {"bv", "rank", "select"}
    BY DEF Needs
  <2>2. \A y \in from : y \in from /\ ~Alias(y) /\ y[2] \in {"plain", "iv"}
    BY NoAlias DEF Base
  <2> HIDE DEF from
  <2>3. Chain("psi", <<BitVector("psiLastText", k, from)>>, from, BvSelect("psiLastText", k))
    BY <2>1, <2>2, BitVectorChain
  <2>4. QED
    BY <2>3 DEF from
<1>4. Chain("psi", <<e>>, fromE, madeE)
  <2> DEFINE s == PsiSubmarkLinksStage(k)
             x == <<"psiLink", "iv", k>>
             own == {<<"psiLastText", "iv", k>>}
  <2>1. s = Single(x, own)
    BY DEF PsiSubmarkLinksStage
  <2>2. Usual(x) /\ Needs(x) = {x}
    BY PsiNeeds
  <2>3. \A y \in own : y \in own /\ ~Alias(y) /\ y # x
    BY BaseNames, TypedNames, RateNames, NoAlias
  <2> HIDE DEF s, x, own
  <2>4. Chain("psi", <<s>>, own, {x})
    BY <2>1, <2>2, <2>3, SingleChain
  <2>5. QED
    BY <2>4 DEF s, x, own
<1>5. Chain("psi", <<f>>, fromF, madeF)
  <2> DEFINE from == {<<"psiFirstIdx", "iv", k>>, PsiHeads}
  <2>1. \A z \in Needs(<<"psiFirstIdx", "bv", k>>) : z \in from
                \/ z[2] \in {"bv", "rank", "select"}
    BY BvNeeds
  <2>2. \A y \in from : y \in from /\ ~Alias(y) /\ y[2] \in {"plain", "iv"}
    BY NoAlias DEF Base, PsiHeads, Typed
  <2> HIDE DEF from
  <2>3. Chain("psi", <<BitVector("psiFirstIdx", k, from)>>, from, BvSelect("psiFirstIdx", k))
    BY <2>1, <2>2, BitVectorChain
  <2>4. QED
    BY <2>3 DEF from
<1>6. Chain("psi", <<g>>, fromG, madeG)
  <2> DEFINE s == PsiCumulativeStage
             x == Typed("psiCumulative", "iv")
             own == {Typed("psi", "rle"), PsiHeads}
  <2>1. s = Single(x, own)
    BY DEF PsiCumulativeStage
  <2>2. Usual(x) /\ Needs(x) = {x}
    BY PsiNeeds
  <2>3. \A y \in own : y \in own /\ ~Alias(y) /\ y # x
    BY BaseNames, TypedNames, RateNames, NoAlias DEF PsiHeads, Typed
  <2> HIDE DEF s, x, own
  <2>4. Chain("psi", <<s>>, own, {x})
    BY <2>1, <2>2, <2>3, SingleChain
  <2>5. QED
    BY <2>4 DEF s, x, own
<1>7. \A y \in fromA : y \in RCsaPsiItems
  BY DEF RCsaPsiItems, BaseItems, SubIdx, SubTails
<1>8. \A y \in fromBC : y \in RCsaPsiItems \/ y \in madeA
  BY DEF RCsaPsiItems, BaseItems, SubIdx, SubTails
<1>9. \A y \in fromD : y \in RCsaPsiItems \/ y \in madeA \/ y \in madeBC
  BY DEF RCsaPsiItems, BaseItems, SubIdx, SubTails
<1>10. \A y \in fromE : y \in RCsaPsiItems \/ y \in madeA \/ y \in madeBC \/ y \in madeD
  BY DEF RCsaPsiItems, BaseItems, SubIdx, SubTails
<1>11. \A y \in fromF : y \in RCsaPsiItems \/ y \in madeA \/ y \in madeBC \/ y \in madeD
              \/ y \in madeE
  BY DEF RCsaPsiItems, BaseItems, SubIdx, SubTails
<1>12. \A y \in fromG : y \in RCsaPsiItems \/ y \in madeA \/ y \in madeBC \/ y \in madeD
              \/ y \in madeE \/ y \in madeF
  BY DEF RCsaPsiItems, BaseItems, SubIdx, SubTails
<1>13. SrCsaPsiStages(k) = RCsaPsiStages \o <<a, b, c, d, e, f, g>>
  BY DEF SrCsaPsiStages
<1>14. \A y \in SrCsaPsiItems(k) : y \in RCsaPsiItems
              \/ y \in madeA \cup madeBC \cup madeD \cup madeE \cup madeF \cup madeG
  BY DEF SrCsaPsiItems
<1> HIDE DEF a, b, c, d, e, f, g, fromA, fromBC, fromD, fromE, fromF, fromG, madeA, madeBC,
              madeD, madeE, madeF, madeG
<1>15. Chain("psi", <<a>>, RCsaPsiItems, madeA)
  BY <1>1, <1>7, ChainWiden
<1>16. Chain("psi", <<a, b, c>>, RCsaPsiItems, madeA \cup madeBC)
  <2> DEFINE p == <<a>>
             x == <<b, c>>
             q == <<a, b, c>>
             made == madeA
  <2>1. q = p \o x
    BY Tuple3, Zenon
  <2>2. Chain("psi", p, RCsaPsiItems, made) /\ Chain("psi", x, fromBC, madeBC)
    BY <1>15, <1>2
  <2>3. \A y \in fromBC : y \in RCsaPsiItems \/ y \in made
    BY <1>8
  <2> HIDE DEF p, x, q, made
  <2>4. Chain("psi", q, RCsaPsiItems, made \cup madeBC)
    BY <2>1, <2>2, <2>3, ChainAppend
  <2>5. QED
    BY <2>4 DEF q, made
<1>17. Chain("psi", <<a, b, c, d>>, RCsaPsiItems, madeA \cup madeBC \cup madeD)
  <2> DEFINE p == <<a, b, c>>
             x == <<d>>
             q == <<a, b, c, d>>
             made == madeA \cup madeBC
  <2>1. q = p \o x
    OBVIOUS
  <2>2. Chain("psi", p, RCsaPsiItems, made) /\ Chain("psi", x, fromD, madeD)
    BY <1>16, <1>3
  <2>3. \A y \in fromD : y \in RCsaPsiItems \/ y \in made
    BY <1>9
  <2> HIDE DEF p, x, q, made
  <2>4. Chain("psi", q, RCsaPsiItems, made \cup madeD)
    BY <2>1, <2>2, <2>3, ChainAppend
  <2>5. QED
    BY <2>4 DEF q, made
<1>18. Chain("psi", <<a, b, c, d, e>>, RCsaPsiItems, madeA \cup madeBC \cup madeD \cup madeE)
  <2> DEFINE p == <<a, b, c, d>>
             x == <<e>>
             q == <<a, b, c, d, e>>
             made == madeA \cup madeBC \cup madeD
  <2>1. q = p \o x
    OBVIOUS
  <2>2. Chain("psi", p, RCsaPsiItems, made) /\ Chain("psi", x, fromE, madeE)
    BY <1>17, <1>4
  <2>3. \A y \in fromE : y \in RCsaPsiItems \/ y \in made
    BY <1>10
  <2> HIDE DEF p, x, q, made
  <2>4. Chain("psi", q, RCsaPsiItems, made \cup madeE)
    BY <2>1, <2>2, <2>3, ChainAppend
  <2>5. QED
    BY <2>4 DEF q, made
<1>19. Chain("psi", <<a, b, c, d, e, f>>, RCsaPsiItems, madeA \cup madeBC \cup madeD
              \cup madeE \cup madeF)
  <2> DEFINE p == <<a, b, c, d, e>>
             x == <<f>>
             q == <<a, b, c, d, e, f>>
             made == madeA \cup madeBC \cup madeD \cup madeE
  <2>1. q = p \o x
    OBVIOUS
  <2>2. Chain("psi", p, RCsaPsiItems, made) /\ Chain("psi", x, fromF, madeF)
    BY <1>18, <1>5
  <2>3. \A y \in fromF : y \in RCsaPsiItems \/ y \in made
    BY <1>11
  <2> HIDE DEF p, x, q, made
  <2>4. Chain("psi", q, RCsaPsiItems, made \cup madeF)
    BY <2>1, <2>2, <2>3, ChainAppend
  <2>5. QED
    BY <2>4 DEF q, made
<1>20. Chain("psi", <<a, b, c, d, e, f, g>>, RCsaPsiItems, madeA \cup madeBC \cup madeD
              \cup madeE \cup madeF \cup madeG)
  <2> DEFINE p == <<a, b, c, d, e, f>>
             x == <<g>>
             q == <<a, b, c, d, e, f, g>>
             made == madeA \cup madeBC \cup madeD \cup madeE \cup madeF
  <2>1. q = p \o x
    OBVIOUS
  <2>2. Chain("psi", p, RCsaPsiItems, made) /\ Chain("psi", x, fromG, madeG)
    BY <1>19, <1>6
  <2>3. \A y \in fromG : y \in RCsaPsiItems \/ y \in made
    BY <1>12
  <2> HIDE DEF p, x, q, made
  <2>4. Chain("psi", q, RCsaPsiItems, made \cup madeG)
    BY <2>1, <2>2, <2>3, ChainAppend
  <2>5. QED
    BY <2>4 DEF q, made
<1>21. QED
  <2> DEFINE r == <<a, b, c, d, e, f, g>>
             made == madeA \cup madeBC \cup madeD \cup madeE \cup madeF \cup madeG
  <2>1. Chain("psi", RCsaPsiStages, {}, RCsaPsiItems) /\ Chain("psi", r, RCsaPsiItems, made)
    BY <1>20, RCsaPsiChain
  <2>2. SrCsaPsiStages(k) = RCsaPsiStages \o r
    BY <1>13
  <2>3. \A y \in SrCsaPsiItems(k) : y \in RCsaPsiItems \/ y \in made
    BY <1>14
  <2> HIDE DEF r, made
  <2>4. Chain("psi", RCsaPsiStages \o r, {}, RCsaPsiItems \cup made)
    BY <2>1, ChainAppend
  <2>5. QED
    BY <2>2, <2>3, <2>4, ChainWiden

\* constructItems(SRCSAValidMark).
LEMMA PsiValidMarkChain ==
  ASSUME NEW layout, NEW k \in Rates
  PROVE  Chain(layout, PsiValidMarkStages(k), {PsiTails, SubTails(k)},
               {<<"psiValidMark", "iv", k>>, <<"psiValidArea", "iv", k>>}
               \cup BvSelect("psiValidMark", k))
<1> DEFINE x == <<"psiValidMark", "iv", k>>
           y == <<"psiValidArea", "iv", k>>
           from == {PsiTails, SubTails(k)}
           from2 == {x, SubTails(k)}
           there == {x, y, SubTails(k)}
           guards == {x, <<"psiValidMark", "bv", k>>}
           made2 == BvSelect("psiValidMark", k)
           s == PsiValidityStage(k)
           t == BitVector("psiValidMark", k, from2)
           p == <<s>>
           q == <<t>>
           r == <<s, t>>
<1>1. Usual(x) /\ Usual(y) /\ Needs(x) = {x, y} /\ Needs(y) = {y} /\ x # y
  BY PsiNeeds
<1>2. \A g \in guards : x \in Needs(g) /\ y \in Needs(g)
  BY DEF Needs
<1>3. \A z \in from : z \in from /\ ~Alias(z) /\ z # x /\ z # y
  BY NoAlias DEF PsiTails, Typed, SubTails
<1>4. \A z \in Needs(<<"psiValidMark", "bv", k>>) : z \in there
              \/ z[2] \in {"bv", "rank", "select"}
  BY DEF Needs
<1>5. \A z \in from2 : z \in there /\ ~Alias(z) /\ z[2] \in {"plain", "iv"}
  BY NoAlias DEF SubTails
<1>6. r = p \o q
  BY Tuple2, Zenon
<1>7. r = PsiValidMarkStages(k) /\ s = Stage(guards, <<File(x, from), File(y, from)>>)
  BY DEF PsiValidMarkStages, PsiValidityStage, SubTails
<1>8. \A z \in there : z \in from \/ z \in {x, y}
  OBVIOUS
<1> HIDE DEF x, y, from, from2, there, guards, made2, r, p, q
<1>9. Chain(layout, <<s>>, from, {x, y})
  <2> HIDE DEF s
  <2>1. \/ s = Stage(guards, <<File(x, from), File(y, from)>>)
        \/ s = Buffered(guards, <<File(x, from), File(y, from)>>)
    BY <1>7
  <2>2. /\ \A z \in Needs(x) \cup Needs(y) : z \in from \/ z \in {x, y}
        /\ \A z \in from \cup from : z \in from /\ ~Alias(z) /\ z # x /\ z # y
    BY <1>1, <1>3
  <2>3. QED
    BY <1>1, <1>2, <2>1, <2>2, PairChain
<1>10. Chain(layout, <<t>>, there, made2)
  BY <1>4, <1>5, BitVectorChain DEF made2
<1>11. Chain(layout, p, from, {x, y}) /\ Chain(layout, q, there, made2)
  BY <1>9, <1>10 DEF p, q
<1> HIDE DEF s, t
<1>12. Chain(layout, r, from, {x, y} \cup made2)
  BY <1>6, <1>8, <1>11, ChainAppend
<1>13. QED
  BY <1>7, <1>12 DEF x, y, from, made2

\* constructItems(SRCSAValidArea): the areas guard the stage that stores them.
LEMMA PsiValidAreaChain ==
  ASSUME NEW layout, NEW k \in Rates
  PROVE  Chain(layout, <<PsiValidAreaStage(k)>>, {<<"psiValidArea", "iv", k>>}, {})
<1> DEFINE x == <<"psiValidArea", "iv", k>>
           f == File(x, {x})
           s == PsiValidAreaStage(k)
<1>1. s.guards = {x} /\ s.groups = [i \in {1} |-> <<f>>]
  BY DEF PsiValidAreaStage, Single, Stage, Groups
<1>2. f.item = x
  BY DEF File
<1>3. Usual(x) /\ Needs(x) = {x} /\ \A r : x # SubHeads(r)
  <2>1. \A r : x # SubHeads(r)
    BY DEF SubHeads
  <2>2. QED
    BY <2>1, PsiNeeds
<1> HIDE DEF x, f, s
<1>4. DOMAIN s.groups = {1} /\ DOMAIN s.groups[1] = {1} /\ s.groups[1][1] = f
  BY <1>1
<1>5. \A y : Writes(s, y) => y = x
  BY <1>2, <1>4 DEF Writes
<1>6. Tidy(s)
  <2>1. Distinct(s)
    BY <1>4 DEF Distinct
  <2>2. \A g \in s.guards : \A y : Writes(s, y) => y \in Needs(g)
    BY <1>1, <1>3, <1>5
  <2>3. \A y : Writes(s, y) => Usual(y)
    BY <1>3, <1>5
  <2>4. QED
    BY <2>1, <2>2, <2>3 DEF Tidy
<1>7. Quiet(s)
  BY <1>3, <1>5 DEF Quiet
<1>8. Chain(layout, <<s>>, {x}, {})
  <2>1. (\E g \in s.guards : g \in {x}) /\ \A y \in {} : Writes(s, y)
    BY <1>1
  <2>2. QED
    BY <1>6, <1>7, <2>1, ChainOne
<1>9. QED
  BY <1>8 DEF s, x

\* A chain that may be continued by another.
LEMMA ChainIf ==
  ASSUME NEW layout, NEW p, NEW q, NEW A, NEW B, NEW C, NEW D, NEW more \in BOOLEAN,
         Chain(layout, p, A, B), Chain(layout, q, C, D), more => C \subseteq A \cup B
  PROVE  Chain(layout, p \o (IF more THEN q ELSE <<>>), A, B \cup IF more THEN D ELSE {})
<1>1. Chain(layout, <<>>, {}, {})
  BY DEF Chain, IsList
<1>2. CASE more
  <2>1. Chain(layout, p \o q, A, B \cup D)
    BY <1>2, ChainAppend
  <2>2. QED
    BY <1>2, <2>1
<1>3. CASE ~more
  <2> DEFINE none == <<>>
  <2>1. Chain(layout, none, {}, {})
    BY <1>1
  <2> HIDE DEF none
  <2>2. Chain(layout, p \o none, A, B \cup {})
    BY <2>1, ChainAppend
  <2>3. QED
    BY <1>3, <2>2 DEF none
<1>4. QED
  BY <1>2, <1>3

\* The stages of a class make, from nothing, all that its index loads.
LEMMA ClassChain ==
  ASSUME NEW v, NEW k, ClassAtRate(v, k)
  PROVE  Chain(v.layout, StagesOf(v, k), {}, ItemsOf(v, k))
<1> DEFINE items == ItemsOf(v, k)
           q == StagesOf(v, k)
           valid == v.kind \in {"vm", "va"}
<1>1. /\ v.layout \in {"bwt", "position", "alphabet", "psi"} /\ v.kind \in {"r", "sr", "vm", "va"}
      /\ v.layout = "alphabet" => v.kind # "r"
      /\ v.kind = "r" => k = NoRate
      /\ v.kind # "r" => k \in Rates
  BY BuildCacheAssumption DEF ClassAtRate
<1>2. \A C, D : Chain(v.layout, q, {}, C) /\ (\A x \in D : x \in C) => Chain(v.layout, q, {}, D)
  <2> HIDE DEF q
  <2>1. QED
    BY ChainWiden
<1>3. CASE v.layout = "bwt" /\ v.kind = "r"
  <2>1. q = RIndexStages
    BY <1>3 DEF StagesOf
  <2>2. \A x \in items : x \in RIndexItems
    BY <1>3 DEF ItemsOf, AtRate, Base, RIndexItems, BaseItems, BvSelect
  <2> HIDE DEF items, q
  <2>3. QED
    BY <1>2, <2>1, <2>2, RIndexChain DEF items, q
<1>4. CASE v.layout = "bwt" /\ v.kind # "r"
  <2> DEFINE vs == ValidityStages("firstValidMark", "firstValidArea", k,
                                  "firstText", "firstSorted", "firstByLast", "lastText")
             from == {Base("firstText"), Base("firstSorted"), <<"firstByLast", "plain", k>>,
                      <<"lastText", "plain", k>>}
             made == {<<"firstValidMark", "plain", k>>, <<"firstValidArea", "plain", k>>}
                     \cup BvSelect("firstValidMark", k)
             all == SrIndexItems(k) \cup IF valid THEN made ELSE {}
  <2>1. q = SrIndexStages(k) \o (IF valid THEN vs ELSE <<>>) /\ k \in Rates
    BY <1>1, <1>4 DEF StagesOf
  <2>2. \A x \in from : x \in SrIndexItems(k)
    BY DEF SrIndexItems, RIndexItems, BaseItems
  <2>3. \A x \in items : x \in all
    <3>1. items = {Base("alphabet"), Base("bwtRle"), <<"lastText", "plain", k>>,
                   <<"firstToLast", "plain", k>>}
                  \cup BvSelect("firstByLast", k) \cup BvRank("lastIdx", k)
                  \cup ValidItems(v, k, "firstValidMark", "firstValidArea", "plain")
      BY <1>4 DEF ItemsOf, AtRate, Base, ValidItems
    <3>2. \A x \in {Base("alphabet"), Base("bwtRle"), <<"lastText", "plain", k>>,
                    <<"firstToLast", "plain", k>>}
                   \cup BvSelect("firstByLast", k) \cup BvRank("lastIdx", k) :
            x \in SrIndexItems(k)
      BY DEF SrIndexItems, RIndexItems, BaseItems, BvSelect
    <3>3. \A x \in ValidItems(v, k, "firstValidMark", "firstValidArea", "plain") :
            valid /\ x \in made
      BY <1>1, <1>4 DEF ValidItems, BvSelect, BvRank
    <3>4. QED
      BY <3>1, <3>2, <3>3
  <2>4. Chain(v.layout, vs, from, made)
    BY <2>1, ValidityChain
  <2> HIDE DEF items, q, vs, from, made, valid
  <2>5. valid \in BOOLEAN /\ (valid => from \subseteq {} \cup SrIndexItems(k))
    BY <2>2 DEF valid
  <2>6. Chain(v.layout, SrIndexStages(k), {}, SrIndexItems(k))
    BY <2>1, SrIndexChain
  <2>7. Chain(v.layout, q, {}, all)
    BY <2>1, <2>4, <2>5, <2>6, ChainIf
  <2> HIDE DEF all
  <2>8. Chain(v.layout, q, {}, items)
    BY <1>2, <2>3, <2>7
  <2>9. QED
    BY <2>8 DEF items, q
<1>5. CASE v.layout = "position" /\ v.kind = "r"
  <2>1. q = RCsaStages
    BY <1>5 DEF StagesOf
  <2>2. \A x \in items : x \in RCsaItems
    BY <1>5 DEF ItemsOf, AtRate, Base, RCsaItems, BaseItems, BvSelect
  <2> HIDE DEF items, q
  <2>3. QED
    BY <1>2, <2>1, <2>2, RCsaChain DEF items, q
<1>6. CASE v.layout = "position" /\ v.kind # "r"
  <2> DEFINE vs == ValidityStages("lastValidMark", "lastValidArea", k,
                                  "lastText", "lastSorted", "lastByFirst", "firstText")
             from == {Base("lastText"), Base("lastSorted"), <<"lastByFirst", "plain", k>>,
                      <<"firstText", "plain", k>>}
             made == {<<"lastValidMark", "plain", k>>, <<"lastValidArea", "plain", k>>}
                     \cup BvSelect("lastValidMark", k)
             all == PositionItems(k) \cup IF valid THEN made ELSE {}
             base == {Base("alphabet"), Typed("psi", "rle"), <<"firstText", "plain", k>>,
                      <<"lastToFirst", "plain", k>>}
                     \cup BvSelect("lastByFirst", k) \cup BvSelect("first", k)
  <2>1. q = PositionStages(k) \o (IF valid THEN vs ELSE <<>>) /\ k \in Rates
    BY <1>1, <1>6 DEF StagesOf
  <2>2. \A x \in from : x \in PositionItems(k)
    BY DEF PositionItems, SrCsaItems, RCsaItems, BaseItems
  <2>3. \A x \in items : x \in all
    <3>1. items = base \cup ValidItems(v, k, "lastValidMark", "lastValidArea", "plain")
      BY <1>6 DEF ItemsOf, AtRate, Base, ValidItems
    <3>2. \A x \in base : x \in PositionItems(k)
      BY DEF PositionItems, SrCsaItems, RCsaItems, BaseItems, BvSelect
    <3>3. \A x \in ValidItems(v, k, "lastValidMark", "lastValidArea", "plain") :
            valid /\ x \in made
      BY <1>1, <1>6 DEF ValidItems, BvSelect, BvRank
    <3>4. QED
      BY <3>1, <3>2, <3>3
  <2>4. Chain(v.layout, vs, from, made)
    BY <2>1, ValidityChain
  <2> HIDE DEF items, q, vs, from, made, valid
  <2>5. valid \in BOOLEAN /\ (valid => from \subseteq {} \cup PositionItems(k))
    BY <2>2 DEF valid
  <2>6. Chain(v.layout, PositionStages(k), {}, PositionItems(k))
    BY <2>1, PositionChain
  <2>7. Chain(v.layout, q, {}, all)
    BY <2>1, <2>4, <2>5, <2>6, ChainIf
  <2> HIDE DEF all
  <2>8. Chain(v.layout, q, {}, items)
    BY <1>2, <2>3, <2>7
  <2>9. QED
    BY <2>8 DEF items, q
<1>7. CASE v.layout = "alphabet" /\ v.kind # "r"
  <2> DEFINE vs == ValidityStages("lastValidMark", "lastValidArea", k,
                                  "lastText", "lastSorted", "lastByFirst", "firstText")
             from == {Base("lastText"), Base("lastSorted"), <<"lastByFirst", "plain", k>>,
                      <<"firstText", "plain", k>>}
             made == {<<"lastValidMark", "plain", k>>, <<"lastValidArea", "plain", k>>}
                     \cup BvSelect("lastValidMark", k)
             all == AlphabetItems(k) \cup IF valid THEN made ELSE {}
             base == {Base("alphabet"), Typed("psi", "rle"), Base("cumulative"),
                      <<"firstTextAlpha", "plain", k>>, <<"lastToFirstAlpha", "plain", k>>}
                     \cup BvSelect("lastByFirst", k) \cup BvRank("firstIdxAlpha", k)
  <2>1. q = AlphabetStages(k) \o (IF valid THEN vs ELSE <<>>) /\ k \in Rates
    BY <1>1, <1>7 DEF StagesOf
  <2>2. \A x \in from : x \in AlphabetItems(k)
    BY DEF AlphabetItems, SrCsaItems, RCsaItems, BaseItems
  <2>3. \A x \in items : x \in all
    <3>1. items = base \cup ValidItems(v, k, "lastValidMark", "lastValidArea", "plain")
      BY <1>7 DEF ItemsOf, AtRate, Base, ValidItems
    <3>2. \A x \in base : x \in AlphabetItems(k)
      BY DEF AlphabetItems, SrCsaItems, RCsaItems, BaseItems, BvSelect
    <3>3. \A x \in ValidItems(v, k, "lastValidMark", "lastValidArea", "plain") :
            valid /\ x \in made
      BY <1>1, <1>7 DEF ValidItems, BvSelect, BvRank
    <3>4. QED
      BY <3>1, <3>2, <3>3
  <2>4. Chain(v.layout, vs, from, made)
    BY <2>1, ValidityChain
  <2> HIDE DEF items, q, vs, from, made, valid
  <2>5. valid \in BOOLEAN /\ (valid => from \subseteq {} \cup AlphabetItems(k))
    BY <2>2 DEF valid
  <2>6. Chain(v.layout, AlphabetStages(k), {}, AlphabetItems(k))
    BY <2>1, AlphabetChain
  <2>7. Chain(v.layout, q, {}, all)
    BY <2>1, <2>4, <2>5, <2>6, ChainIf
  <2> HIDE DEF all
  <2>8. Chain(v.layout, q, {}, items)
    BY <1>2, <2>3, <2>7
  <2>9. QED
    BY <2>8 DEF items, q
<1>8. CASE v.layout = "psi" /\ v.kind = "r"
  <2>1. q = RCsaPsiStages
    BY <1>8 DEF StagesOf
  <2>2. \A x \in items : x \in RCsaPsiItems
    <3>1. items = {Base("alphabet"), Typed("psi", "rle"), PsiHeads, PsiLinks}
                  \cup BvSelect("psiLastText", NoRate)
      BY <1>8 DEF ItemsOf, AtRate, PsiHeads, PsiLinks, Typed
    <3>2. QED
      BY <3>1 DEF RCsaPsiItems, BaseItems
  <2> HIDE DEF items, q
  <2>3. QED
    BY <1>2, <2>1, <2>2, RCsaPsiChain DEF items, q
<1>9. CASE v.layout = "psi" /\ v.kind # "r"
  <2> DEFINE area == <<"psiValidArea", "iv", k>>
             vs == PsiValidMarkStages(k)
             from == {PsiTails, SubTails(k)}
             made == {<<"psiValidMark", "iv", k>>, area} \cup BvSelect("psiValidMark", k)
             last == v.kind = "va"
             as == <<PsiValidAreaStage(k)>>
             base == {Base("alphabet"), Typed("psi", "rle"), Typed("psiCumulative", "iv"),
                      <<"psiFirstText", "iv", k>>, <<"psiLink", "iv", k>>}
                     \cup BvSelect("psiLastText", k) \cup BvRank("psiFirstIdx", k)
             most == SrCsaPsiStages(k) \o (IF valid THEN vs ELSE <<>>)
             some == SrCsaPsiItems(k) \cup IF valid THEN made ELSE {}
  <2>1. q = most \o (IF last THEN as ELSE <<>>) /\ k \in Rates
    BY <1>1, <1>9 DEF StagesOf
  <2>2. \A x \in from : x \in SrCsaPsiItems(k)
    BY DEF SrCsaPsiItems, RCsaPsiItems
  <2>3. \A x \in items : x \in some
    <3>1. items = base \cup ValidItems(v, k, "psiValidMark", "psiValidArea", "iv")
      BY <1>9 DEF ItemsOf, AtRate, ValidItems
    <3>2. \A x \in base : x \in SrCsaPsiItems(k)
      BY DEF SrCsaPsiItems, RCsaPsiItems, BaseItems, BvSelect, SubHeads
    <3>3. \A x \in ValidItems(v, k, "psiValidMark", "psiValidArea", "iv") : valid /\ x \in made
      BY <1>1, <1>9 DEF ValidItems, BvSelect, BvRank
    <3>4. QED
      BY <3>1, <3>2, <3>3
  <2>4. last => area \in some
    OBVIOUS
  <2>5. Chain("psi", vs, from, made) /\ Chain("psi", as, {area}, {})
    BY <2>1, PsiValidMarkChain, PsiValidAreaChain
  <2>6. Chain("psi", SrCsaPsiStages(k), {}, SrCsaPsiItems(k))
    BY <2>1, SrCsaPsiChain
  <2> HIDE DEF items, q, vs, as, from, made, area, valid, last
  <2>7. valid \in BOOLEAN /\ (valid => from \subseteq {} \cup SrCsaPsiItems(k))
    BY <2>2 DEF valid
  <2>8. Chain("psi", most, {}, some)
    BY <2>5, <2>6, <2>7, ChainIf
  <2> HIDE DEF most, some
  <2>9. last \in BOOLEAN /\ (last => {area} \subseteq {} \cup some)
    BY <2>4 DEF last
  <2>10. Chain("psi", q, {}, some \cup IF last THEN {} ELSE {})
    BY <2>1, <2>5, <2>8, <2>9, ChainIf
  <2>11. Chain(v.layout, q, {}, items)
    BY <1>2, <1>9, <2>3, <2>10
  <2>12. QED
    BY <2>11 DEF items, q
<1>10. QED
  BY <1>1, <1>3, <1>4, <1>5, <1>6, <1>7, <1>8, <1>9

-----------------------------------------------------------------------------
(* What harmless stops leave clean. *)

\* A build of a class of this layout is at the at-th of its stages, q, of which
\* it has opened the files O and closed C; fs is the directory, names are those
\* its process has registered.
InTurn(q, at, O, C, fs) ==
  /\ \A x \in C : x \in O /\ fs[x] = x
  /\ \A x \in O : x \in DOMAIN fs /\ at \in DOMAIN q /\ Writes(q[at], x)
  /\ O # {} => \A g \in q[at].guards : ~Before(q, at, g) /\ (g \in DOMAIN fs => g \in O)

\* The stages before have left all their files.
Passed(q, at, F) == \A j \in DOMAIN q : j < at => \A x : Writes(q[j], x) => x \in F

\* A file is right, but for one that is being written, or is to be written again.
Contents(O, C, fs) ==
  \A x \in DOMAIN fs :
    fs[x] = x \/ (x \in O /\ x \notin C) \/ (Retry(x) /\ Redo(x) \notin DOMAIN fs)

\* With a guard comes what it guards, once its stage has ended.
Whole(O, F) == \A x \in F : x \in O \/ \A y \in Needs(x) : y \in F

\* Between the sub-sampled heads and the sub-sampled tails, the process knows the
\* alias that the tails are computed through.
Linked(layout, q, at, O, C, F, names) ==
  /\ \A k \in Rates : SubHeads(k) \in F /\ SubTails(k) \notin F =>
       /\ SubAlias(k) \in names /\ at \in DOMAIN q
       /\ \/ Writes(q[at], SubHeads(k)) /\ SubIdx(k) \in C
          \/ layout = "psi" /\ Writes(q[at], SubTails(k)) /\ O = {}
  /\ \A k \in Rates :
       /\ Writes(q[at], SubHeads(k)) /\ SubIdx(k) \in C => SubAlias(k) \in names
       /\ Writes(q[at], SubTails(k)) /\ Before(q, at, SubHeads(k)) /\ O # {} =>
            SubAlias(k) \in names

Clean(layout, q, at, O, C, fs, names) ==
  /\ InTurn(q, at, O, C, fs) /\ Passed(q, at, DOMAIN fs) /\ Contents(O, C, fs)
  /\ Whole(O, DOMAIN fs) /\ Linked(layout, q, at, O, C, DOMAIN fs, names)

\* Sub-sampled heads are written by their second stage file, tails by their first.
LEMMA HeadsAndTails ==
  ASSUME NEW S, Tidy(S), NEW k \in Rates
  PROVE  /\ Writes(S, SubHeads(k)) => First(S, SubIdx(k)) /\ Writes(S, SubIdx(k))
         /\ Writes(S, SubTails(k)) => First(S, SubTails(k)) /\ SubTails(k) \in S.guards
         /\ ~(Writes(S, SubHeads(k)) /\ Writes(S, SubTails(k)))
<1>1. ASSUME Writes(S, SubHeads(k)) PROVE First(S, SubIdx(k)) /\ Writes(S, SubIdx(k))
  <2>1. \A r : SubHeads(k) # SubTails(r)
    BY DEF SubHeads, SubTails
  <2>2. \E y : Retry(y) /\ SubHeads(k) = Redo(y) /\ Writes(S, y)
    BY <1>1, <2>1, RetryNames DEF Tidy
  <2>3. Writes(S, SubIdx(k))
    BY <2>2, RetryNames
  <2>4. First(S, SubIdx(k))
    <3>1. /\ \A r : SubIdx(k) # SubTails(r)
          /\ Retry(SubIdx(k)) /\ ~Usual(SubIdx(k)) /\ \A y : Retry(y) => SubIdx(k) # Redo(y)
      BY RetryNames
    <3>2. QED
      BY <2>3, <3>1 DEF Tidy
  <2>5. QED
    BY <2>3, <2>4
<1>2. ASSUME Writes(S, SubTails(k)) PROVE First(S, SubTails(k)) /\ SubTails(k) \in S.guards
  <2>1. /\ ~Usual(SubTails(k)) /\ ~Retry(SubTails(k))
        /\ \A y : Retry(y) => SubTails(k) # Redo(y)
    BY RetryNames
  <2>2. QED
    BY <1>2, <2>1 DEF Tidy
<1>3. ~(First(S, SubIdx(k)) /\ First(S, SubTails(k)))
  <2>1. SubIdx(k) # SubTails(k)
    BY RetryNames
  <2>2. QED
    BY <2>1 DEF First
<1>4. QED
  BY <1>1, <1>2, <1>3

\* A file that is retried comes first in its stage, under the guard it is
\* written again for.
LEMMA RetryFirst ==
  ASSUME NEW S, Tidy(S), NEW x, Retry(x), Writes(S, x)
  PROVE  First(S, x) /\ S.guards = {Redo(x)} /\ Writes(S, Redo(x))
<1>1. /\ ~Usual(x) /\ \A k \in Rates : x # SubTails(k)
      /\ \A y : Retry(y) => x # Redo(y)
  BY RetryNames
<1>2. QED
  BY <1>1 DEF Tidy

\* So does one whose guard a stage writes.
LEMMA RedoFirst ==
  ASSUME NEW S, Tidy(S), NEW x, Retry(x), Writes(S, Redo(x))
  PROVE  First(S, x) /\ Writes(S, x)
<1>1. /\ ~Usual(Redo(x)) /\ ~Retry(Redo(x)) /\ \A k \in Rates : Redo(x) # SubTails(k)
  BY RetryNames
<1>2. PICK y : Retry(y) /\ Redo(x) = Redo(y) /\ Writes(S, y)
  BY <1>1 DEF Tidy
<1>3. x = y
  BY <1>2, RetryNames
<1>4. QED
  BY <1>2, <1>3, RetryFirst

\* A stage that is skipped for a guard has left its files.
LEMMA CleanSkip ==
  ASSUME NEW layout, NEW q, NEW at \in DOMAIN q, NEW fs, NEW names, DOMAIN q \subseteq Nat,
         Clean(layout, q, at, {}, {}, fs, names), Tidy(q[at]),
         NEW g \in q[at].guards, g \in DOMAIN fs
  PROVE  Clean(layout, q, at + 1, {}, {}, fs, names)
<1> DEFINE F == DOMAIN fs
<1>1. \A x : Writes(q[at], x) => x \in F
  BY DEF Tidy, Clean, Whole
<1>2. Passed(q, at + 1, F)
  <2>1. ASSUME NEW j \in DOMAIN q, j < at + 1, NEW x, Writes(q[j], x) PROVE x \in F
    <3>1. j < at \/ j = at
      BY <2>1
    <3>2. QED
      BY <1>1, <2>1, <3>1 DEF Clean, Passed
  <2>2. QED
    BY <2>1 DEF Passed
<1>3. \A k \in Rates : ~(SubHeads(k) \in F /\ SubTails(k) \notin F)
  BY <1>1 DEF Clean, Linked
<1>4. Linked(layout, q, at + 1, {}, {}, F, names)
  BY <1>3 DEF Linked
<1>5. InTurn(q, at + 1, {}, {}, fs)
  BY DEF InTurn
<1>6. QED
  BY <1>2, <1>4, <1>5 DEF Clean

\* The files of a group, G, are opened: those before it are closed, and no guard
\* is there when the group is the first.
LEMMA CleanOpen ==
  ASSUME NEW layout, NEW q, NEW at \in DOMAIN q, NEW O, NEW fs, NEW gs, NEW names, NEW G,
         Clean(layout, q, at, O, O, fs, names), Tidy(q[at]),
         \A x \in G : Writes(q[at], x) /\ x \notin O,
         DOMAIN gs = DOMAIN fs \cup G, \A x \in DOMAIN fs : x \notin G => gs[x] = fs[x],
         O # {} \/ \A g \in q[at].guards : g \notin DOMAIN fs,
         \A x : First(q[at], x) => G = {x} \/ x \in O
  PROVE  Clean(layout, q, at, O \cup G, O, gs, names)
<1> DEFINE F == DOMAIN fs
           F2 == DOMAIN gs
           S == q[at]
           P == O \cup G
<1>1. F \subseteq F2 /\ F2 = F \cup G
  OBVIOUS
<1>2. \A x \in O : x \in F /\ gs[x] = x /\ Writes(S, x)
  BY DEF Clean, InTurn
<1>3. ASSUME O = {}, NEW g \in S.guards PROVE ~Before(q, at, g) /\ g \notin F
  BY <1>3 DEF Clean, Passed, Before
<1>4. InTurn(q, at, P, O, gs)
  <2>1. \A g \in S.guards : ~Before(q, at, g) /\ (g \in F2 => g \in P)
    BY <1>1, <1>3 DEF Clean, InTurn
  <2>2. QED
    BY <1>1, <1>2, <2>1 DEF InTurn
<1>5. Passed(q, at, F2)
  BY <1>1 DEF Clean, Passed
<1>6. Contents(P, O, gs)
  <2>1. SUFFICES ASSUME NEW x \in F2, x \notin G, gs[x] # x, Retry(x), Redo(x) \notin F,
                Redo(x) \in F2
                 PROVE  FALSE
    BY <1>1, <1>2 DEF Clean, Contents
  <2>2. Redo(x) \in G
    BY <1>1, <2>1
  <2>3. First(S, x)
    BY <2>1, <2>2, RedoFirst
  <2>4. G # {x}
    BY <2>1
  <2>5. QED
    BY <1>2, <2>1, <2>3, <2>4
<1>7. Whole(P, F2)
  BY <1>1 DEF Clean, Whole
<1>8. ASSUME NEW k \in Rates, SubHeads(k) \in F2, SubTails(k) \notin F2
      PROVE  SubAlias(k) \in names /\ Writes(S, SubHeads(k)) /\ SubIdx(k) \in O
  <2>1. CASE SubHeads(k) \in F
    <3>1. /\ SubAlias(k) \in names
          /\ (Writes(S, SubHeads(k)) /\ SubIdx(k) \in O) \/ Writes(S, SubTails(k))
      BY <1>1, <1>8, <2>1 DEF Clean, Linked
    <3>2. ASSUME Writes(S, SubTails(k)) PROVE FALSE
      <4>1. First(S, SubTails(k))
        BY <3>2, HeadsAndTails
      <4>2. QED
        BY <1>1, <1>2, <1>8, <4>1
    <3>3. QED
      BY <3>1, <3>2
  <2>2. CASE SubHeads(k) \in G
    <3>1. Writes(S, SubHeads(k)) /\ First(S, SubIdx(k))
      BY <2>2, HeadsAndTails
    <3>2. SubIdx(k) # SubHeads(k)
      BY RetryNames
    <3>3. SubIdx(k) \in O
      BY <2>2, <3>1, <3>2
    <3>4. QED
      BY <3>1, <3>3 DEF Clean, Linked
  <2>3. QED
    BY <1>1, <1>8, <2>1, <2>2
<1>9. ASSUME NEW k \in Rates, Writes(S, SubTails(k)), Before(q, at, SubHeads(k))
      PROVE  SubAlias(k) \in names
  <2>1. CASE O # {}
    BY <1>9, <2>1 DEF Clean, Linked
  <2>2. CASE O = {}
    <3>1. SubHeads(k) \in F
      BY <1>9 DEF Clean, Passed, Before
    <3>2. SubTails(k) \notin F
      BY <1>3, <1>9, <2>2, HeadsAndTails
    <3>3. QED
      BY <3>1, <3>2 DEF Clean, Linked
  <2>3. QED
    BY <2>1, <2>2
<1>10. Linked(layout, q, at, P, O, F2, names)
  BY <1>8, <1>9 DEF Clean, Linked
<1>11. QED
  BY <1>4, <1>5, <1>6, <1>7, <1>10 DEF Clean

\* A file that an earlier stage left, or that is its own, is right.
LEMMA LeftRight ==
  ASSUME NEW layout, NEW q, NEW at, NEW O, NEW C, NEW fs, NEW names, NEW x,
         Clean(layout, q, at, O, C, fs, names), \A j \in DOMAIN q : Tidy(q[j]),
         Before(q, at, x), x \notin O \/ x \in C
  PROVE  x \in DOMAIN fs /\ fs[x] = x
<1>1. PICK j \in DOMAIN q : j < at /\ Writes(q[j], x)
  BY DEF Before
<1>2. x \in DOMAIN fs
  BY <1>1 DEF Clean, Passed
<1>3. Retry(x) => Redo(x) \in DOMAIN fs
  <2>1. Retry(x) => Writes(q[j], Redo(x))
    BY <1>1, RetryFirst
  <2>2. QED
    BY <1>1, <2>1 DEF Clean, Passed
<1>4. QED
  BY <1>2, <1>3 DEF Clean, Contents

\* A stage that has begun fits where the stages before it have been.
LEMMA BegunFits ==
  ASSUME NEW layout, NEW q, NEW at \in DOMAIN q, NEW O, NEW C, NEW fs, NEW names, NEW items,
         Clean(layout, q, at, O, C, fs, names), Chain(layout, q, {}, items), O # {}
  PROVE  \E A : Fits(q[at], A) /\ \A x \in A : Before(q, at, x)
<1>1. PICK A : /\ \A x \in A : x \in {} \/ Before(q, at, x)
               /\ Fits(q[at], A) \/ \E g \in q[at].guards : g \in A
  BY DEF Chain
<1>2. \A g \in q[at].guards : ~Before(q, at, g)
  BY DEF Clean, InTurn
<1>3. QED
  BY <1>1, <1>2

\* What a file is computed from: an item of an earlier stage that is right, or
\* the alias of one.
LEMMA SourcesRight ==
  ASSUME NEW layout, NEW q, NEW at \in DOMAIN q, NEW O, NEW C, NEW fs, NEW names, NEW items,
         Clean(layout, q, at, O, C, fs, names), Chain(layout, q, {}, items), O # {},
         NEW i \in DOMAIN q[at].groups, NEW j \in DOMAIN q[at].groups[i],
         NEW y \in q[at].groups[i][j].from
  PROVE  \/ ~Alias(y) /\ y \in DOMAIN fs /\ fs[y] = y /\ ~Writes(q[at], y)
         \/ \E k \in Rates : /\ y = SubAlias(k) /\ y \in names
                             /\ SubIdx(k) \in DOMAIN fs /\ fs[SubIdx(k)] = SubIdx(k)
<1>0. \A l \in DOMAIN q : Tidy(q[l])
  BY DEF Chain
<1>1. PICK A : Fits(q[at], A) /\ \A x \in A : Before(q, at, x)
  BY BegunFits
<1>2. Reads(q[at], A, y)
  BY <1>1 DEF Fits
<1>3. CASE y \in A /\ ~Alias(y) /\ ~Writes(q[at], y)
  <2>1. Before(q, at, y) /\ y \notin O
    BY <1>1, <1>3 DEF Clean, InTurn
  <2>2. y \in DOMAIN fs /\ fs[y] = y
    BY <1>0, <2>1, LeftRight
  <2>3. QED
    BY <1>3, <2>2
<1>4. ASSUME NEW k \in Rates, y = SubAlias(k), Writes(q[at], SubTails(k)), SubHeads(k) \in A,
             SubIdx(k) \in A, ~Writes(q[at], SubIdx(k))
      PROVE  y \in names /\ SubIdx(k) \in DOMAIN fs /\ fs[SubIdx(k)] = SubIdx(k)
  <2>1. Before(q, at, SubIdx(k)) /\ Before(q, at, SubHeads(k)) /\ SubIdx(k) \notin O
    BY <1>1, <1>4 DEF Clean, InTurn
  <2>2. SubIdx(k) \in DOMAIN fs /\ fs[SubIdx(k)] = SubIdx(k)
    BY <1>0, <2>1, LeftRight
  <2>3. y \in names
    BY <1>4, <2>1 DEF Clean, Linked
  <2>4. QED
    BY <2>2, <2>3
<1>5. QED
  BY <1>2, <1>3, <1>4 DEF Reads

\* A file is closed, and is right; the process may register its alias.
LEMMA CleanClose ==
  ASSUME NEW layout, NEW q, NEW at \in DOMAIN q, NEW O, NEW C, NEW D, NEW fs, NEW gs,
         NEW names, NEW names2, NEW x \in O,
         Clean(layout, q, at, O, C, fs, names), D = C \cup {x},
         DOMAIN gs = DOMAIN fs, gs[x] = x, \A y \in DOMAIN fs : y # x => gs[y] = fs[y],
         names \subseteq names2,
         \A k \in Rates : x = SubIdx(k) => SubAlias(k) \in names2
  PROVE  Clean(layout, q, at, O, D, gs, names2)
<1>1. InTurn(q, at, O, D, gs)
  <2>1. \A y \in D : y \in O /\ gs[y] = y
    BY DEF Clean, InTurn
  <2>2. QED
    BY <2>1 DEF Clean, InTurn
<1>2. Contents(O, D, gs)
  BY DEF Clean, Contents, InTurn
<1>3. Linked(layout, q, at, O, D, DOMAIN gs, names2)
  BY DEF Clean, Linked
<1>4. QED
  BY <1>1, <1>2, <1>3 DEF Clean

\* A stage ends when it has closed all of its files.
LEMMA CleanEnd ==
  ASSUME NEW layout, NEW q, NEW at \in DOMAIN q, NEW O, NEW fs, NEW names, NEW items,
         DOMAIN q \subseteq Nat,
         Clean(layout, q, at, O, O, fs, names), Chain(layout, q, {}, items),
         O # {}, \A x : Writes(q[at], x) => x \in O
  PROVE  Clean(layout, q, at + 1, {}, {}, fs, names)
<1> DEFINE F == DOMAIN fs
<1>1. \A x : Writes(q[at], x) => x \in F
  BY DEF Clean, InTurn
<1>2. Passed(q, at + 1, F)
  <2>1. ASSUME NEW j \in DOMAIN q, j < at + 1, NEW x, Writes(q[j], x) PROVE x \in F
    <3>1. j < at \/ j = at
      BY <2>1
    <3>2. QED
      BY <1>1, <2>1, <3>1 DEF Clean, Passed
  <2>2. QED
    BY <2>1 DEF Passed
<1>3. Whole({}, F)
  <2>1. PICK A : Fits(q[at], A) /\ \A x \in A : Before(q, at, x)
    BY BegunFits
  <2>2. \A x \in A : x \in F
    BY <2>1 DEF Clean, Passed, Before
  <2>3. ASSUME NEW x \in O PROVE \A y \in Needs(x) : y \in F
    <3>1. Writes(q[at], x)
      BY DEF Clean, InTurn
    <3>2. QED
      BY <1>1, <2>1, <2>2, <3>1 DEF Fits
  <2>4. QED
    BY <2>3 DEF Clean, Whole
<1>4. Linked(layout, q, at + 1, {}, {}, F, names)
  <2>1. ASSUME NEW k \in Rates, SubHeads(k) \in F, SubTails(k) \notin F
        PROVE  /\ SubAlias(k) \in names /\ at + 1 \in DOMAIN q
               /\ layout = "psi" /\ Writes(q[at + 1], SubTails(k))
    <3>1. SubAlias(k) \in names /\ Writes(q[at], SubHeads(k))
      BY <2>1 DEF Clean, Linked
    <3>2. at + 1 \in DOMAIN q /\ Writes(q[at + 1], SubTails(k))
      BY <3>1 DEF Chain
    <3>3. layout = "psi"
      BY <3>1 DEF Chain, Quiet
    <3>4. QED
      BY <3>1, <3>2, <3>3
  <2>2. QED
    BY <2>1 DEF Linked
<1>5. Contents({}, {}, fs)
  BY DEF Clean, Contents
<1>6. InTurn(q, at + 1, {}, {}, fs)
  BY DEF InTurn
<1>7. QED
  BY <1>2, <1>3, <1>4, <1>5, <1>6 DEF Clean

\* No build runs: nothing is open, and no build has to know an alias.
Settled(fs) ==
  /\ Contents({}, {}, fs) /\ Whole({}, DOMAIN fs)
  /\ \A k \in Rates : SubHeads(k) \in DOMAIN fs => SubTails(k) \in DOMAIN fs

\* A build starts; one that has passed its stages ends.
\* A build that starts in a settled directory.
LEMMA CleanStart ==
  ASSUME NEW layout, NEW q, NEW fs, NEW names, Settled(fs), \A j \in DOMAIN q : ~(j < 1)
  PROVE  Clean(layout, q, 1, {}, {}, fs, names)
BY DEF Settled, Clean, InTurn, Passed, Linked

LEMMA CleanStops ==
  ASSUME NEW layout, NEW q, NEW at, NEW fs, NEW names, Clean(layout, q, at, {}, {}, fs, names),
         at \in DOMAIN q => \A k \in Rates : layout = "psi" => ~Writes(q[at], SubTails(k))
  PROVE  Settled(fs)
BY DEF Settled, Clean, Linked

\* A build that stops in the file that will be retried leaves what it opened.
LEMMA CleanStopsInside ==
  ASSUME NEW layout, NEW q, NEW at \in DOMAIN q, NEW fs, NEW names, NEW x,
         Clean(layout, q, at, {x}, {}, fs, names), Retry(x), q[at].guards = {Redo(x)}
  PROVE  Settled(fs)
<1>1. x \in DOMAIN fs /\ Redo(x) \notin DOMAIN fs
  <2>1. x # Redo(x)
    BY RetryNames
  <2>2. QED
    BY <2>1 DEF Clean, InTurn
<1>2. Contents({}, {}, fs)
  BY <1>1 DEF Clean, Contents
<1>3. Whole({}, DOMAIN fs)
  <2>1. Needs(x) = {x}
    BY RetryNames
  <2>2. QED
    BY <1>1, <2>1 DEF Clean, Whole
<1>4. QED
  BY <1>2, <1>3 DEF Settled, Clean, Linked

-----------------------------------------------------------------------------
(* The invariant of harmless stops. *)

\* The files that a build b has opened at its stage, and those it has closed.
Opened(q, b, fs) ==
  {x \in DOMAIN fs : b.at \in DOMAIN q /\
     \E i \in DOMAIN q[b.at].groups : \E j \in DOMAIN q[b.at].groups[i] :
       q[b.at].groups[i][j].item = x /\ (i < b.group \/ (i = b.group /\ b.open))}

Closed(q, b, fs) ==
  {x \in DOMAIN fs : b.at \in DOMAIN q /\
     \E i \in DOMAIN q[b.at].groups : \E j \in DOMAIN q[b.at].groups[i] :
       q[b.at].groups[i][j].item = x
       /\ (i < b.group \/ (i = b.group /\ b.open /\ j <= b.closed))}

CleanBuild(b, fs, names) ==
  LET q == StagesOf(b.v, b.k)
  IN Clean(b.v.layout, q, b.at, Opened(q, b, fs), Closed(q, b, fs), fs, names)

CleanDirectory ==
  /\ \A k \in Rates : SubAlias(k) \in DOMAIN fileMap => fileMap[SubAlias(k)] = SubIdx(k)
  /\ build = Idle => Settled(files)
  /\ build # Idle => CleanBuild(build, files, DOMAIN fileMap)
  /\ result.how \in {"none", "right"}

CleanInv ==
  /\ build # Idle => build.open \/ build.closed = 0
  /\ (\A stop \in stops : Harmless(stop)) => CleanDirectory

\* At the start of a stage nothing is open.
LEMMA NothingOpen ==
  ASSUME NEW q, NEW b, NEW fs, b.group = 1, b.open = FALSE,
         b.at \in DOMAIN q => DOMAIN q[b.at].groups \subseteq Nat \ {0}
  PROVE  Opened(q, b, fs) = {} /\ Closed(q, b, fs) = {}
BY DEF Opened, Closed

\* What the invariants say of a build that runs.
LEMMA AtClean ==
  ASSUME BuiltInv, CleanDirectory, build # Idle
  PROVE  /\ Clean(build.v.layout, Stages, build.at, Opened(Stages, build, files),
                  Closed(Stages, build, files), files, DOMAIN fileMap)
         /\ Chain(build.v.layout, Stages, {}, ItemsOf(build.v, build.k))
         /\ DOMAIN Stages = 1..Len(Stages) /\ Len(Stages) \in Nat
         /\ \A j \in DOMAIN Stages : Tidy(Stages[j])
<1>1. /\ ClassAtRate(build.v, build.k) /\ Stages = StagesOf(build.v, build.k)
      /\ GoodStages(Stages)
  BY AtStage
<1>2. Clean(build.v.layout, Stages, build.at, Opened(Stages, build, files),
            Closed(Stages, build, files), files, DOMAIN fileMap)
  BY <1>1 DEF CleanDirectory, CleanBuild
<1>3. Chain(build.v.layout, Stages, {}, ItemsOf(build.v, build.k))
  BY <1>1, ClassChain
<1>4. QED
  BY <1>1, <1>2, <1>3 DEF Chain, GoodStages

\* A build starts in a directory that no build is in.
LEMMA StartStaysClean ==
  ASSUME BuiltInv, CleanInv, NEW v \in Variants, NEW k \in Rates, Start(v, k), BuiltInv'
  PROVE  CleanInv'
<1> DEFINE rate == IF v.kind = "r" THEN NoRate ELSE k
           b == [v |-> v, k |-> rate, at |-> 1, group |-> 1, closed |-> 0, open |-> FALSE]
<1>1. /\ build = Idle /\ build' = b /\ result' = [how |-> "none"] /\ UNCHANGED <<files, stops>>
      /\ fileMap' \in {fileMap, <<>>}
  BY DEF Start
<1>2. /\ b.v = v /\ b.k = rate /\ b.at = 1 /\ b.group = 1 /\ b.closed = 0 /\ b.open = FALSE
  OBVIOUS
<1>3. ClassAtRate(v, rate)
  BY DEF ClassAtRate
<1> HIDE DEF b, rate
<1> DEFINE q == StagesOf(v, rate)
<1>4. GoodStages(q)
  BY <1>3, ClassIsGood
<1>5. /\ \A j \in DOMAIN q : ~(j < 1)
      /\ b.at \in DOMAIN q => DOMAIN q[b.at].groups \subseteq Nat \ {0}
  <2>1. Len(q) \in Nat /\ DOMAIN q = 1..Len(q)
    BY <1>4 DEF GoodStages
  <2>2. \A j \in DOMAIN q : Filled(q[j].groups)
    BY <1>4, GoodEach DEF Good
  <2>3. QED
    BY <2>1, <2>2 DEF Filled
<1> HIDE DEF q
<1>6. Opened(q, b, files) = {} /\ Closed(q, b, files) = {}
  BY <1>2, <1>5, NothingOpen
<1>7. ASSUME CleanDirectory PROVE CleanDirectory'
  <2>1. Settled(files)
    BY <1>1, <1>7 DEF CleanDirectory
  <2>2. Clean(v.layout, q, 1, {}, {}, files, DOMAIN fileMap')
    BY <1>5, <2>1, CleanStart
  <2>3. CleanBuild(b, files, DOMAIN fileMap')
    BY <1>2, <1>6, <2>2 DEF CleanBuild, q
  <2>4. \A r \in Rates : SubAlias(r) \in DOMAIN fileMap' => fileMap'[SubAlias(r)] = SubIdx(r)
    <3>1. DOMAIN <<>> = {}
      OBVIOUS
    <3>2. QED
      BY <1>1, <1>7, <3>1 DEF CleanDirectory
  <2>5. build' # Idle
    <3>1. b # Idle
      BY <1>2 DEF Idle
    <3>2. QED
      BY <1>1, <3>1
  <2>6. QED
    BY <1>1, <2>3, <2>4, <2>5 DEF CleanDirectory
<1>8. QED
  BY <1>1, <1>2, <1>7 DEF CleanInv

\* The build goes on to its next stage.
LEMMA NextStageIs ==
  ASSUME build \in Builds, build' = NextStage
  PROVE  /\ build'.v = build.v /\ build'.k = build.k /\ build'.at = build.at + 1
         /\ build'.group = 1 /\ build'.closed = 0 /\ build'.open = FALSE
<1>1. build' = [v |-> build.v, k |-> build.k, at |-> build.at + 1, group |-> 1,
                closed |-> 0, open |-> FALSE]
  BY DEF NextStage, Builds
<1>2. QED
  BY <1>1

\* A build that goes on to the next stage has opened nothing there.
LEMMA CleanNext ==
  ASSUME BuiltInv, build # Idle, build' = NextStage, NEW fs, NEW names,
         Clean(build.v.layout, Stages, build.at + 1, {}, {}, fs, names)
  PROVE  CleanBuild(build', fs, names) /\ build'.closed = 0
<1>1. /\ build \in Builds /\ Stages = StagesOf(build.v, build.k) /\ GoodStages(Stages)
  BY AtStage
<1>2. /\ build'.v = build.v /\ build'.k = build.k /\ build'.at = build.at + 1
      /\ build'.group = 1 /\ build'.closed = 0 /\ build'.open = FALSE
  BY <1>1, NextStageIs
<1>3. build'.at \in DOMAIN Stages => DOMAIN Stages[build'.at].groups \subseteq Nat \ {0}
  BY <1>1, GoodEach DEF Good, Filled
<1>4. Opened(Stages, build', fs) = {} /\ Closed(Stages, build', fs) = {}
  BY <1>2, <1>3, NothingOpen
<1>5. QED
  BY <1>1, <1>2, <1>4 DEF CleanBuild

\* A stage that is skipped for a guard changes no file.
LEMMA SkipStaysClean ==
  ASSUME BuiltInv, CleanInv, SkipStage, BuiltInv'
  PROVE  CleanInv'
<1>1. /\ Building /\ build' = NextStage /\ UNCHANGED <<files, fileMap, stops, result>>
      /\ build # Idle /\ ~build.open /\ ~(build.group > 1)
      /\ \E g \in Current.guards : Exists(g)
  BY DEF SkipStage, Building, Begun
<1>2. /\ build \in Builds /\ build.at \in DOMAIN Stages /\ Good(Current)
      /\ Progress(Stages, build, DOMAIN files)
  BY <1>1, AtStage
<1>3. PICK g \in Stages[build.at].guards : g \in DOMAIN files
  BY <1>1, <1>2, Names DEF Good, Current, BuiltInv
<1>4. build.group = 1 /\ build.open = FALSE /\ DOMAIN Stages[build.at].groups \subseteq Nat \ {0}
  BY <1>1, <1>2 DEF Builds, Good, Filled, Current
<1>5. Opened(Stages, build, files) = {} /\ Closed(Stages, build, files) = {}
  BY <1>4, NothingOpen
<1>6. build'.closed = 0
  BY <1>1, <1>2, NextStageIs
<1>7. ASSUME CleanDirectory PROVE CleanDirectory'
  <2>1. /\ Clean(build.v.layout, Stages, build.at, {}, {}, files, DOMAIN fileMap)
        /\ DOMAIN Stages \subseteq Nat /\ Tidy(Stages[build.at])
    BY <1>1, <1>2, <1>5, <1>7, AtClean
  <2>2. Clean(build.v.layout, Stages, build.at + 1, {}, {}, files, DOMAIN fileMap)
    BY <1>2, <1>3, <2>1, CleanSkip
  <2>3. CleanBuild(build', files, DOMAIN fileMap)
    BY <1>1, <2>2, CleanNext
  <2>4. build' # Idle
    <3>1. build'.at = build.at + 1 /\ build.at \in Nat
      BY <1>1, <1>2, NextStageIs DEF Builds
    <3>2. QED
      BY <3>1 DEF Idle
  <2>5. QED
    BY <1>1, <1>7, <2>3, <2>4 DEF CleanDirectory
<1>8. QED
  BY <1>1, <1>6, <1>7 DEF CleanInv

\* A group of files is opened.
LEMMA OpenStaysClean ==
  ASSUME BuiltInv, CleanInv, OpenGroup, BuiltInv'
  PROVE  CleanInv'
<1> DEFINE T == {Lookup(Group[i].item) : i \in DOMAIN Group}
           G == {Group[i].item : i \in DOMAIN Group}
           S == Stages[build.at]
           O == Opened(Stages, build, files)
<1>1. /\ Building /\ ~build.open /\ build # Idle /\ UNCHANGED <<fileMap, result, stops>>
      /\ Begun \/ \A g \in Current.guards : ~Exists(g)
      /\ files' = Override(files, [f \in T |-> Cut])
      /\ build' = [build EXCEPT !.open = TRUE]
  BY DEF OpenGroup, Building
<1>2. /\ build \in Builds /\ Stages = StagesOf(build.v, build.k) /\ Good(S) /\ Current = S
      /\ Progress(Stages, build, DOMAIN files) /\ build.at \in DOMAIN Stages
  BY <1>1, AtStage DEF Current
<1>3. /\ build.group \in DOMAIN S.groups /\ Group = S.groups[build.group]
      /\ DOMAIN S.groups \subseteq Nat \ {0} /\ 1 \in DOMAIN S.groups /\ 1 \in DOMAIN S.groups[1]
  BY <1>2 DEF Progress, Group, Good, Filled
<1>4. \A x \in G : Writes(S, x) /\ Lookup(x) = x
  <2>1. \A x \in G : Writes(S, x)
    BY <1>3 DEF Writes
  <2>2. \A x \in G : ~Alias(x)
    BY <1>2, <2>1 DEF Good
  <2>3. QED
    BY <2>1, <2>2, Names DEF BuiltInv
<1>5. DOMAIN files' = DOMAIN files
              \cup G /\ \A x \in DOMAIN files : x \notin G => files'[x] = files[x]
  <2>1. T = G
    BY <1>4
  <2> HIDE DEF T, G
  <2>2. QED
    BY <1>1, <2>1 DEF Override
<1>6. /\ build' \in Builds /\ build'.v = build.v /\ build'.k = build.k /\ build'.at = build.at
      /\ build'.group = build.group /\ build'.closed = build.closed /\ build'.open = TRUE
  BY <1>1, <1>2 DEF Builds
<1>7. build'.closed = 0
  BY <1>1, <1>6 DEF CleanInv
<1>8. \A x : x \in O <=> \E i \in DOMAIN S.groups : \E j \in DOMAIN S.groups[i] :
                           S.groups[i][j].item = x /\ i < build.group
  BY <1>1, <1>2 DEF Opened, Progress
<1>9. Closed(Stages, build, files) = O
  BY <1>1 DEF Opened, Closed
<1>10. Opened(Stages, build', files') = O \cup G
  <2>1. ASSUME NEW x
        PROVE  x \in Opened(Stages, build', files') <=> x \in O \cup G
    <3>1. x \in O \cup G <=> \E i \in DOMAIN S.groups : \E j \in DOMAIN S.groups[i] :
                              S.groups[i][j].item = x /\ (i < build.group \/ i = build.group)
      BY <1>3, <1>8
    <3>2. x \in O => x \in DOMAIN files
      BY DEF Opened
    <3>3. x \in O \cup G => x \in DOMAIN files'
      BY <1>5, <3>2
    <3> HIDE DEF G, O, S
    <3>4. QED
      BY <1>2, <1>6, <3>1, <3>3 DEF Opened, S
  <2>2. QED
    BY <2>1
<1>11. Closed(Stages, build', files') = O
  <2>1. ASSUME NEW x
        PROVE  x \in Closed(Stages, build', files') <=> x \in O
    <3>1. x \in O => x \in DOMAIN files'
      BY <1>5 DEF Opened
    <3>2. \A i \in DOMAIN S.groups : \A j \in DOMAIN S.groups[i] : ~(j <= 0)
      BY <1>2 DEF Good, Filled
    <3> HIDE DEF G, O, S
    <3>3. QED
      BY <1>2, <1>6, <1>7, <1>8, <3>1, <3>2 DEF Closed, S
  <2>2. QED
    BY <2>1
<1> HIDE DEF T
<1>12. ASSUME CleanDirectory PROVE CleanDirectory'
  <2>1. /\ Clean(build.v.layout, Stages, build.at, O, O, files, DOMAIN fileMap)
        /\ Tidy(S)
    BY <1>1, <1>2, <1>7, <1>9, <1>12, AtClean
  <2>2. \A x \in G : x \notin O
    <3>1. ASSUME NEW j \in DOMAIN Group, Group[j].item \in O PROVE FALSE
      <4>1. PICK i \in DOMAIN S.groups :
              i < build.group /\ \E l \in DOMAIN S.groups[i] : S.groups[i][l].item = Group[j].item
        BY <1>8, <3>1
      <4>2. i = build.group
        BY <1>3, <2>1, <4>1 DEF Tidy, Distinct
      <4>3. QED
        BY <1>3, <4>1, <4>2
    <3>2. QED
      BY <3>1
  <2>3. O # {} \/ \A g \in S.guards : g \notin DOMAIN files
    <3>1. CASE Begun
      <4>1. 1 < build.group
        BY <1>1, <3>1 DEF Begun
      <4>2. S.groups[1][1].item \in O
        BY <1>3, <1>8, <4>1
      <4>3. QED
        BY <4>2
    <3>2. CASE \A g \in Current.guards : ~Exists(g)
      BY <1>2, <3>2, Names DEF Good, BuiltInv
    <3>3. QED
      BY <1>1, <3>1, <3>2
  <2>4. ASSUME NEW x, First(S, x) PROVE G = {x} \/ x \in O
    <3>1. CASE build.group = 1
      BY <1>3, <2>4, <3>1 DEF First
    <3>2. CASE 1 < build.group
      BY <1>3, <1>8, <2>4, <3>2 DEF First
    <3>3. QED
      BY <1>3, <3>1, <3>2
  <2> HIDE DEF G, O
  <2>5. Clean(build.v.layout, Stages, build.at, O \cup G, O, files', DOMAIN fileMap)
    BY <1>2, <1>4, <1>5, <2>1, <2>2, <2>3, <2>4, CleanOpen
  <2>6. CleanBuild(build', files', DOMAIN fileMap')
    BY <1>1, <1>2, <1>6, <1>10, <1>11, <2>5 DEF CleanBuild
  <2>7. build' # Idle
    BY <1>6 DEF Idle, Builds
  <2>8. QED
    BY <1>1, <1>12, <2>6, <2>7 DEF CleanDirectory
<1>13. QED
  BY <1>1, <1>7, <1>12 DEF CleanInv

\* A file that is closed is right: what it is computed from is.
LEMMA CloseStaysClean ==
  ASSUME BuiltInv, CleanInv, CloseFile, BuiltInv'
  PROVE  CleanInv'
<1> DEFINE f == Group[build.closed + 1]
           x == f.item
           S == Stages[build.at]
           O == Opened(Stages, build, files)
           C == Closed(Stages, build, files)
           D == C \cup {x}
           content == IF {f.item} \cap f.from = {} /\ \A item \in f.from : Right(item)
                      THEN f.item ELSE Wrong
<1>1. /\ Building /\ build.open = TRUE /\ build # Idle /\ UNCHANGED <<result, stops>>
      /\ files' = [files EXCEPT ![Lookup(f.item)] = content] /\ fileMap' = Registered(f.item)
      /\ build' = IF build.closed + 1 < Len(Group)
                  THEN [build EXCEPT !.closed = @ + 1]
                  ELSE IF build.group < Len(Current.groups)
                  THEN [build EXCEPT !.group = @ + 1, !.closed = 0, !.open = FALSE]
                  ELSE NextStage
  <2>1. build \in Builds
    BY AtStage DEF CloseFile, Building
  <2>2. QED
    BY <2>1 DEF CloseFile, Building, Builds
<1>2. /\ build \in Builds /\ Stages = StagesOf(build.v, build.k) /\ Good(S) /\ Current = S
      /\ Progress(Stages, build, DOMAIN files) /\ build.at \in DOMAIN Stages
  BY <1>1, AtStage DEF Current
<1>3. /\ build.group \in DOMAIN S.groups /\ Group = S.groups[build.group]
      /\ build.closed + 1 \in DOMAIN Group /\ Filled(S.groups) /\ Filled(Group)
  BY <1>2 DEF Progress, Group, Good
<1>4. Writes(S, x) /\ x \in O /\ x \in DOMAIN files
  BY <1>1, <1>2, <1>3 DEF Writes, Opened, Progress
<1>5. Lookup(x) = x /\ ~Alias(x)
  BY <1>2, <1>4, Names DEF Good, BuiltInv
<1>6. /\ \A y : y \in O <=> \E i \in DOMAIN S.groups : \E j \in DOMAIN S.groups[i] :
                              S.groups[i][j].item = y /\ (i < build.group \/ i = build.group)
      /\ \A y : y \in C <=> \E i \in DOMAIN S.groups : \E j \in DOMAIN S.groups[i] :
                              /\ S.groups[i][j].item = y
                              /\ i < build.group \/ (i = build.group /\ j <= build.closed)
  BY <1>1, <1>2 DEF Opened, Closed, Progress
<1>7. \A y : y \in D <=> \E i \in DOMAIN S.groups : \E j \in DOMAIN S.groups[i] :
                           /\ S.groups[i][j].item = y
                           /\ i < build.group \/ (i = build.group /\ j <= build.closed + 1)
  <2>1. \A j \in DOMAIN Group : j <= build.closed + 1 <=> j <= build.closed
                \/ j = build.closed + 1
    BY <1>2, <1>3 DEF Filled, Builds
  <2>2. \A y : y = x <=> y = S.groups[build.group][build.closed + 1].item
    BY <1>3
  <2> HIDE DEF C, S, x
  <2>3. QED
    BY <1>3, <1>6, <2>1, <2>2
<1>8. DOMAIN files' = DOMAIN files /\ files'[x] = content
      /\ \A y \in DOMAIN files : y # x => files'[y] = files[y]
  BY <1>1, <1>4, <1>5
<1> HIDE DEF f, O, C, D
<1>9. build' # Idle /\ (build'.open \/ build'.closed = 0)
  <2>1. CASE build.closed + 1 < Len(Group)
    BY <1>1, <1>2, <2>1 DEF Builds, Idle
  <2>2. CASE ~(build.closed + 1 < Len(Group)) /\ build.group < Len(Current.groups)
    BY <1>1, <1>2, <2>2 DEF Builds, Idle
  <2>3. CASE ~(build.closed + 1 < Len(Group)) /\ ~(build.group < Len(Current.groups))
    <3>1. build' = NextStage
      BY <1>1, <2>3
    <3>2. build'.at = build.at + 1 /\ build'.closed = 0 /\ build.at \in Nat
      BY <1>2, <3>1, NextStageIs DEF Builds
    <3>3. QED
      BY <3>2 DEF Idle
  <2>4. QED
    BY <2>1, <2>2, <2>3
<1>10. ASSUME CleanDirectory PROVE CleanDirectory'
  <2>1. /\ Clean(build.v.layout, Stages, build.at, O, C, files, DOMAIN fileMap)
        /\ Chain(build.v.layout, Stages, {}, ItemsOf(build.v, build.k))
        /\ DOMAIN Stages \subseteq Nat /\ Tidy(S)
    BY <1>1, <1>2, <1>10, AtClean DEF O, C
  <2>2. content = x
    <3>1. ASSUME NEW y \in f.from PROVE Right(y) /\ y # x
      <4>1. \/ ~Alias(y) /\ y \in DOMAIN files /\ files[y] = y /\ ~Writes(S, y)
            \/ \E k \in Rates : /\ y = SubAlias(k) /\ y \in DOMAIN fileMap
                                /\ SubIdx(k) \in DOMAIN files /\ files[SubIdx(k)] = SubIdx(k)
        <5>1. f = S.groups[build.group][build.closed + 1]
          BY <1>3 DEF f
        <5> DEFINE j == build.closed + 1
                   layout == build.v.layout
                   names == DOMAIN fileMap
                   items == ItemsOf(build.v, build.k)
        <5>2. /\ build.group \in DOMAIN Stages[build.at].groups
              /\ j \in DOMAIN Stages[build.at].groups[build.group]
              /\ y \in Stages[build.at].groups[build.group][j].from
          BY <1>3, <3>1, <5>1
        <5>3. /\ Clean(layout, Stages, build.at, O, C, files, names)
              /\ Chain(layout, Stages, {}, items) /\ O # {} /\ build.at \in DOMAIN Stages
          BY <1>2, <1>4, <2>1
        <5> HIDE DEF S, j, layout, names, items
        <5>4. \/ ~Alias(y) /\ y \in DOMAIN files /\ files[y] = y /\ ~Writes(Stages[build.at], y)
              \/ \E k \in Rates : /\ y = SubAlias(k) /\ y \in names
                                  /\ SubIdx(k) \in DOMAIN files /\ files[SubIdx(k)] = SubIdx(k)
          BY <5>2, <5>3, SourcesRight
        <5>5. QED
          BY <5>4 DEF S, names
      <4>2. CASE ~Alias(y) /\ y \in DOMAIN files /\ files[y] = y /\ ~Writes(S, y)
        <5>1. Lookup(y) = y /\ Exists(y)
          BY <4>2, Names DEF BuiltInv
        <5>2. QED
          BY <1>4, <4>2, <5>1 DEF Right
      <4>3. ASSUME NEW k \in Rates, y = SubAlias(k), y \in DOMAIN fileMap,
                   SubIdx(k) \in DOMAIN files, files[SubIdx(k)] = SubIdx(k)
            PROVE  Right(y) /\ y # x
        <5>1. Lookup(y) = SubIdx(k)
          BY <1>10, <4>3 DEF CleanDirectory, Lookup
        <5>2. SubIdx(k) = <<y[1], "iv", y[3]>> /\ Alias(y)
          BY <4>3 DEF SubIdx, SubAlias, Alias
        <5>3. QED
          BY <1>5, <4>3, <5>1, <5>2 DEF Right, Exists
      <4>4. QED
        BY <4>1, <4>2, <4>3
    <3>2. QED
      BY <3>1
  <2>3. /\ DOMAIN fileMap \subseteq DOMAIN fileMap'
        /\ \A k \in Rates : x = SubIdx(k) => SubAlias(k) \in DOMAIN fileMap'
        /\ \A k \in Rates : SubAlias(k) \in DOMAIN fileMap' => fileMap'[SubAlias(k)] = SubIdx(k)
    <3> DEFINE alias == <<x[1], "plain", x[3]>>
    <3>1. CASE x[1] = "psiFirstIdx" /\ x[2] = "iv"
      <4>1. PICK k \in Rates : x = SubIdx(k)
        <5>1. ~Usual(x)
          BY <3>1 DEF Usual
        <5>2. \/ Retry(x)
              \/ \E y : x = Redo(y)
              \/ \E r \in Rates : x = SubTails(r)
          BY <1>4, <2>1, <5>1 DEF Tidy
        <5>3. \A y : Redo(y)[1] # "psiFirstIdx"
          BY DEF Redo
        <5>4. \A r : SubTails(r)[1] # "psiFirstIdx"
          BY DEF SubTails
        <5>5. Retry(x)
          BY <3>1, <5>2, <5>3, <5>4
        <5>6. QED
          BY <3>1, <5>5 DEF Retry
      <4>2. alias = SubAlias(k)
        BY <4>1 DEF SubIdx, SubAlias
      <4>3. fileMap' = Override(fileMap, [name \in {alias} |-> x])
        BY <1>1, <3>1 DEF Registered, FileOf
      <4>4. /\ DOMAIN fileMap' = DOMAIN fileMap \cup {SubAlias(k)}
            /\ fileMap'[SubAlias(k)] = SubIdx(k)
            /\ \A name \in DOMAIN fileMap : name # SubAlias(k) => fileMap'[name] = fileMap[name]
        <5> HIDE DEF alias, x
        <5>1. QED
          BY <4>1, <4>2, <4>3 DEF Override
      <4>5. \A r \in Rates : SubIdx(r) = SubIdx(k) => r = k
        BY DEF SubIdx
      <4>6. \A r \in Rates : SubAlias(r) = SubAlias(k) => r = k
        BY DEF SubAlias
      <4>7. \A r \in Rates : SubAlias(r) \in DOMAIN fileMap => fileMap[SubAlias(r)] = SubIdx(r)
        BY <1>10 DEF CleanDirectory
      <4> HIDE DEF x, alias
      <4>8. QED
        BY <4>1, <4>4, <4>5, <4>6, <4>7
    <3>2. CASE ~(x[1] = "psiFirstIdx" /\ x[2] = "iv")
      <4>1. fileMap' = fileMap
        BY <1>1, <3>2 DEF Registered
      <4>2. \A k : x # SubIdx(k)
        BY <3>2 DEF SubIdx
      <4>3. QED
        BY <1>10, <4>1, <4>2 DEF CleanDirectory
    <3>3. QED
      BY <3>1, <3>2
  <2>4. D = C \cup {x} /\ files'[x] = x
    BY <1>8, <2>2 DEF D
  <2> HIDE DEF x, S, content
  <2>5. Clean(build.v.layout, Stages, build.at, O, D, files', DOMAIN fileMap')
    BY <1>2, <1>4, <1>8, <2>1, <2>3, <2>4, CleanClose
  <2>6. CASE build.closed + 1 < Len(Group)
    <3>1. /\ build'.v = build.v /\ build'.k = build.k /\ build'.at = build.at
          /\ build'.group = build.group /\ build'.closed = build.closed + 1 /\ build'.open = TRUE
      BY <1>1, <1>2, <2>6 DEF Builds
    <3>2. Opened(Stages, build', files') = O
      BY <1>1, <1>8, <3>1 DEF Opened, O
    <3>3. Closed(Stages, build', files') = D
      <4>1. D \subseteq DOMAIN files'
        BY <1>4, <1>8 DEF D, C, Closed
      <4>2. \A y \in DOMAIN files' : y \in Closed(Stages, build', files') <=> y \in D
        BY <1>2, <1>7, <3>1 DEF Closed, S
      <4>3. QED
        BY <4>1, <4>2 DEF Closed
    <3>4. CleanBuild(build', files', DOMAIN fileMap')
      BY <1>2, <2>5, <3>1, <3>2, <3>3 DEF CleanBuild
    <3>5. QED
      BY <1>1, <1>9, <1>10, <2>3, <3>4 DEF CleanDirectory
  <2>7. CASE ~(build.closed + 1 < Len(Group))
    <3>1. D = O
      <4>1. \A j \in DOMAIN S.groups[build.group] : j <= build.closed + 1
        BY <1>2, <1>3, <2>7 DEF Filled, Builds
      <4>2. \A y : y \in D <=> y \in O
        BY <1>6, <1>7, <4>1
      <4>3. QED
        BY <4>2
    <3>2. CASE build.group < Len(Current.groups)
      <4>1. /\ build'.v = build.v /\ build'.k = build.k /\ build'.at = build.at
            /\ build'.group = build.group + 1 /\ build'.closed = 0 /\ build'.open = FALSE
        BY <1>1, <1>2, <2>7, <3>2 DEF Builds
      <4>2. \A i \in DOMAIN S.groups : i < build.group + 1 <=> i < build.group \/ i = build.group
        BY <1>2, <1>3 DEF Filled, Builds
      <4>3. /\ \A y \in DOMAIN files' : y \in Opened(Stages, build', files') <=> y \in O
            /\ \A y \in DOMAIN files' : y \in Closed(Stages, build', files') <=> y \in O
        BY <1>2, <1>6, <4>1, <4>2 DEF Opened, Closed, S
      <4>4. O \subseteq DOMAIN files'
        BY <1>8 DEF O, Opened
      <4>5. Opened(Stages, build', files') = O /\ Closed(Stages, build', files') = O
        BY <4>3, <4>4 DEF Opened, Closed
      <4>6. CleanBuild(build', files', DOMAIN fileMap')
        BY <1>2, <2>5, <3>1, <4>1, <4>5 DEF CleanBuild
      <4>7. QED
        BY <1>1, <1>9, <1>10, <2>3, <4>6 DEF CleanDirectory
    <3>3. CASE ~(build.group < Len(Current.groups))
      <4>1. build' = NextStage
        BY <1>1, <2>7, <3>3
      <4>2. \A y : Writes(S, y) => y \in O
        <5>1. \A i \in DOMAIN S.groups : i < build.group \/ i = build.group
          BY <1>2, <1>3, <3>3 DEF Filled, Builds
        <5>2. QED
          BY <1>6, <5>1 DEF Writes
      <4>3. Clean(build.v.layout, Stages, build.at + 1, {}, {}, files', DOMAIN fileMap')
        BY <1>2, <1>4, <2>1, <2>5, <3>1, <4>2, CleanEnd DEF S
      <4>4. CleanBuild(build', files', DOMAIN fileMap')
        BY <1>1, <4>1, <4>3, CleanNext
      <4>5. QED
        BY <1>1, <1>9, <1>10, <2>3, <4>4 DEF CleanDirectory
    <3>4. QED
      BY <3>2, <3>3
  <2>8. QED
    BY <2>6, <2>7
<1>11. QED
  BY <1>1, <1>9, <1>10 DEF CleanInv

\* A build that has passed all its stages loads every item right.
LEMMA LoadStaysClean ==
  ASSUME BuiltInv, CleanInv, Load, BuiltInv'
  PROVE  CleanInv'
<1> DEFINE items == ItemsOf(build.v, build.k)
           index == [v |-> build.v, k |-> build.k]
           how == IF \E item \in items : ~Exists(item) THEN "throws"
                  ELSE IF \A item \in items : Right(item) THEN "right" ELSE "wrong"
<1>1. /\ build # Idle /\ build.at > Len(Stages) /\ build' = Idle
      /\ UNCHANGED <<files, fileMap, stops>> /\ result' = [how |-> how, index |-> index]
  BY DEF Load
<1>2. build \in Builds /\ ClassAtRate(build.v, build.k) /\ Stages = StagesOf(build.v, build.k)
  BY <1>1, AtStage
<1>3. \A x \in items : ~Alias(x)
  BY <1>2, ClassIsGood DEF Protected
<1> HIDE DEF items
<1>4. ASSUME CleanDirectory PROVE CleanDirectory'
  <2> DEFINE O == Opened(Stages, build, files)
             C == Closed(Stages, build, files)
  <2>1. /\ Clean(build.v.layout, Stages, build.at, O, C, files, DOMAIN fileMap)
        /\ Chain(build.v.layout, Stages, {}, items)
        /\ DOMAIN Stages = 1..Len(Stages) /\ Len(Stages) \in Nat
        /\ \A j \in DOMAIN Stages : Tidy(Stages[j])
    BY <1>1, <1>4, AtClean DEF items
  <2>2. build.at \notin DOMAIN Stages /\ \A j \in DOMAIN Stages : j < build.at
    BY <1>1, <1>2, <2>1 DEF Builds
  <2>3. O = {} /\ C = {}
    BY <2>2 DEF Opened, Closed
  <2> HIDE DEF O, C
  <2>4. ASSUME NEW x \in items PROVE Exists(x) /\ Right(x)
    <3>1. Before(Stages, build.at, x)
      BY <2>1, <2>2 DEF Chain, Before
    <3>2. x \in DOMAIN files /\ files[x] = x
      BY <2>1, <2>3, <3>1, LeftRight
    <3>3. Lookup(x) = x /\ Exists(x)
      BY <1>3, <3>2, Names DEF BuiltInv
    <3>4. QED
      BY <3>2, <3>3 DEF Right
  <2>5. how = "right"
    BY <2>4
  <2>6. Settled(files)
    BY <2>1, <2>2, <2>3, CleanStops
  <2>7. QED
    BY <1>1, <1>4, <2>5, <2>6 DEF CleanDirectory
<1>5. QED
  BY <1>1, <1>4 DEF CleanInv

\* A process that stops where it hurts no one leaves a directory that the next
\* build finds whole.
LEMMA StopStaysClean ==
  ASSUME BuiltInv, CleanInv, Stop, BuiltInv'
  PROVE  CleanInv'
<1> DEFINE S == Stages[build.at]
           O == Opened(Stages, build, files)
           C == Closed(Stages, build, files)
           next == Group[build.closed + 1].item
           stop == [layout |-> build.v.layout, inside |-> Begun, next |-> next]
<1>1. /\ Building /\ build # Idle /\ stops' = stops \cup {stop}
      /\ build' = Idle /\ fileMap' = <<>> /\ UNCHANGED <<files, result>>
  BY DEF Stop, Building
<1>2. /\ build \in Builds /\ Stages = StagesOf(build.v, build.k) /\ Good(S) /\ Current = S
      /\ Progress(Stages, build, DOMAIN files) /\ build.at \in DOMAIN Stages
  BY <1>1, AtStage DEF Current
<1>3. /\ build.group \in DOMAIN S.groups /\ Group = S.groups[build.group]
      /\ build.closed + 1 \in DOMAIN Group /\ Filled(S.groups) /\ Filled(Group)
  BY <1>2 DEF Progress, Group, Good
<1>4. Writes(S, next)
  BY <1>3 DEF Writes
<1>5. stop.layout = build.v.layout /\ stop.inside = Begun /\ stop.next = next
  OBVIOUS
<1> HIDE DEF stop, next
<1>6. ASSUME \A s \in stops' : Harmless(s) PROVE CleanDirectory'
  <2>1. CleanDirectory /\ Harmless(stop)
    BY <1>1, <1>6 DEF CleanInv
  <2>2. /\ Clean(build.v.layout, Stages, build.at, O, C, files, DOMAIN fileMap) /\ Tidy(S)
    BY <1>1, <1>2, <2>1, AtClean
  <2>3. ASSUME First(S, next) PROVE build.group = 1 /\ build.closed = 0 /\ DOMAIN Group = {1}
    <3>1. S.groups[1][1].item = S.groups[build.group][build.closed + 1].item
      BY <1>3, <2>3 DEF First, next
    <3>2. 1 \in DOMAIN S.groups /\ 1 \in DOMAIN S.groups[1]
      BY <1>2 DEF Good, Filled
    <3>3. 1 = build.group /\ 1 = build.closed + 1
      BY <1>3, <2>2, <3>1, <3>2 DEF Tidy, Distinct
    <3>4. QED
      BY <1>2, <1>3, <2>3, <3>3 DEF First, Builds
  <2>4. Settled(files)
    <3>1. CASE Begun
      <4>1. next[1] \in {"firstByLast", "lastByFirst", "psiFirstIdx"}
                    /\ next[2] \in {"plain", "iv"}
        BY <1>5, <2>1, <3>1 DEF Harmless
      <4>2. Retry(next)
        <5>1. ~Usual(next)
          BY <4>1 DEF Usual
        <5>2. \A y : Redo(y)[1] \in {"firstToLast", "lastToFirst", "psiFirstText"}
          BY DEF Redo
        <5>3. \A r : SubTails(r)[1] = "psiLastText"
          BY DEF SubTails
        <5>4. QED
          BY <1>4, <2>2, <4>1, <5>1, <5>2, <5>3 DEF Tidy
      <4>3. First(S, next) /\ S.guards = {Redo(next)}
        BY <1>4, <2>2, <4>2, RetryFirst
      <4>4. /\ build.group = 1 /\ build.closed = 0 /\ DOMAIN Group = {1}
            /\ Group[1].item = next /\ build.open
        BY <2>3, <3>1, <4>3 DEF Begun, next
      <4>5. O = {next}
        <5>1. next \in DOMAIN files
          BY <1>2, <1>3, <4>4 DEF Progress
        <5>2. \A i \in DOMAIN S.groups : ~(i < 1)
          BY <1>3 DEF Filled
        <5>3. \A x \in DOMAIN files : x \in O <=> x = next
          BY <1>2, <1>3, <4>4, <5>2 DEF Opened
        <5>4. QED
          BY <5>1, <5>3 DEF Opened
      <4>6. C = {}
        <5>1. \A i \in DOMAIN S.groups : ~(i < 1)
          BY <1>3 DEF Filled
        <5>2. \A j \in DOMAIN Group : ~(j <= 0)
          BY <1>3 DEF Filled
        <5>3. QED
          BY <1>2, <1>3, <4>4, <5>1, <5>2 DEF Closed
      <4> HIDE DEF O, C
      <4>7. QED
        BY <1>2, <2>2, <4>2, <4>3, <4>5, <4>6, CleanStopsInside DEF S
    <3>2. CASE ~Begun
      <4>1. build.group = 1 /\ build.open = FALSE /\ DOMAIN S.groups \subseteq Nat \ {0}
        BY <1>2, <1>3, <3>2 DEF Begun, Builds, Filled
      <4>2. O = {} /\ C = {}
        BY <4>1, NothingOpen
      <4>3. ASSUME NEW k \in Rates, build.v.layout = "psi", Writes(S, SubTails(k)) PROVE FALSE
        <5>1. First(S, SubTails(k))
          BY <2>2, <4>3, HeadsAndTails
        <5>2. build.closed = 0
          BY <1>1, <4>1 DEF CleanInv
        <5>3. next = SubTails(k)
          BY <1>3, <4>1, <5>1, <5>2 DEF First, next
        <5>4. QED
          BY <1>5, <2>1, <3>2, <4>3, <5>3 DEF Harmless, SubTails
      <4> HIDE DEF O, C
      <4>4. QED
        BY <2>2, <4>2, <4>3, CleanStops DEF S
    <3>3. QED
      BY <3>1, <3>2
  <2>5. DOMAIN fileMap' = {}
    BY <1>1
  <2>6. QED
    BY <1>1, <2>1, <2>4, <2>5 DEF CleanDirectory
<1>7. QED
  BY <1>1, <1>6 DEF CleanInv

\* As long as no process stops where it hurts, each build leaves the directory
\* clean: whole files, each that of its name, and the builds that ended loaded right.
THEOREM CleanInvHolds == Spec => []CleanInv
<1>1. Init => CleanInv
  <2>1. DOMAIN <<>> = {}
    OBVIOUS
  <2>2. QED
    BY <2>1 DEF Init, CleanInv, CleanDirectory, Settled, Contents, Whole
<1>2. BuiltInv /\ BuiltInv' /\ CleanInv /\ [Next]_vars => CleanInv'
  <2> SUFFICES ASSUME BuiltInv, BuiltInv', CleanInv, [Next]_vars PROVE CleanInv'
    OBVIOUS
  <2>1. CASE \E v \in Variants, k \in Rates : Start(v, k)
    BY <2>1, StartStaysClean
  <2>2. CASE SkipStage
    BY <2>2, SkipStaysClean
  <2>3. CASE OpenGroup
    BY <2>3, OpenStaysClean
  <2>4. CASE CloseFile
    BY <2>4, CloseStaysClean
  <2>5. CASE Load
    BY <2>5, LoadStaysClean
  <2>6. CASE Stop
    BY <2>6, StopStaysClean
  <2>7. CASE UNCHANGED vars
    BY <2>7 DEF vars, CleanInv, CleanDirectory
  <2>8. QED
    BY <2>1, <2>2, <2>3, <2>4, <2>5, <2>6, <2>7 DEF Next
<1>3. QED
  BY <1>1, <1>2, BuiltInvHolds, PTL DEF Spec

\* Whatever classes and rates share a directory, and wherever a process stopped
\* that was not in the middle of a stage that tears, a build that ends loads every
\* item, complete and of its own rate (constructIndexBaseItems, construct and
\* constructItems).
THEOREM OnlyTornStagesHurtHolds == Spec => []OnlyTornStagesHurt
<1>1. CleanInv => OnlyTornStagesHurt
  BY DEF CleanInv, CleanDirectory, OnlyTornStagesHurt
<1>2. QED
  BY <1>1, CleanInvHolds, PTL
=============================================================================
