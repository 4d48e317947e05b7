--------------------------- MODULE RleString_proofs ---------------------------
(***************************************************************************)
(* Proofs about the run-length encoded string, for every string and block  *)
(* size.  The runs of a string tile it, symbol by symbol too; the bit      *)
(* vectors RLEString builds of them say where runs, the runs of a symbol   *)
(* and the blocks end (IInv); and on that rest rank, select and access,    *)
(* the data of a run, and split.                                           *)
(***************************************************************************)
EXTENDS RleString, FiniteSetTheorems, TLAPS

-----------------------------------------------------------------------------
(* What TextLemmas says of the operators of TextBWT.  What its variables   *)
(* stand for here does not matter: those lemmas do not speak of them.      *)

Text == INSTANCE TextLemmas WITH text <- str, sa <- str, ix <- rle

\* The operators are the same there and here.
LEMMA SameOperators ==
  /\ \A S : Text!Cardinality(S) = Cardinality(S) /\ Text!IsFiniteSet(S) = IsFiniteSet(S)
  /\ \A S : Text!Ascending(S) = Ascending(S)
  /\ \A a : Text!RunsOf(a) = RunsOf(a) /\ Text!Size(a) = Size(a)
<1>1. \A S : Text!Cardinality(S) = Cardinality(S) /\ Text!IsFiniteSet(S) = IsFiniteSet(S)
  BY DEF Text!Cardinality, Cardinality, Text!IsFiniteSet, IsFiniteSet
<1>2. \A S : Text!Ascending(S) = Ascending(S)
  BY DEF Text!Ascending, Ascending, Text!Cardinality, Cardinality
<1>3. \A a : Text!RunsOf(a) = RunsOf(a) /\ Text!Size(a) = Size(a)
  BY DEF Text!RunsOf, RunsOf, Text!Ascending, Ascending, Text!Size, Size,
         Text!Cardinality, Cardinality
<1>4. QED
  BY <1>1, <1>2, <1>3

\* An array on 0..n-1 has size n.
LEMMA SizeIs ==
  ASSUME NEW n \in Nat, NEW a, DOMAIN a = 0..(n - 1)
  PROVE  Size(a) = n
<1>1. Text!Size(a) = n
  BY Text!SizeIs
<1>2. QED
  BY <1>1, SameOperators

\* A marked position is selected by the number of marks up to it.
LEMMA SelectAt ==
  ASSUME NEW S \in SUBSET Int, IsFiniteSet(S), NEW x \in S
  PROVE  BvRank(S, x) \in 0..(Cardinality(S) - 1) /\ BvSelect(S, BvRank(S, x) + 1) = x
<1> DEFINE k == Cardinality({y \in S : y < x})
<1>1. k \in DOMAIN Ascending(S) /\ Ascending(S)[k] = x
  BY SameOperators, Text!AscendingIs
<1>2. DOMAIN Ascending(S) = 0..(Cardinality(S) - 1) /\ Cardinality(S) \in Nat
  BY SameOperators, Text!AscendingIs
<1>3. k \in Int /\ (k + 1) - 1 = k
  BY <1>1, <1>2
<1>4. QED
  BY <1>1, <1>2, <1>3 DEF BvRank, BvSelect

\* The k-th of a set in increasing order is the one with k others below it.
LEMMA AscendingAt ==
  ASSUME NEW S \in SUBSET Int, IsFiniteSet(S), NEW k \in 0..(Cardinality(S) - 1)
  PROVE  Ascending(S)[k] \in S /\ Cardinality({y \in S : y < Ascending(S)[k]}) = k
<1>1. DOMAIN Ascending(S) = 0..(Cardinality(S) - 1)
  BY SameOperators, Text!AscendingIs
<1>2. Text!IsFiniteSet(S) /\ k \in DOMAIN Text!Ascending(S)
  BY <1>1, SameOperators
<1>3. /\ Text!Ascending(S)[k] \in S
      /\ Text!Cardinality({y \in S : y < Text!Ascending(S)[k]}) = k
  BY <1>2, Text!AscendingIs
<1>4. QED
  BY <1>3, SameOperators

\* The least of a set is the one that is not above any other.
LEMMA MinIs ==
  ASSUME NEW S \in SUBSET Int, NEW x \in S, \A y \in S : x <= y
  PROVE  Min(S) = x
<1>1. \A y \in S : (\A z \in S : y <= z) => y = x
  OBVIOUS
<1>2. QED
  BY <1>1 DEF Min

\* Of two integers, the greater and the smaller.
LEMMA MaxMinOfTwo ==
  ASSUME NEW i \in Int, NEW j \in Int
  PROVE  Max({i, j}) = (IF i <= j THEN j ELSE i) /\ Min({i, j}) = (IF i <= j THEN i ELSE j)
<1> DEFINE S == {i, j}
           x == IF i <= j THEN j ELSE i
           y == IF i <= j THEN i ELSE j
<1>1. x \in S /\ (\A z \in S : x >= z) /\ y \in S /\ \A z \in S : y <= z
  OBVIOUS
<1>2. S \in SUBSET Int
  OBVIOUS
<1>3. Min(S) = y
  <2> HIDE DEF S, y
  <2>1. QED
    BY <1>1, <1>2, MinIs
<1>4. Max(S) = x
  <2>1. \A z \in S : (\A v \in S : z >= v) => z = x
    OBVIOUS
  <2> HIDE DEF S, x
  <2>2. QED
    BY <1>1, <2>1 DEF Max
<1>5. QED
  BY <1>3, <1>4

-----------------------------------------------------------------------------
(* Counting a symbol. *)

\* The c before position i, and those from i to before j.
Count(a, c, i) == Cardinality({q \in 0..(i - 1) : a[q] = c})
Within(a, c, i, j) == {q \in i..(j - 1) : a[q] = c}

\* Positions in an interval are finitely many.
LEMMA PartFinite ==
  ASSUME NEW i \in Int, NEW j \in Int, NEW T \in SUBSET (i..j)
  PROVE  IsFiniteSet(T) /\ Cardinality(T) \in Nat
<1>1. IsFiniteSet(i..j)
  BY FS_Interval
<1>2. IsFiniteSet(T)
  BY <1>1, FS_Subset
<1>3. QED
  BY <1>2, FS_CardinalityType

\* A count grows by the c it passes.
LEMMA CountAdds ==
  ASSUME NEW a, NEW c, NEW i \in Nat, NEW j \in Nat, i <= j
  PROVE  /\ Count(a, c, i) \in Nat /\ Count(a, c, j) \in Nat
         /\ Cardinality(Within(a, c, i, j)) \in Nat
         /\ Count(a, c, j) = Count(a, c, i) + Cardinality(Within(a, c, i, j))
<1> DEFINE I == {q \in 0..(i - 1) : a[q] = c}
           J == {q \in 0..(j - 1) : a[q] = c}
           W == Within(a, c, i, j)
<1>1. I \in SUBSET (0..(i - 1)) /\ J \in SUBSET (0..(j - 1)) /\ W \in SUBSET (i..(j - 1))
  BY DEF Within
<1>2. J = I \cup W /\ I \cap W = {}
  BY DEF Within
<1>0. 0 \in Int /\ i \in Int /\ i - 1 \in Int /\ j - 1 \in Int
  OBVIOUS
<1>3. IsFiniteSet(I) /\ Cardinality(I) \in Nat
  <2> HIDE DEF I
  <2>1. QED
    BY <1>1, <1>0, PartFinite
<1>4. IsFiniteSet(J) /\ Cardinality(J) \in Nat
  <2> HIDE DEF J
  <2>1. QED
    BY <1>1, <1>0, PartFinite
<1>5. IsFiniteSet(W) /\ Cardinality(W) \in Nat
  <2> HIDE DEF W
  <2>1. QED
    BY <1>1, <1>0, PartFinite
<1>6. Cardinality(J) = Cardinality(I) + Cardinality(W)
  <2> HIDE DEF I, J, W
  <2>1. Cardinality(I \cup W) = Cardinality(I) + Cardinality(W) - Cardinality({})
    BY <1>2, <1>3, <1>5, FS_Union
  <2>2. QED
    BY <1>2, <1>3, <1>5, <2>1, FS_EmptySet
<1>7. QED
  BY <1>3, <1>4, <1>5, <1>6 DEF Count

\* Nothing is counted where no c is.
LEMMA CountSame ==
  ASSUME NEW a, NEW c, NEW i \in Nat, NEW j \in Nat, i <= j, \A q \in i..(j - 1) : a[q] # c
  PROVE  Count(a, c, j) = Count(a, c, i)
<1>1. Within(a, c, i, j) = {}
  BY DEF Within
<1>2. Cardinality(Within(a, c, i, j)) = 0
  BY <1>1, FS_EmptySet
<1>3. QED
  BY <1>2, CountAdds

\* Where all are c, each position is counted.
LEMMA CountAll ==
  ASSUME NEW a, NEW c, NEW i \in Nat, NEW j \in Nat, i <= j, \A q \in i..(j - 1) : a[q] = c
  PROVE  Count(a, c, j) = Count(a, c, i) + (j - i)
<1>1. Within(a, c, i, j) = i..(j - 1)
  BY DEF Within
<1>2. Cardinality(i..(j - 1)) = j - i
  <2>1. i \in Int /\ j - 1 \in Int
    OBVIOUS
  <2>2. Cardinality(i..(j - 1)) = (IF i > j - 1 THEN 0 ELSE (j - 1) - i + 1)
    BY <2>1, FS_Interval
  <2>3. QED
    BY <2>2
<1>3. QED
  BY <1>1, <1>2, CountAdds

\* The count never falls, and a c makes it grow.
LEMMA CountGrows ==
  ASSUME NEW a, NEW c, NEW i \in Nat, NEW j \in Nat, i <= j
  PROVE  /\ Count(a, c, i) <= Count(a, c, j)
         /\ \A q \in i..(j - 1) : a[q] = c => Count(a, c, i) < Count(a, c, j)
<1>1. Count(a, c, i) <= Count(a, c, j)
  BY CountAdds
<1>2. ASSUME NEW q \in i..(j - 1), a[q] = c
      PROVE  Count(a, c, i) < Count(a, c, j)
  <2>1. q \in Within(a, c, i, j)
    BY <1>2 DEF Within
  <2>2. IsFiniteSet(Within(a, c, i, j))
    <3>1. Within(a, c, i, j) \in SUBSET (i..(j - 1)) /\ i \in Int /\ j - 1 \in Int
      BY DEF Within
    <3>2. QED
      BY <3>1, PartFinite
  <2>3. Cardinality(Within(a, c, i, j)) # 0
    BY <2>1, <2>2, FS_EmptySet
  <2>4. QED
    BY <2>3, CountAdds
<1>3. QED
  BY <1>1, <1>2

\* Before the first position nothing is counted.
LEMMA CountZero ==
  ASSUME NEW a, NEW c
  PROVE  Count(a, c, 0) = 0
<1>1. {q \in 0..(0 - 1) : a[q] = c} = {}
  OBVIOUS
<1>2. QED
  BY <1>1, FS_EmptySet DEF Count

\* The count at a position is how many of the c of the string lie before it.
LEMMA CountIsBefore ==
  ASSUME NEW n \in Nat, NEW a, DOMAIN a = 0..(n - 1), NEW c, NEW i \in 0..n
  PROVE  Cardinality({p \in {q \in DOMAIN a : a[q] = c} : p < i}) = Count(a, c, i)
<1>1. {p \in {q \in DOMAIN a : a[q] = c} : p < i} = {q \in 0..(i - 1) : a[q] = c}
  OBVIOUS
<1>2. QED
  BY <1>1 DEF Count

-----------------------------------------------------------------------------
(* The runs of a string. *)

\* r runs lie one after another over the n positions of the string, each on one symbol.
Tiled(n, a, run, r) ==
  /\ n \in Nat \ {0} /\ a \in [0..(n - 1) -> Nat]
  /\ r \in Nat \ {0} /\ run \in [0..(r - 1) -> [start : Nat, end : Nat, c : Nat]]
  /\ run[0].start = 0 /\ run[r - 1].end = n
  /\ \A k \in 0..(r - 1) :
       /\ run[k].start < run[k].end /\ run[k].end <= n
       /\ k > 0 => run[k].start = run[k - 1].end
       /\ \A m \in 0..(r - 1) : k < m => run[k].end <= run[m].start
       /\ \A p \in run[k].start .. (run[k].end - 1) : a[p] = run[k].c

\* Position p is in run k.
In(run, k, p) == run[k].start <= p /\ p < run[k].end

\* RunsOf gives such runs.
LEMMA RunsAreTiled ==
  ASSUME NEW n \in Nat \ {0}, NEW a \in [0..(n - 1) -> Nat]
  PROVE  Size(RunsOf(a)) \in Nat \ {0} /\ Tiled(n, a, RunsOf(a), Size(RunsOf(a)))
<1> DEFINE run == RunsOf(a)
           r == Size(run)
<1>1. /\ r \in Nat \ {0} /\ run \in [0..(r - 1) -> [start : Nat, end : Nat, c : Nat]]
      /\ run[0].start = 0 /\ run[r - 1].end = n
      /\ \A k \in DOMAIN run :
           /\ run[k].start < run[k].end /\ run[k].end <= n
           /\ k > 0 => run[k].start = run[k - 1].end
           /\ \A m \in DOMAIN run : k < m => run[k].end <= run[m].start
           /\ \A p \in run[k].start .. (run[k].end - 1) : a[p] = run[k].c
  <2> DEFINE there == Text!RunsOf(a)
             size == Text!Size(there)
  <2>1. /\ size \in Nat \ {0} /\ there \in [0..(size - 1) -> [start : Nat, end : Nat, c : Nat]]
        /\ there[0].start = 0 /\ there[size - 1].end = n
        /\ \A k \in DOMAIN there :
             /\ there[k].start < there[k].end /\ there[k].end <= n
             /\ k > 0 => there[k].start = there[k - 1].end
             /\ \A m \in DOMAIN there : k < m => there[k].end <= there[m].start
             /\ \A p \in there[k].start .. (there[k].end - 1) : a[p] = there[k].c
    BY Text!RunsOfIs
  <2>2. there = run /\ size = r
    BY SameOperators
  <2> HIDE DEF run, r, there, size
  <2>3. QED
    BY <2>1, <2>2
<1>2. DOMAIN run = 0..(r - 1)
  <2> HIDE DEF run, r
  <2>1. QED
    BY <1>1
<1>3. QED
  <2> HIDE DEF run, r
  <2>1. Tiled(n, a, run, r)
    BY <1>1, <1>2 DEF Tiled
  <2>2. QED
    BY <1>1, <2>1 DEF run, r

\* A run's bounds are natural numbers within the string.
LEMMA RunBounds ==
  ASSUME NEW n, NEW a, NEW run, NEW r, Tiled(n, a, run, r), NEW k \in 0..(r - 1)
  PROVE  /\ run[k].start \in Nat /\ run[k].end \in Nat /\ run[k].c \in Nat /\ k \in Nat
         /\ n \in Nat /\ r \in Nat /\ r > 0 /\ n > 0
         /\ run[k].start < run[k].end /\ run[k].end <= n
  BY DEF Tiled

\* Each position is in a run, which has the symbol of the position.
LEMMA RunOf ==
  ASSUME NEW n, NEW a, NEW run, NEW r, Tiled(n, a, run, r), NEW p \in 0..(n - 1)
  PROVE  \E k \in 0..(r - 1) : In(run, k, p) /\ run[k].c = a[p]
<1> DEFINE T == {k \in 0..(r - 1) : run[k].start <= p}
<1>1. r - 1 \in Nat /\ p \in Nat /\ n \in Nat
  BY DEF Tiled
<1>2. T \in SUBSET (0..(r - 1)) /\ 0 \in T
  BY <1>1 DEF Tiled
<1>3. PICK k \in T : \A m \in T : m <= k
  <2> HIDE DEF T
  <2>1. QED
    BY <1>1, <1>2, Text!MaxExists
<1>4. k \in 0..(r - 1) /\ run[k].start <= p
  OBVIOUS
<1>5. p < run[k].end
  <2>1. SUFFICES ASSUME run[k].end <= p PROVE FALSE
    BY <1>1, <1>4, RunBounds
  <2>2. k # r - 1
    <3>1. run[r - 1].end = n /\ p < n
      BY <1>1 DEF Tiled
    <3>2. QED
      BY <1>1, <2>1, <3>1
  <2>3. k + 1 \in 0..(r - 1) /\ k + 1 > 0 /\ (k + 1) - 1 = k
    BY <1>1, <1>4, <2>2
  <2>4. run[k + 1].start = run[(k + 1) - 1].end
    BY <2>3 DEF Tiled
  <2>5. k + 1 \in T
    BY <2>1, <2>3, <2>4
  <2>6. QED
    BY <1>3, <1>4, <2>5
<1>6. p \in run[k].start .. (run[k].end - 1)
  BY <1>1, <1>4, <1>5, RunBounds
<1>7. run[k].c = a[p]
  BY <1>4, <1>6 DEF Tiled
<1>8. QED
  BY <1>4, <1>5, <1>7 DEF In

\* The runs up to the one with a position are those that start at it or before, the runs
\* before it those that end there.
LEMMA RunPlaces ==
  ASSUME NEW n, NEW a, NEW run, NEW r, Tiled(n, a, run, r), NEW p \in Nat,
         NEW k \in 0..(r - 1), In(run, k, p), NEW m \in 0..(r - 1)
  PROVE  /\ run[m].end <= p <=> m < k
         /\ run[m].start <= p <=> m <= k
<1>1. /\ run[m].start \in Nat /\ run[m].end \in Nat /\ run[m].start < run[m].end /\ m \in Nat
      /\ run[k].start \in Nat /\ run[k].end \in Nat /\ run[k].start < run[k].end /\ k \in Nat
  BY RunBounds
<1>2. /\ m < k => run[m].end <= run[k].start
      /\ k < m => run[k].end <= run[m].start
  BY DEF Tiled
<1>3. run[k].start <= p /\ p < run[k].end
  BY DEF In
<1>4. QED
  BY <1>1, <1>2, <1>3

\* A position is in one run only, and that run has its symbol.
LEMMA RunIsOne ==
  ASSUME NEW n, NEW a, NEW run, NEW r, Tiled(n, a, run, r), NEW p \in Nat,
         NEW k \in 0..(r - 1), In(run, k, p)
  PROVE  /\ \A m \in 0..(r - 1) : In(run, m, p) => m = k
         /\ a[p] = run[k].c /\ p \in 0..(n - 1)
<1>1. ASSUME NEW m \in 0..(r - 1), In(run, m, p) PROVE m = k
  <2>1. run[m].start <= p /\ ~(run[m].end <= p)
    BY <1>1, RunBounds DEF In
  <2>2. m <= k /\ ~(m < k)
    BY <2>1, RunPlaces
  <2>3. QED
    BY <2>2
<1>2. p \in run[k].start .. (run[k].end - 1) /\ p \in 0..(n - 1)
  BY RunBounds DEF In
<1>3. a[p] = run[k].c
  BY <1>2 DEF Tiled
<1>4. QED
  BY <1>1, <1>2, <1>3

\* What is counted in a run: each position if the run is of the symbol, none if not.
LEMMA CountInRun ==
  ASSUME NEW n, NEW a, NEW run, NEW r, Tiled(n, a, run, r), NEW c,
         NEW k \in 0..(r - 1), NEW p \in run[k].start .. run[k].end
  PROVE  Count(a, c, p) = Count(a, c, run[k].start)
                            + (IF run[k].c = c THEN p - run[k].start ELSE 0)
<1>1. run[k].start \in Nat /\ run[k].end \in Nat /\ p \in Nat /\ run[k].start <= p
  BY RunBounds
<1>2. \A q \in run[k].start .. (p - 1) : q \in run[k].start .. (run[k].end - 1)
  BY <1>1
<1>3. \A q \in run[k].start .. (p - 1) : a[q] = run[k].c
  BY <1>2 DEF Tiled
<1>4. Count(a, c, run[k].start) \in Nat
  BY <1>1, CountAdds
<1>5. QED
  BY <1>1, <1>3, <1>4, CountAll, CountSame

-----------------------------------------------------------------------------
(* What construction leaves. *)

RunsFor(run, r, c) == {k \in 0..(r - 1) : run[k].c = c}
EndsBlock(r, b, k) == k % b = b - 1 /\ k + 1 \in 0..(r - 1)

\* The structure s stands for the string a with the given runs, in blocks of b runs: the
\* marks are the numbers of the last positions of the runs.
Represents(s, n, a, run, r, b) ==
  /\ Tiled(n, a, run, r) /\ b \in Nat \ {0}
  /\ s.n = n /\ s.r = r /\ s.b = b
  /\ s.heads = [k \in 0..(r - 1) |-> run[k].c]
  /\ s.blockEnds = {run[k].end - 1 : k \in {m \in 0..(r - 1) : EndsBlock(r, b, m)}}
  /\ \A p \in 0..(n - 1) : a[p] \in DOMAIN s.symbol
  /\ 0 \in DOMAIN s.symbol
  /\ \A c \in DOMAIN s.symbol :
       /\ s.symbol[c].size = Count(a, c, n)
       /\ s.symbol[c].marks = {Count(a, c, run[k].end - 1) : k \in RunsFor(run, r, c)}

\* A finite set of natural numbers has a greatest element.
LEMMA GreatestIs ==
  ASSUME NEW S \in SUBSET Nat, IsFiniteSet(S), S # {}
  PROVE  Max(S) \in S /\ \A y \in S : y <= Max(S)
<1> DEFINE m == Cardinality(S)
           x == Ascending(S)[m - 1]
<1>1. m \in Nat /\ m # 0
  BY FS_CardinalityType, FS_EmptySet
<1>2. S \in SUBSET Int /\ m - 1 \in 0..(m - 1)
  <2> HIDE DEF m
  <2>1. QED
    BY <1>1
<1>3. x \in S
  BY <1>2, AscendingAt
<1>4. ASSUME NEW y \in S PROVE y <= x
  <2>1. /\ DOMAIN Ascending(S) = 0..(m - 1)
        /\ \A i, j \in DOMAIN Ascending(S) : i < j <=> Ascending(S)[i] < Ascending(S)[j]
    BY <1>2, SameOperators, Text!AscendingIs
  <2> DEFINE k == BvRank(S, y)
  <2>2. k \in 0..(m - 1) /\ Ascending(S)[(k + 1) - 1] = y
    BY <1>2, SelectAt DEF BvSelect
  <2>3. (k + 1) - 1 = k
    BY <2>2
  <2> HIDE DEF k, m
  <2>4. k = m - 1 \/ k < m - 1
    BY <1>1, <2>2
  <2>5. y = Ascending(S)[k] /\ y \in Int /\ x \in Int
    BY <1>2, <1>3, <2>2, <2>3
  <2>6. k < m - 1 => Ascending(S)[k] < Ascending(S)[m - 1]
    BY <1>2, <2>1, <2>2
  <2>7. k = m - 1 => y = x
    BY <2>5
  <2>8. QED
    BY <2>4, <2>5, <2>6, <2>7
<1>5. \A y \in S : (\A z \in S : y >= z) => y = x
  <2> HIDE DEF x
  <2>1. QED
    BY <1>3, <1>4
<1>6. Max(S) = x
  <2> HIDE DEF x
  <2>1. \A z \in S : x >= z
    BY <1>3, <1>4
  <2>2. QED
    BY <1>3, <1>5, <2>1 DEF Max
<1>7. QED
  BY <1>3, <1>4, <1>6

\* The symbols of a string are no greater than the last of the alphabet.
LEMMA AlphabetIs ==
  ASSUME NEW n \in Nat \ {0}, NEW a \in [0..(n - 1) -> Nat]
  PROVE  Max(Range(a)) \in Nat /\ \A p \in 0..(n - 1) : a[p] \in 0..Max(Range(a))
<1>1. DOMAIN a = 0..(n - 1) /\ Range(a) \in SUBSET Nat
  BY DEF Range
<1>2. a \in Surjection(0..(n - 1), Range(a))
  BY <1>1 DEF Surjection, Range
<1>3. IsFiniteSet(0..(n - 1))
  <2>1. 0 \in Int /\ n - 1 \in Int
    OBVIOUS
  <2>2. QED
    BY <2>1, FS_Interval
<1>4. IsFiniteSet(Range(a))
  BY <1>2, <1>3, FS_Surjection
<1>5. \A p \in 0..(n - 1) : a[p] \in Range(a)
  BY <1>1 DEF Range
<1>6. Range(a) # {}
  <2>1. 0 \in 0..(n - 1)
    OBVIOUS
  <2>2. QED
    BY <1>5, <2>1
<1>7. Max(Range(a)) \in Range(a) /\ \A y \in Range(a) : y <= Max(Range(a))
  BY <1>1, <1>4, <1>6, GreatestIs
<1>8. QED
  BY <1>1, <1>5, <1>7

\* Construction leaves that.
LEMMA ConstructIs ==
  ASSUME NEW n \in Nat \ {0}, NEW a \in [0..(n - 1) -> Nat], NEW b \in Nat \ {0}
  PROVE  Represents(Construct(a, b), n, a, RunsOf(a), Size(RunsOf(a)), b)
<1> DEFINE run == RunsOf(a)
           r == Size(run)
           s == Construct(a, b)
<1>1. Tiled(n, a, run, r) /\ r \in Nat \ {0}
  BY RunsAreTiled
<1>2. DOMAIN run = 0..(r - 1) /\ DOMAIN a = 0..(n - 1)
  <2> HIDE DEF run, r
  <2>1. QED
    BY <1>1 DEF Tiled
<1>3. Size(a) = n
  BY <1>2, SizeIs
<1>4. /\ s.n = n /\ s.r = r /\ s.b = b /\ s.heads = [k \in 0..(r - 1) |-> run[k].c]
      /\ s.blockEnds = BlockEnds(run, b)
      /\ s.symbol = [c \in 0..Max(Range(a)) |-> PerSymbol(a, run, c)]
  BY <1>2, <1>3 DEF Construct
<1>5. s.blockEnds = {run[k].end - 1 : k \in {m \in 0..(r - 1) : EndsBlock(r, b, m)}}
  <2> HIDE DEF run, r, s
  <2>1. QED
    BY <1>2, <1>4 DEF BlockEnds, EndsBlock
<1>6. Max(Range(a)) \in Nat /\ \A p \in 0..(n - 1) : a[p] \in 0..Max(Range(a))
  BY AlphabetIs
<1>7. DOMAIN s.symbol = 0..Max(Range(a))
  <2> HIDE DEF s, run
  <2>1. QED
    BY <1>4
<1>8. ASSUME NEW c \in 0..Max(Range(a))
      PROVE  /\ s.symbol[c].size = Count(a, c, n)
             /\ s.symbol[c].marks = {Count(a, c, run[k].end - 1) : k \in RunsFor(run, r, c)}
  <2> HIDE DEF run, r, s
  <2>1. s.symbol[c] = PerSymbol(a, run, c)
    BY <1>4
  <2>2. s.symbol[c].size = Cardinality({p \in DOMAIN a : a[p] = c})
    BY <2>1 DEF PerSymbol
  <2>3. s.symbol[c].marks =
          {Cardinality({q \in 0..((run[k].end - 1) - 1) : a[q] = c}) :
             k \in {j \in DOMAIN run : run[j].c = c}}
    BY <2>1 DEF PerSymbol
  <2>4. s.symbol[c].marks = {Count(a, c, run[k].end - 1) : k \in RunsFor(run, r, c)}
    BY <1>2, <2>3 DEF Count, RunsFor
  <2>5. s.symbol[c].size = Count(a, c, n)
    BY <1>2, <2>2 DEF Count
  <2>6. QED
    BY <2>4, <2>5
<1>9. QED
  <2> HIDE DEF run, r, s
  <2>1. Represents(s, n, a, run, r, b)
    BY <1>1, <1>4, <1>5, <1>6, <1>7, <1>8 DEF Represents
  <2>2. QED
    BY <2>1 DEF run, r, s

-----------------------------------------------------------------------------
(* Blocks of runs. *)

\* A product grows with its factor.
LEMMA TimesGrows ==
  ASSUME NEW b \in Nat, NEW i \in Int, NEW j \in Int, i <= j
  PROVE  b * i <= b * j
<1>1. b * (j - i) >= 0
  OBVIOUS
<1>2. b * (j - i) = b * j - b * i
  OBVIOUS
<1>3. b * i \in Int /\ b * j \in Int
  OBVIOUS
<1>4. QED
  BY <1>1, <1>2, <1>3

\* A number is a multiple of the block size and a remainder, in one way.
LEMMA DivIs ==
  ASSUME NEW b \in Nat \ {0}, NEW i \in Int, NEW q \in Int, NEW d \in 0..(b - 1), i = b * q + d
  PROVE  i \div b = q /\ i % b = d
  OBVIOUS

\* The number of a run splits into that of its block and its place there.
LEMMA BlockOf ==
  ASSUME NEW b \in Nat \ {0}, NEW k \in Nat
  PROVE  /\ k \div b \in Nat /\ k % b \in 0..(b - 1) /\ k = b * (k \div b) + (k % b)
         /\ b * (k \div b) \in 0..k
<1>1. k \div b \in Int /\ k % b \in 0..(b - 1) /\ k = b * (k \div b) + (k % b)
  OBVIOUS
<1> DEFINE q == k \div b
<1>2. q \in Nat
  <2> HIDE DEF q
  <2>1. SUFFICES ASSUME q <= -1 PROVE FALSE
    BY <1>1 DEF q
  <2>2. b * q <= b * (-1)
    BY <1>1, <2>1, TimesGrows DEF q
  <2>3. b * (-1) = -b
    OBVIOUS
  <2>4. QED
    BY <1>1, <2>2, <2>3 DEF q
<1>3. b * q \in Nat
  <2> HIDE DEF q
  <2>1. QED
    BY <1>2
<1>4. QED
  <2> DEFINE d == k % b
             m == b * q
  <2>1. m \in Nat /\ d \in Nat /\ k = m + d
    BY <1>1, <1>3
  <2> HIDE DEF q, d, m
  <2>2. m \in 0..k
    BY <2>1
  <2>3. QED
    BY <1>1, <1>2, <2>2 DEF q, m

\* The runs that end a block before run k: one for each block before that of k.
LEMMA BlocksBefore ==
  ASSUME NEW b \in Nat \ {0}, NEW k \in Nat
  PROVE  /\ \A m \in 0..(k - 1) : m % b = b - 1 =>
              m \div b \in 0..(k \div b - 1) /\ m = b * (m \div b) + (b - 1)
         /\ \A j \in 0..(k \div b - 1) :
              /\ b * j + (b - 1) \in 0..(k - 1) /\ (b * j + (b - 1)) % b = b - 1
              /\ (b * j + (b - 1)) \div b = j
<1> DEFINE q == k \div b
<1>1. q \in Nat /\ k % b \in 0..(b - 1) /\ k = b * q + (k % b)
  BY BlockOf
<1> HIDE DEF q
<1>2. ASSUME NEW m \in 0..(k - 1), m % b = b - 1
      PROVE  m \div b \in 0..(q - 1) /\ m = b * (m \div b) + (b - 1)
  <2> DEFINE j == m \div b
  <2>0. m \in Nat
    OBVIOUS
  <2>9. j \in Nat /\ m = b * j + (m % b)
    BY <2>0, BlockOf
  <2> HIDE DEF j
  <2>1. j \in Nat /\ m = b * j + (b - 1)
    BY <1>2, <2>9
  <2>2. ~(q <= j)
    <3>1. SUFFICES ASSUME q <= j PROVE FALSE
      OBVIOUS
    <3>2. b * q <= b * j
      BY <1>1, <2>1, <3>1, TimesGrows
    <3>3. b * q \in Int /\ b * j \in Int
      BY <1>1, <2>1
    <3>4. QED
      BY <1>1, <2>1, <3>2, <3>3
  <2>3. j \in 0..(q - 1)
    BY <1>1, <2>1, <2>2
  <2>4. QED
    BY <2>1, <2>3 DEF j
<1>3. ASSUME NEW j \in 0..(q - 1)
      PROVE  /\ b * j + (b - 1) \in 0..(k - 1) /\ (b * j + (b - 1)) % b = b - 1
             /\ (b * j + (b - 1)) \div b = j
  <2>1. j \in Nat /\ j + 1 <= q /\ b - 1 \in 0..(b - 1)
    BY <1>1
  <2>2. b * (j + 1) <= b * q /\ b * (j + 1) = b * j + b
    BY <1>1, <2>1, TimesGrows
  <2>3. b * j \in Nat /\ b * q \in Nat
    BY <1>1, <2>1
  <2>4. b * j + (b - 1) \in 0..(k - 1)
    BY <1>1, <2>2, <2>3
  <2>5. (b * j + (b - 1)) % b = b - 1 /\ (b * j + (b - 1)) \div b = j
    <3> DEFINE i == b * j + (b - 1)
               d == b - 1
    <3>1. i \in Int /\ j \in Int /\ d \in 0..(b - 1) /\ i = b * j + d
      BY <2>1, <2>4
    <3> HIDE DEF i, d
    <3>2. i \div b = j /\ i % b = d
      BY <3>1, DivIs
    <3>3. QED
      BY <3>2 DEF i, d
  <2>6. QED
    BY <2>4, <2>5
<1>4. QED
  BY <1>2, <1>3 DEF q

\* Blocks end at increasing positions: run m ends a block before position p of run k if it
\* comes before k.
LEMMA BlockEndsAre ==
  ASSUME NEW s, NEW n, NEW a, NEW run, NEW r, NEW b, Represents(s, n, a, run, r, b),
         NEW p \in Nat, NEW k \in 0..(r - 1), In(run, k, p)
  PROVE  {m \in s.blockEnds : m < p} =
           {run[b * j + (b - 1)].end - 1 : j \in 0..(k \div b - 1)}
<1> DEFINE q == k \div b
           L == {m \in s.blockEnds : m < p}
           R == {run[b * j + (b - 1)].end - 1 : j \in 0..(q - 1)}
<1>1. Tiled(n, a, run, r) /\ b \in Nat \ {0} /\ k \in Nat /\ r \in Nat
  BY DEF Represents, Tiled
<1>2. s.blockEnds = {run[m].end - 1 : m \in {i \in 0..(r - 1) : EndsBlock(r, b, i)}}
  BY DEF Represents
<1>3. ASSUME NEW x \in L PROVE x \in R
  <2>1. PICK m \in 0..(r - 1) : EndsBlock(r, b, m) /\ x = run[m].end - 1
    BY <1>2
  <2>2. run[m].end \in Nat /\ x < p
    BY <1>1, RunBounds
  <2>3. run[m].end <= p
    BY <2>1, <2>2
  <2>4. m \in 0..(k - 1) /\ m % b = b - 1
    BY <1>1, <2>1, <2>3, RunPlaces DEF EndsBlock
  <2>5. m \div b \in 0..(q - 1) /\ m = b * (m \div b) + (b - 1)
    BY <1>1, <2>4, BlocksBefore
  <2> HIDE DEF q
  <2>6. QED
    BY <2>1, <2>5
<1>4. ASSUME NEW j \in 0..(q - 1) PROVE run[b * j + (b - 1)].end - 1 \in L
  <2> DEFINE m == b * j + (b - 1)
  <2>1. m \in 0..(k - 1) /\ m % b = b - 1
    BY <1>1, BlocksBefore
  <2> HIDE DEF m, q
  <2>2. m \in 0..(r - 1) /\ EndsBlock(r, b, m) /\ m < k
    BY <1>1, <2>1 DEF EndsBlock
  <2>3. run[m].end - 1 \in s.blockEnds
    BY <1>2, <2>2
  <2>4. run[m].end <= p /\ run[m].end \in Nat
    BY <1>1, <2>2, RunPlaces, RunBounds
  <2>5. QED
    BY <2>3, <2>4 DEF m
<1>5. QED
  <2> HIDE DEF q
  <2>1. L \in SUBSET R
    <3> HIDE DEF L, R
    <3>1. QED
      BY <1>3
  <2>2. R \in SUBSET L
    <3> HIDE DEF L
    <3>1. QED
      BY <1>4
  <2>3. L = R
    <3> HIDE DEF L, R
    <3>1. QED
      BY <2>1, <2>2
  <2>4. QED
    BY <2>3 DEF q

\* A rank over the block ends is the block of the position's run.
LEMMA BlockRank ==
  ASSUME NEW s, NEW n, NEW a, NEW run, NEW r, NEW b, Represents(s, n, a, run, r, b),
         NEW p \in Nat, NEW k \in 0..(r - 1), In(run, k, p)
  PROVE  BvRank(s.blockEnds, p) = k \div b
<1> DEFINE q == k \div b
           S == 0..(q - 1)
           T == {run[b * j + (b - 1)].end - 1 : j \in S}
           f == [j \in S |-> run[b * j + (b - 1)].end - 1]
<1>1. Tiled(n, a, run, r) /\ b \in Nat \ {0} /\ k \in Nat /\ r \in Nat
  BY DEF Represents, Tiled
<1>2. q \in Nat
  BY <1>1, BlockOf
<1>3. {m \in s.blockEnds : m < p} = T
  BY BlockEndsAre
<1>4. \A j \in S : b * j + (b - 1) \in 0..(r - 1)
  <2> TAKE j \in S
  <2> DEFINE m == b * j + (b - 1)
  <2>1. m \in 0..(k - 1)
    BY <1>1, BlocksBefore
  <2> HIDE DEF m
  <2>2. m \in 0..(r - 1)
    BY <1>1, <2>1
  <2>3. QED
    BY <2>2 DEF m
<1>5. ASSUME NEW i \in S, NEW j \in S, i < j PROVE f[i] < f[j]
  <2> DEFINE u == b * i + (b - 1)
             v == b * j + (b - 1)
  <2>1. u \in 0..(r - 1) /\ v \in 0..(r - 1)
    BY <1>4
  <2>2. i \in Int /\ j \in Int /\ i + 1 <= j /\ b \in Nat
    BY <1>1, <1>2, <1>5
  <2>3. b * (i + 1) <= b * j /\ b * (i + 1) = b * i + b
    BY <2>2, TimesGrows
  <2>4. u < v
    <3>1. b * i \in Int /\ b * j \in Int /\ b > 0
      BY <1>1, <2>2
    <3>2. QED
      BY <1>1, <2>3, <3>1
  <2>5. f[i] = run[u].end - 1 /\ f[j] = run[v].end - 1
    OBVIOUS
  <2> HIDE DEF u, v, f, q, S
  <2>6. run[u].end <= run[v].start
    BY <1>1, <2>1, <2>4 DEF Tiled
  <2>7. run[u].end \in Nat /\ run[v].start \in Nat /\ run[v].end \in Nat /\ run[v].start < run[v].end
    BY <1>1, <2>1, RunBounds
  <2>8. QED
    BY <2>5, <2>6, <2>7
<1>6. f \in Bijection(S, T)
  <2>1. f \in [S -> T] /\ \A t \in T : \E j \in S : f[j] = t
    OBVIOUS
  <2>2. \A j \in S : f[j] \in Int
    <3> TAKE j \in S
    <3> DEFINE m == b * j + (b - 1)
    <3>1. m \in 0..(r - 1) /\ f[j] = run[m].end - 1
      BY <1>4
    <3> HIDE DEF m, f, S
    <3>2. QED
      BY <1>1, <3>1, RunBounds
  <2>3. ASSUME NEW i \in S, NEW j \in S, f[i] = f[j] PROVE i = j
    <3>1. i \in Int /\ j \in Int
      OBVIOUS
    <3> HIDE DEF f, S
    <3>2. ~(i < j) /\ ~(j < i)
      BY <1>5, <2>2, <2>3
    <3>3. QED
      BY <3>1, <3>2
  <2> HIDE DEF f, S, T
  <2>4. QED
    BY <2>1, <2>3 DEF Bijection, Injection, Surjection, IsInjective
<1>7. IsFiniteSet(S) /\ Cardinality(S) = q
  <2> HIDE DEF q
  <2>1. 0 \in Int /\ q - 1 \in Int
    BY <1>2
  <2>2. IsFiniteSet(S) /\ Cardinality(S) = (IF 0 > q - 1 THEN 0 ELSE (q - 1) - 0 + 1)
    BY <2>1, FS_Interval
  <2>3. QED
    BY <1>2, <2>2
<1>8. Cardinality(T) = q
  <2> HIDE DEF f, S, T, q
  <2>1. ExistsBijection(S, T)
    BY <1>6 DEF ExistsBijection
  <2>2. QED
    BY <1>7, <2>1, FS_Bijection
<1>9. QED
  <2> HIDE DEF T, q
  <2>1. Cardinality({m \in s.blockEnds : m < p}) = q
    BY <1>3, <1>8
  <2>2. QED
    BY <2>1 DEF BvRank, q

\* The block ends are a finite set of positions.
LEMMA BlockEndsFinite ==
  ASSUME NEW s, NEW n, NEW a, NEW run, NEW r, NEW b, Represents(s, n, a, run, r, b)
  PROVE  s.blockEnds \in SUBSET Int /\ IsFiniteSet(s.blockEnds)
<1>1. Tiled(n, a, run, r) /\ n \in Nat
  BY DEF Represents, Tiled
<1>2. ASSUME NEW x \in s.blockEnds PROVE x \in 0..(n - 1)
  <2>1. PICK m \in 0..(r - 1) : x = run[m].end - 1
    BY <1>2 DEF Represents
  <2>2. QED
    BY <1>1, <2>1, RunBounds
<1>3. s.blockEnds \in SUBSET (0..(n - 1))
  BY <1>2
<1>4. 0 \in Int /\ n - 1 \in Int
  BY <1>1
<1>5. IsFiniteSet(s.blockEnds)
  BY <1>3, <1>4, PartFinite
<1>6. s.blockEnds \in SUBSET Int
  BY <1>2
<1>7. QED
  BY <1>5, <1>6

\* A block starts with its first run.
LEMMA BlockStartIs ==
  ASSUME NEW s, NEW n, NEW a, NEW run, NEW r, NEW b, Represents(s, n, a, run, r, b),
         NEW q \in Nat, b * q \in 0..(r - 1)
  PROVE  BlockStart(s, q) = run[b * q].start
<1>1. Tiled(n, a, run, r) /\ b \in Nat \ {0} /\ r \in Nat \ {0}
  BY DEF Represents, Tiled
<1>2. CASE q = 0
  <2>1. b * q = 0
    BY <1>1, <1>2
  <2>2. QED
    BY <1>1, <1>2, <2>1 DEF BlockStart, Tiled
<1>3. CASE q # 0
  <2> DEFINE m == b * (q - 1) + (b - 1)
             k == b * q
             x == run[m].end - 1
  <2>1. k = b * (q - 1) + b /\ b * (q - 1) \in Nat
    BY <1>1, <1>3
  <2>2. m = k - 1 /\ m \in 0..(r - 1) /\ m \in Nat /\ m + 1 \in 0..(r - 1) /\ k > 0
    <3> DEFINE h == b * (q - 1)
    <3>1. h \in Nat /\ k = h + b /\ m = h + (b - 1)
      BY <2>1
    <3> HIDE DEF h, m, k
    <3>2. k \in 0..(r - 1)
      BY DEF k
    <3>3. QED
      BY <1>1, <3>1, <3>2
  <2>3. m \div b = q - 1 /\ m % b = b - 1
    <3>1. m \in Int /\ q - 1 \in Int /\ b - 1 \in 0..(b - 1)
      BY <1>1, <2>2
    <3> DEFINE d == b - 1
               j == q - 1
    <3>2. m = b * j + d
      OBVIOUS
    <3> HIDE DEF m, d, j
    <3>3. m \div b = j /\ m % b = d
      BY <1>1, <3>1, <3>2, DivIs DEF d, j
    <3>4. QED
      BY <3>3 DEF d, j
  <2> HIDE DEF m
  <2>4. x \in s.blockEnds
    <3>1. EndsBlock(r, b, m)
      BY <2>2, <2>3 DEF EndsBlock
    <3>2. QED
      BY <2>2, <3>1 DEF Represents
  <2>5. run[m].end \in Nat /\ run[m].start \in Nat /\ run[m].start < run[m].end
    BY <1>1, <2>2, RunBounds
  <2>6. x \in Nat /\ In(run, m, x)
    BY <2>5 DEF In
  <2>7. BvRank(s.blockEnds, x) = q - 1
    BY <2>2, <2>3, <2>6, BlockRank
  <2>8. BvSelect(s.blockEnds, (q - 1) + 1) = x
    BY <2>4, <2>7, BlockEndsFinite, SelectAt
  <2>9. BlockStart(s, q) = x + 1
    <3>1. (q - 1) + 1 = q
      OBVIOUS
    <3>2. QED
      BY <1>3, <2>8, <3>1 DEF BlockStart
  <2>10. run[k].start = run[k - 1].end
    <3> HIDE DEF k
    <3>1. k \in 0..(r - 1)
      BY DEF k
    <3>2. QED
      BY <1>1, <2>2, <3>1 DEF Tiled
  <2>11. QED
    <3> HIDE DEF k
    <3>1. x + 1 = run[m].end
      BY <2>5
    <3>2. QED
      BY <2>2, <2>9, <2>10, <3>1 DEF k
<1>4. QED
  BY <1>2, <1>3

-----------------------------------------------------------------------------
(* The runs of one symbol. *)

\* The runs of a symbol, as the structure finds them among its heads.
LEMMA HeadsAre ==
  ASSUME NEW s, NEW n, NEW a, NEW run, NEW r, NEW b, Represents(s, n, a, run, r, b), NEW c
  PROVE  /\ HeadsOf(s, c) = RunsFor(run, r, c)
         /\ HeadsOf(s, c) \in SUBSET (0..(r - 1)) /\ HeadsOf(s, c) \in SUBSET Int
         /\ IsFiniteSet(HeadsOf(s, c))
<1>1. HeadsOf(s, c) = RunsFor(run, r, c)
  BY DEF Represents, HeadsOf, RunsFor
<1>2. HeadsOf(s, c) \in SUBSET (0..(r - 1))
  BY <1>1 DEF RunsFor
<1>3. 0 \in Int /\ r - 1 \in Int
  BY DEF Represents, Tiled
<1>4. IsFiniteSet(HeadsOf(s, c))
  BY <1>2, <1>3, PartFinite
<1>5. QED
  BY <1>1, <1>2, <1>4

\* How many runs of the symbol come before a run: a number, that grows at each of them.
LEMMA RankType ==
  ASSUME NEW s, NEW n, NEW a, NEW run, NEW r, NEW b, Represents(s, n, a, run, r, b), NEW c,
         NEW k \in Int
  PROVE  BvRank(HeadsOf(s, c), k) \in Nat
<1>1. {m \in HeadsOf(s, c) : m < k} \in SUBSET HeadsOf(s, c)
  OBVIOUS
<1>2. IsFiniteSet({m \in HeadsOf(s, c) : m < k})
  BY <1>1, HeadsAre, FS_Subset
<1>3. QED
  BY <1>2, FS_CardinalityType DEF BvRank

\* The count at the end of a run of the symbol is that of its last position and one.
LEMMA MarkIs ==
  ASSUME NEW n, NEW a, NEW run, NEW r, Tiled(n, a, run, r), NEW c, NEW k \in RunsFor(run, r, c)
  PROVE  /\ Count(a, c, run[k].end - 1) \in Nat
         /\ Count(a, c, run[k].end) = Count(a, c, run[k].end - 1) + 1
         /\ Count(a, c, run[k].end) \in Nat
         /\ Count(a, c, run[k].start) \in Nat
         /\ Count(a, c, run[k].start) <= Count(a, c, run[k].end - 1)
<1>1. k \in 0..(r - 1) /\ run[k].c = c
  BY DEF RunsFor
<1>2. run[k].start \in Nat /\ run[k].end \in Nat /\ run[k].start < run[k].end
  BY <1>1, RunBounds
<1> DEFINE e == run[k].end - 1
<1>3. e \in Nat /\ e + 1 = run[k].end /\ e \in run[k].start .. run[k].end
      /\ run[k].end \in run[k].start .. run[k].end
  BY <1>2
<1> HIDE DEF e
<1>4. Count(a, c, e) = Count(a, c, run[k].start)
                         + (IF run[k].c = c THEN e - run[k].start ELSE 0)
  BY <1>1, <1>3, CountInRun
<1>5. Count(a, c, run[k].end) = Count(a, c, run[k].start)
                         + (IF run[k].c = c THEN run[k].end - run[k].start ELSE 0)
  BY <1>1, <1>3, CountInRun
<1>6. Count(a, c, run[k].start) \in Nat
  BY <1>2, CountAdds
<1>7. QED
  BY <1>1, <1>2, <1>3, <1>4, <1>5, <1>6 DEF e

\* The counts at the ends of two runs are in the order of the runs.
LEMMA MarksInOrder ==
  ASSUME NEW n, NEW a, NEW run, NEW r, Tiled(n, a, run, r), NEW c,
         NEW k \in RunsFor(run, r, c), NEW m \in RunsFor(run, r, c), m < k
  PROVE  Count(a, c, run[m].end) <= Count(a, c, run[k].start)
<1>1. run[m].end <= run[k].start /\ m \in 0..(r - 1) /\ k \in 0..(r - 1)
  BY DEF Tiled, RunsFor
<1>2. run[m].end \in Nat /\ run[k].start \in Nat
  BY <1>1, RunBounds
<1>3. QED
  BY <1>1, <1>2, CountGrows

\* A number of a c in run k has as many marks before it as there are runs of c before k.
LEMMA MarkRank ==
  ASSUME NEW s, NEW n, NEW a, NEW run, NEW r, NEW b, Represents(s, n, a, run, r, b),
         NEW c \in DOMAIN s.symbol, NEW k \in RunsFor(run, r, c), NEW v \in Nat,
         Count(a, c, run[k].start) <= v, v < Count(a, c, run[k].end)
  PROVE  BvRank(s.symbol[c].marks, v) = BvRank(HeadsOf(s, c), k)
<1> DEFINE S == {m \in HeadsOf(s, c) : m < k}
           T == {x \in s.symbol[c].marks : x < v}
           f == [m \in S |-> Count(a, c, run[m].end - 1)]
<1>1. Tiled(n, a, run, r) /\ HeadsOf(s, c) = RunsFor(run, r, c)
      /\ s.symbol[c].marks = {Count(a, c, run[m].end - 1) : m \in RunsFor(run, r, c)}
  <2>1. HeadsOf(s, c) = RunsFor(run, r, c)
    BY HeadsAre
  <2>2. Tiled(n, a, run, r)
    BY DEF Represents
  <2>3. s.symbol[c].marks = {Count(a, c, run[m].end - 1) : m \in RunsFor(run, r, c)}
    BY DEF Represents
  <2>4. QED
    BY <2>1, <2>2, <2>3
<1>2. \A m \in RunsFor(run, r, c) : m \in Int
  BY DEF RunsFor
<1>3. ASSUME NEW m \in RunsFor(run, r, c)
      PROVE  Count(a, c, run[m].end - 1) < v <=> m < k
  <2>1. /\ Count(a, c, run[m].end - 1) \in Nat
        /\ Count(a, c, run[m].end) = Count(a, c, run[m].end - 1) + 1
    BY <1>1, MarkIs
  <2>2. CASE m < k
    <3>1. Count(a, c, run[m].end) <= Count(a, c, run[k].start)
      BY <1>1, <2>2, MarksInOrder
    <3>2. Count(a, c, run[k].start) \in Nat
      BY <1>1, MarkIs
    <3>3. QED
      BY <2>1, <2>2, <3>1, <3>2
  <2>3. CASE k < m
    <3>1. Count(a, c, run[k].end) <= Count(a, c, run[m].start)
      BY <1>1, <2>3, MarksInOrder
    <3>2. /\ Count(a, c, run[m].start) \in Nat /\ Count(a, c, run[k].end) \in Nat
          /\ Count(a, c, run[m].start) <= Count(a, c, run[m].end - 1)
      BY <1>1, MarkIs
    <3>3. QED
      BY <1>2, <2>1, <2>3, <3>1, <3>2
  <2>4. CASE m = k
    <3>1. ~(m < k)
      BY <1>2, <2>4
    <3>2. QED
      BY <2>1, <2>4, <3>1
  <2>5. QED
    BY <1>2, <2>2, <2>3, <2>4
<1>4. f \in Bijection(S, T)
  <2>1. f \in [S -> T]
    <3>1. \A m \in S : f[m] \in T
      BY <1>1, <1>3
    <3> HIDE DEF S, T
    <3>2. QED
      BY <3>1
  <2>2. ASSUME NEW t \in T PROVE \E m \in S : f[m] = t
    <3>1. PICK m \in RunsFor(run, r, c) : t = Count(a, c, run[m].end - 1)
      BY <1>1
    <3>2. m \in S
      BY <1>1, <1>3, <3>1
    <3>3. QED
      BY <3>1, <3>2
  <2>3. ASSUME NEW i \in S, NEW j \in S, i < j PROVE f[i] < f[j]
    <3>1. i \in RunsFor(run, r, c) /\ j \in RunsFor(run, r, c)
      BY <1>1
    <3>2. Count(a, c, run[i].end) <= Count(a, c, run[j].start)
      BY <1>1, <2>3, <3>1, MarksInOrder
    <3>3. /\ Count(a, c, run[i].end) = Count(a, c, run[i].end - 1) + 1
          /\ Count(a, c, run[i].end - 1) \in Nat
      BY <1>1, <3>1, MarkIs
    <3>4. /\ Count(a, c, run[j].start) <= Count(a, c, run[j].end - 1)
          /\ Count(a, c, run[j].start) \in Nat /\ Count(a, c, run[j].end - 1) \in Nat
      BY <1>1, <3>1, MarkIs
    <3>5. QED
      BY <3>2, <3>3, <3>4
  <2>4. \A m \in S : m \in Int /\ f[m] \in Int
    BY <1>1, <1>2, MarkIs
  <2>5. ASSUME NEW i \in S, NEW j \in S, f[i] = f[j] PROVE i = j
    <3> HIDE DEF f, S
    <3>1. ~(i < j) /\ ~(j < i)
      BY <2>3, <2>4, <2>5
    <3>2. QED
      BY <2>4, <3>1
  <2> HIDE DEF f, S, T
  <2>6. QED
    BY <2>1, <2>2, <2>5 DEF Bijection, Injection, Surjection, IsInjective
<1>5. IsFiniteSet(S)
  <2>1. S \in SUBSET HeadsOf(s, c)
    OBVIOUS
  <2>2. QED
    BY <2>1, HeadsAre, FS_Subset
<1>6. Cardinality(T) = Cardinality(S)
  <2> HIDE DEF f, S, T
  <2>1. ExistsBijection(S, T)
    BY <1>4 DEF ExistsBijection
  <2>2. QED
    BY <1>5, <2>1, FS_Bijection
<1>7. QED
  BY <1>6 DEF BvRank

\* The marks of a symbol are a finite set of numbers, as many as it has runs.
LEMMA MarksFinite ==
  ASSUME NEW s, NEW n, NEW a, NEW run, NEW r, NEW b, Represents(s, n, a, run, r, b),
         NEW c \in DOMAIN s.symbol
  PROVE  /\ s.symbol[c].marks \in SUBSET Int /\ IsFiniteSet(s.symbol[c].marks)
         /\ Cardinality(s.symbol[c].marks) = Cardinality(RunsFor(run, r, c))
<1> DEFINE S == RunsFor(run, r, c)
           T == s.symbol[c].marks
           f == [m \in S |-> Count(a, c, run[m].end - 1)]
<1>1. Tiled(n, a, run, r) /\ T = {Count(a, c, run[m].end - 1) : m \in S}
  BY DEF Represents
<1>2. IsFiniteSet(S) /\ \A m \in S : m \in Int
  <2>1. IsFiniteSet(S)
    BY HeadsAre
  <2>2. QED
    BY <2>1 DEF RunsFor
<1>3. \A m \in S : f[m] \in Int
  BY <1>1, MarkIs
<1>4. T \in SUBSET Int
  BY <1>1, <1>3
<1>5. ASSUME NEW i \in S, NEW j \in S, i < j PROVE f[i] < f[j]
  <2>1. Count(a, c, run[i].end) <= Count(a, c, run[j].start)
    BY <1>1, <1>5, MarksInOrder
  <2>2. /\ Count(a, c, run[i].end) = Count(a, c, run[i].end - 1) + 1
        /\ Count(a, c, run[i].end - 1) \in Nat
    BY <1>1, MarkIs
  <2>3. /\ Count(a, c, run[j].start) <= Count(a, c, run[j].end - 1)
        /\ Count(a, c, run[j].start) \in Nat /\ Count(a, c, run[j].end - 1) \in Nat
    BY <1>1, MarkIs
  <2>4. QED
    BY <2>1, <2>2, <2>3
<1>6. f \in Bijection(S, T)
  <2>1. f \in [S -> T] /\ \A t \in T : \E m \in S : f[m] = t
    BY <1>1
  <2>2. ASSUME NEW i \in S, NEW j \in S, f[i] = f[j] PROVE i = j
    <3> HIDE DEF f, S
    <3>1. ~(i < j) /\ ~(j < i)
      BY <1>3, <1>5, <2>2
    <3>2. QED
      BY <1>2, <3>1
  <2> HIDE DEF f, S, T
  <2>3. QED
    BY <2>1, <2>2 DEF Bijection, Injection, Surjection, IsInjective
<1>7. ExistsBijection(S, T)
  BY <1>6 DEF ExistsBijection
<1>8. QED
  BY <1>2, <1>4, <1>7, FS_Bijection

\* The next run of the symbol has one more before it.
LEMMA RankNext ==
  ASSUME NEW s, NEW n, NEW a, NEW run, NEW r, NEW b, Represents(s, n, a, run, r, b), NEW c,
         NEW m \in RunsFor(run, r, c), NEW k \in Int, m < k,
         \A i \in RunsFor(run, r, c) : ~(m < i /\ i < k)
  PROVE  BvRank(HeadsOf(s, c), k) = BvRank(HeadsOf(s, c), m) + 1
<1> DEFINE H == HeadsOf(s, c)
           A == {i \in H : i < m}
           B == {i \in H : i < k}
<1>1. H = RunsFor(run, r, c) /\ H \in SUBSET Int /\ IsFiniteSet(H)
  BY HeadsAre
<1>2. B = A \cup {m} /\ m \notin A
  <2> HIDE DEF H
  <2>1. \A i \in H : i < k => i < m \/ i = m
    BY <1>1
  <2>2. m \in Int /\ \A i \in H : i < m => i < k
    BY <1>1
  <2>3. QED
    BY <1>1, <2>1, <2>2
<1>3. IsFiniteSet(A) /\ Cardinality(A) \in Nat
  <2>1. A \in SUBSET H
    OBVIOUS
  <2> HIDE DEF A, H
  <2>2. IsFiniteSet(A)
    BY <1>1, <2>1, FS_Subset
  <2>3. QED
    BY <2>2, FS_CardinalityType
<1>4. Cardinality(B) = Cardinality(A) + 1
  <2> HIDE DEF A, B
  <2>1. QED
    BY <1>2, <1>3, FS_AddElement
<1>5. QED
  BY <1>4 DEF BvRank

\* No run of the symbol comes before the first.
LEMMA RankNone ==
  ASSUME NEW s, NEW n, NEW a, NEW run, NEW r, NEW b, Represents(s, n, a, run, r, b), NEW c,
         NEW k \in Int
  PROVE  BvRank(HeadsOf(s, c), k) = 0 <=> \A m \in RunsFor(run, r, c) : ~(m < k)
<1> DEFINE B == {m \in HeadsOf(s, c) : m < k}
<1>1. B \in SUBSET HeadsOf(s, c)
  OBVIOUS
<1>2. IsFiniteSet(B)
  BY <1>1, HeadsAre, FS_Subset
<1>3. Cardinality(B) = 0 <=> B = {}
  BY <1>2, FS_EmptySet
<1>4. HeadsOf(s, c) = RunsFor(run, r, c)
  BY HeadsAre
<1>5. B = {} <=> \A m \in RunsFor(run, r, c) : ~(m < k)
  BY <1>4
<1>6. QED
  BY <1>3, <1>5 DEF BvRank

\* Between a run of the symbol and the next, or before the first, the symbol does not occur.
LEMMA NoneBetween ==
  ASSUME NEW n, NEW a, NEW run, NEW r, Tiled(n, a, run, r), NEW c, NEW k \in 0..(r - 1),
         NEW i \in Nat, i <= run[k].start,
         \A m \in RunsFor(run, r, c) : m < k => run[m].end <= i
  PROVE  Count(a, c, run[k].start) = Count(a, c, i)
<1>1. run[k].start \in Nat /\ run[k].end \in Nat /\ run[k].start < run[k].end
      /\ run[k].end <= n /\ n \in Nat /\ r \in Nat
  BY RunBounds
<1>2. ASSUME NEW q \in i..(run[k].start - 1), a[q] = c PROVE FALSE
  <2>1. q \in 0..(n - 1) /\ q \in Nat /\ i <= q /\ q < run[k].start
    BY <1>1
  <2>2. PICK m \in 0..(r - 1) : In(run, m, q) /\ run[m].c = a[q]
    BY <2>1, RunOf
  <2>3. m \in RunsFor(run, r, c)
    BY <1>2, <2>2 DEF RunsFor
  <2>4. ~(run[k].start <= q) /\ run[m].end \in Nat /\ q < run[m].end
    BY <1>1, <2>1, <2>2, RunBounds DEF In
  <2>5. ~(k <= m)
    BY <2>1, <2>2, <2>4, RunPlaces
  <2>6. m < k
    BY <1>1, <2>2, <2>5
  <2>7. QED
    BY <2>1, <2>3, <2>4, <2>6
<1>3. QED
  BY <1>1, <1>2, CountSame

\* Before a run there are as many c as the marks of the runs of c before it tell.
LEMMA SymbolStartIs ==
  ASSUME NEW s, NEW n, NEW a, NEW run, NEW r, NEW b, Represents(s, n, a, run, r, b),
         NEW c \in DOMAIN s.symbol, NEW k \in 0..(r - 1)
  PROVE  SymbolStart(s, BvRank(HeadsOf(s, c), k), c) = Count(a, c, run[k].start)
<1> DEFINE R == RunsFor(run, r, c)
           L == {m \in R : m < k}
<1>1. Tiled(n, a, run, r) /\ r \in Nat \ {0} /\ k \in Int
  BY DEF Represents, Tiled
<1>2. CASE L = {}
  <2>1. \A m \in R : ~(m < k)
    BY <1>2
  <2>2. BvRank(HeadsOf(s, c), k) = 0
    BY <1>1, <2>1, RankNone
  <2>3. Count(a, c, run[k].start) = Count(a, c, 0)
    <3>1. 0 \in Nat /\ 0 <= run[k].start
      BY <1>1, RunBounds
    <3>2. QED
      BY <1>1, <2>1, <3>1, NoneBetween
  <2>4. QED
    BY <2>2, <2>3, CountZero DEF SymbolStart
<1>3. CASE L # {}
  <2>1. L \in SUBSET (0..(r - 1)) /\ r - 1 \in Nat
    BY <1>1 DEF RunsFor
  <2>2. PICK m \in L : \A i \in L : i <= m
    <3> HIDE DEF L
    <3>1. QED
      BY <1>3, <2>1, Text!MaxExists
  <2>3. m \in R /\ m < k /\ m \in 0..(r - 1) /\ run[m].c = c
    BY DEF RunsFor
  <2>4. \A i \in R : ~(m < i /\ i < k)
    <3> SUFFICES ASSUME NEW i \in R, m < i, i < k PROVE FALSE
      OBVIOUS
    <3>1. i \in L /\ i \in Int /\ m \in Int
      BY <2>3 DEF RunsFor
    <3>2. i <= m
      BY <2>2, <3>1
    <3>3. QED
      BY <3>1, <3>2
  <2>5. BvRank(HeadsOf(s, c), k) = BvRank(HeadsOf(s, c), m) + 1
    BY <1>1, <2>3, <2>4, RankNext
  <2>6. BvRank(HeadsOf(s, c), m) \in Nat
    <3>1. m \in Int
      BY <2>3
    <3>2. QED
      BY <3>1, RankType
  <2> DEFINE v == Count(a, c, run[m].end - 1)
  <2>7. /\ v \in Nat /\ Count(a, c, run[m].end) = v + 1
        /\ Count(a, c, run[m].start) <= v
    BY <1>1, <2>3, MarkIs
  <2>8. BvRank(s.symbol[c].marks, v) = BvRank(HeadsOf(s, c), m)
    <3>1. v < Count(a, c, run[m].end)
      BY <2>7
    <3> HIDE DEF v
    <3>2. QED
      BY <2>3, <2>7, <3>1, MarkRank
  <2>9. BvSelect(s.symbol[c].marks, BvRank(s.symbol[c].marks, v) + 1) = v
    <3>1. v \in s.symbol[c].marks
      BY <2>3 DEF Represents
    <3>2. s.symbol[c].marks \in SUBSET Int /\ IsFiniteSet(s.symbol[c].marks)
      BY MarksFinite
    <3> HIDE DEF v
    <3>3. QED
      BY <3>1, <3>2, SelectAt
  <2>10. SymbolStart(s, BvRank(HeadsOf(s, c), k), c) = v + 1
    BY <2>5, <2>6, <2>8, <2>9 DEF SymbolStart
  <2>11. Count(a, c, run[k].start) = Count(a, c, run[m].end)
    <3>1. run[m].end <= run[k].start /\ run[m].end \in Nat
      BY <1>1, <2>3, RunBounds DEF Tiled
    <3>2. ASSUME NEW i \in R, i < k PROVE run[i].end <= run[m].end
      <4>1. i \in L /\ i \in 0..(r - 1)
        BY <3>2 DEF RunsFor
      <4>2. i <= m
        BY <2>2, <4>1
      <4>3. run[m].start \in Nat /\ run[m].start < run[m].end /\ run[i].end \in Nat
        BY <1>1, <2>3, <4>1, RunBounds
      <4>4. i < m => run[i].end <= run[m].start
        BY <1>1, <2>3, <4>1 DEF Tiled
      <4>5. i \in Int /\ m \in Int
        BY <2>3, <4>1
      <4>6. QED
        BY <3>1, <4>2, <4>3, <4>4, <4>5
    <3>3. \A i \in RunsFor(run, r, c) : i < k => run[i].end <= run[m].end
      BY <3>2
    <3> DEFINE e == run[m].end
    <3> HIDE DEF e
    <3>4. Count(a, c, run[k].start) = Count(a, c, e)
      BY <1>1, <3>1, <3>3, NoneBetween DEF e
    <3>5. QED
      BY <3>4 DEF e
  <2>12. QED
    BY <2>7, <2>10, <2>11
<1>4. QED
  BY <1>2, <1>3

\* The data of a run among the runs of its symbol.
LEMMA SymbolRunIs ==
  ASSUME NEW s, NEW n, NEW a, NEW run, NEW r, NEW b, Represents(s, n, a, run, r, b),
         NEW k \in 0..(r - 1)
  PROVE  LET d == ComputeSymbolRunData(s, k)
             c == run[k].c
         IN /\ d.rnk = BvRank(HeadsOf(s, c), k) /\ d.c = c
            /\ d.start = Count(a, c, run[k].start) /\ d.end = Count(a, c, run[k].end)
<1> DEFINE c == run[k].c
           d == ComputeSymbolRunData(s, k)
           v == Count(a, c, run[k].end - 1)
<1>1. Tiled(n, a, run, r) /\ s.heads[k] = c
  BY DEF Represents
<1>2. k \in RunsFor(run, r, c) /\ k \in Int
  BY DEF RunsFor
<1>3. c \in DOMAIN s.symbol
  <2>1. run[k].start \in Nat /\ In(run, k, run[k].start)
    BY <1>1, RunBounds DEF In
  <2>2. a[run[k].start] = c /\ run[k].start \in 0..(n - 1)
    BY <1>1, <2>1, RunIsOne
  <2> HIDE DEF c
  <2>3. QED
    BY <2>2 DEF Represents
<1> HIDE DEF c
<1>4. /\ d.rnk = BvRank(HeadsOf(s, c), k) /\ d.c = c
      /\ d.start = SymbolStart(s, BvRank(HeadsOf(s, c), k), c)
      /\ d.end = BvSelect(s.symbol[c].marks, BvRank(HeadsOf(s, c), k) + 1) + 1
  BY <1>1 DEF ComputeSymbolRunData, SymbolStart
<1>5. d.start = Count(a, c, run[k].start)
  BY <1>3, <1>4, SymbolStartIs
<1>6. /\ v \in Nat /\ Count(a, c, run[k].end) = v + 1 /\ Count(a, c, run[k].start) <= v
      /\ v < Count(a, c, run[k].end)
  BY <1>1, <1>2, MarkIs
<1>7. v \in s.symbol[c].marks
  BY <1>2, <1>3 DEF Represents
<1> HIDE DEF v
<1>8. BvRank(s.symbol[c].marks, v) = BvRank(HeadsOf(s, c), k)
  BY <1>2, <1>3, <1>6, MarkRank
<1>9. BvSelect(s.symbol[c].marks, BvRank(s.symbol[c].marks, v) + 1) = v
  <2>1. s.symbol[c].marks \in SUBSET Int /\ IsFiniteSet(s.symbol[c].marks)
    BY <1>3, MarksFinite
  <2>2. QED
    BY <1>7, <2>1, SelectAt
<1>10. d.end = Count(a, c, run[k].end)
  BY <1>4, <1>6, <1>8, <1>9
<1> HIDE DEF d
<1>11. QED
  BY <1>4, <1>5, <1>10 DEF c, d

\* The length of a run, taken from the numbering of its symbol.
LEMMA RunLengthIs ==
  ASSUME NEW s, NEW n, NEW a, NEW run, NEW r, NEW b, Represents(s, n, a, run, r, b),
         NEW k \in 0..(r - 1)
  PROVE  ComputeRunLength(s, k) = run[k].end - run[k].start
<1> DEFINE c == run[k].c
           x == Count(a, c, run[k].start)
           y == Count(a, c, run[k].end)
<1>1. Tiled(n, a, run, r)
  BY DEF Represents
<1>2. ComputeRunLength(s, k) = y - x
  BY SymbolRunIs DEF ComputeRunLength
<1>3. /\ run[k].start \in Nat /\ run[k].end \in Nat /\ run[k].start < run[k].end
      /\ run[k].end \in run[k].start .. run[k].end
  BY <1>1, RunBounds
<1>4. y = x + (IF run[k].c = c THEN run[k].end - run[k].start ELSE 0)
  BY <1>1, <1>3, CountInRun
<1>5. x \in Nat
  BY <1>3, CountAdds
<1>6. y = x + (run[k].end - run[k].start)
  BY <1>4
<1> HIDE DEF x, y
<1>7. QED
  BY <1>2, <1>3, <1>5, <1>6

\* A scan that starts at a block meets the runs of the string from there on.
LEMMA ScanIs ==
  ASSUME NEW s, NEW n, NEW a, NEW run, NEW r, NEW b, Represents(s, n, a, run, r, b),
         NEW q \in Nat, b * q \in 0..(r - 1)
  PROVE  /\ DOMAIN ScanFrom(s, q) = (b * q)..(r - 1)
         /\ \A k \in (b * q)..(r - 1) :
              ScanFrom(s, q)[k] = [rnk |-> k, c |-> run[k].c, start |-> run[k].start, end |-> run[k].end]
<1> DEFINE first == q * s.b
           S == first..(s.r - 1)
           Next1(e) == [k \in S |->
             (IF k = first THEN BlockStart(s, q) ELSE e[k - 1]) + ComputeRunLength(s, k)]
           E == CHOOSE end : end = Next1(end)
           g == [k \in S |-> run[k].end]
<1>1. /\ Tiled(n, a, run, r) /\ b \in Nat \ {0} /\ r \in Nat \ {0} /\ s.b = b /\ s.r = r
      /\ \A k \in 0..(r - 1) : s.heads[k] = run[k].c
  BY DEF Represents, Tiled
<1>2. first = b * q /\ first \in 0..(r - 1) /\ S = (b * q)..(r - 1)
  BY <1>1
<1>3. ScanFrom(s, q) =
        [k \in S |-> [rnk |-> k, c |-> s.heads[k], end |-> E[k],
                      start |-> IF k = first THEN BlockStart(s, q) ELSE E[k - 1]]]
  BY DEF ScanFrom
<1>4. BlockStart(s, q) = run[b * q].start
  BY BlockStartIs
<1>5. \A k \in S : /\ k \in 0..(r - 1) /\ k \in Nat /\ ComputeRunLength(s, k) = run[k].end - run[k].start
                   /\ run[k].end \in Nat /\ run[k].start \in Nat
                   /\ k # first => k - 1 \in S /\ run[k].start = run[k - 1].end
  <2> TAKE k \in S
  <2>1. k \in 0..(r - 1) /\ k \in Nat
    BY <1>1, <1>2
  <2>2. ComputeRunLength(s, k) = run[k].end - run[k].start
    BY <2>1, RunLengthIs
  <2>3. k # first => k - 1 \in S /\ k > 0
    BY <1>1, <1>2, <2>1
  <2>4. run[k].end \in Nat /\ run[k].start \in Nat
    BY <1>1, <2>1, RunBounds
  <2> HIDE DEF S, first
  <2>5. QED
    BY <1>1, <2>1, <2>2, <2>3, <2>4 DEF Tiled
<1> HIDE DEF first, S
<1>6. g = Next1(g)
  <2>1. \A k \in S : (IF k = first THEN BlockStart(s, q) ELSE g[k - 1]) + ComputeRunLength(s, k)
                        = run[k].end
    <3> TAKE k \in S
    <3>1. (IF k = first THEN BlockStart(s, q) ELSE g[k - 1]) = run[k].start
      BY <1>2, <1>4, <1>5
    <3>2. QED
      BY <1>5, <3>1
  <2>2. QED
    BY <2>1
<1>7. E = Next1(E)
  <2> HIDE DEF g
  <2>1. QED
    BY <1>6
<1> HIDE DEF E
<1>8. \A k \in S : E[k] = (IF k = first THEN BlockStart(s, q) ELSE E[k - 1]) + ComputeRunLength(s, k)
  BY <1>7
<1>9. \A k \in S : E[k] = run[k].end
  <2> DEFINE B == {k \in S : E[k] # run[k].end}
  <2>1. SUFFICES ASSUME B # {} PROVE FALSE
    OBVIOUS
  <2>2. B \in SUBSET Nat
    BY <1>5
  <2>3. PICK k \in B : \A m \in B : k <= m
    <3> HIDE DEF B
    <3>1. QED
      BY <2>1, <2>2, Text!MinExists
  <2>4. k \in S /\ E[k] # run[k].end /\ k \in Nat
    BY <1>5
  <2>5. k # first => E[k - 1] = run[k - 1].end
    <3>1. SUFFICES ASSUME k # first PROVE k - 1 \notin B
      BY <1>5, <2>4
    <3>2. k - 1 < k
      BY <2>4
    <3> HIDE DEF B
    <3>3. QED
      BY <2>2, <2>3, <3>2
  <2>6. (IF k = first THEN BlockStart(s, q) ELSE E[k - 1]) = run[k].start
    BY <1>2, <1>4, <1>5, <2>4, <2>5
  <2>7. E[k] = run[k].start + ComputeRunLength(s, k)
    BY <1>8, <2>4, <2>6
  <2>8. QED
    BY <1>5, <2>4, <2>7
<1>10. ASSUME NEW k \in S
       PROVE  ScanFrom(s, q)[k] = [rnk |-> k, c |-> run[k].c, start |-> run[k].start, end |-> run[k].end]
  <2>1. s.heads[k] = run[k].c /\ E[k] = run[k].end
    BY <1>1, <1>5, <1>9
  <2>2. (IF k = first THEN BlockStart(s, q) ELSE E[k - 1]) = run[k].start
    BY <1>2, <1>4, <1>5, <1>9
  <2>3. QED
    BY <1>3, <2>1, <2>2
<1>11. DOMAIN ScanFrom(s, q) = S
  BY <1>3
<1>12. QED
  BY <1>2, <1>10, <1>11

-----------------------------------------------------------------------------
(* The scan from the block of a position. *)

RunRecord(run, k) == [rnk |-> k, c |-> run[k].c, start |-> run[k].start, end |-> run[k].end]

\* The scan for a position starts at its run or before.
LEMMA ScanAround ==
  ASSUME NEW s, NEW n, NEW a, NEW run, NEW r, NEW b, Represents(s, n, a, run, r, b),
         NEW p \in Nat, NEW k \in 0..(r - 1), In(run, k, p)
  PROVE  LET scan == ScanFrom(s, BvRank(s.blockEnds, p))
         IN \E first \in 0..k : /\ DOMAIN scan = first..(r - 1)
                                /\ \A m \in first..(r - 1) : scan[m] = RunRecord(run, m)
<1> DEFINE q == k \div b
           scan == ScanFrom(s, BvRank(s.blockEnds, p))
           first == b * q
<1>1. Tiled(n, a, run, r) /\ b \in Nat \ {0} /\ r \in Nat \ {0} /\ k \in Nat
  BY DEF Represents, Tiled
<1>2. q \in Nat /\ first \in 0..k
  BY <1>1, BlockOf
<1>3. scan = ScanFrom(s, q)
  BY BlockRank
<1>4. first \in 0..(r - 1)
  <2> HIDE DEF first
  <2>1. QED
    BY <1>1, <1>2
<1> HIDE DEF q
<1>5. /\ DOMAIN ScanFrom(s, q) = first..(r - 1)
      /\ \A m \in first..(r - 1) : ScanFrom(s, q)[m] = RunRecord(run, m)
  BY <1>2, <1>4, ScanIs DEF RunRecord
<1> HIDE DEF scan, first
<1>6. QED
  BY <1>2, <1>3, <1>5 DEF scan

\* The runs of a scan that end past a position.
EndPast(scan, p) == {m \in DOMAIN scan : scan[m].end > p}

\* The first run of its scan that ends past a position is the position's run.
LEMMA FirstPast ==
  ASSUME NEW s, NEW n, NEW a, NEW run, NEW r, NEW b, Represents(s, n, a, run, r, b),
         NEW p \in Nat, NEW k \in 0..(r - 1), In(run, k, p)
  PROVE  LET scan == ScanFrom(s, BvRank(s.blockEnds, p))
         IN k \in DOMAIN scan /\ scan[k] = RunRecord(run, k) /\ Min(EndPast(scan, p)) = k
<1> DEFINE scan == ScanFrom(s, BvRank(s.blockEnds, p))
           S == EndPast(scan, p)
<1>1. Tiled(n, a, run, r) /\ r \in Nat
  BY DEF Represents, Tiled
<1>2. PICK first \in 0..k : /\ DOMAIN scan = first..(r - 1)
                            /\ \A m \in first..(r - 1) : scan[m] = RunRecord(run, m)
  BY ScanAround
<1> HIDE DEF scan
<1>3. \A m \in DOMAIN scan : m \in 0..(r - 1) /\ m \in Int /\ scan[m].end = run[m].end
  BY <1>1, <1>2 DEF RunRecord
<1>4. k \in DOMAIN scan /\ k \in Int /\ scan[k] = RunRecord(run, k)
  BY <1>1, <1>2
<1>5. k \in S
  BY <1>1, <1>3, <1>4, RunBounds DEF In, EndPast
<1>6. \A m \in S : k <= m
  <2> TAKE m \in S
  <2>1. m \in 0..(r - 1) /\ run[m].end \in Nat /\ run[m].end > p
    BY <1>1, <1>3, RunBounds DEF EndPast
  <2>2. ~(m < k)
    BY <1>1, <2>1, RunPlaces
  <2>3. QED
    BY <1>4, <2>1, <2>2
<1>7. S \in SUBSET Int
  BY <1>3 DEF EndPast
<1> HIDE DEF S
<1>8. Min(S) = k
  BY <1>5, <1>6, <1>7, MinIs
<1>9. QED
  BY <1>4, <1>8 DEF S, scan

\* rankSoftRun finds the run of a position.
LEMMA SoftRunIs ==
  ASSUME NEW s, NEW n, NEW a, NEW run, NEW r, NEW b, Represents(s, n, a, run, r, b),
         NEW p \in Nat, NEW k \in 0..(r - 1), In(run, k, p)
  PROVE  RankSoftRun(s, p) = RunRecord(run, k)
  BY FirstPast DEF RankSoftRun, EndPast

\* The older scan stops at the run of the position too, also when the position is its first:
\* there it has added whole runs up to the position and takes no step back.
LEMMA ScanToIs ==
  ASSUME NEW s, NEW n, NEW a, NEW run, NEW r, NEW b, Represents(s, n, a, run, r, b),
         NEW p \in Nat, NEW k \in 0..(r - 1), In(run, k, p)
  PROVE  ScanTo(s, p) = [run |-> k, dist |-> p - run[k].start, end |-> run[k].end - 1]
<1> DEFINE scan == ScanFrom(s, BvRank(s.blockEnds, p))
<1>1. Tiled(n, a, run, r) /\ s.r = r /\ r \in Nat \ {0}
  BY DEF Represents, Tiled
<1>2. PICK first \in 0..k : /\ DOMAIN scan = first..(r - 1)
                            /\ \A m \in first..(r - 1) : scan[m] = RunRecord(run, m)
  BY ScanAround
<1>3. ScanTo(s, p) = Landed(scan, StepBack(scan, FirstNotBefore(scan, r, p), p), p)
  BY <1>1 DEF ScanTo
<1> HIDE DEF scan
<1>4. Min(DOMAIN scan) = first
  <2>1. first \in DOMAIN scan /\ (\A m \in DOMAIN scan : first <= m) /\ DOMAIN scan \in SUBSET Int
    BY <1>1, <1>2
  <2>2. QED
    BY <2>1, MinIs
<1>5. /\ first <= k /\ first \in Nat /\ k \in Nat
      /\ run[k].start <= p /\ p < run[k].end
      /\ \A m \in 0..(r - 1) : run[m].start \in Nat /\ run[m].end \in Nat /\ run[m].start < run[m].end
  BY <1>1, RunBounds DEF In
<1>6. \A m \in first..(r - 1) : PositionAt(scan, m) = run[m].start
  <2> TAKE m \in first..(r - 1)
  <2>1. CASE m = first
    BY <1>2, <1>4, <2>1 DEF PositionAt, RunRecord
  <2>2. CASE m # first
    <3>1. m - 1 \in first..(r - 1) /\ m \in 0..(r - 1) /\ m > 0
      BY <1>1, <2>2
    <3>2. PositionAt(scan, m) = run[m - 1].end
      BY <1>2, <1>4, <2>2, <3>1 DEF PositionAt, RunRecord
    <3>3. QED
      BY <1>1, <3>1, <3>2 DEF Tiled
  <2>3. QED
    BY <2>1, <2>2
<1>7. \A m \in (first + 1)..r : PositionAt(scan, m) = run[m - 1].end
  <2> TAKE m \in (first + 1)..r
  <2>1. m - 1 \in first..(r - 1) /\ m # first
    BY <1>1, <1>5
  <2>2. QED
    BY <1>2, <1>4, <2>1 DEF PositionAt, RunRecord
<1> DEFINE S == {m \in first..r : PositionAt(scan, m) >= p}
           stop == FirstNotBefore(scan, r, p)
<1>8. stop = Min(S)
  BY <1>4 DEF FirstNotBefore
<1>9. S \in SUBSET Int
  BY <1>1
<1>10. CASE p = run[k].start
  <2>1. k \in S
    BY <1>1, <1>5, <1>6, <1>10
  <2>2. \A m \in S : k <= m
    <3> TAKE m \in S
    <3>1. SUFFICES ASSUME m < k PROVE FALSE
      BY <1>1, <1>5
    <3>2. m \in first..(r - 1) /\ m \in 0..(r - 1)
      BY <1>1, <1>5, <3>1
    <3>3. run[m].start >= p
      BY <1>6, <3>2
    <3>4. run[m].end <= run[k].start
      BY <1>1, <3>1, <3>2 DEF Tiled
    <3>5. QED
      BY <1>5, <1>10, <3>2, <3>3, <3>4
  <2> HIDE DEF S
  <2>3. stop = k
    BY <1>8, <1>9, <2>1, <2>2, MinIs
  <2>4. PositionAt(scan, stop) = p
    BY <1>5, <1>6, <1>10, <2>3
  <2>5. StepBack(scan, stop, p) = k
    BY <2>3, <2>4 DEF StepBack
  <2>6. QED
    BY <1>2, <1>3, <1>5, <2>5 DEF Landed, RunRecord
<1>11. CASE p # run[k].start
  <2>1. k + 1 \in (first + 1)..r /\ k + 1 \in first..r /\ (k + 1) - 1 = k
    BY <1>1, <1>5
  <2>2. PositionAt(scan, k + 1) = run[k].end
    BY <1>7, <2>1
  <2>3. k + 1 \in S
    BY <1>5, <2>1, <2>2
  <2>4. \A m \in S : k + 1 <= m
    <3> TAKE m \in S
    <3>1. SUFFICES ASSUME m <= k PROVE FALSE
      BY <1>1, <1>5
    <3>2. m \in first..(r - 1) /\ m \in 0..(r - 1)
      BY <1>1, <1>5, <3>1
    <3>3. run[m].start >= p
      BY <1>6, <3>2
    <3>4. m < k => run[m].end <= run[k].start
      BY <1>1, <3>2 DEF Tiled
    <3>5. QED
      BY <1>5, <1>11, <3>1, <3>2, <3>3, <3>4
  <2> HIDE DEF S
  <2>5. stop = k + 1
    BY <1>8, <1>9, <2>3, <2>4, MinIs
  <2>6. StepBack(scan, stop, p) = k
    BY <1>5, <2>1, <2>2, <2>5 DEF StepBack
  <2>7. QED
    BY <1>2, <1>3, <1>5, <2>6 DEF Landed, RunRecord
<1>12. QED
  BY <1>10, <1>11

-----------------------------------------------------------------------------
(* Access, rank and select.                                                *)

\* Access gives the symbol of the position.
LEMMA AtIs ==
  ASSUME NEW s, NEW n, NEW a, NEW run, NEW r, NEW b, Represents(s, n, a, run, r, b),
         NEW p \in 0..(n - 1)
  PROVE  At(s, p) = a[p]
<1>1. Tiled(n, a, run, r) /\ n \in Nat
  BY DEF Represents, Tiled
<1>2. PICK k \in 0..(r - 1) : In(run, k, p) /\ run[k].c = a[p]
  BY <1>1, RunOf
<1>3. RankSoftRun(s, p) = RunRecord(run, k)
  <2>1. p \in Nat
    BY <1>1
  <2>2. QED
    BY <1>2, <2>1, SoftRunIs
<1>4. s.heads[k] = run[k].c
  BY DEF Represents
<1>5. QED
  BY <1>2, <1>3, <1>4 DEF At, RunRecord

\* The symbols of the string, and 0, have an entry.
LEMMA SymbolHasEntry ==
  ASSUME NEW s, NEW n, NEW a, NEW run, NEW r, NEW b, Represents(s, n, a, run, r, b),
         NEW c \in {a[p] : p \in 0..(n - 1)} \cup {0}
  PROVE  /\ c \in DOMAIN s.symbol /\ s.symbol[c].size = Count(a, c, n) /\ n \in Nat
         /\ Known(s, c) <=> Count(a, c, n) > 0
<1>1. c \in DOMAIN s.symbol
  BY DEF Represents
<1>2. s.symbol[c].size = Count(a, c, n) /\ n \in Nat
  BY <1>1 DEF Represents, Tiled
<1>3. QED
  BY <1>1, <1>2 DEF Known

\* A symbol that is not known does not occur.
LEMMA UnknownIsAbsent ==
  ASSUME NEW s, NEW n, NEW a, NEW run, NEW r, NEW b, Represents(s, n, a, run, r, b),
         NEW c \in {a[p] : p \in 0..(n - 1)} \cup {0}, ~Known(s, c)
  PROVE  /\ \A p \in 0..(n - 1) : a[p] # c
         /\ \A i \in 0..n : Count(a, c, i) = 0
<1>1. n \in Nat /\ ~(Count(a, c, n) > 0)
  BY SymbolHasEntry
<1>2. \A i \in 0..n : Count(a, c, i) = 0
  <2> TAKE i \in 0..n
  <2>1. i \in Nat /\ i <= n
    BY <1>1
  <2>2. Count(a, c, i) \in Nat /\ Count(a, c, n) \in Nat /\ Count(a, c, i) <= Count(a, c, n)
    BY <1>1, <2>1, CountAdds, CountGrows
  <2>3. QED
    BY <1>1, <2>2
<1>3. ASSUME NEW p \in 0..(n - 1), a[p] = c PROVE FALSE
  <2>1. 0 \in Nat /\ 0 <= n /\ p \in 0..(n - 1)
    BY <1>1
  <2>2. Count(a, c, 0) < Count(a, c, n)
    BY <1>1, <1>3, <2>1, CountGrows
  <2>3. QED
    BY <1>1, <2>2, CountZero
<1>4. QED
  BY <1>2, <1>3

\* Within a run, the count is that before the run and what the run adds.
LEMMA CountAt ==
  ASSUME NEW n, NEW a, NEW run, NEW r, Tiled(n, a, run, r), NEW c,
         NEW p \in Nat, NEW k \in 0..(r - 1), In(run, k, p)
  PROVE  Count(a, c, p) = Count(a, c, run[k].start)
                            + (IF run[k].c = c THEN p - run[k].start ELSE 0)
<1>1. p \in run[k].start .. run[k].end
  BY RunBounds DEF In
<1>2. QED
  BY <1>1, CountInRun

\* Both forms of rank count the symbol before the position.
LEMMA RankIs ==
  ASSUME NEW s, NEW n, NEW a, NEW run, NEW r, NEW b, Represents(s, n, a, run, r, b),
         NEW c \in {a[p] : p \in 0..(n - 1)} \cup {0}, NEW i \in 0..n
  PROVE  Rank(s, i, c) = Count(a, c, i) /\ rank(s, i, c) = Count(a, c, i)
<1>1. Tiled(n, a, run, r) /\ n \in Nat \ {0} /\ s.n = n /\ r \in Nat
  BY DEF Represents, Tiled
<1>2. /\ c \in DOMAIN s.symbol /\ s.symbol[c].size = Count(a, c, n)
      /\ Known(s, c) <=> Count(a, c, n) > 0
  BY SymbolHasEntry
<1>3. CASE ~Known(s, c)
  <2>1. Count(a, c, i) = 0
    BY <1>3, UnknownIsAbsent
  <2>2. QED
    BY <1>3, <2>1 DEF Rank, rank
<1>4. CASE Known(s, c) /\ i = n
  BY <1>1, <1>2, <1>4 DEF Rank, rank
<1>5. CASE Known(s, c) /\ i # n
  <2>1. i \in 0..(n - 1) /\ i \in Nat
    BY <1>1, <1>5
  <2>2. PICK k \in 0..(r - 1) : In(run, k, i)
    BY <1>1, <2>1, RunOf
  <2> DEFINE before == BvRank(HeadsOf(s, c), k)
             start == Count(a, c, run[k].start)
  <2>3. SymbolStart(s, before, c) = start
    BY <1>2, SymbolStartIs
  <2>4. Count(a, c, i) = start + (IF run[k].c = c THEN i - run[k].start ELSE 0)
    BY <1>1, <2>1, <2>2, CountAt
  <2>5. Rank(s, i, c) = Count(a, c, i)
    <3>1. RankSoftRun(s, i) = RunRecord(run, k)
      BY <2>1, <2>2, SoftRunIs
    <3>2. Rank(s, i, c) = SymbolStart(s, before, c) + (IF run[k].c = c THEN i - run[k].start ELSE 0)
      BY <1>1, <1>5, <3>1 DEF Rank, RunRecord
    <3>3. QED
      BY <2>3, <2>4, <3>2
  <2>6. rank(s, i, c) = Count(a, c, i)
    <3>1. ScanTo(s, i) = [run |-> k, dist |-> i - run[k].start, end |-> run[k].end - 1]
      BY <2>1, <2>2, ScanToIs
    <3>2. s.heads[k] = run[k].c
      BY DEF Represents
    <3> DEFINE tail == IF run[k].c = c THEN i - run[k].start ELSE 0
    <3>3. rank(s, i, c) = IF before = 0 THEN tail ELSE BvSelect(s.symbol[c].marks, before) + 1 + tail
      BY <1>1, <1>5, <3>1, <3>2 DEF rank
    <3>4. start = IF before = 0 THEN 0 ELSE BvSelect(s.symbol[c].marks, before) + 1
      BY <2>3 DEF SymbolStart
    <3>5. tail \in Int
      BY <1>1, <2>1, RunBounds
    <3> HIDE DEF before, start, tail
    <3>6. rank(s, i, c) = start + tail
      BY <3>3, <3>4, <3>5
    <3>7. QED
      BY <2>4, <3>6 DEF tail
  <2>7. QED
    BY <2>5, <2>6
<1>6. QED
  BY <1>3, <1>4, <1>5

\* Select finds the position that has so many of the symbol before it.
LEMMA SelectIs ==
  ASSUME NEW s, NEW n, NEW a, NEW run, NEW r, NEW b, Represents(s, n, a, run, r, b),
         NEW p \in 0..(n - 1)
  PROVE  Select(s, Count(a, a[p], p) + 1, a[p]) = p
<1> DEFINE c == a[p]
           v == Count(a, c, p)
<1>1. /\ Tiled(n, a, run, r) /\ n \in Nat \ {0} /\ r \in Nat \ {0} /\ b \in Nat \ {0}
      /\ s.b = b /\ p \in Nat
  <2>1. Tiled(n, a, run, r) /\ n \in Nat \ {0} /\ r \in Nat \ {0} /\ b \in Nat \ {0} /\ s.b = b
    BY DEF Represents, Tiled
  <2>2. QED
    BY <2>1
<1>2. PICK k \in 0..(r - 1) : In(run, k, p) /\ run[k].c = c
  BY <1>1, RunOf
<1>3. c \in DOMAIN s.symbol
  BY DEF Represents
<1> HIDE DEF c
<1>4. /\ run[k].start \in Nat /\ run[k].end \in Nat /\ run[k].start <= p /\ p < run[k].end
      /\ k \in Nat /\ k \in Int
  BY <1>1, <1>2, RunBounds DEF In
<1>5. v = Count(a, c, run[k].start) + (p - run[k].start)
  BY <1>1, <1>2, CountAt
<1>6. /\ v \in Nat /\ Count(a, c, run[k].start) \in Nat /\ Count(a, c, run[k].end) \in Nat
      /\ Count(a, c, run[k].start) <= v /\ v < Count(a, c, run[k].end)
  <2>1. Count(a, c, run[k].start) \in Nat /\ v \in Nat /\ Count(a, c, run[k].end) \in Nat
    BY <1>1, <1>4, CountAdds
  <2>2. Count(a, c, run[k].end) = Count(a, c, run[k].start)
           + (IF run[k].c = c THEN run[k].end - run[k].start ELSE 0)
    <3>1. run[k].end \in run[k].start .. run[k].end
      BY <1>4
    <3>2. QED
      BY <1>1, <3>1, CountInRun
  <2>3. QED
    <3> HIDE DEF v
    <3>1. QED
      BY <1>2, <1>4, <1>5, <2>1, <2>2
<1>7. k \in RunsFor(run, r, c)
  BY <1>2 DEF RunsFor
<1> DEFINE before == BvRank(HeadsOf(s, c), k)
<1>8. BvRank(s.symbol[c].marks, v) = before
  <2> HIDE DEF v
  <2>1. QED
    BY <1>3, <1>6, <1>7, MarkRank
<1>9. SymbolStart(s, before, c) = Count(a, c, run[k].start)
  BY <1>3, SymbolStartIs
<1>10. BvSelect(HeadsOf(s, c), before + 1) = k
  <2>1. k \in HeadsOf(s, c) /\ HeadsOf(s, c) \in SUBSET Int /\ IsFiniteSet(HeadsOf(s, c))
    BY <1>7, HeadsAre
  <2>2. QED
    BY <2>1, SelectAt
<1>11. ScanFrom(s, k \div b)[k] = RunRecord(run, k)
  <2> DEFINE q == k \div b
             first == b * q
  <2>1. q \in Nat /\ first \in 0..k
    BY <1>1, <1>4, BlockOf
  <2>2. first \in 0..(r - 1) /\ k \in first..(r - 1)
    <3> HIDE DEF first
    <3>1. QED
      BY <1>1, <1>4, <2>1
  <2> HIDE DEF q
  <2>3. \A m \in (b * q)..(r - 1) : ScanFrom(s, q)[m] = RunRecord(run, m)
    BY <2>1, <2>2, ScanIs DEF RunRecord
  <2>4. QED
    BY <2>2, <2>3 DEF q
<1> HIDE DEF v, before
<1>12. Select(s, v + 1, c) = ScanFrom(s, k \div b)[k].start
            + (IF before = 0 THEN v ELSE v - (BvSelect(s.symbol[c].marks, before) + 1))
  <2>1. (v + 1) - 1 = v
    BY <1>6
  <2>2. QED
    BY <1>1, <1>8, <1>10, <2>1 DEF Select
<1>13. (IF before = 0 THEN v ELSE v - (BvSelect(s.symbol[c].marks, before) + 1))
         = v - Count(a, c, run[k].start)
  BY <1>6, <1>9 DEF SymbolStart
<1>14. QED
  BY <1>4, <1>5, <1>6, <1>11, <1>12, <1>13 DEF c, v, RunRecord

-----------------------------------------------------------------------------
(* Run data. *)

\* The runs of the symbol that start before position i, or at it within the string.
RunsUpTo(n, run, r, c, i) ==
  {k \in RunsFor(run, r, c) : run[k].start < i \/ (run[k].start = i /\ i < n)}

\* Up to a position there are the runs before its own, and that one if it has the symbol.
LEMMA RunsUpToIs ==
  ASSUME NEW s, NEW n, NEW a, NEW run, NEW r, NEW b, Represents(s, n, a, run, r, b), NEW c,
         NEW p \in Nat, p < n, NEW k \in 0..(r - 1), In(run, k, p)
  PROVE  Cardinality(RunsUpTo(n, run, r, c, p))
           = BvRank(HeadsOf(s, c), k) + (IF run[k].c = c THEN 1 ELSE 0)
<1> DEFINE H == HeadsOf(s, c)
           A == {m \in H : m < k}
           B == RunsUpTo(n, run, r, c, p)
<1>1. Tiled(n, a, run, r) /\ n \in Nat
  BY DEF Represents, Tiled
<1>2. H = RunsFor(run, r, c) /\ H \in SUBSET (0..(r - 1)) /\ H \in SUBSET Int /\ IsFiniteSet(H)
  BY HeadsAre
<1>3. \A m \in H : (run[m].start < p \/ (run[m].start = p /\ p < n)) <=> m <= k
  <2> TAKE m \in H
  <2>1. m \in 0..(r - 1)
    BY <1>2
  <2>2. run[m].start \in Nat
    BY <1>1, <2>1, RunBounds
  <2>3. run[m].start <= p <=> m <= k
    BY <1>1, <2>1, RunPlaces
  <2>4. QED
    BY <2>2, <2>3
<1>4. B = {m \in H : m <= k}
  BY <1>2, <1>3 DEF RunsUpTo
<1>5. IsFiniteSet(A) /\ Cardinality(A) \in Nat
  <2>1. A \in SUBSET H
    OBVIOUS
  <2> HIDE DEF A, H
  <2>2. IsFiniteSet(A)
    BY <1>2, <2>1, FS_Subset
  <2>3. QED
    BY <2>2, FS_CardinalityType
<1>6. k \in Int /\ (k \in H <=> run[k].c = c)
  BY <1>2 DEF RunsFor
<1>7. CASE run[k].c = c
  <2>1. B = A \cup {k} /\ k \notin A
    <3> HIDE DEF H, B
    <3>1. QED
      BY <1>2, <1>4, <1>6, <1>7
  <2>2. Cardinality(B) = Cardinality(A) + 1
    <3> HIDE DEF A, B
    <3>1. QED
      BY <1>5, <2>1, FS_AddElement
  <2>3. QED
    BY <1>7, <2>2 DEF BvRank
<1>8. CASE run[k].c # c
  <2>1. B = A
    <3> HIDE DEF H, B
    <3>1. QED
      BY <1>2, <1>4, <1>6, <1>8
  <2>2. QED
    <3>1. Cardinality(B) = Cardinality(A) + 0
      <4> HIDE DEF A, B
      <4>1. QED
        BY <1>5, <2>1
    <3>2. QED
      BY <1>8, <3>1 DEF BvRank
<1>9. QED
  BY <1>7, <1>8

\* rank with a report: the rank, the runs of the symbol met so far, and whether the
\* position is in one of them.
LEMMA ReportIs ==
  ASSUME NEW s, NEW n, NEW a, NEW run, NEW r, NEW b, Represents(s, n, a, run, r, b),
         NEW c \in {a[p] : p \in 0..(n - 1)} \cup {0}, NEW i \in 0..n
  PROVE  LET report == RankReport(s, i, c)
         IN /\ report.rank = Count(a, c, i)
            /\ report.run = Cardinality(RunsUpTo(n, run, r, c, i))
            /\ report.cover <=> i < n /\ a[i] = c
<1> DEFINE report == RankReport(s, i, c)
<1>1. Tiled(n, a, run, r) /\ n \in Nat \ {0} /\ s.n = n /\ r \in Nat
  BY DEF Represents, Tiled
<1>2. /\ c \in DOMAIN s.symbol /\ s.symbol[c].size = Count(a, c, n)
      /\ Known(s, c) <=> Count(a, c, n) > 0
  BY SymbolHasEntry
<1>3. CASE ~Known(s, c)
  <2>1. Count(a, c, i) = 0 /\ \A p \in 0..(n - 1) : a[p] # c
    BY <1>3, UnknownIsAbsent
  <2>2. RunsFor(run, r, c) = {}
    <3>1. SUFFICES ASSUME NEW k \in 0..(r - 1), run[k].c = c PROVE FALSE
      BY DEF RunsFor
    <3>2. run[k].start \in Nat /\ In(run, k, run[k].start)
      BY <1>1, RunBounds DEF In
    <3>3. a[run[k].start] = c /\ run[k].start \in 0..(n - 1)
      BY <1>1, <3>1, <3>2, RunIsOne
    <3>4. QED
      BY <2>1, <3>3
  <2>3. RunsUpTo(n, run, r, c, i) = {}
    BY <2>2 DEF RunsUpTo
  <2>4. Cardinality(RunsUpTo(n, run, r, c, i)) = 0
    BY <2>3, FS_EmptySet
  <2>5. ~(i < n /\ a[i] = c)
    BY <1>1, <2>1
  <2>6. report = [rank |-> 0, run |-> 0, cover |-> FALSE]
    BY <1>3 DEF RankReport
  <2> HIDE DEF report
  <2>7. QED
    BY <2>1, <2>4, <2>5, <2>6 DEF report
<1>4. CASE Known(s, c) /\ i = n
  <2>1. RunsUpTo(n, run, r, c, i) = RunsFor(run, r, c)
    <3>1. \A k \in RunsFor(run, r, c) : run[k].start < i
      BY <1>1, <1>4, RunBounds DEF RunsFor
    <3>2. QED
      BY <3>1 DEF RunsUpTo
  <2>2. Cardinality(s.symbol[c].marks) = Cardinality(RunsFor(run, r, c))
    BY <1>2, MarksFinite
  <2>3. report = [rank |-> s.symbol[c].size, cover |-> FALSE, run |-> Cardinality(s.symbol[c].marks)]
    BY <1>1, <1>4 DEF RankReport
  <2> HIDE DEF report
  <2>4. QED
    BY <1>1, <1>2, <1>4, <2>1, <2>2, <2>3 DEF report
<1>5. CASE Known(s, c) /\ i # n
  <2>1. i \in 0..(n - 1) /\ i \in Nat /\ i < n
    BY <1>1, <1>5
  <2>2. PICK k \in 0..(r - 1) : In(run, k, i) /\ run[k].c = a[i]
    BY <1>1, <2>1, RunOf
  <2> DEFINE before == BvRank(HeadsOf(s, c), k)
             d == ComputeSymbolRunData(s, k)
  <2>3. RankSoftRun(s, i) = RunRecord(run, k)
    BY <2>1, <2>2, SoftRunIs
  <2>4. report = [rank |-> IF run[k].c = c THEN d.start + (i - run[k].start)
                                           ELSE SymbolStart(s, before, c),
                  run |-> IF run[k].c = c THEN d.rnk + 1 ELSE before,
                  cover |-> (run[k].c = c)]
    BY <1>1, <1>5, <2>3 DEF RankReport, RunRecord
  <2>5. SymbolStart(s, before, c) = Count(a, c, run[k].start)
    BY <1>2, SymbolStartIs
  <2>6. Count(a, c, i) = Count(a, c, run[k].start)
                           + (IF run[k].c = c THEN i - run[k].start ELSE 0)
    BY <1>1, <2>1, <2>2, CountAt
  <2>7. run[k].c = c => d.rnk = before /\ d.start = Count(a, c, run[k].start)
    BY SymbolRunIs
  <2>8. Cardinality(RunsUpTo(n, run, r, c, i)) = before + (IF run[k].c = c THEN 1 ELSE 0)
    BY <2>1, <2>2, RunsUpToIs
  <2>9. before \in Nat /\ Count(a, c, run[k].start) \in Nat
    <3>1. k \in Int /\ run[k].start \in Nat
      BY <1>1, RunBounds
    <3>2. QED
      BY <3>1, RankType, CountAdds
  <2> HIDE DEF before, d, report
  <2>10. report.rank = Count(a, c, i)
    BY <2>4, <2>5, <2>6, <2>7, <2>9
  <2>11. report.run = Cardinality(RunsUpTo(n, run, r, c, i))
    BY <2>4, <2>7, <2>8, <2>9
  <2>12. report.cover <=> i < n /\ a[i] = c
    BY <2>1, <2>2, <2>4
  <2>13. QED
    BY <2>10, <2>11, <2>12 DEF report
<1>6. QED
  BY <1>3, <1>4, <1>5

\* The run of a position is found by its number, in the string and among its symbol's.
LEMMA RunDataAt ==
  ASSUME NEW s, NEW n, NEW a, NEW run, NEW r, NEW b, Represents(s, n, a, run, r, b),
         NEW p \in Nat, NEW k \in 0..(r - 1), In(run, k, p)
  PROVE  LET report == RankAt(s, p)
         IN /\ report.run = k /\ report.start = run[k].start /\ report.end = run[k].end
            /\ report.rank = Count(a, a[p], p)
            /\ SelectOnRuns(s, report.symbolRun + 1, a[p]) = k
            /\ run_of(s, p) = <<k, run[k].end - 1>>
            /\ run_of_position(s, p) = k
<1> DEFINE report == RankAt(s, p)
           c == run[k].c
           d == ComputeSymbolRunData(s, k)
<1>1. Tiled(n, a, run, r) /\ n \in Nat
  BY DEF Represents, Tiled
<1>2. a[p] = c
  BY <1>1, RunIsOne
<1>3. RankSoftRun(s, p) = RunRecord(run, k)
  BY SoftRunIs
<1>4. report = [rank |-> d.start + (p - run[k].start), c |-> c, run |-> k,
                start |-> run[k].start, end |-> run[k].end, symbolRun |-> d.rnk]
  BY <1>3 DEF RankAt, RunRecord
<1>5. d.rnk = BvRank(HeadsOf(s, c), k) /\ d.start = Count(a, c, run[k].start)
  BY SymbolRunIs
<1>6. Count(a, c, p) = Count(a, c, run[k].start) + (p - run[k].start)
  BY <1>1, CountAt
<1>7. SelectOnRuns(s, d.rnk + 1, c) = k
  <2>1. k \in HeadsOf(s, c) /\ HeadsOf(s, c) \in SUBSET Int /\ IsFiniteSet(HeadsOf(s, c))
    BY HeadsAre DEF RunsFor
  <2>2. BvSelect(HeadsOf(s, c), BvRank(HeadsOf(s, c), k) + 1) = k
    BY <2>1, SelectAt
  <2>3. QED
    BY <1>5, <2>2 DEF SelectOnRuns
<1>8. ScanTo(s, p) = [run |-> k, dist |-> p - run[k].start, end |-> run[k].end - 1]
  BY ScanToIs
<1>9. run_of(s, p) = <<k, run[k].end - 1>> /\ run_of_position(s, p) = k
  BY <1>8 DEF run_of, run_of_position
<1> HIDE DEF report, c, d
<1>10. QED
  BY <1>2, <1>4, <1>5, <1>6, <1>7, <1>9 DEF report, c

\* The bounds of a run, found by its number.
LEMMA RunRangeIs ==
  ASSUME NEW s, NEW n, NEW a, NEW run, NEW r, NEW b, Represents(s, n, a, run, r, b),
         NEW k \in 0..(r - 1)
  PROVE  /\ ScanFrom(s, k \div s.b)[k] = RunRecord(run, k)
         /\ run_range(s, k) = <<run[k].start, run[k].end - 1>>
<1> DEFINE q == k \div b
           first == b * q
<1>1. Tiled(n, a, run, r) /\ r \in Nat \ {0} /\ b \in Nat \ {0} /\ s.b = b
  BY DEF Represents, Tiled
<1>2. k \in Nat
  BY <1>1
<1>3. q \in Nat /\ first \in 0..k
  BY <1>1, <1>2, BlockOf
<1>4. first \in 0..(r - 1) /\ k \in first..(r - 1)
  <2> HIDE DEF first
  <2>1. QED
    BY <1>1, <1>2, <1>3
<1> HIDE DEF q
<1>5. \A m \in (b * q)..(r - 1) : ScanFrom(s, q)[m] = RunRecord(run, m)
  BY <1>3, <1>4, ScanIs DEF RunRecord
<1>6. ScanFrom(s, k \div s.b)[k] = RunRecord(run, k)
  BY <1>1, <1>4, <1>5 DEF q
<1>7. QED
  BY <1>6 DEF run_range, RunRecord

-----------------------------------------------------------------------------
(* Ranges of positions. *)

\* The runs that have positions of a range, and a run cut to it.
RunsIn(run, r, l, last) == {i \in 0..(r - 1) : run[i].start <= last /\ l < run[i].end}
Cut(run, l, last, i) == <<Max({l, run[i].start}), Min({last, run[i].end - 1})>>

\* They are those from the run of the first position to the run of the last.
LEMMA RunsInIs ==
  ASSUME NEW n, NEW a, NEW run, NEW r, Tiled(n, a, run, r),
         NEW l \in Nat, NEW k \in 0..(r - 1), In(run, k, l),
         NEW last \in Nat, NEW m \in 0..(r - 1), In(run, m, last), l <= last
  PROVE  RunsIn(run, r, l, last) = k..m /\ k <= m
<1>1. r \in Nat /\ k \in Nat /\ m \in Nat /\ k <= r - 1 /\ m <= r - 1
  BY DEF Tiled
<1>2. \A i \in 0..(r - 1) : (run[i].start <= last /\ l < run[i].end) <=> i \in k..m
  <2> TAKE i \in 0..(r - 1)
  <2>1. run[i].start <= last <=> i <= m
    BY RunPlaces
  <2>2. run[i].end <= l <=> i < k
    BY RunPlaces
  <2>3. run[i].end \in Nat /\ i \in Int
    BY <1>1, RunBounds
  <2>4. QED
    BY <1>1, <2>1, <2>2, <2>3
<1>3. k..m \in SUBSET (0..(r - 1))
  BY <1>1
<1>4. k <= m
  <2>1. run[k].start <= l /\ run[k].start \in Nat
    BY RunBounds DEF In
  <2>2. run[k].start <= last
    BY <2>1
  <2>3. QED
    BY <2>2, RunPlaces
<1>5. QED
  BY <1>2, <1>3, <1>4 DEF RunsIn

\* Cut to the range, the first run starts with it and the last one ends with it.
LEMMA CutIs ==
  ASSUME NEW n, NEW a, NEW run, NEW r, Tiled(n, a, run, r),
         NEW l \in Nat, NEW k \in 0..(r - 1), In(run, k, l),
         NEW last \in Nat, NEW m \in 0..(r - 1), In(run, m, last), l <= last,
         NEW i \in k..m
  PROVE  Cut(run, l, last, i) = <<IF i = k THEN l ELSE run[i].start,
                                  IF i = m THEN last ELSE run[i].end - 1>>
<1>1. r \in Nat /\ i \in 0..(r - 1) /\ i \in Int /\ k \in Int /\ m \in Int /\ k <= i /\ i <= m
  BY DEF Tiled
<1>2. /\ run[i].start \in Nat /\ run[i].end \in Nat /\ run[i].start < run[i].end
      /\ run[k].start \in Nat /\ run[k].end \in Nat
      /\ run[m].start \in Nat /\ run[m].end \in Nat
  BY <1>1, RunBounds
<1>3. run[k].start <= l /\ l < run[k].end /\ run[m].start <= last /\ last < run[m].end
  BY DEF In
<1>4. /\ k < i => run[k].end <= run[i].start
      /\ i < m => run[i].end <= run[m].start
  BY <1>1 DEF Tiled
<1> DEFINE x == run[i].start
           y == run[i].end - 1
<1>5. x \in Int /\ y \in Int
  BY <1>2
<1> HIDE DEF x, y
<1>6. Max({l, x}) = (IF l <= x THEN x ELSE l) /\ Min({last, y}) = (IF last <= y THEN last ELSE y)
  BY <1>5, MaxMinOfTwo
<1>7. Max({l, x}) = IF i = k THEN l ELSE x
  <2>1. CASE i = k
    BY <1>3, <1>6, <1>5, <2>1 DEF x
  <2>2. CASE i # k
    <3>1. run[k].end <= run[i].start
      BY <1>1, <1>4, <2>2
    <3>2. l <= x
      BY <1>2, <1>3, <3>1 DEF x
    <3>3. QED
      BY <1>6, <2>2, <3>2
  <2>3. QED
    BY <2>1, <2>2
<1>8. Min({last, y}) = IF i = m THEN last ELSE y
  <2>1. CASE i = m
    <3>1. last <= y
      BY <1>2, <1>3, <2>1 DEF y
    <3>2. QED
      BY <1>6, <2>1, <3>1
  <2>2. CASE i # m
    <3>1. run[i].end <= run[m].start
      BY <1>1, <1>4, <2>2
    <3>2. ~(last <= y)
      BY <1>2, <1>3, <3>1 DEF y
    <3>3. QED
      BY <1>6, <2>2, <3>2
  <2>3. QED
    BY <2>1, <2>2
<1>9. QED
  BY <1>7, <1>8 DEF Cut, x, y

\* The runs of a scan from run k on that end past a position.
EndFrom(scan, k, p) == {i \in DOMAIN scan : i >= k /\ scan[i].end > p}

\* The scan for the first position of a range meets all the runs of the range, and stops at
\* the one of its last position.
LEMMA RangeScanIs ==
  ASSUME NEW s, NEW n, NEW a, NEW run, NEW r, NEW b, Represents(s, n, a, run, r, b),
         NEW l \in Nat, NEW k \in 0..(r - 1), In(run, k, l),
         NEW last \in Nat, NEW m \in 0..(r - 1), In(run, m, last), l <= last
  PROVE  LET scan == ScanFrom(s, BvRank(s.blockEnds, l))
         IN /\ \A i \in k..m : scan[i] = RunRecord(run, i)
            /\ Min(EndFrom(scan, k, last)) = m
            /\ {i \in DOMAIN scan : i >= k /\ scan[i].end >= last + 1} = EndFrom(scan, k, last)
<1> DEFINE scan == ScanFrom(s, BvRank(s.blockEnds, l))
           S == EndFrom(scan, k, last)
<1>1. Tiled(n, a, run, r) /\ r \in Nat
  BY DEF Represents, Tiled
<1>2. PICK first \in 0..k : /\ DOMAIN scan = first..(r - 1)
                            /\ \A i \in first..(r - 1) : scan[i] = RunRecord(run, i)
  BY ScanAround
<1> HIDE DEF scan
<1>3. k <= m /\ k \in Nat /\ m \in Nat /\ first \in Nat /\ first <= k /\ m <= r - 1
  BY <1>1, RunsInIs
<1>4. \A i \in DOMAIN scan : /\ i \in 0..(r - 1) /\ i \in Int /\ scan[i].end = run[i].end
                             /\ scan[i].end \in Nat /\ (run[i].end <= last <=> i < m)
  <2> TAKE i \in DOMAIN scan
  <2>1. i \in 0..(r - 1) /\ i \in Int /\ scan[i].end = run[i].end
    BY <1>1, <1>2 DEF RunRecord
  <2>2. QED
    BY <1>1, <2>1, RunPlaces, RunBounds
<1>5. \A i \in k..m : i \in first..(r - 1)
  BY <1>1, <1>3
<1>6. m \in S
  <2>1. m \in DOMAIN scan /\ m >= k
    BY <1>2, <1>3, <1>5
  <2>2. ~(run[m].end <= last)
    BY <1>3, <1>4, <2>1
  <2>3. scan[m].end > last
    BY <1>4, <2>1, <2>2
  <2>4. QED
    BY <2>1, <2>3 DEF EndFrom
<1>7. \A i \in S : m <= i
  <2> TAKE i \in S
  <2>1. i \in DOMAIN scan /\ scan[i].end > last
    BY DEF EndFrom
  <2>2. ~(run[i].end <= last)
    BY <1>4, <2>1
  <2>3. QED
    BY <1>3, <1>4, <2>1, <2>2
<1>8. S \in SUBSET Int
  BY <1>4 DEF EndFrom
<1>9. {i \in DOMAIN scan : i >= k /\ scan[i].end >= last + 1} = S
  BY <1>4 DEF EndFrom
<1> HIDE DEF S
<1>10. Min(S) = m
  BY <1>6, <1>7, <1>8, MinIs
<1>11. QED
  BY <1>2, <1>5, <1>9, <1>10 DEF S, scan

\* splitInRuns gives the runs of the range, whole.
LEMMA SplitIs ==
  ASSUME NEW s, NEW n, NEW a, NEW run, NEW r, NEW b, Represents(s, n, a, run, r, b),
         NEW l \in Nat, NEW k \in 0..(r - 1), In(run, k, l),
         NEW last \in Nat, NEW m \in 0..(r - 1), In(run, m, last), l <= last
  PROVE  SplitInRuns(s, l, last + 1) = {RunRecord(run, i) : i \in RunsIn(run, r, l, last)}
<1> DEFINE scan == ScanFrom(s, BvRank(s.blockEnds, l))
           S == {i \in DOMAIN scan : i >= k /\ scan[i].end >= last + 1}
<1>1. RankSoftRun(s, l).rnk = k
  BY SoftRunIs DEF RunRecord
<1>2. SplitInRuns(s, l, last + 1) = {scan[i] : i \in k..Min(S)}
  BY <1>1 DEF SplitInRuns
<1>3. /\ \A i \in k..m : scan[i] = RunRecord(run, i)
      /\ Min(EndFrom(scan, k, last)) = m
      /\ S = EndFrom(scan, k, last)
  BY RangeScanIs
<1> HIDE DEF scan, S
<1>4. Min(S) = m
  BY <1>3
<1>5. RunsIn(run, r, l, last) = k..m
  <2>1. Tiled(n, a, run, r)
    BY DEF Represents
  <2>2. QED
    BY <2>1, RunsInIs
<1>6. QED
  BY <1>2, <1>3, <1>4, <1>5

\* break_in_runs gives them cut to the range.
LEMMA BreakInRunsIs ==
  ASSUME NEW s, NEW n, NEW a, NEW run, NEW r, NEW b, Represents(s, n, a, run, r, b),
         NEW l \in Nat, NEW k \in 0..(r - 1), In(run, k, l),
         NEW last \in Nat, NEW m \in 0..(r - 1), In(run, m, last), l <= last
  PROVE  break_in_runs(s, l, last) =
           {[run |-> i, c |-> run[i].c, range |-> Cut(run, l, last, i)] :
              i \in RunsIn(run, r, l, last)}
<1> DEFINE scan == ScanFrom(s, BvRank(s.blockEnds, l))
           F == EndPast(scan, l)
           S == EndFrom(scan, Min(F), last)
<1>1. break_in_runs(s, l, last) =
        {[run |-> i, c |-> scan[i].c,
          range |-> <<IF i = Min(F) THEN l ELSE scan[i].start,
                      IF i = Min(S) THEN last ELSE scan[i].end - 1>>] : i \in Min(F)..Min(S)}
  BY DEF break_in_runs, EndPast, EndFrom
<1>2. Min(F) = k
  BY FirstPast
<1>3. /\ \A i \in k..m : scan[i] = RunRecord(run, i)
      /\ Min(EndFrom(scan, k, last)) = m
  BY RangeScanIs
<1>4. Min(S) = m
  <2> HIDE DEF scan, F
  <2>1. QED
    BY <1>2, <1>3
<1> HIDE DEF scan, F, S
<1>5. Tiled(n, a, run, r)
  BY DEF Represents
<1>6. RunsIn(run, r, l, last) = k..m
  BY <1>5, RunsInIs
<1>7. \A i \in k..m : Cut(run, l, last, i) = <<IF i = k THEN l ELSE run[i].start,
                                               IF i = m THEN last ELSE run[i].end - 1>>
  <2> TAKE i \in k..m
  <2>1. QED
    BY <1>5, CutIs
<1>8. break_in_runs(s, l, last) =
        {[run |-> i, c |-> scan[i].c,
          range |-> <<IF i = k THEN l ELSE scan[i].start,
                      IF i = m THEN last ELSE scan[i].end - 1>>] : i \in k..m}
  BY <1>1, <1>2, <1>4
<1>9. \A i \in k..m : [run |-> i, c |-> scan[i].c,
                       range |-> <<IF i = k THEN l ELSE scan[i].start,
                                   IF i = m THEN last ELSE scan[i].end - 1>>]
                    = [run |-> i, c |-> run[i].c, range |-> Cut(run, l, last, i)]
  <2> TAKE i \in k..m
  <2>1. scan[i] = RunRecord(run, i)
    BY <1>3
  <2>2. scan[i].c = run[i].c /\ scan[i].start = run[i].start /\ scan[i].end = run[i].end
    BY <2>1 DEF RunRecord
  <2>3. Cut(run, l, last, i) = <<IF i = k THEN l ELSE run[i].start,
                                 IF i = m THEN last ELSE run[i].end - 1>>
    BY <1>7
  <2>4. QED
    BY <2>2, <2>3
<1> DEFINE Broken(i) == [run |-> i, c |-> scan[i].c,
                         range |-> <<IF i = k THEN l ELSE scan[i].start,
                                     IF i = m THEN last ELSE scan[i].end - 1>>]
           Given(i) == [run |-> i, c |-> run[i].c, range |-> Cut(run, l, last, i)]
<1>10. {Broken(i) : i \in k..m} = {Given(i) : i \in k..m}
  <2>1. \A i \in k..m : Broken(i) = Given(i)
    BY <1>9
  <2> HIDE DEF Broken, Given
  <2>2. QED
    BY <2>1
<1>11. QED
  BY <1>6, <1>8, <1>10

\* A rank grows past each element.
LEMMA RankGrows ==
  ASSUME NEW S \in SUBSET Int, IsFiniteSet(S), NEW x \in S, NEW y \in Int, x < y
  PROVE  BvRank(S, x) \in Nat /\ BvRank(S, y) \in Nat /\ BvRank(S, x) < BvRank(S, y)
<1> DEFINE A == {z \in S : z < x}
           B == {z \in S : z < y}
<1>1. A \in SUBSET S /\ B \in SUBSET S /\ x \in Int
  OBVIOUS
<1>2. A \cup {x} \in SUBSET B /\ x \notin A
  <2>1. \A z \in S : z < x => z < y
    BY <1>1
  <2>2. x \in B
    OBVIOUS
  <2>3. x \notin A
    BY <1>1
  <2>4. A \in SUBSET B
    BY <2>1
  <2> HIDE DEF A, B
  <2>5. QED
    BY <2>2, <2>3, <2>4
<1> HIDE DEF A, B
<1>3. IsFiniteSet(A) /\ IsFiniteSet(B) /\ Cardinality(A) \in Nat /\ Cardinality(B) \in Nat
  BY <1>1, FS_Subset, FS_CardinalityType
<1>4. Cardinality(A \cup {x}) = Cardinality(A) + 1
  BY <1>2, <1>3, FS_AddElement
<1>5. Cardinality(A \cup {x}) <= Cardinality(B)
  BY <1>2, <1>3, FS_Subset
<1>6. Cardinality(A) < Cardinality(B)
  BY <1>3, <1>4, <1>5
<1>7. QED
  BY <1>3, <1>6 DEF BvRank, A, B

\* What is selected between the ranks of two elements are the elements between them.
LEMMA SelectedBetween ==
  ASSUME NEW S \in SUBSET Int, IsFiniteSet(S), NEW x \in S, NEW y \in S
  PROVE  /\ \A j \in (BvRank(S, x) + 1)..(BvRank(S, y) - 1) :
              BvSelect(S, j + 1) \in {z \in S : x < z /\ z < y}
         /\ \A z \in S : x < z /\ z < y =>
              /\ BvRank(S, z) \in (BvRank(S, x) + 1)..(BvRank(S, y) - 1)
              /\ BvSelect(S, BvRank(S, z) + 1) = z
<1>1. /\ x \in Int /\ y \in Int /\ Cardinality(S) \in Nat
      /\ BvRank(S, x) \in 0..(Cardinality(S) - 1) /\ BvRank(S, y) \in 0..(Cardinality(S) - 1)
  BY SelectAt, FS_CardinalityType
<1>2. ASSUME NEW j \in (BvRank(S, x) + 1)..(BvRank(S, y) - 1)
      PROVE  BvSelect(S, j + 1) \in {z \in S : x < z /\ z < y}
  <2> DEFINE z == BvSelect(S, j + 1)
  <2>1. j \in 0..(Cardinality(S) - 1) /\ j \in Int /\ BvRank(S, x) < j /\ j < BvRank(S, y)
    BY <1>1, <1>2
  <2>2. z = Ascending(S)[j]
    <3>1. (j + 1) - 1 = j
      BY <2>1
    <3>2. QED
      BY <3>1 DEF BvSelect
  <2>3. z \in S /\ BvRank(S, z) = j
    BY <2>1, <2>2, AscendingAt DEF BvRank
  <2> HIDE DEF z
  <2>4. z \in Int
    BY <2>3
  <2>5. x < z
    <3>1. SUFFICES ASSUME ~(x < z) PROVE FALSE
      OBVIOUS
    <3>2. z = x \/ z < x
      BY <1>1, <2>4, <3>1
    <3>3. z < x => BvRank(S, z) < BvRank(S, x)
      BY <1>1, <2>3, RankGrows
    <3>4. QED
      BY <1>1, <2>1, <2>3, <3>2, <3>3
  <2>6. z < y
    <3>1. SUFFICES ASSUME ~(z < y) PROVE FALSE
      OBVIOUS
    <3>2. z = y \/ y < z
      BY <1>1, <2>4, <3>1
    <3>3. y < z => BvRank(S, y) < BvRank(S, z)
      BY <1>1, <2>4, RankGrows
    <3>4. QED
      BY <1>1, <2>1, <2>3, <3>2, <3>3
  <2>7. QED
    BY <2>3, <2>5, <2>6 DEF z
<1>3. ASSUME NEW z \in S, x < z, z < y
      PROVE  /\ BvRank(S, z) \in (BvRank(S, x) + 1)..(BvRank(S, y) - 1)
             /\ BvSelect(S, BvRank(S, z) + 1) = z
  <2>1. BvRank(S, z) \in 0..(Cardinality(S) - 1) /\ BvSelect(S, BvRank(S, z) + 1) = z
    BY SelectAt
  <2>2. z \in Int
    OBVIOUS
  <2>3. BvRank(S, x) < BvRank(S, z) /\ BvRank(S, z) < BvRank(S, y)
    BY <1>1, <1>3, <2>2, RankGrows
  <2>4. BvRank(S, z) \in (BvRank(S, x) + 1)..(BvRank(S, y) - 1)
    BY <1>1, <2>1, <2>3
  <2>5. QED
    BY <2>1, <2>4
<1>4. QED
  BY <1>2, <1>3

\* break_range gives the runs of the symbol in the range, cut to it.
LEMMA BreakRangeIs ==
  ASSUME NEW s, NEW n, NEW a, NEW run, NEW r, NEW b, Represents(s, n, a, run, r, b),
         NEW l \in Nat, NEW k \in 0..(r - 1), In(run, k, l),
         NEW last \in Nat, NEW m \in 0..(r - 1), In(run, m, last), l <= last,
         NEW c, run[k].c = c, run[m].c = c
  PROVE  break_range(s, l, last, c) =
           {Cut(run, l, last, i) : i \in RunsIn(run, r, l, last) \cap RunsFor(run, r, c)}
<1> DEFINE H == HeadsOf(s, c)
           B == {i \in H : k < i /\ i < m}
           Run(i) == <<run[i].start, run[i].end - 1>>
           F(i) == Cut(run, l, last, i)
           T == RunsIn(run, r, l, last) \cap RunsFor(run, r, c)
<1>1. Tiled(n, a, run, r) /\ r \in Nat
  BY DEF Represents, Tiled
<1>2. H = RunsFor(run, r, c) /\ H \in SUBSET (0..(r - 1)) /\ H \in SUBSET Int /\ IsFiniteSet(H)
  BY HeadsAre
<1>3. k \in H /\ m \in H /\ k \in Int /\ m \in Int
  BY <1>2 DEF RunsFor
<1>4. RunsIn(run, r, l, last) = k..m /\ k <= m
  BY <1>1, RunsInIs
<1>5. T = {k} \cup B \cup {m}
  <2> HIDE DEF H
  <2>1. T = {i \in H : k <= i /\ i <= m}
    BY <1>2, <1>4
  <2>2. QED
    BY <1>2, <1>3, <1>4, <2>1
<1>6. run_of(s, l) = <<k, run[k].end - 1>> /\ run_of(s, last) = <<m, run[m].end - 1>>
  BY RunDataAt
<1>7. \A i \in k..m : F(i) = <<IF i = k THEN l ELSE run[i].start,
                               IF i = m THEN last ELSE run[i].end - 1>>
  <2> TAKE i \in k..m
  <2>1. QED
    BY <1>1, CutIs
<1> DEFINE Selected(j) == run_range(s, BvSelect(H, j + 1))
           J == (BvRank(H, k) + 1)..(BvRank(H, m) - 1)
<1>8. break_range(s, l, last, c) =
        IF k = m THEN {<<l, last>>}
        ELSE {<<l, run[k].end - 1>>} \cup {Selected(j) : j \in J}
               \cup {<<Selected(BvRank(H, m))[1], last>>}
  BY <1>6 DEF break_range
<1>9. CASE k = m
  <2>1. B = {}
    <3> HIDE DEF H
    <3>1. QED
      BY <1>2, <1>9
  <2>2. T = {k}
    BY <1>5, <1>9, <2>1
  <2>3. F(k) = <<l, last>>
    <3>1. k \in k..m
      BY <1>3, <1>9
    <3> HIDE DEF F
    <3>2. QED
      BY <1>7, <1>9, <3>1
  <2> HIDE DEF T, F
  <2>4. {F(i) : i \in T} = {F(k)}
    BY <2>2
  <2>5. QED
    BY <1>8, <1>9, <2>3, <2>4 DEF F, T
<1>10. CASE k # m
  <2>1. BvSelect(H, BvRank(H, m) + 1) = m
    BY <1>2, <1>3, SelectAt
  <2>2. \A i \in H : run_range(s, i) = Run(i)
    BY <1>2, RunRangeIs
  <2>3. Selected(BvRank(H, m))[1] = run[m].start
    BY <1>3, <2>1, <2>2
  <2>4. /\ \A j \in J : BvSelect(H, j + 1) \in B
        /\ \A i \in B : BvRank(H, i) \in J /\ BvSelect(H, BvRank(H, i) + 1) = i
    BY <1>2, <1>3, SelectedBetween
  <2>5. \A i \in B : i \in H
    OBVIOUS
  <2> HIDE DEF H, B, J
  <2>6. {Selected(j) : j \in J} = {Run(i) : i \in B}
    <3>1. \A j \in J : \E i \in B : Selected(j) = Run(i)
      <4> HIDE DEF Run
      <4>1. QED
        BY <2>2, <2>4, <2>5
    <3>2. \A i \in B : \E j \in J : Selected(j) = Run(i)
      <4> HIDE DEF Run
      <4>1. QED
        BY <2>2, <2>4, <2>5
    <3> HIDE DEF Selected, Run
    <3>3. QED
      BY <3>1, <3>2
  <2>7. F(k) = <<l, run[k].end - 1>> /\ F(m) = <<run[m].start, last>>
    <3>1. k \in k..m /\ m \in k..m
      BY <1>3, <1>4
    <3> HIDE DEF F
    <3>2. QED
      BY <1>7, <1>10, <3>1
  <2>8. \A i \in B : F(i) = Run(i)
    <3> TAKE i \in B
    <3>1. i \in k..m /\ i # k /\ i # m
      BY <1>2, <1>3 DEF B
    <3> HIDE DEF F
    <3>2. QED
      BY <1>7, <3>1
  <2>9. break_range(s, l, last, c) = {F(k)} \cup {F(i) : i \in B} \cup {F(m)}
    <3>1. {Run(i) : i \in B} = {F(i) : i \in B}
      <4> HIDE DEF F, Run
      <4>1. QED
        BY <2>8
    <3> HIDE DEF F, Run, Selected
    <3>2. QED
      BY <1>8, <1>10, <2>3, <2>6, <2>7, <3>1
  <2>10. {F(i) : i \in T} = {F(k)} \cup {F(i) : i \in B} \cup {F(m)}
    <3> HIDE DEF F, T
    <3>1. QED
      BY <1>5
  <2>11. QED
    BY <2>9, <2>10
<1>11. QED
  BY <1>9, <1>10

\* closest_run_break gives the end of the first run of the range, or the first occurrence
\* of the symbol in it.
LEMMA ClosestIs ==
  ASSUME NEW s, NEW n, NEW a, NEW run, NEW r, NEW b, Represents(s, n, a, run, r, b),
         NEW l \in Nat, NEW k \in 0..(r - 1), In(run, k, l),
         NEW last \in Nat, last < n,
         NEW c, \E p \in l..last : a[p] = c
  PROVE  closest_run_break(s, l, last, c) =
           IF a[l] = c THEN run[k].end - 1 ELSE Min({p \in 0..(n - 1) : a[p] = c} \cap l..last)
<1>1. Tiled(n, a, run, r) /\ n \in Nat
  BY DEF Represents, Tiled
<1>2. s.heads[k] = run[k].c /\ a[l] = run[k].c
  BY <1>1, RunIsOne DEF Represents
<1>3. run_of(s, l)[1] = k /\ run_of_position(s, l) = k /\ run_range(s, k)[2] = run[k].end - 1
  BY RunDataAt, RunRangeIs
<1>4. closest_run_break(s, l, last, c) =
        IF a[l] = c THEN run[k].end - 1 ELSE Select(s, rank(s, l, c) + 1, c)
  BY <1>2, <1>3 DEF closest_run_break, select
<1>5. ASSUME a[l] # c
      PROVE  Select(s, rank(s, l, c) + 1, c) = Min({p \in 0..(n - 1) : a[p] = c} \cap l..last)
  <2> DEFINE S == {p \in 0..(n - 1) : a[p] = c} \cap l..last
  <2>1. S \in SUBSET Nat /\ S \in SUBSET Int
    OBVIOUS
  <2>2. S # {}
    <3>1. PICK p \in l..last : a[p] = c
      OBVIOUS
    <3>2. p \in 0..(n - 1)
      BY <1>1
    <3>3. QED
      BY <3>1, <3>2
  <2>3. PICK p \in S : \A q \in S : p <= q
    <3> HIDE DEF S
    <3>1. QED
      BY <2>1, <2>2, Text!MinExists
  <2>4. Min(S) = p
    <3> HIDE DEF S
    <3>1. QED
      BY <2>1, <2>3, MinIs
  <2>5. p \in 0..(n - 1) /\ a[p] = c /\ p \in Nat /\ l <= p /\ p <= last
    BY <2>1
  <2>6. \A q \in l..(p - 1) : a[q] # c
    <3> SUFFICES ASSUME NEW q \in l..(p - 1), a[q] = c PROVE FALSE
      OBVIOUS
    <3>1. q \in S /\ q < p /\ q \in Int
      BY <1>1, <2>5
    <3> HIDE DEF S
    <3>2. p <= q
      BY <2>3, <3>1
    <3>3. QED
      BY <2>5, <3>1, <3>2
  <2>7. Count(a, c, p) = Count(a, c, l)
    BY <2>5, <2>6, CountSame
  <2>8. rank(s, l, c) = Count(a, c, l)
    <3>1. l \in 0..n /\ c \in {a[q] : q \in 0..(n - 1)} \cup {0}
      BY <1>1, <2>5
    <3>2. QED
      BY <3>1, RankIs
  <2>9. Select(s, Count(a, a[p], p) + 1, a[p]) = p
    BY <2>5, SelectIs
  <2> HIDE DEF S
  <2>10. Select(s, rank(s, l, c) + 1, c) = Min(S)
    BY <2>4, <2>5, <2>7, <2>8, <2>9
  <2>11. QED
    BY <2>10 DEF S
<1>6. QED
  BY <1>4, <1>5

-----------------------------------------------------------------------------
(* The invariant. *)

\* The structure, once there is one, is what construction makes of the string.
IInv ==
  /\ str \in Strings
  /\ rle = None \/ \E b \in Blocks : rle = Construct(str, b)

\* It holds in every reachable state.
LEMMA Invariance == Spec => []IInv
<1>1. Init => IInv
  BY DEF Init, IInv
<1>2. IInv /\ [Next]_vars => IInv'
  <2> SUFFICES ASSUME IInv, [Next]_vars PROVE IInv'
    OBVIOUS
  <2>1. CASE Build
    BY <2>1 DEF Build, IInv
  <2>2. CASE UNCHANGED vars
    BY <2>2 DEF vars, IInv
  <2>3. QED
    BY <2>1, <2>2 DEF Next
<1>3. QED
  BY <1>1, <1>2, PTL DEF Spec

\* In a state with a structure, it stands for the string and the string's runs.
LEMMA BuiltStands ==
  ASSUME IInv, Built
  PROVE  \E s, n, a, run, r, b :
           s = rle /\ a = str /\ run = Runs /\ Represents(s, n, a, run, r, b)
<1>1. Size(str) \in Nat \ {0} /\ str \in [0..(Size(str) - 1) -> Nat]
  BY StringsAssumption DEF IInv
<1>2. PICK b \in Blocks : rle = Construct(str, b)
  BY DEF IInv, Built
<1>3. b \in Nat \ {0}
  BY BlocksAssumption
<1>4. PICK n, a : n = Size(str) /\ a = str
  OBVIOUS
<1>5. n \in Nat \ {0} /\ a \in [0..(n - 1) -> Nat]
  BY <1>1, <1>4
<1>6. Represents(Construct(a, b), n, a, RunsOf(a), Size(RunsOf(a)), b)
  BY <1>3, <1>5, ConstructIs
<1>7. rle = Construct(a, b) /\ Runs = RunsOf(a)
  BY <1>2, <1>4 DEF Runs
<1>8. QED
  BY <1>4, <1>6, <1>7

-----------------------------------------------------------------------------
(* What the structure answers, in the words of the properties. *)

\* The sets the properties speak of.
LEMMA DomainsAre ==
  ASSUME NEW s, NEW n, NEW a, NEW run, NEW r, NEW b, Represents(s, n, a, run, r, b)
  PROVE  /\ DOMAIN a = 0..(n - 1) /\ DOMAIN run = 0..(r - 1) /\ s.n = n
         /\ Tiled(n, a, run, r) /\ n \in Nat /\ r \in Nat
         /\ \A c : {k \in DOMAIN run : run[k].c = c} = RunsFor(run, r, c)
<1>1. Tiled(n, a, run, r) /\ s.n = n
  BY DEF Represents
<1>2. DOMAIN a = 0..(n - 1) /\ DOMAIN run = 0..(r - 1) /\ n \in Nat /\ r \in Nat
  BY <1>1 DEF Tiled
<1>3. QED
  BY <1>1, <1>2 DEF RunsFor

\* Access, rank and select are those of the string.
Answers(s, a) ==
  /\ \A p \in DOMAIN a : At(s, p) = a[p]
  /\ \A c \in {a[p] : p \in DOMAIN a} \cup {0} :
       LET of == {p \in DOMAIN a : a[p] = c}
       IN /\ \A i \in 0..s.n : LET before == Cardinality({p \in of : p < i})
                               IN Rank(s, i, c) = before /\ rank(s, i, c) = before
          /\ \A k \in 0..(Cardinality(of) - 1) : Select(s, k + 1, c) = Ascending(of)[k]

\* They are.
LEMMA AnswersAre ==
  ASSUME NEW s, NEW n, NEW a, NEW run, NEW r, NEW b, Represents(s, n, a, run, r, b)
  PROVE  Answers(s, a)
<1>1. DOMAIN a = 0..(n - 1) /\ s.n = n /\ n \in Nat
  BY DomainsAre
<1>2. \A p \in DOMAIN a : At(s, p) = a[p]
  BY <1>1, AtIs
<1>3. ASSUME NEW c \in {a[p] : p \in DOMAIN a} \cup {0}, NEW i \in 0..n
      PROVE  LET before == Cardinality({p \in {q \in DOMAIN a : a[q] = c} : p < i})
             IN Rank(s, i, c) = before /\ rank(s, i, c) = before
  <2>1. c \in {a[p] : p \in 0..(n - 1)} \cup {0}
    BY <1>1
  <2>2. Rank(s, i, c) = Count(a, c, i) /\ rank(s, i, c) = Count(a, c, i)
    BY <2>1, RankIs
  <2>3. Cardinality({p \in {q \in DOMAIN a : a[q] = c} : p < i}) = Count(a, c, i)
    BY <1>1, CountIsBefore
  <2>4. QED
    BY <2>2, <2>3
<1>4. ASSUME NEW c, NEW k \in 0..(Cardinality({q \in DOMAIN a : a[q] = c}) - 1)
      PROVE  Select(s, k + 1, c) = Ascending({q \in DOMAIN a : a[q] = c})[k]
  <2> DEFINE of == {q \in DOMAIN a : a[q] = c}
             p == Ascending(of)[k]
  <2>1. of \in SUBSET (0..(n - 1)) /\ of \in SUBSET Int /\ 0 \in Int /\ n - 1 \in Int
    BY <1>1
  <2>2. IsFiniteSet(of)
    <3> HIDE DEF of
    <3>1. QED
      BY <2>1, PartFinite
  <2>3. p \in of /\ Cardinality({q \in of : q < p}) = k
    <3>1. k \in 0..(Cardinality(of) - 1)
      OBVIOUS
    <3> HIDE DEF of
    <3>2. QED
      BY <2>1, <2>2, <3>1, AscendingAt
  <2>4. p \in 0..(n - 1) /\ a[p] = c /\ p \in 0..n
    <3> HIDE DEF p
    <3>1. QED
      BY <1>1, <2>3
  <2>5. Cardinality({q \in of : q < p}) = Count(a, c, p)
    <3> HIDE DEF p
    <3>1. QED
      BY <1>1, <2>4, CountIsBefore
  <2> HIDE DEF p, of
  <2>6. Select(s, Count(a, a[p], p) + 1, a[p]) = p
    BY <2>4, SelectIs
  <2>7. Select(s, k + 1, c) = p
    BY <2>3, <2>4, <2>5, <2>6
  <2>8. QED
    BY <2>7 DEF p, of
<1>5. QED
  BY <1>1, <1>2, <1>3, <1>4 DEF Answers

\* The run of a position, as RunWith chooses it.
RunHolding(run, p) == CHOOSE k \in DOMAIN run : run[k].start <= p /\ p < run[k].end

LEMMA RunHoldingIs ==
  ASSUME NEW n, NEW a, NEW run, NEW r, Tiled(n, a, run, r), NEW p \in 0..(n - 1)
  PROVE  /\ RunHolding(run, p) \in 0..(r - 1) /\ In(run, RunHolding(run, p), p)
         /\ run[RunHolding(run, p)].c = a[p] /\ p \in Nat
<1> DEFINE k == RunHolding(run, p)
<1>1. p \in Nat /\ DOMAIN run = 0..(r - 1)
  BY DEF Tiled
<1>2. PICK m \in 0..(r - 1) : In(run, m, p) /\ run[m].c = a[p]
  BY RunOf
<1>3. k \in 0..(r - 1) /\ In(run, k, p)
  BY <1>1, <1>2 DEF In, RunHolding
<1> HIDE DEF k
<1>4. k = m
  BY <1>1, <1>2, <1>3, RunIsOne
<1>5. QED
  BY <1>1, <1>2, <1>3, <1>4 DEF k

\* What rank with a report gives is right at a position.
Reported(s, a, run, c, i) ==
  LET report == RankReport(s, i, c)
  IN /\ report.rank = Cardinality({p \in {q \in DOMAIN a : a[q] = c} : p < i})
     /\ report.run = Cardinality({k \in {j \in DOMAIN run : run[j].c = c} :
                                    run[k].start < i \/ (run[k].start = i /\ i < s.n)})
     /\ report.cover <=> i < s.n /\ a[i] = c

\* It is, also for the terminator when the string has none.
LEMMA ReportsAre ==
  ASSUME NEW s, NEW n, NEW a, NEW run, NEW r, NEW b, Represents(s, n, a, run, r, b),
         NEW c \in {a[p] : p \in DOMAIN a} \cup {0}, NEW i \in 0..s.n
  PROVE  Reported(s, a, run, c, i)
<1> DEFINE report == RankReport(s, i, c)
<1>1. /\ DOMAIN a = 0..(n - 1) /\ s.n = n /\ n \in Nat
      /\ {j \in DOMAIN run : run[j].c = c} = RunsFor(run, r, c)
  BY DomainsAre
<1>2. c \in {a[p] : p \in 0..(n - 1)} \cup {0} /\ i \in 0..n
  BY <1>1
<1>3. /\ report.rank = Count(a, c, i)
      /\ report.run = Cardinality(RunsUpTo(n, run, r, c, i))
      /\ report.cover <=> i < n /\ a[i] = c
  BY <1>2, ReportIs
<1>4. Cardinality({p \in {q \in DOMAIN a : a[q] = c} : p < i}) = Count(a, c, i)
  BY <1>1, <1>2, CountIsBefore
<1>5. {k \in {j \in DOMAIN run : run[j].c = c} :
         run[k].start < i \/ (run[k].start = i /\ i < s.n)} = RunsUpTo(n, run, r, c, i)
  BY <1>1 DEF RunsUpTo
<1> HIDE DEF report
<1>6. QED
  BY <1>1, <1>3, <1>4, <1>5 DEF report, Reported

\* What the lookups of a position in run k give is right.
Located(s, a, run, p, k) ==
  LET report == RankAt(s, p)
  IN /\ report.run = k /\ report.start = run[k].start /\ report.end = run[k].end
     /\ report.rank = Cardinality({q \in {m \in DOMAIN a : a[m] = a[p]} : q < p})
     /\ SelectOnRuns(s, report.symbolRun + 1, a[p]) = k
     /\ run_of(s, p) = <<k, run[k].end - 1>>
     /\ run_of_position(s, p) = k
     /\ run_range(s, k) = <<run[k].start, run[k].end - 1>>

\* It is.
LEMMA PositionDataAre ==
  ASSUME NEW s, NEW n, NEW a, NEW run, NEW r, NEW b, Represents(s, n, a, run, r, b),
         NEW p \in DOMAIN a, NEW k, k = RunHolding(run, p)
  PROVE  Located(s, a, run, p, k)
<1> DEFINE report == RankAt(s, p)
           c == a[p]
<1>1. DOMAIN a = 0..(n - 1) /\ DOMAIN run = 0..(r - 1) /\ Tiled(n, a, run, r) /\ n \in Nat
  BY DomainsAre
<1>2. p \in 0..(n - 1) /\ p \in 0..n
  BY <1>1
<1>3. k \in 0..(r - 1) /\ In(run, k, p) /\ p \in Nat
  <2>1. Tiled(n, a, run, r) /\ p \in 0..(n - 1)
    BY <1>1, <1>2
  <2>2. QED
    BY <2>1, RunHoldingIs
<1>4. /\ report.run = k /\ report.start = run[k].start /\ report.end = run[k].end
      /\ report.rank = Count(a, a[p], p)
      /\ SelectOnRuns(s, report.symbolRun + 1, a[p]) = k
      /\ run_of(s, p) = <<k, run[k].end - 1>>
      /\ run_of_position(s, p) = k
  BY <1>3, RunDataAt
<1>5. run_range(s, k) = <<run[k].start, run[k].end - 1>>
  BY <1>3, RunRangeIs
<1>6. Cardinality({q \in {m \in DOMAIN a : a[m] = c} : q < p}) = Count(a, c, p)
  <2> HIDE DEF c
  <2>1. QED
    BY <1>1, <1>2, CountIsBefore
<1> HIDE DEF report
<1>7. QED
  BY <1>4, <1>5, <1>6 DEF report, Located

\* What the operations on a range give is right, T being the runs in it and k the first.
Split(s, a, run, l, last, T, k) ==
  /\ SplitInRuns(s, l, last + 1) = {RunRecord(run, i) : i \in T}
  /\ break_in_runs(s, l, last) =
       {[run |-> i, c |-> run[i].c, range |-> Cut(run, l, last, i)] : i \in T}
  /\ a[l] = a[last] =>
       break_range(s, l, last, a[l]) =
         {Cut(run, l, last, i) : i \in T \cap {j \in DOMAIN run : run[j].c = a[l]}}
  /\ \A c \in {a[p] : p \in l..last} :
       closest_run_break(s, l, last, c) =
         IF a[l] = c THEN run[k].end - 1
                     ELSE Min({p \in DOMAIN a : a[p] = c} \cap l..last)

\* It is.
LEMMA RangesAre ==
  ASSUME NEW s, NEW n, NEW a, NEW run, NEW r, NEW b, Represents(s, n, a, run, r, b),
         NEW l \in DOMAIN a, NEW last \in l..(s.n - 1),
         NEW T, T = {k \in DOMAIN run : run[k].start <= last /\ l < run[k].end},
         NEW k, k = RunHolding(run, l)
  PROVE  Split(s, a, run, l, last, T, k)
<1>1. /\ DOMAIN a = 0..(n - 1) /\ DOMAIN run = 0..(r - 1) /\ Tiled(n, a, run, r) /\ n \in Nat
      /\ s.n = n
      /\ \A c : {j \in DOMAIN run : run[j].c = c} = RunsFor(run, r, c)
  BY DomainsAre
<1>2. l \in 0..(n - 1) /\ last \in 0..(n - 1) /\ last \in Nat /\ l <= last /\ last < n
  BY <1>1
<1>3. k \in 0..(r - 1) /\ In(run, k, l) /\ run[k].c = a[l] /\ l \in Nat
  <2>1. Tiled(n, a, run, r) /\ l \in 0..(n - 1)
    BY <1>1, <1>2
  <2>2. QED
    BY <2>1, RunHoldingIs
<1>4. PICK m \in 0..(r - 1) : In(run, m, last) /\ run[m].c = a[last]
  <2>1. Tiled(n, a, run, r) /\ last \in 0..(n - 1)
    BY <1>1, <1>2
  <2>2. QED
    BY <2>1, RunOf
<1>5. T = RunsIn(run, r, l, last)
  BY <1>1 DEF RunsIn
<1>6. SplitInRuns(s, l, last + 1) = {RunRecord(run, i) : i \in T}
  BY <1>2, <1>3, <1>4, <1>5, SplitIs
<1>7. break_in_runs(s, l, last) =
        {[run |-> i, c |-> run[i].c, range |-> Cut(run, l, last, i)] : i \in T}
  BY <1>2, <1>3, <1>4, <1>5, BreakInRunsIs
<1>8. ASSUME a[l] = a[last]
      PROVE  break_range(s, l, last, a[l]) =
               {Cut(run, l, last, i) : i \in T \cap {j \in DOMAIN run : run[j].c = a[l]}}
  <2> DEFINE c == a[l]
  <2>1. run[k].c = c /\ run[m].c = c
    BY <1>3, <1>4, <1>8
  <2>2. {j \in DOMAIN run : run[j].c = c} = RunsFor(run, r, c)
    BY <1>1
  <2> HIDE DEF c
  <2>3. break_range(s, l, last, c) =
          {Cut(run, l, last, i) : i \in RunsIn(run, r, l, last) \cap RunsFor(run, r, c)}
    BY <1>2, <1>3, <1>4, <2>1, BreakRangeIs
  <2>4. break_range(s, l, last, c) =
          {Cut(run, l, last, i) : i \in T \cap {j \in DOMAIN run : run[j].c = c}}
    BY <1>5, <2>2, <2>3
  <2>5. QED
    BY <2>4 DEF c
<1>9. ASSUME NEW c \in {a[p] : p \in l..last}
      PROVE  closest_run_break(s, l, last, c) =
               IF a[l] = c THEN run[k].end - 1
                           ELSE Min({p \in DOMAIN a : a[p] = c} \cap l..last)
  <2>1. \E p \in l..last : a[p] = c
    OBVIOUS
  <2>2. closest_run_break(s, l, last, c) =
          IF a[l] = c THEN run[k].end - 1 ELSE Min({p \in 0..(n - 1) : a[p] = c} \cap l..last)
    <3>1. last \in Nat /\ last < n /\ l \in Nat /\ k \in 0..(r - 1) /\ In(run, k, l)
      BY <1>2, <1>3
    <3>2. QED
      BY <2>1, <3>1, ClosestIs
  <2>3. QED
    BY <1>1, <2>2
<1>10. QED
  BY <1>6, <1>7, <1>8, <1>9 DEF Split

-----------------------------------------------------------------------------
(* The properties. *)

\* Both versions answer access, rank and select as the string itself does, for every string
\* and every block size: the run lengths added from a block end lead to the right run also
\* at a block's border, and the older scan stops right on a run's end.
THEOREM RleAnswersAsTheString == Spec => []AnswersAsTheString
<1>1. IInv => AnswersAsTheString
  <2> SUFFICES ASSUME IInv, Built PROVE AnswersAsTheString
    BY DEF AnswersAsTheString
  <2>1. PICK s, n, a, run, r, b :
          s = rle /\ a = str /\ run = Runs /\ Represents(s, n, a, run, r, b)
    BY BuiltStands
  <2>2. Answers(s, a)
    BY <2>1, AnswersAre
  <2>3. /\ Positions = DOMAIN a /\ Queried = {a[p] : p \in DOMAIN a} \cup {0}
        /\ \A c : Of(c) = {p \in DOMAIN a : a[p] = c}
    BY <2>1 DEF Positions, Queried, Of
  <2>4. \A p \in Positions : At(rle, p) = str[p]
    BY <2>1, <2>2, <2>3 DEF Answers
  <2>5. ASSUME NEW c \in Queried
        PROVE  /\ \A i \in 0..rle.n : LET before == Cardinality({p \in Of(c) : p < i})
                                     IN Rank(rle, i, c) = before /\ rank(rle, i, c) = before
               /\ \A k \in 0..(Cardinality(Of(c)) - 1) :
                    Select(rle, k + 1, c) = Ascending(Of(c))[k]
    <3> DEFINE of == {p \in DOMAIN a : a[p] = c}
    <3>1. c \in {a[p] : p \in DOMAIN a} \cup {0} /\ Of(c) = of
      BY <2>3
    <3>2. /\ \A i \in 0..s.n : LET before == Cardinality({p \in of : p < i})
                              IN Rank(s, i, c) = before /\ rank(s, i, c) = before
          /\ \A k \in 0..(Cardinality(of) - 1) : Select(s, k + 1, c) = Ascending(of)[k]
      BY <2>2, <3>1 DEF Answers
    <3> HIDE DEF of
    <3>3. QED
      BY <2>1, <3>1, <3>2
  <2>6. QED
    BY <2>4, <2>5 DEF AnswersAsTheString
<1>2. QED
  BY Invariance, <1>1, PTL

\* The run data of every position are right: the rank with a report, its form for the symbol
\* at the position, the run select, and the older run lookups.
THEOREM RleRunDataIsRight == Spec => []RunDataIsRight
<1>1. IInv => RunDataIsRight
  <2> SUFFICES ASSUME IInv, Built PROVE RunDataIsRight
    BY DEF RunDataIsRight
  <2>1. PICK s, n, a, run, r, b :
          s = rle /\ a = str /\ run = Runs /\ Represents(s, n, a, run, r, b)
    BY BuiltStands
  <2>2. ASSUME NEW c \in Queried, NEW i \in 0..rle.n
        PROVE  LET report == RankReport(rle, i, c)
               IN /\ report.rank = Cardinality({p \in Of(c) : p < i})
                  /\ report.run = Cardinality({k \in RunsOfSymbol(c) : Runs[k].start < i
                                                 \/ (Runs[k].start = i /\ i < rle.n)})
                  /\ report.cover <=> i < rle.n /\ str[i] = c
    <3>1. c \in {a[p] : p \in DOMAIN a} \cup {0} /\ i \in 0..s.n
      BY <2>1 DEF Queried, Positions
    <3>2. Reported(s, a, run, c, i)
      BY <2>1, <3>1, ReportsAre
    <3>3. QED
      BY <2>1, <3>2 DEF Reported, Of, Positions, RunsOfSymbol
  <2>3. ASSUME NEW p \in Positions
        PROVE  LET k == RunWith(p)
                   report == RankAt(rle, p)
               IN /\ report.run = k /\ report.start = Runs[k].start /\ report.end = Runs[k].end
                  /\ report.rank = Cardinality({q \in Of(str[p]) : q < p})
                  /\ SelectOnRuns(rle, report.symbolRun + 1, str[p]) = k
                  /\ run_of(rle, p) = <<k, Runs[k].end - 1>>
                  /\ run_of_position(rle, p) = k
                  /\ run_range(rle, k) = <<Runs[k].start, Runs[k].end - 1>>
    <3>1. PICK k : k = RunHolding(run, p)
      OBVIOUS
    <3>2. RunWith(p) = k
      BY <2>1, <3>1 DEF RunWith, RunHolding
    <3>3. p \in DOMAIN a
      BY <2>1 DEF Positions
    <3>4. Located(s, a, run, p, k)
      BY <2>1, <3>1, <3>3, PositionDataAre
    <3>5. QED
      BY <2>1, <3>2, <3>4 DEF Located, Of, Positions
  <2>4. QED
    BY <2>2, <2>3 DEF RunDataIsRight
<1>2. QED
  BY Invariance, <1>1, PTL

\* Every range is split where the string's runs end: whole by splitInRuns, cut to the range
\* by break_in_runs, the runs of one symbol by break_range, and closest_run_break finds the
\* first change next to a symbol.
THEOREM RleRangesSplit == Spec => []RangesSplitWhereRunsEnd
<1>1. IInv => RangesSplitWhereRunsEnd
  <2> SUFFICES ASSUME IInv, Built, NEW l \in Positions, NEW last \in l..(rle.n - 1)
               PROVE  /\ SplitInRuns(rle, l, last + 1) =
                           {[rnk |-> k, c |-> Runs[k].c, start |-> Runs[k].start, end |-> Runs[k].end] :
                              k \in InRange(l, last)}
                      /\ break_in_runs(rle, l, last) =
                           {[run |-> k, c |-> Runs[k].c, range |-> Clip(l, last, k)] :
                              k \in InRange(l, last)}
                      /\ str[l] = str[last] =>
                           break_range(rle, l, last, str[l]) =
                             {Clip(l, last, k) : k \in InRange(l, last) \cap RunsOfSymbol(str[l])}
                      /\ \A c \in {str[p] : p \in l..last} :
                           closest_run_break(rle, l, last, c) =
                             IF str[l] = c THEN Runs[RunWith(l)].end - 1
                                           ELSE Min(Of(c) \cap l..last)
    BY DEF RangesSplitWhereRunsEnd
  <2>1. PICK s, n, a, run, r, b :
          s = rle /\ a = str /\ run = Runs /\ Represents(s, n, a, run, r, b)
    BY BuiltStands
  <2>2. PICK T, k : /\ T = {m \in DOMAIN run : run[m].start <= last /\ l < run[m].end}
                    /\ k = RunHolding(run, l)
    OBVIOUS
  <2>3. InRange(l, last) = T /\ RunWith(l) = k
    BY <2>1, <2>2 DEF InRange, RunWith, RunHolding
  <2>4. l \in DOMAIN a /\ last \in l..(s.n - 1)
    BY <2>1 DEF Positions
  <2>5. Split(s, a, run, l, last, T, k)
    BY <2>1, <2>2, <2>4, RangesAre
  <2>6. \A i : Clip(l, last, i) = Cut(run, l, last, i)
    BY <2>1 DEF Clip, Cut
  <2>7. SplitInRuns(rle, l, last + 1) =
          {[rnk |-> i, c |-> Runs[i].c, start |-> Runs[i].start, end |-> Runs[i].end] :
             i \in InRange(l, last)}
    BY <2>1, <2>3, <2>5 DEF Split, RunRecord
  <2>8. break_in_runs(rle, l, last) =
          {[run |-> i, c |-> Runs[i].c, range |-> Clip(l, last, i)] : i \in InRange(l, last)}
    BY <2>1, <2>3, <2>5, <2>6 DEF Split
  <2>9. str[l] = str[last] =>
          break_range(rle, l, last, str[l]) =
            {Clip(l, last, i) : i \in InRange(l, last) \cap RunsOfSymbol(str[l])}
    BY <2>1, <2>3, <2>5, <2>6 DEF Split, RunsOfSymbol
  <2>10. \A c \in {str[p] : p \in l..last} :
           closest_run_break(rle, l, last, c) =
             IF str[l] = c THEN Runs[RunWith(l)].end - 1 ELSE Min(Of(c) \cap l..last)
    BY <2>1, <2>3, <2>5 DEF Split, Of, Positions
  <2>11. QED
    BY <2>7, <2>8, <2>9, <2>10
<1>2. QED
  BY Invariance, <1>1, PTL

=============================================================================
