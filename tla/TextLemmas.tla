----------------------------- MODULE TextLemmas -----------------------------
(***************************************************************************)
(* Lemmas about what an index is built from (TextBWT), for every text:     *)
(* text positions modulo the text size, ranks by an order, the suffix      *)
(* array, the runs of the BWT and LF; and, for the queries of both         *)
(* families, about ranks, occurrences and the backward search on the data  *)
(* of an index (IndexData).                                                *)
(***************************************************************************)
EXTENDS IndexData, PsiLinks, FiniteSetTheorems, TLAPS

-----------------------------------------------------------------------------
(* Text positions modulo the text size. *)

\* A quotient and a remainder in range determine the remainder.
LEMMA ModUnique ==
  ASSUME NEW n \in Nat \ {0}, NEW a \in Int, NEW q \in Int, NEW r \in 0..(n - 1), a = n * q + r
  PROVE  a % n = r
  OBVIOUS

\* Every integer is the divisor times its quotient, plus a remainder in range.
LEMMA ModDef ==
  ASSUME NEW n \in Nat \ {0}, NEW a \in Int
  PROVE  a = n * (a \div n) + (a % n) /\ (a \div n) \in Int /\ (a % n) \in 0..(n - 1)
  OBVIOUS

\* A text position is its own remainder.
LEMMA ModSmall ==
  ASSUME NEW n \in Nat \ {0}, NEW a \in 0..(n - 1)
  PROVE  a % n = a
  OBVIOUS

\* Reducing a summand does not change the reduced sum.
LEMMA ModMod ==
  ASSUME NEW n \in Nat \ {0}, NEW a \in Int, NEW b \in Int
  PROVE  ((a % n) + b) % n = (a + b) % n
<1> DEFINE q == a \div n
           r == a % n
           p == (r + b) \div n
           s == (r + b) % n
<1>1. a = n * q + r /\ q \in Int /\ r \in 0..(n - 1)
  BY ModDef
<1>2. r + b = n * p + s /\ p \in Int /\ s \in 0..(n - 1)
  <2> HIDE DEF r
  <2>1. r + b \in Int
    BY <1>1
  <2>2. QED
    BY <2>1, ModDef
<1>3. a + b = n * (q + p) + s
  <2> HIDE DEF q, r, p, s
  <2>1. n * (q + p) = n * q + n * p
    BY <1>1, <1>2
  <2>2. QED
    BY <1>1, <1>2, <2>1
<1>4. (a + b) % n = s
  <2> HIDE DEF q, r, p, s
  <2>1. q + p \in Int /\ a + b \in Int
    BY <1>1, <1>2
  <2>2. QED
    BY <1>2, <1>3, <2>1, ModUnique
<1>5. QED
  BY <1>4

\* A common shift can be undone.
LEMMA ModCancel ==
  ASSUME NEW n \in Nat \ {0}, NEW a \in 0..(n - 1), NEW b \in 0..(n - 1), NEW d \in Int,
         (a + d) % n = (b + d) % n
  PROVE  a = b
<1>1. a + d \in Int /\ b + d \in Int /\ -d \in Int
  OBVIOUS
<1>2. (((a + d) % n) + (-d)) % n = ((a + d) + (-d)) % n
  BY <1>1, ModMod
<1>3. (((b + d) % n) + (-d)) % n = ((b + d) + (-d)) % n
  BY <1>1, ModMod
<1>4. (a + d) + (-d) = a /\ (b + d) + (-d) = b
  OBVIOUS
<1>5. a % n = b % n
  BY <1>2, <1>3, <1>4
<1>6. QED
  BY <1>5, ModSmall

-----------------------------------------------------------------------------
(* Least and greatest members. *)

\* A set of natural numbers that is not empty has a least member.
LEMMA MinExists ==
  ASSUME NEW T \in SUBSET Nat, T # {}
  PROVE  \E x \in T : \A y \in T : x <= y
<1>1. PICK x \in T : \A y \in T : ~(<<y, x>> \in OpToRel(<, Nat))
  BY NatLessThanWellFounded, WFMin
<1>2. \A y \in T : ~(y < x)
  BY <1>1 DEF OpToRel
<1>3. QED
  BY <1>2

\* A bounded set of natural numbers that is not empty has a greatest member.
LEMMA MaxExists ==
  ASSUME NEW m \in Nat, NEW T \in SUBSET (0..m), T # {}
  PROVE  \E x \in T : \A y \in T : y <= x
<1> DEFINE U == {u \in 0..m : m - u \in T}
<1>1. \A y \in T : y \in 0..m /\ m - y \in 0..m /\ m - (m - y) = y
  OBVIOUS
<1>2. U \in SUBSET Nat /\ \A y \in T : m - y \in U
  BY <1>1
<1>3. U # {}
  BY <1>2
<1>4. PICK u \in U : \A y \in U : u <= y
  BY <1>2, <1>3, MinExists
<1>5. m - u \in T /\ u \in 0..m
  BY <1>4
<1>6. \A y \in T : y <= m - u
  <2> TAKE y \in T
  <2>1. u <= m - y /\ y \in 0..m
    BY <1>1, <1>2, <1>4
  <2>2. QED
    BY <1>5, <2>1
<1>7. QED
  BY <1>5, <1>6

-----------------------------------------------------------------------------
(* Ranks by an order, and what is sorted by them. *)

\* The pairs R order the set S strictly and totally.
StrictOrder(S, R) ==
  /\ \A x \in S : <<x, x>> \notin R
  /\ \A x, y, z \in S : <<x, y>> \in R /\ <<y, z>> \in R => <<x, z>> \in R
  /\ \A x, y \in S : x = y \/ <<x, y>> \in R \/ <<y, x>> \in R

Below(S, R, x) == {y \in S : <<y, x>> \in R}
RankIn(S, R, x) == Cardinality(Below(S, R, x))

\* A rank counts fewer members than there are, and grows with the order.
LEMMA RankInOrder ==
  ASSUME NEW S, IsFiniteSet(S), NEW R, StrictOrder(S, R), NEW x \in S
  PROVE  /\ RankIn(S, R, x) \in 0..(Cardinality(S) - 1)
         /\ \A y \in S : <<x, y>> \in R => RankIn(S, R, x) < RankIn(S, R, y)
<1>1. \A y \in S : IsFiniteSet(Below(S, R, y)) /\ RankIn(S, R, y) \in Nat
  <2> TAKE y \in S
  <2>1. Below(S, R, y) \in SUBSET S
    BY DEF Below
  <2>2. QED
    BY <2>1, FS_Subset, FS_CardinalityType DEF RankIn
<1>2. ASSUME NEW U, IsFiniteSet(U), Below(S, R, x) \subseteq U, x \in U
      PROVE  RankIn(S, R, x) < Cardinality(U)
  <2>1. x \notin Below(S, R, x)
    BY DEF Below, StrictOrder
  <2>2. Below(S, R, x) # U
    BY <1>2, <2>1
  <2>3. Below(S, R, x) \in SUBSET U
    BY <1>2
  <2>4. Cardinality(Below(S, R, x)) <= Cardinality(U)
        /\ (Cardinality(Below(S, R, x)) = Cardinality(U) => Below(S, R, x) = U)
    BY <1>2, <2>3, FS_Subset
  <2>5. Cardinality(Below(S, R, x)) \in Int /\ Cardinality(U) \in Int
    BY <1>1, <1>2, FS_CardinalityType DEF RankIn
  <2>6. QED
    BY <2>2, <2>4, <2>5 DEF RankIn
<1>3. RankIn(S, R, x) < Cardinality(S)
  BY <1>2 DEF Below
<1>4. ASSUME NEW y \in S, <<x, y>> \in R
      PROVE  RankIn(S, R, x) < RankIn(S, R, y)
  <2>1. Below(S, R, x) \subseteq Below(S, R, y) /\ x \in Below(S, R, y)
    BY <1>4 DEF Below, StrictOrder
  <2>2. QED
    BY <1>1, <1>2, <2>1 DEF RankIn
<1>5. Cardinality(S) \in Nat
  BY FS_CardinalityType
<1>6. QED
  BY <1>1, <1>3, <1>4, <1>5

\* So every number below the size of the set is the rank of one member.
LEMMA RankInOnto ==
  ASSUME NEW S, IsFiniteSet(S), NEW R, StrictOrder(S, R)
  PROVE  /\ \A x, y \in S : RankIn(S, R, x) = RankIn(S, R, y) => x = y
         /\ \A x, y \in S : <<x, y>> \in R <=> RankIn(S, R, x) < RankIn(S, R, y)
         /\ \A k \in 0..(Cardinality(S) - 1) : \E x \in S : RankIn(S, R, x) = k
<1> DEFINE n == Cardinality(S)
           K == 0..(n - 1)
           f == [x \in S |-> RankIn(S, R, x)]
<1>1. \A x \in S : RankIn(S, R, x) \in K /\ \A y \in S : <<x, y>> \in R => RankIn(S, R, x) < RankIn(S, R, y)
  BY RankInOrder
<1>2. n \in Nat
  BY FS_CardinalityType
<1>3. \A x, y \in S : RankIn(S, R, x) = RankIn(S, R, y) => x = y
  <2> TAKE x, y \in S
  <2>1. RankIn(S, R, x) \in Int /\ RankIn(S, R, y) \in Int
    BY <1>1
  <2>2. <<x, y>> \in R => RankIn(S, R, x) < RankIn(S, R, y)
    BY <1>1
  <2>3. <<y, x>> \in R => RankIn(S, R, y) < RankIn(S, R, x)
    BY <1>1
  <2>4. x = y \/ <<x, y>> \in R \/ <<y, x>> \in R
    BY DEF StrictOrder
  <2>5. QED
    BY <2>1, <2>2, <2>3, <2>4
<1>4. \A x, y \in S : <<x, y>> \in R <=> RankIn(S, R, x) < RankIn(S, R, y)
  <2> TAKE x, y \in S
  <2>1. <<x, y>> \in R => RankIn(S, R, x) < RankIn(S, R, y)
    BY <1>1
  <2>2. <<y, x>> \in R => RankIn(S, R, y) < RankIn(S, R, x)
    BY <1>1
  <2>3. x = y \/ <<x, y>> \in R \/ <<y, x>> \in R
    BY DEF StrictOrder
  <2>4. RankIn(S, R, x) \in Int /\ RankIn(S, R, y) \in Int
    BY <1>1
  <2>5. QED
    BY <2>1, <2>2, <2>3, <2>4
<1>5. IsFiniteSet(K) /\ Cardinality(K) = n
  <2>1. 0 \in Int /\ n - 1 \in Int
    BY <1>2
  <2>2. IsFiniteSet(K) /\ Cardinality(K) = IF 0 > n - 1 THEN 0 ELSE (n - 1) - 0 + 1
    BY <2>1, FS_Interval
  <2>3. QED
    BY <1>2, <2>2
<1>6. f \in Injection(S, K)
  BY <1>1, <1>3 DEF Injection, IsInjective
<1>7. f \in Surjection(S, K)
  BY <1>5, <1>6, FS_Injection
<1>8. \A k \in K : \E x \in S : RankIn(S, R, x) = k
  BY <1>7 DEF Surjection
<1>9. QED
  BY <1>3, <1>4, <1>8

\* A bijection keeps the size of a finite set.
LEMMA SameSize ==
  ASSUME NEW S, NEW T, IsFiniteSet(S), NEW f \in Bijection(S, T)
  PROVE  IsFiniteSet(T) /\ Cardinality(T) = Cardinality(S)
<1>1. ExistsBijection(S, T)
  BY DEF ExistsBijection
<1>2. QED
  BY <1>1, FS_Bijection

\* An array has as many elements as its indices, which start at 0.
LEMMA SizeIs ==
  ASSUME NEW n \in Nat, NEW a, DOMAIN a = 0..(n - 1)
  PROVE  Size(a) = n
<1>1. 0 \in Int /\ n - 1 \in Int
  OBVIOUS
<1>2. Cardinality(0..(n - 1)) = IF 0 > n - 1 THEN 0 ELSE (n - 1) - 0 + 1
  BY <1>1, FS_Interval
<1>3. QED
  BY <1>2 DEF Size

\* Ascending lists each member of a set of numbers once, in increasing order, at
\* the index that counts the smaller ones.
LEMMA AscendingIs ==
  ASSUME NEW S \in SUBSET Int, IsFiniteSet(S)
  PROVE  /\ DOMAIN Ascending(S) = 0..(Cardinality(S) - 1) /\ Cardinality(S) \in Nat
         /\ Size(Ascending(S)) = Cardinality(S)
         /\ \A k \in DOMAIN Ascending(S) :
              Ascending(S)[k] \in S /\ Cardinality({y \in S : y < Ascending(S)[k]}) = k
         /\ \A k, m \in DOMAIN Ascending(S) : k < m <=> Ascending(S)[k] < Ascending(S)[m]
         /\ \A x \in S : /\ Cardinality({y \in S : y < x}) \in DOMAIN Ascending(S)
                         /\ Ascending(S)[Cardinality({y \in S : y < x})] = x
<1> DEFINE R == {xy \in S \X S : xy[1] < xy[2]}
           n == Cardinality(S)
           A == Ascending(S)
           rnk(x) == Cardinality({y \in S : y < x})
<1>1. n \in Nat
  BY FS_CardinalityType
<1>2. \A x, y \in S : <<x, y>> \in R <=> x < y
  OBVIOUS
<1>3. StrictOrder(S, R)
  <2> HIDE DEF R
  <2> QED BY <1>2 DEF StrictOrder
<1>4. \A x \in S : rnk(x) = RankIn(S, R, x)
  <2> TAKE x \in S
  <2>1. {y \in S : y < x} = Below(S, R, x)
    BY <1>2 DEF Below
  <2>2. QED
    BY <2>1 DEF RankIn
<1>5. /\ \A x, y \in S : rnk(x) = rnk(y) => x = y
      /\ \A x, y \in S : x < y <=> rnk(x) < rnk(y)
      /\ \A k \in 0..(n - 1) : \E x \in S : rnk(x) = k
      /\ \A x \in S : rnk(x) \in 0..(n - 1)
  <2> HIDE DEF R, rnk, n
  <2>1. /\ \A x, y \in S : RankIn(S, R, x) = RankIn(S, R, y) => x = y
        /\ \A x, y \in S : <<x, y>> \in R <=> RankIn(S, R, x) < RankIn(S, R, y)
        /\ \A k \in 0..(Cardinality(S) - 1) : \E x \in S : RankIn(S, R, x) = k
    BY <1>3, RankInOnto
  <2>2. \A x \in S : RankIn(S, R, x) \in 0..(Cardinality(S) - 1)
    BY <1>3, RankInOrder
  <2>3. \A x, y \in S : rnk(x) = rnk(y) => x = y
    BY <1>4, <2>1
  <2>4. \A x, y \in S : x < y <=> rnk(x) < rnk(y)
    <3> TAKE x, y \in S
    <3>1. rnk(x) = RankIn(S, R, x) /\ rnk(y) = RankIn(S, R, y)
      BY <1>4
    <3>2. <<x, y>> \in R <=> RankIn(S, R, x) < RankIn(S, R, y)
      BY <2>1
    <3>3. <<x, y>> \in R <=> x < y
      BY <1>2
    <3>4. QED
      BY <3>1, <3>2, <3>3
  <2>5. (\A k \in 0..(n - 1) : \E x \in S : rnk(x) = k) /\ \A x \in S : rnk(x) \in 0..(n - 1)
    BY <1>4, <2>1, <2>2 DEF n
  <2>6. QED
    BY <2>3, <2>4, <2>5
<1>6. DOMAIN A = 0..(n - 1) /\ \A k \in 0..(n - 1) : A[k] = CHOOSE x \in S : rnk(x) = k
  BY DEF Ascending
<1> HIDE DEF A, rnk, n, R
<1>7. \A k \in 0..(n - 1) : A[k] \in S /\ rnk(A[k]) = k
  BY <1>5, <1>6
<1>8. \A x \in S : A[rnk(x)] = x
  BY <1>5, <1>7
<1>9. \A k, m \in 0..(n - 1) : k < m <=> A[k] < A[m]
  <2> TAKE k, m \in 0..(n - 1)
  <2>1. A[k] \in S /\ A[m] \in S /\ rnk(A[k]) = k /\ rnk(A[m]) = m
    BY <1>7
  <2>2. A[k] < A[m] <=> rnk(A[k]) < rnk(A[m])
    BY <1>5, <2>1
  <2>3. QED
    BY <2>1, <2>2
<1>10. Size(A) = n
  BY <1>1, <1>6, SizeIs
<1>11. QED
  BY <1>1, <1>5, <1>6, <1>7, <1>8, <1>9, <1>10 DEF A, rnk, n

\* SortIndices lists each index of an array of distinct numbers once, in the order
\* of the numbers there.
LEMMA SortIndicesIs ==
  ASSUME NEW n \in Nat, NEW a \in [0..(n - 1) -> Int],
         \A i, j \in 0..(n - 1) : a[i] = a[j] => i = j
  PROVE  /\ SortIndices(a) \in [0..(n - 1) -> 0..(n - 1)]
         /\ \A k, m \in 0..(n - 1) : k < m <=> a[SortIndices(a)[k]] < a[SortIndices(a)[m]]
         /\ \A i \in 0..(n - 1) : \E k \in 0..(n - 1) : SortIndices(a)[k] = i
<1> DEFINE S == 0..(n - 1)
           R == {xy \in S \X S : a[xy[1]] < a[xy[2]]}
           A == SortIndices(a)
           rnk(x) == Cardinality({y \in S : a[y] < a[x]})
<1>1. IsFiniteSet(S) /\ Cardinality(S) = n
  <2>1. 0 \in Int /\ n - 1 \in Int
    OBVIOUS
  <2>2. IsFiniteSet(S) /\ Cardinality(S) = IF 0 > n - 1 THEN 0 ELSE (n - 1) - 0 + 1
    BY <2>1, FS_Interval
  <2>3. QED
    BY <2>2
<1>2. \A x, y \in S : <<x, y>> \in R <=> a[x] < a[y]
  OBVIOUS
<1>3. StrictOrder(S, R)
  <2>1. \A x \in S : a[x] \in Int
    OBVIOUS
  <2>2. \A x, y \in S : a[x] = a[y] => x = y
    OBVIOUS
  <2> HIDE DEF R, S
  <2> QED BY <1>2, <2>1, <2>2 DEF StrictOrder
<1>4. \A x \in S : rnk(x) = RankIn(S, R, x)
  <2> TAKE x \in S
  <2>1. {y \in S : a[y] < a[x]} = Below(S, R, x)
    BY <1>2 DEF Below
  <2>2. QED
    BY <2>1 DEF RankIn
<1>5. /\ \A x, y \in S : rnk(x) = rnk(y) => x = y
      /\ \A x, y \in S : a[x] < a[y] <=> rnk(x) < rnk(y)
      /\ \A k \in 0..(n - 1) : \E x \in S : rnk(x) = k
      /\ \A x \in S : rnk(x) \in 0..(n - 1)
  <2> HIDE DEF R, rnk, S
  <2>1. /\ \A x, y \in S : RankIn(S, R, x) = RankIn(S, R, y) => x = y
        /\ \A x, y \in S : <<x, y>> \in R <=> RankIn(S, R, x) < RankIn(S, R, y)
        /\ \A k \in 0..(Cardinality(S) - 1) : \E x \in S : RankIn(S, R, x) = k
    BY <1>1, <1>3, RankInOnto
  <2>2. \A x \in S : RankIn(S, R, x) \in 0..(Cardinality(S) - 1)
    BY <1>1, <1>3, RankInOrder
  <2>3. \A x, y \in S : rnk(x) = rnk(y) => x = y
    BY <1>4, <2>1
  <2>4. \A x, y \in S : a[x] < a[y] <=> rnk(x) < rnk(y)
    <3> TAKE x, y \in S
    <3>1. rnk(x) = RankIn(S, R, x) /\ rnk(y) = RankIn(S, R, y)
      BY <1>4
    <3>2. <<x, y>> \in R <=> RankIn(S, R, x) < RankIn(S, R, y)
      BY <2>1
    <3>3. <<x, y>> \in R <=> a[x] < a[y]
      BY <1>2
    <3>4. QED
      BY <3>1, <3>2, <3>3
  <2>5. (\A k \in 0..(n - 1) : \E x \in S : rnk(x) = k) /\ \A x \in S : rnk(x) \in 0..(n - 1)
    BY <1>1, <1>4, <2>1, <2>2 
  <2>6. QED
    BY <2>3, <2>4, <2>5
<1>6. DOMAIN A = S /\ \A k \in S : A[k] = CHOOSE x \in S : rnk(x) = k
  BY DEF SortIndices
<1> HIDE DEF A, rnk, R
<1>7. \A k \in S : A[k] \in S /\ rnk(A[k]) = k
  BY <1>5, <1>6
<1>8. \A x \in S : rnk(x) \in S /\ A[rnk(x)] = x
  <2> TAKE x \in S
  <2>1. rnk(x) \in S
    BY <1>5
  <2>2. A[rnk(x)] \in S /\ rnk(A[rnk(x)]) = rnk(x)
    BY <1>7, <2>1
  <2>3. QED
    BY <1>5, <2>1, <2>2
<1>9. \A k, m \in S : k < m <=> a[A[k]] < a[A[m]]
  <2> TAKE k, m \in S
  <2>1. A[k] \in S /\ A[m] \in S /\ rnk(A[k]) = k /\ rnk(A[m]) = m
    BY <1>7
  <2>2. a[A[k]] < a[A[m]] <=> rnk(A[k]) < rnk(A[m])
    BY <1>5, <2>1
  <2>3. QED
    BY <2>1, <2>2
<1>10. A \in [S -> S]
  <2>1. \A k \in DOMAIN a : SortIndices(a)[k] \in S
    BY <1>7 DEF A
  <2>2. QED
    BY <2>1 DEF A, SortIndices
<1>11. QED
  BY <1>5, <1>8, <1>9, <1>10 DEF A

\* Of increasing numbers as many are smaller than the e-th as stand before it.
LEMMA RankOfReport ==
  ASSUME NEW s, NEW m \in Nat, \A e \in 1..m : s[e] \in Int,
         \A d, e \in 1..m : d < e => s[d] < s[e], NEW e \in 1..m
  PROVE  Cardinality({x \in {s[d] : d \in 1..m} : x < s[e]}) = e - 1
<1> DEFINE B == {x \in {s[d] : d \in 1..m} : x < s[e]}
           g == [d \in 1..(e - 1) |-> s[d]]
<1>1. \A d \in 1..m : d < e \/ d = e \/ e < d
  OBVIOUS
<1>2. \A c, d \in 1..m : s[c] < s[d] <=> c < d
  <2> TAKE c, d \in 1..m
  <2>1. c < d => s[c] < s[d]
    OBVIOUS
  <2>2. d < c => s[d] < s[c]
    OBVIOUS
  <2>3. c < d \/ c = d \/ d < c
    OBVIOUS
  <2>4. s[c] \in Int /\ s[d] \in Int
    OBVIOUS
  <2>5. QED
    BY <2>1, <2>2, <2>3, <2>4
<1>3. \A d \in 1..(e - 1) : d \in 1..m /\ d < e
  OBVIOUS
<1>4. g \in [1..(e - 1) -> B]
  <2>1. \A d \in 1..(e - 1) : s[d] \in B
    BY <1>2, <1>3
  <2>2. QED
    BY <2>1
<1>5. g \in Surjection(1..(e - 1), B)
  <2>1. ASSUME NEW x \in B
        PROVE  \E d \in 1..(e - 1) : g[d] = x
    <3>1. PICK d \in 1..m : x = s[d]
      BY DEF B
    <3>2. s[d] < s[e]
      BY <3>1 DEF B
    <3>3. d < e
      BY <1>2, <3>2
    <3>4. d \in 1..(e - 1)
      BY <3>3
    <3>5. QED
      BY <3>1, <3>4
  <2>2. QED
    BY <1>4, <2>1 DEF Surjection
<1>6. g \in Injection(1..(e - 1), B)
  <2>1. ASSUME NEW c \in 1..(e - 1), NEW d \in 1..(e - 1), g[c] = g[d]
        PROVE  c = d
    <3>1. c \in 1..m /\ d \in 1..m /\ s[c] = s[d]
      BY <1>3, <2>1
    <3>2. s[c] \in Int
      BY <3>1
    <3>3. ~(s[c] < s[d]) /\ ~(s[d] < s[c])
      BY <3>1, <3>2
    <3>4. ~(c < d) /\ ~(d < c)
      BY <1>2, <3>1, <3>3
    <3>5. QED
      BY <3>1, <3>4
  <2>2. QED
    BY <1>4, <2>1 DEF Injection, IsInjective
<1>7. g \in Bijection(1..(e - 1), B)
  BY <1>5, <1>6 DEF Bijection
<1>8. IsFiniteSet(1..(e - 1)) /\ Cardinality(1..(e - 1)) = e - 1
  <2>1. 1 \in Int /\ e - 1 \in Int
    OBVIOUS
  <2>2. IsFiniteSet(1..(e - 1)) /\ Cardinality(1..(e - 1)) = IF 1 > e - 1 THEN 0 ELSE (e - 1) - 1 + 1
    BY <2>1, FS_Interval
  <2>3. QED
    BY <2>2
<1> HIDE DEF B, g
<1>9. Cardinality(B) = Cardinality(1..(e - 1))
  BY <1>7, <1>8, SameSize
<1>10. QED
  BY <1>8, <1>9 DEF B

\* idx lists the r indices of array a by increasing value.
Sorts(idx, a, r) ==
  /\ idx \in [0..(r - 1) -> 0..(r - 1)]
  /\ \A k, m \in 0..(r - 1) : k < m <=> a[idx[k]] < a[idx[m]]
  /\ \A i \in 0..(r - 1) : \E k \in 0..(r - 1) : idx[k] = i

\* sortIndices (tools.h) sorts any array of distinct values.
LEMMA SortsIs ==
  ASSUME NEW r \in Nat, NEW a \in [0..(r - 1) -> Int],
         \A i, j \in 0..(r - 1) : a[i] = a[j] => i = j
  PROVE  Sorts(SortIndices(a), a, r)
<1>1. /\ SortIndices(a) \in [0..(r - 1) -> 0..(r - 1)]
      /\ \A k, m \in 0..(r - 1) : k < m <=> a[SortIndices(a)[k]] < a[SortIndices(a)[m]]
      /\ \A i \in 0..(r - 1) : \E k \in 0..(r - 1) : SortIndices(a)[k] = i
  BY SortIndicesIs
<1>2. QED
  BY <1>1 DEF Sorts

-----------------------------------------------------------------------------
(* The suffix array. *)

\* A text of n symbols that ends with its only terminator.
Terminated(t, n) ==
  /\ n \in Nat \ {0} /\ t \in [0..(n - 1) -> Nat]
  /\ \A i \in 0..(n - 1) : t[i] = 0 <=> i = n - 1

SuffixPairs(t) == {ij \in (DOMAIN t) \X (DOMAIN t) : SuffixLess(t, ij[1], ij[2])}

\* k is the first place where suffixes i and j differ, and i has the smaller symbol.
DiffersFirst(t, i, j, k) ==
  /\ i + k \in DOMAIN t /\ j + k \in DOMAIN t
  /\ t[i + k] < t[j + k] /\ \A m \in 0..(k - 1) : t[i + m] = t[j + m]

\* Suffixes compare at the first place where they differ.
LEMMA SuffixLessIs ==
  ASSUME NEW t, NEW n, Terminated(t, n), NEW i \in 0..(n - 1), NEW j \in 0..(n - 1)
  PROVE  /\ SuffixLess(t, i, j) <=> \E k \in Nat : DiffersFirst(t, i, j, k)
         /\ <<i, j>> \in SuffixPairs(t) <=> SuffixLess(t, i, j)
<1>1. n \in Nat /\ DOMAIN t = 0..(n - 1) /\ Size(t) = n
  <2>1. n \in Nat /\ DOMAIN t = 0..(n - 1)
    BY DEF Terminated
  <2>2. QED
    BY <2>1, SizeIs
<1>2. \A k \in Nat : i + k \in DOMAIN t => k \in 0..(n - 1)
  BY <1>1
<1>3. \A k \in 0..(n - 1) : k \in Nat
  OBVIOUS
<1>4. SuffixLess(t, i, j) <=> \E k \in 0..(n - 1) : DiffersFirst(t, i, j, k)
  BY <1>1 DEF SuffixLess, DiffersFirst
<1>5. (\E k \in Nat : DiffersFirst(t, i, j, k)) <=> \E k \in 0..(n - 1) : DiffersFirst(t, i, j, k)
  BY <1>2, <1>3 DEF DiffersFirst
<1>6. <<i, j>> \in SuffixPairs(t) <=> SuffixLess(t, i, j)
  <2>1. <<i, j>> \in (DOMAIN t) \X (DOMAIN t)
    BY <1>1
  <2>2. QED
    BY <2>1 DEF SuffixPairs
<1>7. QED
  BY <1>4, <1>5, <1>6

\* Different suffixes differ somewhere: the terminator ends the shorter one.
LEMMA SuffixesDiffer ==
  ASSUME NEW t, NEW n, Terminated(t, n), NEW i \in 0..(n - 1), NEW j \in 0..(n - 1), i < j
  PROVE  SuffixLess(t, i, j) \/ SuffixLess(t, j, i)
<1>1. n \in Nat /\ n > 0 /\ DOMAIN t = 0..(n - 1) /\ \A x \in 0..(n - 1) : t[x] \in Nat
  BY DEF Terminated
<1> DEFINE T == {k \in Nat : j + k \in 0..(n - 1) /\ t[i + k] # t[j + k]}
<1>2. T # {}
  <2> DEFINE k == n - 1 - j
  <2>1. k \in Nat /\ j + k = n - 1 /\ i + k < n - 1 /\ i + k \in 0..(n - 1) /\ j + k \in 0..(n - 1)
    BY <1>1
  <2>2. t[j + k] = 0 /\ t[i + k] # 0
    <3> HIDE DEF k
    <3> QED BY <2>1 DEF Terminated
  <2> HIDE DEF k
  <2>3. QED
    BY <2>1, <2>2
<1>3. PICK k \in T : \A m \in T : k <= m
  BY <1>2, MinExists
<1>4. k \in Nat /\ j + k \in 0..(n - 1) /\ i + k \in 0..(n - 1) /\ t[i + k] # t[j + k]
  <2>1. k \in Nat /\ j + k \in 0..(n - 1) /\ t[i + k] # t[j + k]
    BY <1>3
  <2>2. i + k \in 0..(n - 1)
    BY <1>1, <2>1
  <2>3. QED
    BY <2>1, <2>2
<1>5. \A m \in 0..(k - 1) : t[i + m] = t[j + m]
  <2> TAKE m \in 0..(k - 1)
  <2>1. m \in Nat /\ m < k /\ j + m \in 0..(n - 1)
    BY <1>1, <1>4
  <2>2. m \notin T
    BY <1>3, <1>4, <2>1
  <2>3. QED
    BY <2>1, <2>2
<1>6. t[i + k] < t[j + k] \/ t[j + k] < t[i + k]
  BY <1>1, <1>4
<1>7. DiffersFirst(t, i, j, k) \/ DiffersFirst(t, j, i, k)
  BY <1>1, <1>4, <1>5, <1>6 DEF DiffersFirst
<1>8. QED
  BY <1>4, <1>7, SuffixLessIs

\* The suffixes of a text are strictly and totally ordered.
LEMMA SuffixOrder ==
  ASSUME NEW t, NEW n, Terminated(t, n)
  PROVE  StrictOrder(0..(n - 1), SuffixPairs(t))
<1>1. n \in Nat /\ n > 0 /\ DOMAIN t = 0..(n - 1) /\ \A x \in 0..(n - 1) : t[x] \in Nat
  BY DEF Terminated
<1>2. \A i \in 0..(n - 1) : <<i, i>> \notin SuffixPairs(t)
  <2> TAKE i \in 0..(n - 1)
  <2>1. \A k \in Nat : ~DiffersFirst(t, i, i, k)
    BY <1>1 DEF DiffersFirst
  <2>2. QED
    BY <2>1, SuffixLessIs
<1>3. ASSUME NEW i \in 0..(n - 1), NEW j \in 0..(n - 1), NEW l \in 0..(n - 1),
             <<i, j>> \in SuffixPairs(t), <<j, l>> \in SuffixPairs(t)
      PROVE  <<i, l>> \in SuffixPairs(t)
  <2>1. PICK a \in Nat : DiffersFirst(t, i, j, a)
    BY <1>3, SuffixLessIs
  <2>2. PICK b \in Nat : DiffersFirst(t, j, l, b)
    BY <1>3, SuffixLessIs
  <2>3. CASE a <= b
    <3>1. i + a \in 0..(n - 1) /\ j + a \in 0..(n - 1) /\ t[i + a] < t[j + a]
          /\ \A m \in 0..(a - 1) : t[i + m] = t[j + m]
      BY <1>1, <2>1 DEF DiffersFirst
    <3>2. l + a \in 0..(n - 1) /\ \A m \in 0..(a - 1) : t[j + m] = t[l + m]
      BY <1>1, <2>2, <2>3 DEF DiffersFirst
    <3>3. t[j + a] <= t[l + a]
      <4>1. CASE a = b
        BY <1>1, <2>2, <3>1, <3>2, <4>1 DEF DiffersFirst
      <4>2. CASE a < b
        <5>1. a \in 0..(b - 1)
          BY <4>2
        <5>2. t[j + a] = t[l + a]
          BY <2>2, <5>1 DEF DiffersFirst
        <5>3. t[j + a] \in Nat
          BY <1>1, <3>1
        <5>4. QED
          BY <5>2, <5>3
      <4>3. QED
        BY <2>3, <4>1, <4>2
    <3>4. t[i + a] < t[l + a]
      <4>1. t[i + a] \in Nat /\ t[j + a] \in Nat /\ t[l + a] \in Nat
        BY <1>1, <3>1, <3>2
      <4>2. QED
        BY <3>1, <3>3, <4>1
    <3>5. \A m \in 0..(a - 1) : t[i + m] = t[l + m]
      BY <3>1, <3>2
    <3>6. DiffersFirst(t, i, l, a)
      BY <1>1, <3>1, <3>2, <3>4, <3>5 DEF DiffersFirst
    <3>7. QED
      BY <3>6, SuffixLessIs
  <2>4. CASE b < a
    <3>1. j + b \in 0..(n - 1) /\ l + b \in 0..(n - 1) /\ t[j + b] < t[l + b]
          /\ \A m \in 0..(b - 1) : t[j + m] = t[l + m]
      BY <1>1, <2>2 DEF DiffersFirst
    <3>2. b \in 0..(a - 1)
      BY <2>4
    <3>3. i + b \in 0..(n - 1) /\ t[i + b] = t[j + b] /\ \A m \in 0..(b - 1) : t[i + m] = t[j + m]
      <4>1. i + a \in 0..(n - 1) /\ b < a /\ \A m \in 0..(a - 1) : t[i + m] = t[j + m]
        BY <1>1, <2>1, <3>2 DEF DiffersFirst
      <4>2. i + b \in 0..(n - 1) /\ \A m \in 0..(b - 1) : m \in 0..(a - 1)
        BY <1>1, <3>2, <4>1
      <4>3. QED
        BY <3>2, <4>1, <4>2
    <3>4. DiffersFirst(t, i, l, b)
      BY <1>1, <3>1, <3>3 DEF DiffersFirst
    <3>5. QED
      BY <3>4, SuffixLessIs
  <2>5. QED
    BY <2>3, <2>4
<1>4. ASSUME NEW i \in 0..(n - 1), NEW j \in 0..(n - 1), i # j
      PROVE  <<i, j>> \in SuffixPairs(t) \/ <<j, i>> \in SuffixPairs(t)
  <2>1. i < j \/ j < i
    BY <1>4
  <2>2. SuffixLess(t, i, j) \/ SuffixLess(t, j, i)
    BY <2>1, SuffixesDiffer
  <2>3. QED
    BY <2>2, SuffixLessIs
<1>5. QED
  BY <1>2, <1>3, <1>4 DEF StrictOrder

\* A smaller first symbol decides; behind equal ones the next suffixes do.
LEMMA SuffixStep ==
  ASSUME NEW t, NEW n, Terminated(t, n), NEW i \in 0..(n - 1), NEW j \in 0..(n - 1)
  PROVE  /\ t[i] < t[j] => SuffixLess(t, i, j)
         /\ t[i] = t[j] /\ i # n - 1 /\ j # n - 1
              => (SuffixLess(t, i, j) <=> SuffixLess(t, i + 1, j + 1))
<1>1. n \in Nat /\ n > 0 /\ DOMAIN t = 0..(n - 1) /\ \A x \in 0..(n - 1) : t[x] \in Nat
  BY DEF Terminated
<1>2. t[i] < t[j] => SuffixLess(t, i, j)
  <2>1. HAVE t[i] < t[j]
  <2>2. 0 \in Nat /\ i + 0 = i /\ j + 0 = j /\ 0..(0 - 1) = {}
    BY <1>1
  <2>3. DiffersFirst(t, i, j, 0)
    BY <1>1, <2>1, <2>2 DEF DiffersFirst
  <2>4. QED
    BY <2>2, <2>3, SuffixLessIs
<1>3. ASSUME t[i] = t[j], i # n - 1, j # n - 1
      PROVE  SuffixLess(t, i, j) <=> SuffixLess(t, i + 1, j + 1)
  <2>1. i \in Int /\ j \in Int /\ i + 1 \in 0..(n - 1) /\ j + 1 \in 0..(n - 1)
    BY <1>1, <1>3
  <2>2. ASSUME NEW k \in Nat, DiffersFirst(t, i, j, k)
        PROVE  SuffixLess(t, i + 1, j + 1)
    <3>1. k # 0
      <4>1. k = 0 => i + k = i /\ j + k = j
        BY <2>1
      <4>2. t[i] \in Nat /\ t[i + k] < t[j + k]
        BY <1>1, <2>2 DEF DiffersFirst
      <4>3. QED
        BY <1>3, <4>1, <4>2
    <3>2. k - 1 \in Nat /\ (i + 1) + (k - 1) = i + k /\ (j + 1) + (k - 1) = j + k
      BY <2>1, <3>1
    <3>3. \A m \in 0..((k - 1) - 1) : t[(i + 1) + m] = t[(j + 1) + m]
      <4> TAKE m \in 0..((k - 1) - 1)
      <4>1. m + 1 \in 0..(k - 1) /\ (i + 1) + m = i + (m + 1) /\ (j + 1) + m = j + (m + 1)
        BY <2>1
      <4>2. t[i + (m + 1)] = t[j + (m + 1)]
        BY <2>2, <4>1 DEF DiffersFirst
      <4>3. QED
        BY <4>1, <4>2
    <3>4. DiffersFirst(t, i + 1, j + 1, k - 1)
      BY <2>2, <3>2, <3>3 DEF DiffersFirst
    <3>5. QED
      BY <2>1, <3>2, <3>4, SuffixLessIs
  <2>3. ASSUME NEW k \in Nat, DiffersFirst(t, i + 1, j + 1, k)
        PROVE  SuffixLess(t, i, j)
    <3>1. k + 1 \in Nat /\ i + (k + 1) = (i + 1) + k /\ j + (k + 1) = (j + 1) + k
      BY <2>1
    <3>2. \A m \in 0..((k + 1) - 1) : t[i + m] = t[j + m]
      <4> TAKE m \in 0..((k + 1) - 1)
      <4>1. CASE m = 0
        <5>1. i + m = i /\ j + m = j
          BY <2>1, <4>1
        <5>2. QED
          BY <1>3, <5>1
      <4>2. CASE m # 0
        <5>1. m - 1 \in 0..(k - 1) /\ (i + 1) + (m - 1) = i + m /\ (j + 1) + (m - 1) = j + m
          BY <2>1, <4>2
        <5>2. t[(i + 1) + (m - 1)] = t[(j + 1) + (m - 1)]
          BY <2>3, <5>1 DEF DiffersFirst
        <5>3. QED
          BY <5>1, <5>2
      <4>3. QED
        BY <4>1, <4>2
    <3>3. DiffersFirst(t, i, j, k + 1)
      BY <2>3, <3>1, <3>2 DEF DiffersFirst
    <3>4. QED
      BY <3>1, <3>3, SuffixLessIs
  <2>4. QED
    BY <2>1, <2>2, <2>3, SuffixLessIs
<1>4. QED
  BY <1>2, <1>3

\* The suffix array holds each suffix once, at its rank.
LEMMA SuffixArrayIs ==
  ASSUME NEW t, NEW n, Terminated(t, n)
  PROVE  /\ SuffixArray(t) \in [0..(n - 1) -> 0..(n - 1)]
         /\ \A p, q \in 0..(n - 1) : SuffixArray(t)[p] = SuffixArray(t)[q] => p = q
         /\ \A p, q \in 0..(n - 1) : p < q <=> SuffixLess(t, SuffixArray(t)[p], SuffixArray(t)[q])
         /\ \A p \in 0..(n - 1) :
              Cardinality({j \in 0..(n - 1) : SuffixLess(t, j, SuffixArray(t)[p])}) = p
<1> DEFINE D == 0..(n - 1)
           rnk(i) == Cardinality({j \in D : SuffixLess(t, j, i)})
           S == SuffixArray(t)
<1>1. n \in Nat /\ n > 0 /\ DOMAIN t = D
  BY DEF Terminated
<1>2. IsFiniteSet(D) /\ Cardinality(D) = n
  <2>1. 0 \in Int /\ n - 1 \in Int
    BY <1>1
  <2>2. IsFiniteSet(D) /\ Cardinality(D) = IF 0 > n - 1 THEN 0 ELSE (n - 1) - 0 + 1
    BY <2>1, FS_Interval
  <2>3. QED
    BY <1>1, <2>2
<1>3. S = [p \in D |-> CHOOSE i \in D : [x \in D |-> rnk(x)][i] = p]
  BY <1>1 DEF SuffixArray
<1>4. \A p \in D : S[p] = CHOOSE i \in D : rnk(i) = p
  BY <1>3
<1>5. \A i \in D : rnk(i) = RankIn(D, SuffixPairs(t), i)
  <2> TAKE i \in D
  <2>1. {j \in D : SuffixLess(t, j, i)} = Below(D, SuffixPairs(t), i)
    BY SuffixLessIs DEF Below
  <2>2. QED
    BY <2>1 DEF RankIn
<1> HIDE DEF D, S, rnk
<1>6. /\ \A x, y \in D : RankIn(D, SuffixPairs(t), x) = RankIn(D, SuffixPairs(t), y) => x = y
      /\ \A x, y \in D : <<x, y>> \in SuffixPairs(t)
                           <=> RankIn(D, SuffixPairs(t), x) < RankIn(D, SuffixPairs(t), y)
      /\ \A k \in 0..(Cardinality(D) - 1) : \E x \in D : RankIn(D, SuffixPairs(t), x) = k
  <2>1. StrictOrder(D, SuffixPairs(t))
    BY SuffixOrder DEF D
  <2>2. QED
    BY <1>2, <2>1, RankInOnto
<1>7. \A p \in D : S[p] \in D /\ rnk(S[p]) = p
  <2> TAKE p \in D
  <2>1. \E x \in D : rnk(x) = p
    BY <1>2, <1>5, <1>6 DEF D
  <2>2. QED
    BY <1>4, <2>1
<1>8. \A p, q \in D : S[p] = S[q] => p = q
  BY <1>7
<1>9. \A p, q \in D : p < q <=> SuffixLess(t, S[p], S[q])
  <2> TAKE p, q \in D
  <2>1. S[p] \in D /\ S[q] \in D /\ rnk(S[p]) = p /\ rnk(S[q]) = q
    BY <1>7
  <2>2. <<S[p], S[q]>> \in SuffixPairs(t) <=> p < q
    BY <1>5, <1>6, <2>1
  <2>3. <<S[p], S[q]>> \in SuffixPairs(t) <=> SuffixLess(t, S[p], S[q])
    BY <2>1, SuffixLessIs DEF D
  <2>4. QED
    BY <2>2, <2>3
<1>10. S \in [D -> D]
  BY <1>3, <1>7
<1>11. QED
  BY <1>7, <1>8, <1>9, <1>10 DEF D, S, rnk

-----------------------------------------------------------------------------
(* The runs of a string. *)

RunHeads(b) == {p \in DOMAIN b : p = 0 \/ b[p] # b[p - 1]}
RunTails(b) == {p \in DOMAIN b : p = Size(b) - 1 \/ b[p] # b[p + 1]}

\* After every tail but the last position comes a head, and the first position
\* is one: up to any position there is a head more than there are tails before it.
LEMMA HeadsAndTails ==
  ASSUME NEW n \in Nat \ {0}, NEW b \in [0..(n - 1) -> Nat]
  PROVE  /\ RunHeads(b) \in SUBSET (0..(n - 1)) /\ RunTails(b) \in SUBSET (0..(n - 1))
         /\ IsFiniteSet(RunHeads(b)) /\ IsFiniteSet(RunTails(b))
         /\ 0 \in RunHeads(b) /\ n - 1 \in RunTails(b)
         /\ \A x \in RunTails(b) : x # n - 1 => x + 1 \in RunHeads(b)
         /\ \A x \in 0..(n - 1) : /\ Cardinality({y \in RunTails(b) : y < x}) \in Nat
                                  /\ Cardinality({y \in RunHeads(b) : y <= x})
                                       = Cardinality({y \in RunTails(b) : y < x}) + 1
         /\ Cardinality(RunTails(b)) = Cardinality(RunHeads(b))
<1> DEFINE D == 0..(n - 1)
           H == RunHeads(b)
           T == RunTails(b)
<1>1. Size(b) = n /\ DOMAIN b = D
  BY SizeIs
<1>2. H \in SUBSET D /\ T \in SUBSET D /\ 0 \in H /\ n - 1 \in T
  BY <1>1 DEF RunHeads, RunTails
<1>3. IsFiniteSet(D)
  <2>1. 0 \in Int /\ n - 1 \in Int
    OBVIOUS
  <2>2. QED
    BY <2>1, FS_Interval
<1>4. IsFiniteSet(H) /\ IsFiniteSet(T)
  BY <1>2, <1>3, FS_Subset
<1>5. \A x \in T : x # n - 1 => x + 1 \in H
  <2> TAKE x \in T
  <2>1. x \in D /\ (x # n - 1 => x + 1 \in D /\ x + 1 # 0 /\ (x + 1) - 1 = x)
    BY <1>2
  <2>2. x # n - 1 => b[x] # b[x + 1]
    BY <1>1 DEF RunTails
  <2>3. QED
    BY <1>1, <2>1, <2>2 DEF RunHeads
<1>6. \A x \in H : x # 0 => x - 1 \in T
  <2> TAKE x \in H
  <2>1. x \in D /\ (x # 0 => x - 1 \in D /\ x - 1 # n - 1 /\ (x - 1) + 1 = x)
    BY <1>2
  <2>2. x # 0 => b[x] # b[x - 1]
    BY <1>1 DEF RunHeads
  <2>3. QED
    BY <1>1, <2>1, <2>2 DEF RunTails
<1> HIDE DEF H, T
<1>7. ASSUME NEW x \in D
      PROVE  /\ Cardinality({y \in T : y < x}) \in Nat
             /\ Cardinality({y \in H : y <= x}) = Cardinality({y \in T : y < x}) + 1
  <2> DEFINE A == {y \in T : y < x}
             B == {y \in H : 0 < y /\ y <= x}
             f == [y \in A |-> y + 1]
  <2>1. IsFiniteSet(A) /\ IsFiniteSet(B) /\ Cardinality(A) \in Nat
    <3>1. A \in SUBSET T /\ B \in SUBSET H
      OBVIOUS
    <3>2. QED
      BY <1>4, <3>1, FS_Subset, FS_CardinalityType
  <2>2. \A y \in A : y \in D /\ y + 1 \in B
    <3> TAKE y \in A
    <3>1. y \in D /\ y < x /\ y # n - 1 /\ y \in T
      BY <1>2
    <3>2. y + 1 \in H
      BY <1>5, <3>1
    <3>3. 0 < y + 1 /\ y + 1 <= x
      BY <3>1
    <3>4. QED
      BY <3>1, <3>2, <3>3
  <2>3. \A z \in B : z \in D /\ z - 1 \in A /\ (z - 1) + 1 = z
    <3> TAKE z \in B
    <3>1. z \in D /\ 0 < z /\ z <= x /\ z \in H
      BY <1>2
    <3>2. z - 1 \in T
      BY <1>6, <3>1
    <3>3. QED
      BY <3>1, <3>2
  <2>4. f \in Bijection(A, B)
    <3> HIDE DEF A, B
    <3>1. f \in [A -> B]
      BY <2>2
    <3>2. \A y, z \in A : f[y] = f[z] => y = z
      BY <2>2
    <3>3. \A z \in B : \E y \in A : f[y] = z
      BY <2>3
    <3>4. QED
      BY <3>1, <3>2, <3>3 DEF Bijection, Injection, Surjection, IsInjective
  <2>5. Cardinality(A) = Cardinality(B)
    <3> HIDE DEF A, B, f
    <3> QED BY <2>1, <2>4, SameSize
  <2>6. {y \in H : y <= x} = B \cup {0} /\ 0 \notin B
    <3>1. 0 \in H /\ x \in Nat /\ \A y \in H : y \in Nat
      BY <1>2
    <3>2. \A y \in H : y <= x <=> (0 < y /\ y <= x) \/ y = 0
      BY <3>1
    <3>3. 0 <= x
      BY <3>1
    <3>4. QED
      BY <3>1, <3>2, <3>3
  <2>7. Cardinality(B \cup {0}) = Cardinality(B) + 1
    BY <2>1, <2>6, FS_AddElement
  <2>8. QED
    BY <2>1, <2>5, <2>6, <2>7
<1>8. Cardinality(T) = Cardinality(H)
  <2>1. n - 1 \in D
    OBVIOUS
  <2>2. {y \in H : y <= n - 1} = H /\ {y \in T : y < n - 1} = T \ {n - 1}
    <3>1. \A y \in H : y <= n - 1
      BY <1>2
    <3>2. \A y \in T : y < n - 1 <=> y # n - 1
      BY <1>2
    <3>3. QED
      BY <3>1, <3>2
  <2>3. Cardinality(T \ {n - 1}) = Cardinality(T) - 1 /\ Cardinality(T) \in Nat
    BY <1>2, <1>4, FS_RemoveElement, FS_CardinalityType
  <2>4. Cardinality(H) = Cardinality(T \ {n - 1}) + 1
    BY <1>7, <2>1, <2>2
  <2>5. QED
    BY <2>3, <2>4
<1>9. QED
  BY <1>2, <1>4, <1>5, <1>7, <1>8 DEF H, T

\* RunsOf cuts a string in runs that lie one after another over it, each on one
\* symbol.
LEMMA RunsOfIs ==
  ASSUME NEW n \in Nat \ {0}, NEW b \in [0..(n - 1) -> Nat]
  PROVE  LET run == RunsOf(b)
             r == Size(run)
         IN /\ r \in Nat \ {0} /\ run \in [0..(r - 1) -> [start : Nat, end : Nat, c : Nat]]
            /\ run[0].start = 0 /\ run[r - 1].end = n
            /\ \A k \in DOMAIN run :
                 /\ run[k].start < run[k].end /\ run[k].end <= n
                 /\ k > 0 => run[k].start = run[k - 1].end
                 /\ \A m \in DOMAIN run : k < m => run[k].end <= run[m].start
                 /\ \A p \in run[k].start .. (run[k].end - 1) : b[p] = run[k].c
<1> DEFINE D == 0..(n - 1)
           H == RunHeads(b)
           T == RunTails(b)
           h == Ascending(H)
           t == Ascending(T)
           r == Cardinality(H)
           run == RunsOf(b)
<1>1. Size(b) = n /\ DOMAIN b = D
  BY SizeIs
<1>2. run = [k \in DOMAIN h |-> [start |-> h[k], end |-> t[k] + 1, c |-> b[h[k]]]]
  BY DEF RunsOf, RunHeads, RunTails
<1>3. /\ H \in SUBSET D /\ T \in SUBSET D /\ IsFiniteSet(H) /\ IsFiniteSet(T)
      /\ 0 \in H /\ n - 1 \in T
      /\ \A x \in T : x # n - 1 => x + 1 \in H
      /\ \A x \in D : /\ Cardinality({y \in T : y < x}) \in Nat
                      /\ Cardinality({y \in H : y <= x}) = Cardinality({y \in T : y < x}) + 1
      /\ Cardinality(T) = r
  BY HeadsAndTails
<1> HIDE DEF H, T, run, h, t
<1>4. /\ H \in SUBSET Int /\ T \in SUBSET Int
      /\ \A y \in H : y \in Nat /\ y <= n - 1 /\ y \in D
      /\ \A y \in T : y \in Nat /\ y <= n - 1 /\ y \in D
  <2>1. H \in SUBSET D /\ T \in SUBSET D
    BY <1>3
  <2>2. QED
    BY <2>1
<1>5. r \in Nat /\ r # 0
  BY <1>3, FS_CardinalityType, FS_EmptySet
<1>6. /\ DOMAIN h = 0..(r - 1)
      /\ \A k \in 0..(r - 1) : h[k] \in H /\ Cardinality({y \in H : y < h[k]}) = k
      /\ \A k, m \in 0..(r - 1) : k < m <=> h[k] < h[m]
      /\ \A x \in H : /\ Cardinality({y \in H : y < x}) \in 0..(r - 1)
                      /\ h[Cardinality({y \in H : y < x})] = x
  <2>1. H \in SUBSET Int /\ IsFiniteSet(H) /\ Cardinality(H) = r
    BY <1>3, <1>4
  <2> HIDE DEF r
  <2>2. DOMAIN h = 0..(Cardinality(H) - 1)
    BY <2>1, AscendingIs DEF h
  <2>3. \A k \in DOMAIN h : h[k] \in H /\ Cardinality({y \in H : y < h[k]}) = k
    BY <2>1, AscendingIs DEF h
  <2>4. \A k, m \in DOMAIN h : k < m <=> h[k] < h[m]
    BY <2>1, AscendingIs DEF h
  <2>5. \A x \in H : /\ Cardinality({y \in H : y < x}) \in DOMAIN h
                    /\ h[Cardinality({y \in H : y < x})] = x
    BY <2>1, AscendingIs DEF h
  <2>6. QED
    BY <2>1, <2>2, <2>3, <2>4, <2>5
<1>7. /\ DOMAIN t = 0..(r - 1)
      /\ \A k \in 0..(r - 1) : t[k] \in T /\ Cardinality({y \in T : y < t[k]}) = k
      /\ \A k, m \in 0..(r - 1) : k < m <=> t[k] < t[m]
      /\ \A x \in T : /\ Cardinality({y \in T : y < x}) \in 0..(r - 1)
                      /\ t[Cardinality({y \in T : y < x})] = x
  <2>1. T \in SUBSET Int /\ IsFiniteSet(T) /\ Cardinality(T) = r
    BY <1>3, <1>4
  <2> HIDE DEF r
  <2>2. DOMAIN t = 0..(Cardinality(T) - 1)
    BY <2>1, AscendingIs DEF t
  <2>3. \A k \in DOMAIN t : t[k] \in T /\ Cardinality({y \in T : y < t[k]}) = k
    BY <2>1, AscendingIs DEF t
  <2>4. \A k, m \in DOMAIN t : k < m <=> t[k] < t[m]
    BY <2>1, AscendingIs DEF t
  <2>5. \A x \in T : /\ Cardinality({y \in T : y < x}) \in DOMAIN t
                    /\ t[Cardinality({y \in T : y < x})] = x
    BY <2>1, AscendingIs DEF t
  <2>6. QED
    BY <2>1, <2>2, <2>3, <2>4, <2>5
<1> HIDE DEF r
<1>8. h[0] = 0
  <2>1. {y \in H : y < 0} = {}
    <3>1. \A y \in H : ~(y < 0)
      BY <1>4
    <3>2. QED
      BY <3>1
  <2>2. QED
    BY <1>3, <1>6, <2>1, FS_EmptySet
<1>9. t[r - 1] = n - 1
  <2>1. {y \in H : y <= n - 1} = H /\ n - 1 \in D
    <3>1. \A y \in H : y <= n - 1
      BY <1>4
    <3>2. QED
      BY <3>1
  <2>2. Cardinality({y \in T : y < n - 1}) = r - 1
    <3>1. r = Cardinality({y \in T : y < n - 1}) + 1
      BY <1>3, <2>1 DEF r
    <3>2. Cardinality({y \in T : y < n - 1}) \in Nat
      BY <1>3, <2>1
    <3>3. QED
      BY <3>1, <3>2
  <2>3. QED
    BY <1>3, <1>7, <2>2
<1>10. ASSUME NEW k \in 0..(r - 1), k # r - 1
       PROVE  h[k + 1] = t[k] + 1
  <2> DEFINE x == t[k]
  <2>1. x \in T /\ x \in D /\ Cardinality({y \in T : y < x}) = k
    BY <1>3, <1>7
  <2>2. x # n - 1
    <3>1. k < r - 1 /\ r - 1 \in 0..(r - 1)
      BY <1>5, <1>10
    <3>2. t[k] < t[r - 1]
      BY <1>7, <3>1
    <3>3. QED
      BY <1>9, <2>1, <3>2
  <2>3. x + 1 \in H
    BY <1>3, <2>1, <2>2
  <2>4. {y \in H : y < x + 1} = {y \in H : y <= x}
    <3>1. x \in Nat
      BY <1>4, <2>1
    <3>2. \A y \in H : y < x + 1 <=> y <= x
      BY <1>4, <3>1
    <3>3. QED
      BY <3>2
  <2>5. Cardinality({y \in H : y <= x}) = k + 1
    BY <1>3, <2>1
  <2>6. QED
    BY <1>6, <2>3, <2>4, <2>5
<1>11. \A k \in 0..(r - 1) : h[k] \in Nat /\ t[k] \in Nat /\ h[k] <= n - 1 /\ t[k] <= n - 1
  BY <1>4, <1>6, <1>7
<1>12. ASSUME NEW k \in 0..(r - 1), k > 0
       PROVE  h[k] = t[k - 1] + 1
  <2>1. k - 1 \in 0..(r - 1) /\ k - 1 # r - 1 /\ (k - 1) + 1 = k
    BY <1>5, <1>12
  <2>2. h[(k - 1) + 1] = t[k - 1] + 1
    BY <1>10, <2>1
  <2>3. QED
    BY <2>1, <2>2
<1>13. ASSUME NEW k \in 0..(r - 1)
       PROVE  h[k] <= t[k]
  <2>1. CASE k = 0
    BY <1>8, <1>11, <2>1
  <2>2. CASE k > 0
    <3>1. k - 1 \in 0..(r - 1) /\ k - 1 < k
      BY <1>5, <2>2
    <3>2. t[k - 1] < t[k]
      BY <1>7, <3>1
    <3>3. QED
      BY <1>11, <1>12, <2>2, <3>1, <3>2
  <2>3. QED
    BY <2>1, <2>2
<1>14. ASSUME NEW k \in 0..(r - 1), NEW m \in 0..(r - 1), k < m
       PROVE  t[k] + 1 <= h[m]
  <2>1. k # r - 1 /\ k + 1 \in 0..(r - 1) /\ (k + 1 < m \/ k + 1 = m)
    BY <1>5, <1>14
  <2>2. h[k + 1] = t[k] + 1
    BY <1>10, <2>1
  <2>3. k + 1 < m => h[k + 1] < h[m]
    BY <1>6, <2>1
  <2>4. QED
    BY <1>11, <2>1, <2>2, <2>3
<1>15. ASSUME NEW k \in 0..(r - 1), NEW p \in h[k] .. t[k]
       PROVE  b[p] = b[h[k]]
  <2> DEFINE X == {q \in h[k] .. t[k] : b[q] # b[h[k]]}
  <2>1. SUFFICES ASSUME X # {} PROVE FALSE
    OBVIOUS
  <2>2. X \in SUBSET Nat
    BY <1>11
  <2>3. PICK q \in X : \A y \in X : q <= y
    BY <2>1, <2>2, MinExists
  <2>4. q \in Nat /\ h[k] <= q /\ q <= t[k] /\ b[q] # b[h[k]] /\ h[k] < q /\ q \in D
    BY <1>11, <2>3
  <2>5. b[q - 1] = b[h[k]]
    <3>1. q - 1 \in h[k] .. t[k] /\ ~(q <= q - 1)
      BY <1>11, <2>4
    <3>2. q - 1 \notin X
      BY <2>3, <3>1
    <3>3. QED
      BY <3>1, <3>2
  <2>6. q \in H
    BY <1>1, <2>4, <2>5 DEF H, RunHeads
  <2>7. PICK m \in 0..(r - 1) : h[m] = q
    BY <1>6, <2>6
  <2>8. k < m
    BY <1>6, <2>4, <2>7
  <2>9. t[k] + 1 <= q
    BY <1>14, <2>7, <2>8
  <2>10. QED
    BY <1>11, <2>4, <2>9
<1>16. DOMAIN run = 0..(r - 1) /\ Size(run) = r
  BY <1>2, <1>5, <1>6, SizeIs
<1>17. \A k \in 0..(r - 1) : run[k] = [start |-> h[k], end |-> t[k] + 1, c |-> b[h[k]]]
  BY <1>2, <1>6
<1>18. \A k \in 0..(r - 1) : run[k].start = h[k] /\ run[k].end = t[k] + 1 /\ run[k].c = b[h[k]]
  <2> TAKE k \in 0..(r - 1)
  <2>1. run[k] = [start |-> h[k], end |-> t[k] + 1, c |-> b[h[k]]]
    BY <1>17
  <2>2. QED
    BY <2>1
<1>19. run \in [0..(r - 1) -> [start : Nat, end : Nat, c : Nat]]
  <2>1. \A k \in 0..(r - 1) : run[k] \in [start : Nat, end : Nat, c : Nat]
    <3> TAKE k \in 0..(r - 1)
    <3>1. h[k] \in Nat /\ t[k] + 1 \in Nat /\ h[k] \in D
      BY <1>4, <1>6, <1>11
    <3>2. b[h[k]] \in Nat
      BY <3>1
    <3>3. run[k] = [start |-> h[k], end |-> t[k] + 1, c |-> b[h[k]]]
      BY <1>17
    <3>4. QED
      BY <3>1, <3>2, <3>3
  <2>2. run = [k \in 0..(r - 1) |-> run[k]]
    BY <1>2, <1>6
  <2>3. QED
    BY <2>1, <2>2
<1>20. run[0].start = 0 /\ run[r - 1].end = n
  <2>1. 0 \in 0..(r - 1) /\ r - 1 \in 0..(r - 1)
    BY <1>5
  <2>2. QED
    BY <1>8, <1>9, <1>18, <2>1
<1>21. ASSUME NEW k \in DOMAIN run
       PROVE  /\ run[k].start < run[k].end /\ run[k].end <= n
              /\ k > 0 => run[k].start = run[k - 1].end
              /\ \A m \in DOMAIN run : k < m => run[k].end <= run[m].start
              /\ \A p \in run[k].start .. (run[k].end - 1) : b[p] = run[k].c
  <2>1. k \in 0..(r - 1) /\ run[k].start = h[k] /\ run[k].end = t[k] + 1 /\ run[k].c = b[h[k]]
    BY <1>16, <1>18
  <2>2. run[k].start < run[k].end /\ run[k].end <= n
    BY <1>11, <1>13, <2>1
  <2>3. k > 0 => run[k].start = run[k - 1].end
    <3>1. HAVE k > 0
    <3>2. k - 1 \in 0..(r - 1)
      BY <1>5, <2>1, <3>1
    <3>3. QED
      BY <1>12, <1>18, <2>1, <3>1, <3>2
  <2>4. \A m \in DOMAIN run : k < m => run[k].end <= run[m].start
    BY <1>14, <1>16, <1>18, <2>1
  <2>5. \A p \in run[k].start .. (run[k].end - 1) : b[p] = run[k].c
    <3>1. run[k].end - 1 = t[k]
      BY <1>11, <2>1
    <3>2. QED
      BY <1>15, <2>1, <3>1
  <2>6. QED
    BY <2>2, <2>3, <2>4, <2>5
<1>22. QED
  BY <1>5, <1>16, <1>19, <1>20, <1>21 DEF run
-----------------------------------------------------------------------------
(* The text and its BWT. *)

\* The terminator is the last symbol of the text an index is built from, and
\* occurs only there.
LEMMA SentinelIs ==
  ASSUME NEW s \in Seq(Nat \ {0})
  PROVE  /\ Size(WithSentinel(s)) = Len(s) + 1
         /\ Terminated(WithSentinel(s), Len(s) + 1)
<1> DEFINE t == WithSentinel(s)
           n == Len(s) + 1
<1>1. Len(s) \in Nat /\ n \in Nat \ {0} /\ n - 1 = Len(s)
  OBVIOUS
<1>2. DOMAIN t = 0..(n - 1) /\ \A i \in 0..(n - 1) : t[i] = IF i = n - 1 THEN 0 ELSE s[i + 1]
  BY <1>1 DEF WithSentinel
<1>3. \A i \in 0..(n - 1) : i # n - 1 => s[i + 1] \in Nat \ {0}
  <2>1. \A j \in 1..Len(s) : s[j] \in Nat \ {0}
    <3> DEFINE N == Nat \ {0}
    <3>1. s \in Seq(N)
      OBVIOUS
    <3> HIDE DEF N
    <3>2. \A j \in 1..Len(s) : s[j] \in N
      BY <3>1
    <3>3. QED
      BY <3>2 DEF N
  <2>2. \A i \in 0..(n - 1) : i # n - 1 => i + 1 \in 1..Len(s)
    <3>1. \A m \in Nat : \A i \in 0..m : i # m => i + 1 \in 1..m
      OBVIOUS
    <3>2. Len(s) \in Nat /\ n - 1 = Len(s)
      BY <1>1
    <3> HIDE DEF n, t
    <3>3. QED
      BY <3>1, <3>2
  <2>3. QED
    BY <2>1, <2>2
<1>4. t = [i \in 0..(n - 1) |-> t[i]]
  BY <1>1 DEF WithSentinel
<1> HIDE DEF t
<1>5. t \in [0..(n - 1) -> Nat] /\ \A i \in 0..(n - 1) : t[i] = 0 <=> i = n - 1
  BY <1>2, <1>3, <1>4
<1>6. Size(t) = n
  BY <1>1, <1>2, SizeIs
<1>7. QED
  BY <1>1, <1>5, <1>6 DEF Terminated, t

\* The BWT gives each position the rank of a symbol: a natural number.
LEMMA BwtOfText ==
  ASSUME NEW t, NEW n, Terminated(t, n), NEW A \in [0..(n - 1) -> 0..(n - 1)]
  PROVE  BWT(t, A) \in [0..(n - 1) -> Nat]
<1>1. \A c : Comp(t, c) \in Nat
  <2> TAKE c
  <2> DEFINE S == {j \in DOMAIN t : t[j] < c}
             V == {t[i] : i \in S}
             f == [i \in S |-> t[i]]
  <2>1. IsFiniteSet(S)
    <3>1. DOMAIN t = 0..(n - 1) /\ n - 1 \in Int
      BY DEF Terminated
    <3>2. IsFiniteSet(0..(n - 1))
      BY <3>1, FS_Interval
    <3>3. S \in SUBSET (0..(n - 1))
      BY <3>1
    <3>4. QED
      BY <3>2, <3>3, FS_Subset
  <2>2. f \in Surjection(S, V)
    BY DEF Surjection
  <2>3. IsFiniteSet(V)
    BY <2>1, <2>2, FS_Surjection
  <2>4. QED
    BY <2>3, FS_CardinalityType DEF Comp
<1>2. QED
  BY <1>1 DEF BWT

-----------------------------------------------------------------------------
(* Symbols and their ranks, the BWT and its cumulative counts. *)

Symbols(t) == {t[i] : i \in DOMAIN t}

\* The alphabet of a text is a finite set of natural numbers.
LEMMA AlphabetIsFinite ==
  ASSUME NEW t, NEW n, Terminated(t, n)
  PROVE  IsFiniteSet(Symbols(t)) /\ \A x \in Symbols(t) : x \in Nat
<1>1. t \in [0..(n - 1) -> Nat] /\ n \in Nat /\ DOMAIN t = 0..(n - 1)
  BY DEF Terminated
<1>2. IsFiniteSet(DOMAIN t)
  <2>1. 0 \in Int /\ n - 1 \in Int
    BY <1>1
  <2>2. QED
    BY <1>1, <2>1, FS_Interval
<1>3. t \in Surjection(DOMAIN t, Symbols(t))
  BY <1>1 DEF Surjection, Symbols
<1>4. IsFiniteSet(Symbols(t))
  BY <1>2, <1>3, FS_Surjection
<1>5. QED
  BY <1>1, <1>4 DEF Symbols

\* Comp counts the symbols of the text below one.
LEMMA CompCounts ==
  ASSUME NEW t, NEW n, Terminated(t, n), NEW x \in Nat
  PROVE  /\ Comp(t, x) = Cardinality({y \in Symbols(t) : y < x})
         /\ IsFiniteSet({y \in Symbols(t) : y < x})
         /\ Comp(t, x) \in Nat /\ Comp(t, x) <= Cardinality(Symbols(t))
<1>1. {t[i] : i \in {j \in DOMAIN t : t[j] < x}} = {y \in Symbols(t) : y < x}
  BY DEF Symbols
<1>2. {y \in Symbols(t) : y < x} \in SUBSET Symbols(t)
  OBVIOUS
<1>3. /\ IsFiniteSet({y \in Symbols(t) : y < x})
      /\ Cardinality({y \in Symbols(t) : y < x}) <= Cardinality(Symbols(t))
  BY <1>2, AlphabetIsFinite, FS_Subset
<1>4. QED
  BY <1>1, <1>3, FS_CardinalityType DEF Comp

\* The ranks of the symbols (char2comp) are in the order of the symbols.
LEMMA CompGrows ==
  ASSUME NEW t, NEW n, Terminated(t, n), NEW x \in Symbols(t), NEW y \in Symbols(t), x < y
  PROVE  Comp(t, x) < Comp(t, y)
<1> DEFINE A(z) == {w \in Symbols(t) : w < z}
<1>1. x \in Nat /\ y \in Nat
  BY AlphabetIsFinite
<1>2. /\ Comp(t, x) = Cardinality(A(x)) /\ IsFiniteSet(A(x)) /\ Comp(t, x) \in Nat
      /\ Comp(t, y) = Cardinality(A(y)) /\ IsFiniteSet(A(y)) /\ Comp(t, y) \in Nat
  BY <1>1, CompCounts
<1>3. A(x) \cup {x} \subseteq A(y) /\ x \notin A(x)
  <2>1. \A w \in Symbols(t) : w < x => w < y
    BY <1>1, AlphabetIsFinite
  <2>2. ~(x < x)
    BY <1>1
  <2>3. QED
    BY <2>1, <2>2
<1> HIDE DEF A
<1>4. Cardinality(A(x) \cup {x}) = Cardinality(A(x)) + 1
  BY <1>2, <1>3, FS_AddElement
<1>5. Cardinality(A(x) \cup {x}) <= Cardinality(A(y))
  BY <1>2, <1>3, FS_Subset
<1>6. QED
  BY <1>2, <1>4, <1>5

\* A text of n symbols and an array that names each of its positions once.
Permuted(t, n, A) ==
  /\ Terminated(t, n) /\ A \in [0..(n - 1) -> 0..(n - 1)]
  /\ \A p, q \in 0..(n - 1) : A[p] = A[q] => p = q

\* TextPos names each text position once, too.
LEMMA PositionBefore ==
  ASSUME NEW t, NEW n, NEW A, Permuted(t, n, A)
  PROVE  /\ \A p \in 0..(n - 1) : TextPos(A, p) \in 0..(n - 1)
         /\ \A p, q \in 0..(n - 1) : TextPos(A, p) = TextPos(A, q) => p = q
<1> DEFINE D == 0..(n - 1)
<1>1. n \in Nat \ {0} /\ A \in [D -> D] /\ DOMAIN A = D /\ \A p, q \in D : A[p] = A[q] => p = q
  BY DEF Permuted, Terminated
<1>2. Size(A) = n
  BY <1>1, SizeIs
<1>3. \A p : TextPos(A, p) = IF 0 < A[p] THEN A[p] - 1 ELSE n - 1
  BY <1>2 DEF TextPos
<1>4. \A p \in D : A[p] \in D
  BY <1>1
<1>5. \A a \in D : (IF 0 < a THEN a - 1 ELSE n - 1) \in D
  BY <1>1
<1>6. \A a, b \in D : (IF 0 < a THEN a - 1 ELSE n - 1) = (IF 0 < b THEN b - 1 ELSE n - 1) => a = b
  BY <1>1
<1>7. \A p \in D : TextPos(A, p) \in D
  BY <1>3, <1>4, <1>5
<1>8. ASSUME NEW p \in D, NEW q \in D, TextPos(A, p) = TextPos(A, q)
      PROVE  p = q
  <2>1. A[p] = A[q]
    BY <1>3, <1>4, <1>6, <1>8
  <2>2. QED
    BY <1>1, <2>1
<1>9. QED
  BY <1>7, <1>8

\* Every text position is named by the array, and by TextPos.
LEMMA PositionNamed ==
  ASSUME NEW t, NEW n, NEW A, Permuted(t, n, A), NEW v \in 0..(n - 1)
  PROVE  (\E p \in 0..(n - 1) : A[p] = v) /\ (\E p \in 0..(n - 1) : TextPos(A, p) = v)
<1> DEFINE D == 0..(n - 1)
<1>1. n \in Nat \ {0} /\ A \in [D -> D] /\ DOMAIN A = D /\ \A p, q \in D : A[p] = A[q] => p = q
  BY DEF Permuted, Terminated
<1>2. Size(A) = n
  BY <1>1, SizeIs
<1>3. \A p : TextPos(A, p) = IF 0 < A[p] THEN A[p] - 1 ELSE n - 1
  BY <1>2 DEF TextPos
<1>4. \A x \in D : \E p \in D : A[p] = x
  <2>1. 0 \in Int /\ n - 1 \in Int
    BY <1>1
  <2>2. IsFiniteSet(D)
    BY <2>1, FS_Interval
  <2> HIDE DEF D
  <2>3. A \in Injection(D, D)
    BY <1>1 DEF Injection, IsInjective
  <2>4. A \in Surjection(D, D)
    BY <2>2, <2>3, FS_Injection
  <2>5. QED
    BY <2>4 DEF Surjection
<1>5. \E p \in D : TextPos(A, p) = v
  <2> DEFINE w == IF v = n - 1 THEN 0 ELSE v + 1
  <2>1. w \in D /\ (IF 0 < w THEN w - 1 ELSE n - 1) = v
    BY <1>1
  <2>2. PICK p \in D : A[p] = w
    BY <1>4, <2>1
  <2> HIDE DEF w
  <2>3. TextPos(A, p) = v
    BY <1>3, <2>1, <2>2
  <2>4. QED
    BY <2>2, <2>3
<1>6. QED
  BY <1>4, <1>5

\* The BWT of a position is the rank of a symbol of the text.
LEMMA BwtNames ==
  ASSUME NEW t, NEW n, NEW A, Permuted(t, n, A), NEW p \in 0..(n - 1)
  PROVE  /\ BWT(t, A)[p] = Comp(t, t[TextPos(A, p)]) /\ DOMAIN BWT(t, A) = 0..(n - 1)
         /\ t[TextPos(A, p)] \in Symbols(t) /\ BWT(t, A)[p] \in Nat
<1>1. DOMAIN A = 0..(n - 1) /\ DOMAIN t = 0..(n - 1) /\ Terminated(t, n)
  BY DEF Permuted, Terminated
<1>2. TextPos(A, p) \in 0..(n - 1)
  BY PositionBefore
<1>3. t[TextPos(A, p)] \in Symbols(t)
  BY <1>1, <1>2 DEF Symbols
<1>4. Comp(t, t[TextPos(A, p)]) \in Nat
  BY <1>1, <1>3, AlphabetIsFinite, CompCounts
<1>5. QED
  BY <1>1, <1>3, <1>4 DEF BWT

\* The cumulative count of a symbol of the text counts the smaller BWT symbols.
LEMMA CumulativeCounts ==
  ASSUME NEW t, NEW n, NEW A, Permuted(t, n, A), NEW x \in Symbols(t)
  PROVE  LET b == BWT(t, A)
             c == Comp(t, x)
         IN /\ Cumulative(b)[c] = Cardinality({p \in DOMAIN b : b[p] < c})
            /\ IsFiniteSet({p \in DOMAIN b : b[p] < c}) /\ Cumulative(b)[c] \in Nat
<1> DEFINE b == BWT(t, A)
           c == Comp(t, x)
           S == Symbols(t)
           V == {b[p] : p \in DOMAIN b}
           B == {p \in DOMAIN b : b[p] < c}
           g == [y \in S |-> Comp(t, y)]
<1>1. Terminated(t, n) /\ n \in Nat \ {0} /\ DOMAIN t = 0..(n - 1)
  BY DEF Permuted, Terminated
<1>2. /\ DOMAIN b = 0..(n - 1)
      /\ \A p \in 0..(n - 1) : b[p] = Comp(t, t[TextPos(A, p)])
  <2>1. 0 \in 0..(n - 1)
    BY <1>1
  <2>2. QED
    BY <2>1, BwtNames
<1>3. IsFiniteSet(DOMAIN b)
  <2>1. 0 \in Int /\ n - 1 \in Int
    BY <1>1
  <2> HIDE DEF b
  <2>2. QED
    BY <1>2, <2>1, FS_Interval
<1>4. IsFiniteSet(V)
  <2>1. b \in Surjection(DOMAIN b, V)
    BY DEF BWT, Surjection
  <2>2. QED
    BY <1>3, <2>1, FS_Surjection
<1>5. g \in Injection(S, V)
  <2>1. ASSUME NEW y \in S
        PROVE  Comp(t, y) \in V
    <3>1. PICK i \in 0..(n - 1) : y = t[i]
      BY <1>1 DEF Symbols
    <3>2. PICK p \in 0..(n - 1) : TextPos(A, p) = i
      BY <3>1, PositionNamed
    <3> HIDE DEF b
    <3>3. QED
      BY <1>2, <3>1, <3>2
  <2>2. ASSUME NEW y \in S, NEW z \in S, Comp(t, y) = Comp(t, z)
        PROVE  y = z
    <3>1. y \in Nat /\ z \in Nat /\ Comp(t, y) \in Nat
      BY <1>1, AlphabetIsFinite, CompCounts
    <3>2. ~(y < z) /\ ~(z < y)
      BY <1>1, <2>2, <3>1, CompGrows
    <3>3. QED
      BY <3>1, <3>2
  <2> HIDE DEF S, V
  <2>3. QED
    BY <2>1, <2>2 DEF Injection, IsInjective
<1>6. Cardinality(S) <= Cardinality(V) /\ Cardinality(S) \in Nat /\ Cardinality(V) \in Nat
  BY <1>1, <1>4, <1>5, AlphabetIsFinite, FS_Injection, FS_CardinalityType
<1>7. c \in Nat /\ c <= Cardinality(S)
  BY <1>1, AlphabetIsFinite, CompCounts
<1>8. c \in 0..Cardinality(V)
  <2> HIDE DEF c, V, S
  <2> QED BY <1>6, <1>7
<1>9. Cumulative(b) = [d \in 0..Cardinality(V) |-> Cardinality({p \in DOMAIN b : b[p] < d})]
  BY DEF Cumulative
<1>10. Cumulative(b)[c] = Cardinality(B)
  <2> HIDE DEF V, b, c
  <2> QED BY <1>8, <1>9
<1>11. B \in SUBSET DOMAIN b
  OBVIOUS
<1>12. IsFiniteSet(B)
  <2> HIDE DEF B
  <2> QED BY <1>3, <1>11, FS_Subset
<1>13. Cumulative(b)[c] \in Nat
  BY <1>10, <1>12, FS_CardinalityType
<1>14. QED
  BY <1>10, <1>12, <1>13

-----------------------------------------------------------------------------
(* LF on the suffix array. *)

\* The suffix one symbol before that of q is smaller than the one before that of
\* p exactly if LF sends q before p: a smaller symbol, or the same and q < p.
LEMMA SmallerBefore ==
  ASSUME NEW t, NEW n, Terminated(t, n), NEW p \in 0..(n - 1), NEW q \in 0..(n - 1)
  PROVE  LET A == SuffixArray(t)
             b == BWT(t, A)
         IN SuffixLess(t, TextPos(A, q), TextPos(A, p)) <=> b[q] < b[p] \/ (q < p /\ b[q] = b[p])
<1> DEFINE A == SuffixArray(t)
           b == BWT(t, A)
           i == TextPos(A, p)
           j == TextPos(A, q)
<1>1. Permuted(t, n, A)
  BY SuffixArrayIs DEF Permuted
<1>2. /\ n \in Nat /\ n > 0 /\ DOMAIN A = 0..(n - 1)
      /\ A[p] \in 0..(n - 1) /\ A[q] \in 0..(n - 1) /\ p \in Int /\ q \in Int
  BY <1>1 DEF Permuted, Terminated
<1>3. \A x \in 0..(n - 1) : \A y \in 0..(n - 1) :
        /\ ~SuffixLess(t, x, x)
        /\ ~(SuffixLess(t, x, y) /\ SuffixLess(t, y, x))
  <2>1. StrictOrder(0..(n - 1), SuffixPairs(t))
    BY SuffixOrder
  <2>2. \A x, y \in 0..(n - 1) : <<x, y>> \in SuffixPairs(t) <=> SuffixLess(t, x, y)
    BY SuffixLessIs
  <2>3. QED
    BY <2>1, <2>2 DEF StrictOrder
<1>4. \A x, y \in 0..(n - 1) : x < y <=> SuffixLess(t, A[x], A[y])
  BY SuffixArrayIs
<1> HIDE DEF A
<1>5. i \in 0..(n - 1) /\ j \in 0..(n - 1) /\ (i = j => p = q)
  BY <1>1, PositionBefore
<1>6. /\ b[p] = Comp(t, t[i]) /\ t[i] \in Symbols(t) /\ b[p] \in Nat
      /\ b[q] = Comp(t, t[j]) /\ t[j] \in Symbols(t) /\ b[q] \in Nat
      /\ t[i] \in Nat /\ t[j] \in Nat
  BY <1>1, BwtNames, AlphabetIsFinite
<1>7. i = (IF 0 < A[p] THEN A[p] - 1 ELSE n - 1) /\ j = (IF 0 < A[q] THEN A[q] - 1 ELSE n - 1)
  BY <1>2, SizeIs DEF TextPos
<1> HIDE DEF i, j, b
<1>8. CASE t[j] < t[i]
  <2>1. SuffixLess(t, j, i)
    BY <1>5, <1>8, SuffixStep
  <2>2. b[q] < b[p]
    BY <1>6, <1>8, CompGrows
  <2>3. QED
    BY <2>1, <2>2 DEF i, j, b, A
<1>9. CASE t[i] < t[j]
  <2>1. ~SuffixLess(t, j, i)
    BY <1>3, <1>5, <1>9, SuffixStep
  <2>2. b[p] < b[q]
    BY <1>6, <1>9, CompGrows
  <2>3. ~(b[q] < b[p] \/ (q < p /\ b[q] = b[p]))
    BY <1>6, <2>2
  <2>4. QED
    BY <2>1, <2>3 DEF i, j, b, A
<1>10. CASE t[i] = t[j]
  <2>1. b[p] = b[q] /\ ~(b[q] < b[p])
    BY <1>6, <1>10
  <2>2. SuffixLess(t, j, i) <=> q < p
    <3>1. CASE i # n - 1 /\ j # n - 1
      <4>1. i + 1 = A[p] /\ j + 1 = A[q]
        BY <1>2, <1>7, <3>1
      <4>2. SuffixLess(t, j, i) <=> SuffixLess(t, A[q], A[p])
        BY <1>5, <1>10, <3>1, <4>1, SuffixStep
      <4>3. QED
        BY <1>4, <4>2
    <3>2. CASE i = n - 1 \/ j = n - 1
      <4>1. i = n - 1 /\ j = n - 1
        BY <1>5, <1>10, <3>2 DEF Terminated
      <4>2. p = q /\ ~SuffixLess(t, j, i)
        BY <1>3, <1>5, <4>1
      <4>3. QED
        BY <1>2, <4>2
    <3>3. QED
      BY <3>1, <3>2
  <2>3. QED
    BY <2>1, <2>2 DEF i, j, b, A
<1>11. QED
  BY <1>6, <1>8, <1>9, <1>10

\* LF is right on the BWT of a suffix array: it counts the smaller suffixes.
LEMMA LFCounts ==
  ASSUME NEW t, NEW n, Terminated(t, n), NEW p \in 0..(n - 1)
  PROVE  LET A == SuffixArray(t)
             b == BWT(t, A)
             r == Cumulative(b)[b[p]] + Cardinality({q \in DOMAIN b : q < p /\ b[q] = b[p]})
         IN r \in 0..(n - 1) /\ A[r] = TextPos(A, p)
<1> DEFINE A == SuffixArray(t)
           b == BWT(t, A)
           D == 0..(n - 1)
           c == b[p]
           i == TextPos(A, p)
           Fewer == {q \in D : SuffixLess(t, TextPos(A, q), i)}
           B == {j \in D : SuffixLess(t, j, i)}
           Low == {q \in D : b[q] < c}
           Same == {q \in D : q < p /\ b[q] = c}
           f == [q \in Fewer |-> TextPos(A, q)]
<1>1. Permuted(t, n, A) /\ n \in Nat
  BY SuffixArrayIs DEF Permuted, Terminated
<1>2. /\ i \in D /\ DOMAIN b = D
      /\ \A q \in D : TextPos(A, q) \in D
      /\ \A q, s \in D : TextPos(A, q) = TextPos(A, s) => q = s
      /\ \A v \in D : \E q \in D : A[q] = v
      /\ \A v \in D : \E q \in D : TextPos(A, q) = v
  <2>1. DOMAIN b = D
    <3> HIDE DEF A
    <3> QED BY <1>1, BwtNames
  <2> HIDE DEF A, b, Fewer, B, Low, Same, f
  <2>2. \A q \in D : TextPos(A, q) \in D
    BY <1>1, PositionBefore
  <2>3. \A q, s \in D : TextPos(A, q) = TextPos(A, s) => q = s
    BY <1>1, PositionBefore
  <2>4. \A v \in D : \E q \in D : A[q] = v
    BY <1>1, PositionNamed
  <2>5. \A v \in D : \E q \in D : TextPos(A, q) = v
    BY <1>1, PositionNamed
  <2>6. QED
    BY <2>1, <2>2, <2>3, <2>4, <2>5 DEF b
<1>3. IsFiniteSet(D)
  <2>1. 0 \in Int /\ n - 1 \in Int
    BY <1>1
  <2>2. QED
    BY <2>1, FS_Interval
<1>4. PICK r \in D : A[r] = i
  BY <1>2
<1>5. Cardinality(B) = r
  <2>1. \A q \in D : Cardinality({j \in D : SuffixLess(t, j, SuffixArray(t)[q])}) = q
    BY SuffixArrayIs
  <2>2. QED
    BY <1>4, <2>1
<1>6. IsFiniteSet(Fewer) /\ IsFiniteSet(Low) /\ IsFiniteSet(Same)
  <2>1. Fewer \in SUBSET D /\ Low \in SUBSET D /\ Same \in SUBSET D
    OBVIOUS
  <2> HIDE DEF Fewer, Low, Same, D
  <2>2. QED
    BY <1>3, <2>1, FS_Subset
<1>7. f \in Bijection(Fewer, B)
  <2>1. \A q \in Fewer : q \in D /\ TextPos(A, q) \in B
    BY <1>2
  <2>2. \A q, s \in Fewer : TextPos(A, q) = TextPos(A, s) => q = s
    BY <1>2
  <2>3. \A j \in B : \E q \in Fewer : TextPos(A, q) = j
    <3> TAKE j \in B
    <3>1. PICK q \in D : TextPos(A, q) = j
      BY <1>2
    <3>2. QED
      BY <3>1
  <2> HIDE DEF Fewer, B, A
  <2>4. f \in [Fewer -> B]
    BY <2>1
  <2>5. \A q, s \in Fewer : f[q] = f[s] => q = s
    BY <2>2
  <2>6. \A j \in B : \E q \in Fewer : f[q] = j
    BY <2>3
  <2>7. QED
    BY <2>4, <2>5, <2>6 DEF Bijection, Injection, Surjection, IsInjective
<1>8. Cardinality(Fewer) = r
  <2> HIDE DEF Fewer, B, f
  <2> QED BY <1>5, <1>6, <1>7, SameSize
<1>9. Fewer = Low \cup Same /\ Low \cap Same = {}
  <2>1. \A q \in D : SuffixLess(t, TextPos(A, q), i) <=> b[q] < c \/ (q < p /\ b[q] = c)
    BY SmallerBefore
  <2>2. c \in Nat
    <3> HIDE DEF A
    <3> QED BY <1>1, BwtNames
  <2> HIDE DEF c, b, A, i
  <2>3. Low \cap Same = {}
    BY <2>2
  <2>4. QED
    BY <2>1, <2>3
<1>10. Cardinality(Fewer) = Cardinality(Low) + Cardinality(Same)
  <2> HIDE DEF Fewer, Low, Same
  <2>1. Cardinality(Low \cup Same) = Cardinality(Low) + Cardinality(Same) - Cardinality(Low \cap Same)
    BY <1>6, FS_Union
  <2>2. Cardinality(Low \cap Same) = 0
    BY <1>9, FS_EmptySet
  <2>3. Cardinality(Low) \in Nat /\ Cardinality(Same) \in Nat
    BY <1>6, FS_CardinalityType
  <2>4. QED
    BY <1>9, <2>1, <2>2, <2>3
<1>11. Cumulative(b)[c] = Cardinality(Low)
  <2> HIDE DEF A
  <2>1. c = Comp(t, t[i]) /\ t[i] \in Symbols(t)
    BY <1>1, BwtNames
  <2>2. Cumulative(b)[Comp(t, t[i])] = Cardinality({q \in DOMAIN b : b[q] < Comp(t, t[i])})
    BY <1>1, <2>1, CumulativeCounts
  <2>3. QED
    BY <1>2, <2>1, <2>2
<1>12. {q \in DOMAIN b : q < p /\ b[q] = b[p]} = Same
  BY <1>2
<1>13. Cumulative(b)[b[p]] + Cardinality({q \in DOMAIN b : q < p /\ b[q] = b[p]}) = r
  <2> HIDE DEF A, b, Low, Same, Fewer
  <2> QED BY <1>8, <1>10, <1>11, <1>12
<1>14. QED
  BY <1>4, <1>13

-----------------------------------------------------------------------------
(* An index on a text: the suffix array and LF. *)

\* The text, its suffix array and its BWT share the positions 0..n-1, and the
\* suffix array holds text positions.
LEMMA TextSize ==
  ASSUME TextIsIndexed
  PROVE  /\ ix.n \in Nat /\ ix.n > 0
         /\ DOMAIN sa = 0..(ix.n - 1) /\ Size(sa) = ix.n
         /\ DOMAIN text = 0..(ix.n - 1) /\ Size(text) = ix.n
         /\ DOMAIN ix.bwt = 0..(ix.n - 1)
         /\ \A p \in DOMAIN sa : sa[p] \in 0..(ix.n - 1) /\ TextPos(sa, p) \in 0..(ix.n - 1)
<1>1. ix.n \in Nat /\ ix.n > 0 /\ DOMAIN sa = 0..(ix.n - 1) /\ DOMAIN text = 0..(ix.n - 1)
  BY DEF TextIsIndexed
<1>2. Cardinality(0..(ix.n - 1)) = ix.n
  <2>1. ix.n - 1 \in Int /\ 0 \in Int /\ ~(0 > ix.n - 1) /\ (ix.n - 1) - 0 + 1 = ix.n
    BY <1>1
  <2>2. QED
    BY <2>1, FS_Interval, Zenon
<1>3. Size(sa) = ix.n /\ Size(text) = ix.n
  BY <1>1, <1>2 DEF Size
<1>4. DOMAIN ix.bwt = 0..(ix.n - 1)
  BY <1>1 DEF TextIsIndexed, BWT
<1>5. ASSUME NEW p \in DOMAIN sa
      PROVE  sa[p] \in 0..(ix.n - 1) /\ TextPos(sa, p) \in 0..(ix.n - 1)
  <2>1. sa[p] \in 0..(ix.n - 1)
    BY <1>1 DEF TextIsIndexed
  <2>2. QED
    BY <1>1, <1>3, <2>1 DEF TextPos
<1>6. QED
  BY <1>1, <1>3, <1>4, <1>5

\* The positions of the text and of its BWT are finitely many.
LEMMA PositionsFinite ==
  ASSUME TextIsIndexed
  PROVE  IsFiniteSet(DOMAIN text) /\ IsFiniteSet(DOMAIN ix.bwt) /\ IsFiniteSet(DOMAIN sa)
<1>1. ix.n - 1 \in Int /\ 0 \in Int
  BY TextSize
<1>2. IsFiniteSet(0..(ix.n - 1))
  BY <1>1, FS_Interval
<1>3. DOMAIN text = 0..(ix.n - 1) /\ DOMAIN ix.bwt = 0..(ix.n - 1) /\ DOMAIN sa = 0..(ix.n - 1)
  BY TextSize
<1>4. QED
  BY <1>2, <1>3

\* The suffix array of an index permutes the text positions.
LEMMA TextIsPermuted ==
  ASSUME TextIsIndexed
  PROVE  Permuted(text, ix.n, sa) /\ Terminated(text, ix.n)
<1>1. DOMAIN text = 0..(ix.n - 1) /\ DOMAIN sa = 0..(ix.n - 1)
  BY TextSize
<1>2. QED
  BY <1>1 DEF TextIsIndexed, Permuted, Terminated

\* The text position before another one.
LEMMA TextPosIsBefore ==
  ASSUME TextIsIndexed, NEW p \in DOMAIN sa
  PROVE  TextPos(sa, p) = (sa[p] + (-1)) % ix.n
<1>1. ix.n \in Nat \ {0} /\ sa[p] \in 0..(ix.n - 1) /\ Size(sa) = ix.n
  BY TextSize DEF TextIsIndexed
<1>2. CASE 0 < sa[p]
  <2>1. sa[p] + (-1) \in 0..(ix.n - 1) /\ sa[p] + (-1) = sa[p] - 1
    BY <1>1, <1>2
  <2>2. QED
    BY <1>1, <1>2, <2>1, ModSmall DEF TextPos
<1>3. CASE ~(0 < sa[p])
  <2>1. sa[p] = 0 /\ ix.n - 1 \in 0..(ix.n - 1) /\ -1 \in Int /\ -1 = ix.n * (-1) + (ix.n - 1)
    BY <1>1, <1>3
  <2>2. (-1) % ix.n = ix.n - 1
    BY <1>1, <2>1, ModUnique
  <2>3. QED
    BY <1>1, <2>1, <2>2 DEF TextPos
<1>4. QED
  BY <1>2, <1>3

\* Every text position has its place in the suffix array.
LEMMA SaIsOnto ==
  ASSUME TextIsIndexed, NEW v \in 0..(ix.n - 1)
  PROVE  \E p \in DOMAIN sa : sa[p] = v
<1>1. \E p \in 0..(ix.n - 1) : sa[p] = v
  BY TextIsPermuted, PositionNamed
<1>2. QED
  BY <1>1, TextSize

\* Every text position is the one before some suffix.
LEMMA TextPosIsOnto ==
  ASSUME TextIsIndexed, NEW v \in DOMAIN text
  PROVE  \E p \in DOMAIN sa : TextPos(sa, p) = v
<1>1. v \in 0..(ix.n - 1)
  BY TextSize
<1>2. \E p \in 0..(ix.n - 1) : TextPos(sa, p) = v
  BY <1>1, TextIsPermuted, PositionNamed
<1>3. QED
  BY <1>2, TextSize

\* TextPos names each text position once.
LEMMA TextPosIsInjective ==
  ASSUME TextIsIndexed, NEW p \in DOMAIN sa, NEW q \in DOMAIN sa, TextPos(sa, p) = TextPos(sa, q)
  PROVE  p = q
<1>1. p \in 0..(ix.n - 1) /\ q \in 0..(ix.n - 1)
  BY TextSize
<1>2. QED
  BY <1>1, TextIsPermuted, PositionBefore

-----------------------------------------------------------------------------
(* Ranks. *)

\* Ranks (rank of the BWT string, r_index.h) are natural numbers.
LEMMA RankType ==
  ASSUME TextIsIndexed, NEW c, NEW pos
  PROVE  /\ IsFiniteSet({p \in DOMAIN ix.bwt : p < pos /\ ix.bwt[p] = c})
         /\ Rank(c, pos) \in Nat
<1>1. IsFiniteSet(DOMAIN ix.bwt)
  BY PositionsFinite
<1>2. {p \in DOMAIN ix.bwt : p < pos /\ ix.bwt[p] = c} \in SUBSET DOMAIN ix.bwt
  OBVIOUS
<1>3. IsFiniteSet({p \in DOMAIN ix.bwt : p < pos /\ ix.bwt[p] = c})
  BY <1>1, <1>2, FS_Subset
<1>4. QED
  BY <1>3, FS_CardinalityType DEF Rank

\* One position on, the rank of the symbol there grows by one, no other.
LEMMA RankStep ==
  ASSUME TextIsIndexed, NEW c, NEW pos \in DOMAIN sa
  PROVE  Rank(c, pos + 1) = Rank(c, pos) + (IF ix.bwt[pos] = c THEN 1 ELSE 0)
<1> DEFINE S(x) == {p \in DOMAIN ix.bwt : p < x /\ ix.bwt[p] = c}
<1>1. DOMAIN ix.bwt = 0..(ix.n - 1) /\ pos \in 0..(ix.n - 1)
  BY TextSize
<1>2. IsFiniteSet(S(pos)) /\ Rank(c, pos) = Cardinality(S(pos))
      /\ Rank(c, pos + 1) = Cardinality(S(pos + 1)) /\ Rank(c, pos) \in Nat
  BY RankType DEF Rank
<1>3. CASE ix.bwt[pos] = c
  <2>1. S(pos + 1) = S(pos) \cup {pos} /\ pos \notin S(pos)
    BY <1>1, <1>3
  <2>2. Cardinality(S(pos) \cup {pos}) = Cardinality(S(pos)) + 1
    <3> HIDE DEF S
    <3> QED BY <1>2, <2>1, FS_AddElement
  <2>3. QED
    BY <1>2, <1>3, <2>1, <2>2
<1>4. CASE ix.bwt[pos] # c
  <2>1. S(pos + 1) = S(pos)
    BY <1>1, <1>4
  <2>2. QED
    BY <1>2, <1>4, <2>1
<1>5. QED
  BY <1>3, <1>4

\* Between two positions without the symbol, at most, the rank stays.
LEMMA RankSame ==
  ASSUME TextIsIndexed, NEW c, NEW a \in Int, NEW b \in Int, a <= b,
         \A p \in DOMAIN sa : a <= p /\ p < b => ix.bwt[p] # c
  PROVE  Rank(c, a) = Rank(c, b)
<1>1. DOMAIN ix.bwt = DOMAIN sa /\ DOMAIN sa = 0..(ix.n - 1)
  BY TextSize
<1>2. {p \in DOMAIN ix.bwt : p < a /\ ix.bwt[p] = c} = {p \in DOMAIN ix.bwt : p < b /\ ix.bwt[p] = c}
  BY <1>1
<1>3. QED
  BY <1>2 DEF Rank

\* A rank never falls from left to right.
LEMMA RankMonotone ==
  ASSUME TextIsIndexed, NEW c, NEW a \in Int, NEW b \in Int, a <= b
  PROVE  Rank(c, a) <= Rank(c, b)
<1> DEFINE S(x) == {p \in DOMAIN ix.bwt : p < x /\ ix.bwt[p] = c}
<1>1. S(a) \subseteq S(b)
  BY TextSize
<1>2. IsFiniteSet(S(b))
  BY RankType
<1>3. Cardinality(S(a)) <= Cardinality(S(b))
  <2> HIDE DEF S
  <2> QED BY <1>1, <1>2, FS_Subset
<1>4. QED
  BY <1>3 DEF Rank

\* A rank grows over an occurrence of its symbol.
LEMMA RankStrict ==
  ASSUME TextIsIndexed, NEW c, NEW a \in DOMAIN sa, NEW b \in Int, a < b, ix.bwt[a] = c
  PROVE  Rank(c, a) < Rank(c, b)
<1>1. a + 1 \in Int /\ a + 1 <= b
  BY TextSize
<1>2. Rank(c, a + 1) = Rank(c, a) + 1
  BY RankStep
<1>3. Rank(c, a + 1) <= Rank(c, b)
  BY <1>1, RankMonotone
<1>4. Rank(c, a) \in Nat /\ Rank(c, b) \in Nat
  BY RankType
<1>5. QED
  BY <1>2, <1>3, <1>4

-----------------------------------------------------------------------------
(* The runs of the BWT of an index. *)

\* The runs are numbered from 0 and their bounds are natural numbers.
LEMMA RunTypes ==
  ASSUME RunsPartition
  PROVE  /\ Size(ix.run) \in Nat /\ Size(ix.run) > 0
         /\ DOMAIN ix.run = 0..(Size(ix.run) - 1)
         /\ \A k \in DOMAIN ix.run :
              ix.run[k].start \in Nat /\ ix.run[k].end \in Nat /\ ix.run[k].c \in Nat
<1>1. /\ Size(ix.run) \in Nat \ {0}
      /\ ix.run \in [0..(Size(ix.run) - 1) -> [start : Nat, end : Nat, c : Nat]]
  BY DEF RunsPartition
<1>2. \A k \in DOMAIN ix.run : ix.run[k] \in [start : Nat, end : Nat, c : Nat]
  BY <1>1
<1>3. QED
  BY <1>1, <1>2

\* Two runs with a common position are the same run.
LEMMA RunsDisjoint ==
  ASSUME RunsPartition, NEW k \in DOMAIN ix.run, NEW m \in DOMAIN ix.run, NEW p \in Int,
         ix.run[k].start <= p, p < ix.run[k].end, ix.run[m].start <= p, p < ix.run[m].end
  PROVE  k = m
<1>1. \A i, j \in DOMAIN ix.run : i < j => ix.run[i].end <= ix.run[j].start
  BY DEF RunsPartition
<1>2. k \in Int /\ m \in Int
  BY RunTypes
<1>3. ~(k < m)
  BY <1>1, RunTypes
<1>4. ~(m < k)
  BY <1>1, RunTypes
<1>5. QED
  BY <1>2, <1>3, <1>4

\* Every position is in one run.
LEMMA RunAtIs ==
  ASSUME TextIsIndexed, RunsPartition, NEW p \in DOMAIN sa
  PROVE  /\ RunAt(p) \in DOMAIN ix.run
         /\ ix.run[RunAt(p)].start <= p /\ p < ix.run[RunAt(p)].end
         /\ ix.bwt[p] = ix.run[RunAt(p)].c
<1> DEFINE R == Size(ix.run)
           T == {k \in DOMAIN ix.run : ix.run[k].start <= p}
<1>1. R \in Nat /\ R > 0 /\ DOMAIN ix.run = 0..(R - 1) /\ p \in 0..(ix.n - 1) /\ ix.n \in Nat
  BY RunTypes, TextSize
<1>2. 0 \in DOMAIN ix.run /\ ix.run[0].start = 0 /\ R - 1 \in DOMAIN ix.run
      /\ ix.run[R - 1].end = ix.n
  BY <1>1 DEF RunsPartition
<1>3. T \in SUBSET (0..(R - 1)) /\ T # {} /\ R - 1 \in Nat
  BY <1>1, <1>2
<1>4. PICK k \in T : \A m \in T : m <= k
  <2> HIDE DEF T, R
  <2> QED BY <1>3, MaxExists
<1>5. k \in DOMAIN ix.run /\ ix.run[k].start <= p
  BY <1>4
<1>6. p < ix.run[k].end
  <2>1. CASE k = R - 1
    BY <1>1, <1>2, <2>1
  <2>2. CASE k # R - 1
    <3>1. k + 1 \in DOMAIN ix.run /\ k + 1 > 0 /\ (k + 1) - 1 = k
      BY <1>1, <1>5, <2>2
    <3>2. ix.run[k + 1].start = ix.run[k].end
      BY <3>1 DEF RunsPartition
    <3>3. k + 1 \notin T
      BY <1>1, <1>4, <1>5
    <3>4. ~(ix.run[k + 1].start <= p)
      BY <3>1, <3>3
    <3>5. QED
      BY <1>1, <1>5, <3>1, <3>2, <3>4, RunTypes
  <2>3. QED
    BY <2>1, <2>2
<1>7. RunAt(p) \in DOMAIN ix.run /\ ix.run[RunAt(p)].start <= p /\ p < ix.run[RunAt(p)].end
  BY <1>5, <1>6 DEF RunAt
<1>8. ix.bwt[p] = ix.run[RunAt(p)].c
  <2>1. p \in ix.run[RunAt(p)].start .. (ix.run[RunAt(p)].end - 1)
    BY <1>1, <1>7, RunTypes
  <2>2. QED
    BY <1>7, <2>1 DEF RunsPartition
<1>9. QED
  BY <1>7, <1>8

\* The run that RunAt chooses for a position is the one that contains it.
LEMMA RunAtUnique ==
  ASSUME TextIsIndexed, RunsPartition, NEW p \in DOMAIN sa, NEW k \in DOMAIN ix.run,
         ix.run[k].start <= p, p < ix.run[k].end
  PROVE  RunAt(p) = k
  BY RunAtIs, RunsDisjoint, TextSize

-----------------------------------------------------------------------------
(* The symbols of an index. *)

\* The alphabet of the text is a finite set of natural numbers.
LEMMA SymbolsFinite ==
  ASSUME TextIsIndexed
  PROVE  IsFiniteSet(Symbols(text)) /\ \A x \in Symbols(text) : x \in Nat
  BY TextIsPermuted, AlphabetIsFinite

\* Comp counts the symbols of the text below one.
LEMMA CompIs ==
  ASSUME TextIsIndexed, NEW x \in Nat
  PROVE  Comp(text, x) \in Nat
  BY TextIsPermuted, CompCounts

\* The ranks of the symbols (char2comp) are in the order of the symbols.
LEMMA CompOrder ==
  ASSUME TextIsIndexed, NEW x \in Symbols(text), NEW y \in Symbols(text), x < y
  PROVE  Comp(text, x) < Comp(text, y)
  BY TextIsPermuted, CompGrows

\* No two symbols have the same rank (char2comp).
LEMMA CompInjective ==
  ASSUME TextIsIndexed, NEW x \in Symbols(text), NEW y \in Symbols(text),
         Comp(text, x) = Comp(text, y)
  PROVE  x = y
<1>1. x \in Nat /\ y \in Nat /\ Comp(text, x) \in Nat
  BY SymbolsFinite, CompIs
<1>2. ~(x < y) /\ ~(y < x)
  BY <1>1, CompOrder
<1>3. QED
  BY <1>1, <1>2

\* The BWT symbol of a position is that of the text position before.
LEMMA BwtIs ==
  ASSUME TextIsIndexed, NEW p \in DOMAIN sa
  PROVE  /\ ix.bwt[p] = Comp(text, text[TextPos(sa, p)])
         /\ text[TextPos(sa, p)] \in Symbols(text)
  BY TextSize DEF TextIsIndexed, BWT, Symbols

\* The cumulative count of a symbol of the text counts the smaller BWT symbols.
LEMMA CumulativeIs ==
  ASSUME TextIsIndexed, NEW x \in Symbols(text)
  PROVE  /\ ix.C[Comp(text, x)] = Cardinality({p \in DOMAIN ix.bwt : ix.bwt[p] < Comp(text, x)})
         /\ ix.C[Comp(text, x)] \in Nat
<1>1. ix.bwt = BWT(text, sa) /\ ix.C = Cumulative(BWT(text, sa))
  BY DEF TextIsIndexed
<1>2. /\ Cumulative(BWT(text, sa))[Comp(text, x)]
           = Cardinality({p \in DOMAIN BWT(text, sa) : BWT(text, sa)[p] < Comp(text, x)})
      /\ Cumulative(BWT(text, sa))[Comp(text, x)] \in Nat
  BY TextIsPermuted, CumulativeCounts
<1>3. QED
  BY <1>1, <1>2

\* Every symbol of the BWT is the rank of a symbol of the text.
LEMMA CompOfBwt ==
  ASSUME TextIsIndexed, NEW p \in DOMAIN sa
  PROVE  \E x \in Symbols(text) : ix.bwt[p] = Comp(text, x)
  BY BwtIs

\* The symbols of the BWT and their cumulative counts are natural numbers.
LEMMA BwtType ==
  ASSUME TextIsIndexed, NEW p \in DOMAIN sa
  PROVE  ix.bwt[p] \in Nat /\ ix.C[ix.bwt[p]] \in Nat
  BY BwtIs, SymbolsFinite, CompIs, CumulativeIs

\* The positions that LF gives one symbol come before those of the next.
LEMMA BlocksOrdered ==
  ASSUME TextIsIndexed, NEW x \in Symbols(text), NEW y \in Symbols(text),
         Comp(text, x) < Comp(text, y), NEW pos
  PROVE  ix.C[Comp(text, x)] + Rank(Comp(text, x), pos) <= ix.C[Comp(text, y)]
<1> DEFINE c == Comp(text, x)
           d == Comp(text, y)
           A == {p \in DOMAIN ix.bwt : ix.bwt[p] < c}
           B == {p \in DOMAIN ix.bwt : p < pos /\ ix.bwt[p] = c}
           D == {p \in DOMAIN ix.bwt : ix.bwt[p] < d}
<1>1. ix.C[c] = Cardinality(A) /\ ix.C[d] = Cardinality(D) /\ Rank(c, pos) = Cardinality(B)
  BY CumulativeIs DEF Rank
<1>2. IsFiniteSet(DOMAIN ix.bwt) /\ DOMAIN ix.bwt = DOMAIN sa
  <2>1. DOMAIN ix.bwt = 0..(ix.n - 1) /\ DOMAIN sa = 0..(ix.n - 1) /\ ix.n - 1 \in Int
    BY TextSize
  <2>2. QED
    BY <2>1, FS_Interval
<1>3. c \in Nat /\ d \in Nat /\ \A p \in DOMAIN ix.bwt : ix.bwt[p] \in Nat
  BY <1>2, SymbolsFinite, CompIs, BwtType
<1>4. A \cap B = {} /\ A \cup B \subseteq D /\ A \in SUBSET DOMAIN ix.bwt
      /\ B \in SUBSET DOMAIN ix.bwt /\ D \in SUBSET DOMAIN ix.bwt
  <2>1. \A p \in DOMAIN ix.bwt : ix.bwt[p] < c => ix.bwt[p] # c /\ ix.bwt[p] < d
    BY <1>3
  <2>2. c < d
    OBVIOUS
  <2> HIDE DEF c, d
  <2>3. QED
    BY <2>1, <2>2
<1> HIDE DEF A, B, D
<1>5. IsFiniteSet(A) /\ IsFiniteSet(B) /\ IsFiniteSet(D)
  BY <1>2, <1>4, FS_Subset
<1>6. Cardinality(A \cup B) = Cardinality(A) + Cardinality(B) - Cardinality({})
  BY <1>4, <1>5, FS_Union
<1>7. Cardinality(A \cup B) <= Cardinality(D)
  BY <1>4, <1>5, FS_Subset
<1>8. QED
  BY <1>1, <1>5, <1>6, <1>7, FS_EmptySet, FS_CardinalityType

\* The terminator is a run of its own: one of the runs starts right before text
\* position 0.
LEMMA TerminatorRun ==
  ASSUME TextIsIndexed, RunsPartition
  PROVE  \E k \in DOMAIN ix.run :
           ix.run[k].start \in DOMAIN sa /\ TextPos(sa, ix.run[k].start) = ix.n - 1
<1>1. ix.n \in Nat /\ ix.n > 0 /\ DOMAIN sa = 0..(ix.n - 1) /\ DOMAIN text = 0..(ix.n - 1)
      /\ ix.n - 1 \in DOMAIN text
  BY TextSize
<1>2. PICK p \in DOMAIN sa : TextPos(sa, p) = ix.n - 1
  BY <1>1, TextPosIsOnto
<1> DEFINE k == RunAt(p)
           q == ix.run[k].start
<1>3. /\ k \in DOMAIN ix.run /\ q <= p /\ p < ix.run[k].end
      /\ q \in Nat /\ ix.run[k].end \in Nat /\ p \in 0..(ix.n - 1)
  BY <1>1, RunAtIs, RunTypes
<1>4. q \in DOMAIN sa
  BY <1>1, <1>3
<1>5. ix.bwt[q] = ix.bwt[p]
  <2>1. q \in q .. (ix.run[k].end - 1) /\ p \in q .. (ix.run[k].end - 1)
    BY <1>3
  <2>2. \A x \in q .. (ix.run[k].end - 1) : ix.bwt[x] = ix.run[k].c
    BY <1>3 DEF RunsPartition
  <2>3. QED
    BY <2>1, <2>2
<1>6. text[TextPos(sa, q)] = text[TextPos(sa, p)]
  BY <1>4, <1>5, BwtIs, CompInjective
<1>7. TextPos(sa, q) = ix.n - 1
  <2>1. text[TextPos(sa, p)] = 0
    BY <1>1, <1>2 DEF TextIsIndexed
  <2>2. TextPos(sa, q) \in DOMAIN text
    BY <1>1, <1>4, TextSize
  <2>3. QED
    BY <1>6, <2>1, <2>2 DEF TextIsIndexed
<1>8. QED
  BY <1>3, <1>4, <1>7

-----------------------------------------------------------------------------
(* LF of an index. *)

\* LF is right on the BWT of a suffix array.
LEMMA LFRight ==
  ASSUME TextIsIndexed, sa = SuffixArray(text)
  PROVE  LFIsRight
<1>1. Terminated(text, ix.n) /\ DOMAIN sa = 0..(ix.n - 1)
  BY TextIsPermuted, TextSize
<1>2. ix.bwt = BWT(text, SuffixArray(text)) /\ ix.C = Cumulative(BWT(text, SuffixArray(text)))
  BY DEF TextIsIndexed
<1>3. ASSUME NEW p \in DOMAIN sa
      PROVE  LF(p) \in DOMAIN sa /\ sa[LF(p)] = TextPos(sa, p)
  <2> DEFINE b == BWT(text, SuffixArray(text))
             r == Cumulative(b)[b[p]] + Cardinality({q \in DOMAIN b : q < p /\ b[q] = b[p]})
  <2>1. r \in 0..(ix.n - 1) /\ SuffixArray(text)[r] = TextPos(SuffixArray(text), p)
    BY <1>1, LFCounts
  <2>2. LF(p) = r
    BY <1>2 DEF LF, Rank
  <2> HIDE DEF r
  <2>3. QED
    BY <1>1, <2>1, <2>2
<1>4. QED
  BY <1>3 DEF LFIsRight

\* LF of a position is the cumulative count of its symbol plus the rank there.
LEMMA LFIs ==
  ASSUME TextIsIndexed, NEW c, NEW q \in DOMAIN sa, ix.bwt[q] = c
  PROVE  LF(q) = ix.C[c] + Rank(c, q)
  BY DEF LF

\* LF gives different positions different images.
LEMMA LFInjective ==
  ASSUME TextIsIndexed, LFIsRight, NEW p \in DOMAIN sa, NEW q \in DOMAIN sa, LF(p) = LF(q)
  PROVE  p = q
<1>1. ix.n \in Nat \ {0} /\ sa[p] \in 0..(ix.n - 1) /\ sa[q] \in 0..(ix.n - 1)
  BY TextSize DEF TextIsIndexed
<1>2. (sa[p] + (-1)) % ix.n = (sa[q] + (-1)) % ix.n
  BY TextPosIsBefore DEF LFIsRight
<1>3. sa[p] = sa[q]
  BY <1>1, <1>2, ModCancel
<1>4. QED
  BY <1>3 DEF TextIsIndexed

\* Every position is the image of one.
LEMMA LFIsOnto ==
  ASSUME TextIsIndexed, LFIsRight, NEW p \in DOMAIN sa
  PROVE  \E q \in DOMAIN sa : LF(q) = p
<1>1. sa[p] \in DOMAIN text
  BY TextSize
<1>2. PICK q \in DOMAIN sa : TextPos(sa, q) = sa[p]
  BY <1>1, TextPosIsOnto
<1>3. LF(q) \in DOMAIN sa /\ sa[LF(q)] = sa[p]
  BY <1>2 DEF LFIsRight
<1>4. QED
  BY <1>3 DEF TextIsIndexed

\* LF goes one symbol back: what was steps symbols away is one more away.
LEMMA OneMore ==
  ASSUME TextIsIndexed, LFIsRight, NEW q \in DOMAIN sa, NEW steps \in Int
  PROVE  LF(q) \in DOMAIN sa /\ (sa[LF(q)] + (steps + 1)) % ix.n = (sa[q] + steps) % ix.n
<1>1. ix.n \in Nat \ {0} /\ sa[q] \in Int
  BY TextSize DEF TextIsIndexed
<1>2. LF(q) \in DOMAIN sa /\ sa[LF(q)] = (sa[q] + (-1)) % ix.n
  BY TextPosIsBefore DEF LFIsRight
<1>3. (((sa[q] + (-1)) % ix.n) + (steps + 1)) % ix.n = ((sa[q] + (-1)) + (steps + 1)) % ix.n
  <2>1. sa[q] + (-1) \in Int /\ steps + 1 \in Int
    BY <1>1
  <2>2. QED
    BY <1>1, <2>1, ModMod
<1>4. (sa[q] + (-1)) + (steps + 1) = sa[q] + steps
  BY <1>1
<1>5. QED
  BY <1>2, <1>3, <1>4

\* Over positions of one symbol the rank grows with the position.
LEMMA RankInRun ==
  ASSUME TextIsIndexed, NEW c, NEW a \in Nat, NEW b \in Nat, a <= b, b <= ix.n,
         \A p \in a .. (b - 1) : ix.bwt[p] = c
  PROVE  Rank(c, b) = Rank(c, a) + (b - a)
<1> DEFINE S(x) == {p \in DOMAIN ix.bwt : p < x /\ ix.bwt[p] = c}
<1>1. DOMAIN ix.bwt = 0..(ix.n - 1) /\ ix.n \in Nat
  BY TextSize
<1>2. S(b) = S(a) \cup (a .. (b - 1)) /\ S(a) \cap (a .. (b - 1)) = {}
  BY <1>1
<1>3. IsFiniteSet(S(a)) /\ Rank(c, a) = Cardinality(S(a)) /\ Rank(c, b) = Cardinality(S(b))
      /\ Rank(c, a) \in Nat
  BY RankType DEF Rank
<1>4. IsFiniteSet(a .. (b - 1)) /\ Cardinality(a .. (b - 1)) = b - a
  <2>1. a \in Int /\ b - 1 \in Int /\ (IF a > b - 1 THEN 0 ELSE (b - 1) - a + 1) = b - a
    OBVIOUS
  <2>2. QED
    BY <2>1, FS_Interval
<1> HIDE DEF S
<1>5. Cardinality(S(b)) = Cardinality(S(a)) + Cardinality(a .. (b - 1)) - Cardinality({})
  BY <1>2, <1>3, <1>4, FS_Union
<1>6. QED
  BY <1>3, <1>4, <1>5, FS_EmptySet

\* The block that LF gives a symbol lies in the suffix array.
LEMMA BlockInside ==
  ASSUME TextIsIndexed, NEW x \in Symbols(text), NEW pos
  PROVE  ix.C[Comp(text, x)] + Rank(Comp(text, x), pos) <= ix.n
<1> DEFINE c == Comp(text, x)
           A == {p \in DOMAIN ix.bwt : ix.bwt[p] < c}
           B == {p \in DOMAIN ix.bwt : p < pos /\ ix.bwt[p] = c}
<1>1. ix.C[c] = Cardinality(A) /\ Rank(c, pos) = Cardinality(B)
  BY CumulativeIs DEF Rank
<1>2. DOMAIN ix.bwt = 0..(ix.n - 1) /\ DOMAIN ix.bwt = DOMAIN sa /\ ix.n \in Nat /\ ix.n > 0
  BY TextSize
<1>3. IsFiniteSet(DOMAIN ix.bwt) /\ Cardinality(DOMAIN ix.bwt) = ix.n
  <2>1. 0 \in Int /\ ix.n - 1 \in Int
    BY <1>2
  <2>2. /\ IsFiniteSet(0..(ix.n - 1))
        /\ Cardinality(0..(ix.n - 1)) = IF 0 > ix.n - 1 THEN 0 ELSE (ix.n - 1) - 0 + 1
    BY <2>1, FS_Interval
  <2>3. QED
    BY <1>2, <2>2
<1>4. c \in Nat /\ \A p \in DOMAIN ix.bwt : ix.bwt[p] \in Nat
  BY <1>2, SymbolsFinite, CompIs, BwtType
<1>5. A \cap B = {} /\ A \cup B \in SUBSET DOMAIN ix.bwt
      /\ A \in SUBSET DOMAIN ix.bwt /\ B \in SUBSET DOMAIN ix.bwt
  <2>1. \A p \in DOMAIN ix.bwt : ix.bwt[p] < c => ix.bwt[p] # c
    BY <1>4
  <2> HIDE DEF c
  <2>2. QED
    BY <2>1
<1> HIDE DEF A, B
<1>6. IsFiniteSet(A) /\ IsFiniteSet(B)
  BY <1>3, <1>5, FS_Subset
<1>7. Cardinality(A \cup B) = Cardinality(A) + Cardinality(B) - Cardinality({})
  BY <1>5, <1>6, FS_Union
<1>8. Cardinality(A \cup B) <= ix.n
  BY <1>3, <1>5, FS_Subset
<1>9. QED
  BY <1>1, <1>6, <1>7, <1>8, FS_EmptySet, FS_CardinalityType

\* A step of the search takes the positions of a range that hold the symbol.
LEMMA NextRange ==
  ASSUME TextIsIndexed, LFIsRight, NEW x \in Symbols(text),
         NEW a \in Nat, NEW b \in Nat, a < b, b <= ix.n, NEW q \in DOMAIN sa
  PROVE  LET c == Comp(text, x)
         IN ix.C[c] + Rank(c, a) <= LF(q) /\ LF(q) < ix.C[c] + Rank(c, b)
              <=> a <= q /\ q < b /\ ix.bwt[q] = c
<1> DEFINE c == Comp(text, x)
           d == ix.bwt[q]
           first == ix.C[c] + Rank(c, a)
           last == ix.C[c] + Rank(c, b)
<1>1. ix.C[c] \in Nat /\ Rank(c, a) \in Nat /\ Rank(c, b) \in Nat
  BY CumulativeIs, RankType
<1>2. a \in DOMAIN sa /\ q \in Int /\ DOMAIN sa = 0..(ix.n - 1) /\ ix.n \in Nat
  BY TextSize
<1>3. LF(q) = ix.C[d] + Rank(d, q) /\ ix.C[d] \in Nat /\ Rank(d, q) \in Nat /\ d \in Nat /\ c \in Nat
  BY SymbolsFinite, CompIs, BwtType, RankType DEF LF
<1>4. PICK y \in Symbols(text) : d = Comp(text, y)
  BY CompOfBwt
<1>5. first = ix.C[c] + Rank(c, a) /\ last = ix.C[c] + Rank(c, b)
  OBVIOUS
<1> HIDE DEF c, d, first, last
<1>6. first <= LF(q) /\ LF(q) < last <=> a <= q /\ q < b /\ d = c
  <2>1. CASE d = c
    <3>1. Rank(c, a) <= Rank(c, q) <=> a <= q
      <4>1. a <= q => Rank(c, a) <= Rank(c, q)
        BY <1>2, RankMonotone
      <4>2. q < a => Rank(c, q) < Rank(c, a)
        BY <1>2, <2>1, RankStrict DEF d
      <4>3. QED
        BY <1>1, <1>2, <1>3, <2>1, <4>1, <4>2
    <3>2. Rank(c, q) < Rank(c, b) <=> q < b
      <4>1. q < b => Rank(c, q) < Rank(c, b)
        BY <1>2, <2>1, RankStrict DEF d
      <4>2. b <= q => Rank(c, b) <= Rank(c, q)
        BY <1>2, RankMonotone
      <4>3. QED
        BY <1>1, <1>2, <1>3, <2>1, <4>1, <4>2
    <3>3. QED
      BY <1>1, <1>3, <1>5, <2>1, <3>1, <3>2
  <2>2. CASE d < c
    <3>1. Rank(d, q) < Rank(d, ix.n) /\ Rank(d, ix.n) \in Nat
      <4>1. q < ix.n /\ ix.n \in Int /\ ix.bwt[q] = d
        BY <1>2 DEF d
      <4>2. QED
        BY <4>1, RankStrict, RankType
    <3>2. ix.C[d] + Rank(d, ix.n) <= ix.C[c]
      BY <1>4, <2>2, BlocksOrdered DEF c
    <3>3. QED
      BY <1>1, <1>3, <1>5, <2>2, <3>1, <3>2
  <2>3. CASE c < d
    <3>1. ix.C[c] + Rank(c, b) <= ix.C[d]
      BY <1>4, <2>3, BlocksOrdered DEF c
    <3>2. QED
      BY <1>1, <1>3, <1>5, <2>3, <3>1
  <2>4. QED
    BY <1>3, <2>1, <2>2, <2>3
<1>7. QED
  BY <1>6 DEF c, d, first, last

-----------------------------------------------------------------------------
(* Suffixes that start with a part of a pattern. *)

\* A pattern is a sequence of symbols of the text other than the terminator.
LEMMA PatternType ==
  ASSUME TextIsIndexed, NEW max \in Nat, NEW p \in Patterns(text, max)
  PROVE  /\ p \in Seq(Nat) /\ Len(p) \in Nat /\ Len(p) > 0 /\ DOMAIN p = 1..Len(p)
         /\ \A k \in DOMAIN p : p[k] \in Symbols(text) /\ p[k] # 0
<1>1. PICK m \in 1..max : p \in [1..m -> Symbols(text) \ {0}]
  BY DEF Patterns, Symbols
<1>2. m \in Nat /\ m > 0
  BY <1>1
<1>3. p \in [1..m -> Nat] /\ DOMAIN p = 1..m
  BY <1>1, SymbolsFinite
<1>4. p \in Seq(Nat) /\ Len(p) = m
  BY <1>2, <1>3
<1>5. QED
  BY <1>1, <1>2, <1>3, <1>4

\* The positions where the part of the pattern after a occurs.
LEMMA OccurrencesIs ==
  ASSUME NEW p \in Seq(Nat), NEW a \in 0..Len(p), NEW i \in Int
  PROVE  i \in Occurrences(text, SubSeq(p, a + 1, Len(p))) <=>
           /\ i \in DOMAIN text
           /\ \A j \in (a + 1)..Len(p) :
                i + (j - a) - 1 \in DOMAIN text /\ text[i + (j - a) - 1] = p[j]
<1> DEFINE n == Len(p)
           s == SubSeq(p, a + 1, n)
<1>1. n \in Nat /\ a \in Nat /\ a <= n /\ \A j \in 1..n : p[j] \in Nat
  OBVIOUS
<1>2. DOMAIN s = 1..(n - a) /\ \A k \in 1..(n - a) : s[k] = p[a + k]
  <2>1. CASE a = n
    BY <1>1, <2>1
  <2>2. CASE a < n
    BY <1>1, <2>2
  <2>3. QED
    BY <1>1, <2>1, <2>2
<1> HIDE DEF s, n
<1>3. ASSUME i \in Occurrences(text, s), NEW j \in (a + 1)..n
      PROVE  i + (j - a) - 1 \in DOMAIN text /\ text[i + (j - a) - 1] = p[j]
  <2>1. j - a \in 1..(n - a) /\ a + (j - a) = j
    BY <1>1
  <2>2. i + (j - a) - 1 \in DOMAIN text /\ text[i + (j - a) - 1] = s[j - a] /\ s[j - a] = p[a + (j - a)]
    BY <1>2, <1>3, <2>1 DEF Occurrences
  <2>3. QED
    BY <2>1, <2>2
<1>4. ASSUME NEW k \in DOMAIN s, i \in DOMAIN text,
             \A j \in (a + 1)..n :
                i + (j - a) - 1 \in DOMAIN text /\ text[i + (j - a) - 1] = p[j]
      PROVE  i + k - 1 \in DOMAIN text /\ text[i + k - 1] = s[k]
  <2>1. k \in 1..(n - a) /\ a + k \in (a + 1)..n /\ (a + k) - a = k
    BY <1>1, <1>2
  <2>2. i + ((a + k) - a) - 1 \in DOMAIN text /\ text[i + ((a + k) - a) - 1] = p[a + k]
    BY <1>4, <2>1
  <2>3. QED
    BY <1>2, <2>1, <2>2
<1>5. i \in Occurrences(text, s) => i \in DOMAIN text
  BY DEF Occurrences
<1>6. (i \in DOMAIN text /\ \A k \in DOMAIN s : i + k - 1 \in DOMAIN text /\ text[i + k - 1] = s[k])
        => i \in Occurrences(text, s)
  BY DEF Occurrences
<1>7. QED
  BY <1>3, <1>4, <1>5, <1>6 DEF s, n

\* A suffix starts with one symbol more of the pattern if and only if the one a
\* symbol later starts with the rest and the BWT holds the symbol for it.
LEMMA OccurrenceStep ==
  ASSUME TextIsIndexed, LFIsRight, NEW max \in Nat, NEW p \in Patterns(text, max),
         NEW a \in 1..Len(p), NEW q \in DOMAIN sa
  PROVE  sa[LF(q)] \in Occurrences(text, SubSeq(p, a, Len(p))) <=>
           /\ sa[q] \in Occurrences(text, SubSeq(p, a + 1, Len(p)))
           /\ ix.bwt[q] = Comp(text, p[a])
<1> DEFINE n == Len(p)
           i == sa[LF(q)]
           v == sa[q]
<1>1. /\ p \in Seq(Nat) /\ n \in Nat /\ a \in Nat /\ a \in DOMAIN p /\ p[a] \in Symbols(text) /\ p[a] # 0
  BY PatternType
<1>2. /\ LF(q) \in DOMAIN sa /\ i = TextPos(sa, q) /\ i \in DOMAIN text /\ i \in Int /\ v \in Nat
      /\ v \in DOMAIN text /\ ix.n \in Nat /\ Size(sa) = ix.n /\ DOMAIN text = 0..(ix.n - 1)
  <2>1. LF(q) \in DOMAIN sa /\ i = TextPos(sa, q)
    BY DEF LFIsRight
  <2>2. QED
    BY <2>1, TextSize
<1>3. ix.bwt[q] = Comp(text, p[a]) <=> text[i] = p[a]
  <2>1. ix.bwt[q] = Comp(text, text[i]) /\ text[i] \in Symbols(text)
    BY <1>2, BwtIs
  <2>2. QED
    BY <1>1, <2>1, CompInjective
<1>4. text[i] = p[a] => i + 1 = v
  <2>1. v = 0 => i = ix.n - 1
    BY <1>2 DEF TextPos
  <2>2. v # 0 => i = v - 1
    BY <1>2 DEF TextPos
  <2>3. i = ix.n - 1 => text[i] = 0
    BY <1>2 DEF TextIsIndexed
  <2> HIDE DEF i, v
  <2>4. QED
    BY <1>1, <1>2, <2>1, <2>2, <2>3
<1>5. i \in Occurrences(text, SubSeq(p, a, n)) <=>
        \A j \in a..n : i + (j - (a - 1)) - 1 \in DOMAIN text /\ text[i + (j - (a - 1)) - 1] = p[j]
  <2>1. a - 1 \in 0..n /\ a - 1 + 1 = a
    BY <1>1
  <2>2. i \in Occurrences(text, SubSeq(p, a - 1 + 1, n)) <=>
          /\ i \in DOMAIN text
          /\ \A j \in (a - 1 + 1)..n :
               i + (j - (a - 1)) - 1 \in DOMAIN text /\ text[i + (j - (a - 1)) - 1] = p[j]
    BY <1>1, <1>2, <2>1, OccurrencesIs
  <2> HIDE DEF i, n
  <2>3. QED
    BY <1>2, <2>1, <2>2
<1>6. v \in Occurrences(text, SubSeq(p, a + 1, n)) <=>
        \A j \in (a + 1)..n : v + (j - a) - 1 \in DOMAIN text /\ text[v + (j - a) - 1] = p[j]
  <2>1. a \in 0..n /\ v \in Int
    BY <1>1, <1>2
  <2>2. QED
    BY <1>1, <1>2, <2>1, OccurrencesIs
<1> HIDE DEF i, v, n
<1>7. ASSUME text[i] = p[a], i + 1 = v, NEW j \in (a + 1)..n
      PROVE  v + (j - a) - 1 = i + (j - (a - 1)) - 1
  <2>1. j \in Int /\ a \in Int /\ i \in Int /\ v \in Int
    BY <1>1, <1>2
  <2>2. QED
    BY <1>7, <2>1
<1>8. i + (a - (a - 1)) - 1 = i
  BY <1>1, <1>2
<1>9. a \in a..n
  BY <1>1 DEF n
<1>10. \A j \in (a + 1)..n : j \in a..n
  BY <1>1
<1>11. \A j \in a..n : j = a \/ j \in (a + 1)..n
  BY <1>1
<1>12. ASSUME \A j \in a..n : i + (j - (a - 1)) - 1 \in DOMAIN text
                              /\ text[i + (j - (a - 1)) - 1] = p[j]
       PROVE  /\ \A j \in (a + 1)..n : v + (j - a) - 1 \in DOMAIN text /\ text[v + (j - a) - 1] = p[j]
              /\ text[i] = p[a]
  <2>1. text[i] = p[a]
    BY <1>8, <1>9, <1>12
  <2>2. QED
    BY <1>4, <1>7, <1>10, <1>12, <2>1
<1>13. ASSUME \A j \in (a + 1)..n : v + (j - a) - 1 \in DOMAIN text /\ text[v + (j - a) - 1] = p[j],
              text[i] = p[a], NEW j \in a..n
       PROVE  i + (j - (a - 1)) - 1 \in DOMAIN text /\ text[i + (j - (a - 1)) - 1] = p[j]
  <2>1. CASE j = a
    BY <1>2, <1>8, <1>13, <2>1
  <2>2. CASE j # a
    BY <1>4, <1>7, <1>11, <1>13, <2>2
  <2>3. QED
    BY <2>1, <2>2
<1>14. QED
  BY <1>3, <1>5, <1>6, <1>12, <1>13 DEF i, v, n

\* Where the pattern occurs, the part of it after a occurs a symbols later.
LEMMA PartOccurs ==
  ASSUME TextIsIndexed, NEW max \in Nat, NEW p \in Patterns(text, max),
         NEW a \in 0..(Len(p) - 1), NEW i \in Occurrences(text, p)
  PROVE  i + a \in Occurrences(text, SubSeq(p, a + 1, Len(p)))
<1> DEFINE n == Len(p)
<1>1. p \in Seq(Nat) /\ n \in Nat /\ a \in Nat /\ DOMAIN p = 1..n /\ a < n
  BY PatternType
<1>2. i \in DOMAIN text /\ i \in Int
  BY TextSize DEF Occurrences
<1>3. \A k \in 1..n : i + k - 1 \in DOMAIN text /\ text[i + k - 1] = p[k]
  BY <1>1 DEF Occurrences
<1> HIDE DEF n
<1>4. i + a \in DOMAIN text
  <2>1. a + 1 \in 1..n /\ i + (a + 1) - 1 = i + a
    BY <1>1, <1>2
  <2>2. QED
    BY <1>3, <2>1
<1>5. ASSUME NEW j \in (a + 1)..n
      PROVE  (i + a) + (j - a) - 1 \in DOMAIN text /\ text[(i + a) + (j - a) - 1] = p[j]
  <2>1. j \in 1..n /\ (i + a) + (j - a) - 1 = i + j - 1
    BY <1>1, <1>2
  <2>2. QED
    BY <1>3, <2>1
<1>6. a \in 0..n /\ i + a \in Int
  BY <1>1, <1>2
<1>7. QED
  BY <1>1, <1>4, <1>5, <1>6, OccurrencesIs DEF n

\* A range found empty before the first symbol is reached: the pattern does not occur.
LEMMA EmptyMeansNone ==
  ASSUME TextIsIndexed, NEW max \in Nat, NEW p \in Patterns(text, max),
         NEW a \in 0..(Len(p) - 1),
         \A q \in DOMAIN sa : sa[q] \notin Occurrences(text, SubSeq(p, a + 1, Len(p)))
  PROVE  Occurrences(text, p) = {}
<1> SUFFICES ASSUME NEW i \in Occurrences(text, p) PROVE FALSE
  OBVIOUS
<1>1. i + a \in Occurrences(text, SubSeq(p, a + 1, Len(p)))
  BY PartOccurs
<1>2. i + a \in 0..(ix.n - 1)
  BY <1>1, TextSize DEF Occurrences
<1>3. QED
  BY <1>1, <1>2, SaIsOnto

\* The new range holds the suffixes that start with one symbol more.
LEMMA SearchStepRight ==
  ASSUME TextIsIndexed, LFIsRight, NEW max \in Nat, NEW p \in Patterns(text, max),
         NEW a \in 1..Len(p),
         NEW rng \in [start : Nat, end : Nat], rng.start < rng.end, rng.end <= ix.n,
         \A q \in DOMAIN sa :
           InRange(rng, q) <=> sa[q] \in Occurrences(text, SubSeq(p, a + 1, Len(p))),
         NEW next,
         next.start = ix.C[Comp(text, p[a])] + Rank(Comp(text, p[a]), rng.start),
         next.end = ix.C[Comp(text, p[a])] + Rank(Comp(text, p[a]), rng.end),
         NEW r \in DOMAIN sa
  PROVE  InRange(next, r) <=> sa[r] \in Occurrences(text, SubSeq(p, a, Len(p)))
<1> DEFINE c == Comp(text, p[a])
<1>1. PICK q \in DOMAIN sa : LF(q) = r
  BY LFIsOnto
<1>2. p[a] \in Symbols(text)
  BY PatternType
<1>3. rng.start \in Nat /\ rng.end \in Nat
  OBVIOUS
<1>4. InRange(next, r) <=> ix.C[c] + Rank(c, rng.start) <= r /\ r < ix.C[c] + Rank(c, rng.end)
  BY DEF InRange
<1>5. ix.C[c] + Rank(c, rng.start) <= LF(q) /\ LF(q) < ix.C[c] + Rank(c, rng.end)
        <=> rng.start <= q /\ q < rng.end /\ ix.bwt[q] = c
  BY <1>2, <1>3, NextRange
<1>6. sa[r] \in Occurrences(text, SubSeq(p, a, Len(p))) <=> InRange(rng, q) /\ ix.bwt[q] = c
  BY <1>1, OccurrenceStep
<1> HIDE DEF c
<1>7. QED
  BY <1>1, <1>4, <1>5, <1>6 DEF InRange

\* The range found has as many positions as the pattern has occurrences, and its
\* entries are exactly those.
LEMMA RangeCounts ==
  ASSUME TextIsIndexed, NEW rng \in [start : Nat, end : Nat],
         rng.start <= rng.end, rng.end <= ix.n, NEW occ \in SUBSET DOMAIN text,
         \A p \in DOMAIN sa : InRange(rng, p) <=> sa[p] \in occ
  PROVE  /\ Cardinality(occ) = rng.end - rng.start
         /\ \A v \in occ : \E p \in rng.start .. (rng.end - 1) : p \in DOMAIN sa /\ sa[p] = v
<1> DEFINE a == rng.start
           b == rng.end
           P == a .. (b - 1)
           f == [p \in P |-> sa[p]]
<1>1. /\ ix.n \in Nat /\ DOMAIN sa = 0..(ix.n - 1) /\ DOMAIN text = 0..(ix.n - 1)
      /\ a \in Nat /\ b \in Nat /\ a <= b /\ b <= ix.n
  BY TextSize
<1>2. \A p : p \in P <=> p \in DOMAIN sa /\ InRange(rng, p)
  BY <1>1 DEF InRange
<1>3. \A v \in occ : \E p \in P : p \in DOMAIN sa /\ sa[p] = v
  BY <1>1, <1>2, SaIsOnto
<1>4. \A p \in P : p \in DOMAIN sa /\ sa[p] \in occ
  BY <1>2
<1>5. f \in Bijection(P, occ)
  <2>1. \A p, q \in P : f[p] = f[q] => p = q
    BY <1>4 DEF TextIsIndexed
  <2>2. f \in [P -> occ]
    BY <1>4
  <2>3. \A v \in occ : \E p \in P : f[p] = v
    BY <1>3
  <2> HIDE DEF f
  <2>4. QED
    BY <2>1, <2>2, <2>3 DEF Bijection, Injection, Surjection, IsInjective
<1>6. IsFiniteSet(P) /\ Cardinality(P) = b - a
  <2>1. a \in Int /\ b - 1 \in Int
    BY <1>1
  <2>2. IsFiniteSet(P) /\ Cardinality(P) = IF a > b - 1 THEN 0 ELSE (b - 1) - a + 1
    BY <2>1, FS_Interval
  <2>3. QED
    BY <1>1, <2>2
<1>7. Cardinality(occ) = b - a
  BY <1>5, <1>6, FS_Bijection DEF ExistsBijection
<1>8. QED
  BY <1>3, <1>7

-----------------------------------------------------------------------------
(* LF and psi as the construction computes them, for any BWT.              *)

\* The symbols are numbered without gaps: char2comp ranks those the text uses.
Compact(bwt, n) ==
  /\ n \in Nat \ {0} /\ bwt \in [0..(n - 1) -> Nat]
  /\ \A p \in 0..(n - 1) : \A c \in 0..bwt[p] : \E q \in 0..(n - 1) : bwt[q] = c

\* The order in which LF lists the positions: by symbol, then from left to right.
ByBwt(bwt) ==
  {xy \in (DOMAIN bwt) \X (DOMAIN bwt) :
     bwt[xy[1]] < bwt[xy[2]] \/ (bwt[xy[1]] = bwt[xy[2]] /\ xy[1] < xy[2])}

\* Positions below a bound are finitely many.
LEMMA PositionsBelow ==
  ASSUME NEW n \in Nat
  PROVE  IsFiniteSet(0..(n - 1)) /\ Cardinality(0..(n - 1)) = n
<1>1. 0 \in Int /\ n - 1 \in Int
  OBVIOUS
<1>2. IsFiniteSet(0..(n - 1)) /\ Cardinality(0..(n - 1)) = IF 0 > n - 1 THEN 0 ELSE (n - 1) - 0 + 1
  BY <1>1, FS_Interval
<1>3. QED
  BY <1>2

\* A finite set of numbers has a greatest one.
LEMMA GreatestOf ==
  ASSUME NEW V \in SUBSET Int, IsFiniteSet(V), V # {}
  PROVE  \E m \in V : \A y \in V : y <= m
<1> DEFINE a == Ascending(V)
           w == Cardinality(V)
           rnk(x) == Cardinality({y \in V : y < x})
<1>1. /\ DOMAIN a = 0..(w - 1) /\ w \in Nat
      /\ \A k \in DOMAIN a : a[k] \in V
      /\ \A k, j \in DOMAIN a : k < j <=> a[k] < a[j]
      /\ \A x \in V : rnk(x) \in DOMAIN a /\ a[rnk(x)] = x
  BY AscendingIs
<1> HIDE DEF a, w, rnk
<1>2. PICK x \in V : TRUE
  OBVIOUS
<1>3. rnk(x) \in 0..(w - 1)
  BY <1>1
<1>4. w - 1 \in 0..(w - 1)
  BY <1>1, <1>3
<1>5. a[w - 1] \in V /\ a[w - 1] \in Int
  BY <1>1, <1>4
<1>6. ASSUME NEW y \in V
      PROVE  y <= a[w - 1]
  <2>1. rnk(y) \in 0..(w - 1) /\ a[rnk(y)] = y /\ y \in Int
    BY <1>1
  <2>2. ~(w - 1 < rnk(y))
    BY <1>4, <2>1
  <2>3. ~(a[w - 1] < a[rnk(y)])
    BY <1>1, <1>4, <2>1, <2>2
  <2>4. QED
    BY <1>5, <2>1, <2>3
<1>7. QED
  BY <1>5, <1>6

\* The BWT of a text is over a compact alphabet.
LEMMA BwtIsCompact ==
  ASSUME NEW t, NEW n, Terminated(t, n), NEW A \in [0..(n - 1) -> 0..(n - 1)],
         \A p, q \in 0..(n - 1) : A[p] = A[q] => p = q
  PROVE  Compact(BWT(t, A), n)
<1> DEFINE D == 0..(n - 1)
           S == {t[i] : i \in D}
           rnk(x) == Cardinality({y \in S : y < x})
<1>1. n \in Nat \ {0} /\ t \in [D -> Nat] /\ DOMAIN t = D /\ DOMAIN A = D
  BY DEF Terminated
<1>2. IsFiniteSet(D) /\ Cardinality(D) = n
  BY <1>1, PositionsBelow
<1>3. IsFiniteSet(S) /\ S \in SUBSET Int /\ \A x \in S : x \in Nat
  <2>1. t \in Surjection(D, S)
    BY <1>1 DEF Surjection
  <2>2. IsFiniteSet(S)
    BY <1>2, <2>1, FS_Surjection
  <2>3. QED
    BY <1>1, <2>2
<1>4. \A x : Comp(t, x) = rnk(x)
  <2> TAKE x
  <2> DEFINE smaller == {t[i] : i \in {j \in DOMAIN t : t[j] < x}}
             below == {y \in S : y < x}
  <2>1. DOMAIN t = D
    BY <1>1
  <2> HIDE DEF D
  <2>2. \A y : y \in smaller <=> \E j \in D : t[j] < x /\ y = t[j]
    BY <2>1
  <2>3. \A y : y \in below <=> \E j \in D : t[j] < x /\ y = t[j]
    OBVIOUS
  <2>4. smaller = below
    <3> HIDE DEF smaller, below
    <3>1. QED
      BY <2>2, <2>3
  <2>5. QED
    BY <2>4 DEF Comp
<1>5. Size(A) = n
  BY <1>1, SizeIs
<1>6. \A p \in D : TextPos(A, p) \in D
  <2> TAKE p \in D
  <2>1. A[p] \in 0..(n - 1) /\ n - 1 \in 0..(n - 1)
    BY <1>1
  <2>2. 0 < A[p] => A[p] - 1 \in 0..(n - 1)
    <3> DEFINE v == A[p]
    <3>1. v \in 0..(n - 1) /\ n \in Nat
      BY <1>1, <2>1
    <3> HIDE DEF v
    <3>2. 0 < v => v - 1 \in 0..(n - 1)
      BY <3>1
    <3>3. QED
      BY <3>2 DEF v
  <2>3. QED
    BY <1>5, <2>1, <2>2 DEF TextPos
<1>7. \A i \in D : \E p \in D : TextPos(A, p) = i
  <2>1. \A j \in D : \E p \in D : A[p] = j
    <3>1. A \in Injection(D, D)
      BY <1>1 DEF Injection, IsInjective
    <3>2. A \in Surjection(D, D)
      BY <1>2, <3>1, FS_Injection
    <3>3. QED
      BY <3>2 DEF Surjection
  <2> TAKE i \in D
  <2>2. CASE i = n - 1
    <3>1. PICK p \in D : A[p] = 0
      BY <1>1, <2>1
    <3>2. QED
      BY <1>5, <2>2, <3>1 DEF TextPos
  <2>3. CASE i # n - 1
    <3>1. i + 1 \in D /\ i + 1 > 0 /\ (i + 1) - 1 = i
      BY <1>1, <2>3
    <3>2. PICK p \in D : A[p] = i + 1
      BY <2>1, <3>1
    <3>3. QED
      BY <3>1, <3>2 DEF TextPos
  <2>4. QED
    BY <2>2, <2>3
<1>8. /\ BWT(t, A) \in [D -> Nat] /\ DOMAIN BWT(t, A) = D
      /\ \A p \in D : BWT(t, A)[p] = rnk(t[TextPos(A, p)]) /\ t[TextPos(A, p)] \in S
  <2>1. BWT(t, A) \in [D -> Nat]
    BY BwtOfText
  <2>2. \A p \in D : BWT(t, A)[p] = Comp(t, t[TextPos(A, p)])
    BY <1>1 DEF BWT
  <2>3. \A p \in D : t[TextPos(A, p)] \in S
    BY <1>6
  <2>4. DOMAIN BWT(t, A) = D
    BY <2>1
  <2> HIDE DEF S, rnk
  <2>5. QED
    BY <1>4, <2>1, <2>2, <2>3, <2>4
<1>9. \A x \in S : rnk(x) \in 0..(Cardinality(S) - 1)
  <2>1. /\ DOMAIN Ascending(S) = 0..(Cardinality(S) - 1)
        /\ \A x \in S : Cardinality({y \in S : y < x}) \in DOMAIN Ascending(S)
    BY <1>3, AscendingIs
  <2>2. QED
    BY <2>1
<1>10. \A k \in 0..(Cardinality(S) - 1) : \E x \in S : rnk(x) = k
  <2>1. /\ DOMAIN Ascending(S) = 0..(Cardinality(S) - 1)
        /\ \A k \in DOMAIN Ascending(S) :
              Ascending(S)[k] \in S /\ Cardinality({y \in S : y < Ascending(S)[k]}) = k
    BY <1>3, AscendingIs
  <2>2. QED
    BY <2>1
<1>11. \A x \in S : \E i \in D : x = t[i]
  OBVIOUS
<1>12. Cardinality(S) \in Nat
  BY <1>3, FS_CardinalityType
<1> HIDE DEF S, rnk
<1>13. ASSUME NEW p \in D, NEW c \in 0..BWT(t, A)[p]
       PROVE  \E q \in D : BWT(t, A)[q] = c
  <2>1. BWT(t, A)[p] \in 0..(Cardinality(S) - 1)
    BY <1>8, <1>9
  <2>2. c \in 0..(Cardinality(S) - 1)
    BY <1>12, <2>1
  <2>3. PICK x \in S : rnk(x) = c
    BY <1>10, <2>2
  <2>4. PICK i \in D : x = t[i]
    BY <1>11
  <2>5. PICK q \in D : TextPos(A, q) = i
    BY <1>7
  <2>6. QED
    BY <1>8, <2>3, <2>4, <2>5
<1>14. QED
  BY <1>1, <1>8, <1>13 DEF Compact

\* The counts C of a compact BWT with s symbols: they grow from 0 to the size.
CountsOf(n, bwt, C, s) ==
  /\ s \in Nat \ {0} /\ DOMAIN C = 0..s /\ Size(C) = s + 1 /\ C \in [0..s -> 0..n]
  /\ C[0] = 0 /\ C[s] = n
  /\ \A c, d \in 0..s : c < d => C[c] < C[d]
  /\ \A p \in 0..(n - 1) : bwt[p] \in 0..(s - 1)
  /\ \A c \in 0..(s - 1) : \E p \in 0..(n - 1) : bwt[p] = c
  /\ \A c \in 0..s : C[c] = Cardinality({p \in 0..(n - 1) : bwt[p] < c})

\* Cumulative counts so.
LEMMA CountsAre ==
  ASSUME NEW n, NEW bwt, Compact(bwt, n)
  PROVE  \E s : CountsOf(n, bwt, Cumulative(bwt), s)
<1> DEFINE D == 0..(n - 1)
           V == {bwt[p] : p \in D}
           C == Cumulative(bwt)
           Low(c) == {p \in D : bwt[p] < c}
<1>1. /\ n \in Nat \ {0} /\ bwt \in [D -> Nat] /\ DOMAIN bwt = D
      /\ \A p \in D : bwt[p] \in Nat
      /\ \A p \in D : \A c \in 0..bwt[p] : \E q \in D : bwt[q] = c
  BY DEF Compact
<1>2. IsFiniteSet(D) /\ Cardinality(D) = n
  BY <1>1, PositionsBelow
<1>3. IsFiniteSet(V) /\ V \in SUBSET Nat /\ Cardinality(V) \in Nat
  <2>1. bwt \in Surjection(D, V)
    BY <1>1 DEF Surjection
  <2>2. IsFiniteSet(V)
    BY <1>2, <2>1, FS_Surjection
  <2>3. QED
    BY <1>1, <2>2, FS_CardinalityType
<1>4. PICK m \in V : \A y \in V : y <= m
  <2>1. bwt[0] \in V
    BY <1>1
  <2> HIDE DEF V
  <2>2. QED
    BY <1>3, <2>1, GreatestOf
<1>5. V = 0..m /\ m \in Nat /\ Cardinality(V) = m + 1
  <2>1. m \in Nat
    BY <1>3, <1>4
  <2>2. PICK p \in D : m = bwt[p]
    OBVIOUS
  <2>3. \A c \in 0..m : c \in V
    BY <1>1, <2>2
  <2>4. V = 0..m
    BY <1>3, <1>4, <2>1, <2>3
  <2>5. Cardinality(0..m) = m + 1
    <3>1. 0 \in Int /\ m \in Int
      BY <2>1
    <3>2. Cardinality(0..m) = IF 0 > m THEN 0 ELSE m - 0 + 1
      BY <3>1, FS_Interval
    <3>3. QED
      BY <2>1, <3>2
  <2>6. QED
    BY <2>1, <2>4, <2>5
<1> DEFINE s == m + 1
<1>6. s \in Nat \ {0} /\ s - 1 = m
  BY <1>5
<1>7. DOMAIN C = 0..s /\ \A c \in 0..s : C[c] = Cardinality(Low(c))
  <2>1. C = [c \in 0..Cardinality({bwt[p] : p \in DOMAIN bwt}) |-> Cardinality({p \in DOMAIN bwt : bwt[p] < c})]
    BY DEF Cumulative
  <2>2. Cardinality({bwt[p] : p \in DOMAIN bwt}) = s
    BY <1>1, <1>5
  <2> HIDE DEF C, s
  <2>3. C = [c \in 0..s |-> Cardinality({p \in D : bwt[p] < c})]
    BY <1>1, <2>1, <2>2
  <2>4. QED
    BY <2>3
<1>8. \A p \in D : bwt[p] \in 0..(s - 1)
  <2> TAKE p \in D
  <2>1. bwt[p] \in V
    OBVIOUS
  <2>2. QED
    BY <1>5, <1>6, <2>1
<1>9. \A c \in 0..(s - 1) : \E p \in D : bwt[p] = c
  <2> TAKE c \in 0..(s - 1)
  <2>1. c \in V
    BY <1>5, <1>6
  <2>2. QED
    BY <2>1
<1> HIDE DEF V, C, s
<1>10. \A c \in 0..s : IsFiniteSet(Low(c)) /\ Cardinality(Low(c)) \in 0..n
  <2> TAKE c \in 0..s
  <2>1. Low(c) \in SUBSET D
    OBVIOUS
  <2>2. IsFiniteSet(Low(c)) /\ Cardinality(Low(c)) <= Cardinality(D)
    BY <1>2, <2>1, FS_Subset
  <2>3. Cardinality(Low(c)) \in Nat
    BY <2>2, FS_CardinalityType
  <2>4. QED
    BY <1>1, <1>2, <2>2, <2>3
<1>11. \A c, d \in 0..s : c < d => Cardinality(Low(c)) < Cardinality(Low(d))
  <2> TAKE c, d \in 0..s
  <2>1. HAVE c < d
  <2>2. c \in 0..(s - 1)
    BY <1>6, <2>1
  <2>3. PICK p \in D : bwt[p] = c
    BY <1>9, <2>2
  <2>4. Low(c) \subseteq Low(d) /\ p \in Low(d) /\ p \notin Low(c)
    BY <1>1, <1>6, <2>1, <2>3
  <2>5. IsFiniteSet(Low(d)) /\ Low(c) # Low(d) /\ Low(c) \in SUBSET Low(d)
    BY <1>10, <2>4
  <2> HIDE DEF Low
  <2>6. Cardinality(Low(c)) <= Cardinality(Low(d)) /\ (Cardinality(Low(c)) = Cardinality(Low(d)) => Low(c) = Low(d))
    BY <2>5, FS_Subset
  <2>7. QED
    BY <1>10, <2>5, <2>6
<1>12. C[0] = 0 /\ C[s] = n
  <2>1. Low(0) = {}
    BY <1>1
  <2>2. Low(s) = D
    BY <1>1, <1>6, <1>8
  <2>3. 0 \in 0..s /\ s \in 0..s
    BY <1>6
  <2>4. C[0] = Cardinality({}) /\ C[s] = Cardinality(D)
    BY <1>7, <2>1, <2>2, <2>3
  <2>5. QED
    BY <1>2, <2>4, FS_EmptySet
<1>13. C \in [0..s -> 0..n]
  <2>1. \A c \in 0..s : C[c] \in 0..n
    BY <1>7, <1>10
  <2>2. C = [c \in DOMAIN C |-> C[c]]
    BY DEF C, Cumulative
  <2>3. QED
    BY <1>7, <2>1, <2>2
<1>14. Size(C) = s + 1
  <2>1. s + 1 \in Nat /\ (s + 1) - 1 = s
    BY <1>6
  <2>2. DOMAIN C = 0..((s + 1) - 1)
    BY <1>7, <2>1
  <2>3. QED
    BY <2>1, <2>2, SizeIs
<1>15. \A c, d \in 0..s : c < d => C[c] < C[d]
  BY <1>7, <1>11
<1>16. \A c \in 0..s : C[c] = Cardinality({p \in D : bwt[p] < c})
  BY <1>7
<1>17. CountsOf(n, bwt, C, s)
  BY <1>6, <1>7, <1>8, <1>9, <1>12, <1>13, <1>14, <1>15, <1>16 DEF CountsOf
<1>18. QED
  BY <1>17 DEF C

\* p comes before q in the order of LF.
Before(bwt, p, q) == bwt[p] < bwt[q] \/ (bwt[p] = bwt[q] /\ p < q)

\* LF is the rank in that order: a permutation of the positions.
LEMMA LFIsRank ==
  ASSUME NEW n, NEW bwt, Compact(bwt, n), NEW p \in 0..(n - 1)
  PROVE  BasicLF(bwt, Cumulative(bwt), p) = RankIn(0..(n - 1), ByBwt(bwt), p)
<1> DEFINE D == 0..(n - 1)
           c == bwt[p]
           A == Below(D, ByBwt(bwt), p)
           Low == {q \in D : bwt[q] < c}
           Same == {q \in D : q < p /\ bwt[q] = c}
<1>1. n \in Nat \ {0} /\ bwt \in [D -> Nat] /\ DOMAIN bwt = D /\ c \in Nat /\ p \in D
  BY DEF Compact
<1>2. IsFiniteSet(D)
  BY <1>1, PositionsBelow
<1>3. IsFiniteSet(Low) /\ IsFiniteSet(Same) /\ Cardinality(Low) \in Nat /\ Cardinality(Same) \in Nat
  <2>1. Low \in SUBSET D /\ Same \in SUBSET D
    OBVIOUS
  <2>2. IsFiniteSet(Low) /\ IsFiniteSet(Same)
    BY <1>2, <2>1, FS_Subset
  <2>3. QED
    BY <2>2, FS_CardinalityType
<1>4. A = Low \cup Same /\ Low \cap Same = {}
  <2>1. \A q \in D : <<q, p>> \in ByBwt(bwt) <=> bwt[q] < c \/ (bwt[q] = c /\ q < p)
    BY <1>1 DEF ByBwt
  <2>2. A = {q \in D : bwt[q] < c \/ (bwt[q] = c /\ q < p)}
    BY <2>1 DEF Below
  <2>3. Low \cap Same = {}
    BY <1>1
  <2>4. QED
    BY <2>2, <2>3
<1>5. Cumulative(bwt)[c] = Cardinality(Low)
  <2>0. PICK s : CountsOf(n, bwt, Cumulative(bwt), s)
    BY CountsAre
  <2>1. /\ s \in Nat \ {0} /\ \A q \in D : bwt[q] \in 0..(s - 1)
        /\ \A d \in 0..s : Cumulative(bwt)[d] = Cardinality({q \in D : bwt[q] < d})
    BY <2>0 DEF CountsOf
  <2>2. c \in 0..(s - 1)
    BY <1>1, <2>1
  <2>3. c \in 0..s
    BY <2>1, <2>2
  <2>4. QED
    BY <2>1, <2>3
<1>6. {q \in DOMAIN bwt : q < p /\ bwt[q] = bwt[p]} = Same
  BY <1>1
<1> HIDE DEF A, Low, Same, D
<1>7. Cardinality(A) = Cardinality(Low) + Cardinality(Same)
  <2>1. Cardinality(Low \cup Same) = Cardinality(Low) + Cardinality(Same) - Cardinality(Low \cap Same)
    BY <1>3, FS_Union
  <2>2. Cardinality(Low \cap Same) = 0
    BY <1>4, FS_EmptySet
  <2>3. QED
    BY <1>3, <1>4, <2>1, <2>2
<1>8. BasicLF(bwt, Cumulative(bwt), p) = Cardinality(Low) + Cardinality(Same)
  BY <1>5, <1>6 DEF BasicLF, c
<1>9. QED
  BY <1>7, <1>8 DEF RankIn, A, D

\* So LF is a permutation of the positions that keeps the order of the symbols.
LEMMA LFOrders ==
  ASSUME NEW n, NEW bwt, Compact(bwt, n), NEW C, C = Cumulative(bwt)
  PROVE  /\ \A p \in 0..(n - 1) : BasicLF(bwt, C, p) \in 0..(n - 1)
         /\ \A p, q \in 0..(n - 1) : BasicLF(bwt, C, p) < BasicLF(bwt, C, q) <=> Before(bwt, p, q)
         /\ \A p, q \in 0..(n - 1) : BasicLF(bwt, C, p) = BasicLF(bwt, C, q) => p = q
         /\ \A x \in 0..(n - 1) : \E p \in 0..(n - 1) : BasicLF(bwt, C, p) = x
<1> DEFINE D == 0..(n - 1)
           R == ByBwt(bwt)
<1>1. n \in Nat \ {0} /\ bwt \in [D -> Nat] /\ DOMAIN bwt = D /\ \A p \in D : bwt[p] \in Nat
  BY DEF Compact
<1>2. IsFiniteSet(D) /\ Cardinality(D) = n
  BY <1>1, PositionsBelow
<1>3. \A p, q \in D : <<p, q>> \in R <=> Before(bwt, p, q)
  BY <1>1 DEF ByBwt, Before
<1>4. StrictOrder(D, R)
  <2>1. \A p \in D : p \in Int
    OBVIOUS
  <2> HIDE DEF D, R
  <2>2. \A p \in D : ~Before(bwt, p, p)
    BY <1>1, <2>1 DEF Before
  <2>3. \A p, q, x \in D : Before(bwt, p, q) /\ Before(bwt, q, x) => Before(bwt, p, x)
    BY <1>1, <2>1 DEF Before
  <2>4. \A p, q \in D : p = q \/ Before(bwt, p, q) \/ Before(bwt, q, p)
    BY <1>1, <2>1 DEF Before
  <2>5. QED
    BY <1>3, <2>2, <2>3, <2>4 DEF StrictOrder
<1>5. \A p \in D : BasicLF(bwt, C, p) = RankIn(D, R, p)
  BY LFIsRank
<1> HIDE DEF R, D
<1>6. \A p \in D : RankIn(D, R, p) \in 0..(Cardinality(D) - 1)
  BY <1>2, <1>4, RankInOrder
<1>7. /\ \A x, y \in D : RankIn(D, R, x) = RankIn(D, R, y) => x = y
      /\ \A x, y \in D : <<x, y>> \in R <=> RankIn(D, R, x) < RankIn(D, R, y)
      /\ \A k \in 0..(Cardinality(D) - 1) : \E x \in D : RankIn(D, R, x) = k
  BY <1>2, <1>4, RankInOnto
<1>8. \A p \in D : BasicLF(bwt, C, p) \in D
  BY <1>2, <1>5, <1>6 DEF D
<1>9. \A p, q \in D : BasicLF(bwt, C, p) < BasicLF(bwt, C, q) <=> Before(bwt, p, q)
  BY <1>3, <1>5, <1>7
<1>10. \A p, q \in D : BasicLF(bwt, C, p) = BasicLF(bwt, C, q) => p = q
  BY <1>5, <1>7
<1>11. \A x \in D : \E p \in D : BasicLF(bwt, C, p) = x
  <2> TAKE x \in D
  <2>1. x \in 0..(Cardinality(D) - 1)
    BY <1>2 DEF D
  <2>2. QED
    BY <1>5, <1>7, <2>1
<1>12. QED
  BY <1>8, <1>9, <1>10, <1>11 DEF D

\* The LF images of one symbol lie between its count and the next.
LEMMA LFInBlock ==
  ASSUME NEW n, NEW bwt, Compact(bwt, n), NEW C, C = Cumulative(bwt), NEW p \in 0..(n - 1)
  PROVE  /\ bwt[p] \in DOMAIN C /\ bwt[p] + 1 \in DOMAIN C /\ C[bwt[p]] \in Nat /\ C[bwt[p] + 1] \in Nat
         /\ C[bwt[p]] <= BasicLF(bwt, C, p) /\ BasicLF(bwt, C, p) < C[bwt[p] + 1]
<1> DEFINE D == 0..(n - 1)
           c == bwt[p]
           Same == {q \in D : q < p /\ bwt[q] = c}
           Low == {q \in D : bwt[q] < c}
           UpTo == {q \in D : bwt[q] < c + 1}
<1>1. n \in Nat \ {0} /\ bwt \in [D -> Nat] /\ DOMAIN bwt = D /\ c \in Nat /\ p \in D
  BY DEF Compact
<1>2. IsFiniteSet(D)
  BY <1>1, PositionsBelow
<1>3a. PICK s : CountsOf(n, bwt, C, s)
  BY CountsAre
<1>3. /\ s \in Nat \ {0} /\ DOMAIN C = 0..s /\ C \in [0..s -> 0..n]
      /\ \A q \in D : bwt[q] \in 0..(s - 1)
      /\ \A d \in 0..s : C[d] = Cardinality({q \in D : bwt[q] < d})
  BY <1>3a DEF CountsOf
<1>4. c \in 0..(s - 1)
  BY <1>1, <1>3
<1>5. c \in 0..s /\ c + 1 \in 0..s
  BY <1>3, <1>4
<1>6. C[c] \in 0..n /\ C[c + 1] \in 0..n
  BY <1>3, <1>5
<1>7. C[c] = Cardinality(Low) /\ C[c + 1] = Cardinality(UpTo)
  BY <1>3, <1>5
<1>8. BasicLF(bwt, C, p) = C[c] + Cardinality(Same)
  <2>1. {q \in DOMAIN bwt : q < p /\ bwt[q] = bwt[p]} = Same
    BY <1>1
  <2>2. QED
    BY <2>1 DEF BasicLF
<1>9. IsFiniteSet(Low) /\ IsFiniteSet(Same) /\ IsFiniteSet(UpTo)
  <2>1. Low \in SUBSET D /\ Same \in SUBSET D /\ UpTo \in SUBSET D
    OBVIOUS
  <2>2. QED
    BY <1>2, <2>1, FS_Subset
<1>10. /\ Low \cup Same \in SUBSET UpTo /\ Low \cap Same = {}
       /\ p \in UpTo /\ p \notin Low \cup Same
  <2>1. \A q \in D : bwt[q] \in Nat
    BY <1>1
  <2>2. QED
    BY <1>1, <2>1
<1> HIDE DEF Low, Same, UpTo, D
<1>11. Cardinality(Low \cup Same) = Cardinality(Low) + Cardinality(Same)
  <2>1. Cardinality(Low \cup Same) = Cardinality(Low) + Cardinality(Same) - Cardinality(Low \cap Same)
    BY <1>9, FS_Union
  <2>2. Cardinality(Low \cap Same) = 0
    BY <1>10, FS_EmptySet
  <2>3. Cardinality(Low) \in Nat /\ Cardinality(Same) \in Nat
    BY <1>9, FS_CardinalityType
  <2>4. QED
    BY <2>1, <2>2, <2>3
<1>12. Cardinality(Low \cup Same) < Cardinality(UpTo)
  <2>1. Low \cup Same # UpTo
    BY <1>10
  <2>2. /\ IsFiniteSet(Low \cup Same) /\ Cardinality(Low \cup Same) <= Cardinality(UpTo)
        /\ Cardinality(UpTo) = Cardinality(Low \cup Same) => UpTo = Low \cup Same
    BY <1>9, <1>10, FS_Subset
  <2>3. Cardinality(Low \cup Same) \in Nat /\ Cardinality(UpTo) \in Nat
    BY <1>9, <2>2, FS_CardinalityType
  <2>4. QED
    BY <2>1, <2>2, <2>3
<1>13. Cardinality(Same) \in Nat
  BY <1>9, FS_CardinalityType
<1>14. QED
  BY <1>3, <1>5, <1>6, <1>7, <1>8, <1>11, <1>12, <1>13

\* LF takes neighbours on one symbol to neighbours.
LEMMA LFKeepsNeighbours ==
  ASSUME NEW n, NEW bwt, Compact(bwt, n), NEW C, C = Cumulative(bwt),
         NEW p \in 0..(n - 1), p + 1 \in 0..(n - 1), bwt[p + 1] = bwt[p]
  PROVE  BasicLF(bwt, C, p + 1) = BasicLF(bwt, C, p) + 1
<1> DEFINE D == 0..(n - 1)
           L(x) == BasicLF(bwt, C, x)
<1>1. n \in Nat \ {0} /\ bwt \in [D -> Nat] /\ \A x \in D : bwt[x] \in Nat
  BY DEF Compact
<1>2. /\ \A x \in D : L(x) \in D
      /\ \A x, y \in D : L(x) < L(y) <=> Before(bwt, x, y)
      /\ \A x \in D : \E y \in D : L(y) = x
  BY LFOrders
<1> HIDE DEF L
<1>3. L(p) \in D /\ L(p + 1) \in D /\ L(p) < L(p + 1)
  BY <1>1, <1>2 DEF Before
<1>4. ASSUME L(p) + 1 # L(p + 1)
      PROVE  FALSE
  <2>1. L(p) + 1 \in D /\ L(p) + 1 < L(p + 1) /\ L(p) < L(p) + 1
    BY <1>1, <1>3, <1>4
  <2>2. PICK y \in D : L(y) = L(p) + 1
    BY <1>2, <2>1
  <2>3. L(p) < L(y) /\ L(y) < L(p + 1)
    BY <2>1, <2>2
  <2>4. Before(bwt, p, y) /\ Before(bwt, y, p + 1)
    BY <1>2, <2>3
  <2>5. QED
    BY <1>1, <2>4 DEF Before
<1>5. QED
  BY <1>4 DEF L

\* computeCForSAIndex finds the symbol whose block holds a position.
LEMMA SymbolAtIs ==
  ASSUME NEW n, NEW bwt, Compact(bwt, n), NEW C, C = Cumulative(bwt), NEW p \in 0..(n - 1)
  PROVE  SymbolAt(C, BasicLF(bwt, C, p)) = bwt[p]
<1> DEFINE c == bwt[p]
           x == BasicLF(bwt, C, p)
<1>0. PICK s : CountsOf(n, bwt, C, s)
  BY CountsAre
<1>1. /\ s \in Nat \ {0} /\ DOMAIN C = 0..s /\ C \in [0..s -> 0..n]
      /\ \A a, b \in 0..s : a < b => C[a] < C[b]
      /\ \A q \in 0..(n - 1) : bwt[q] \in 0..(s - 1)
  BY <1>0 DEF CountsOf
<1>2. c \in 0..(s - 1) /\ n \in Nat
  BY <1>1 DEF Compact
<1>3. C[c] <= x /\ x < C[c + 1] /\ x \in Int
  BY LFInBlock, LFOrders
<1>4. \A d \in 0..s : C[d] \in Int
  BY <1>1, <1>2
<1> HIDE DEF x, c
<1>5. \A d \in 0..s : C[d] <= x <=> d <= c
  <2> TAKE d \in 0..s
  <2>1. c \in 0..s /\ c + 1 \in 0..s
    BY <1>1, <1>2
  <2>2. CASE d <= c
    <3>1. C[d] <= C[c]
      BY <1>1, <1>4, <2>1, <2>2
    <3>2. QED
      BY <1>3, <1>4, <2>1, <2>2, <3>1
  <2>3. CASE c < d
    <3>1. C[c + 1] <= C[d]
      BY <1>1, <1>2, <1>4, <2>1, <2>3
    <3>2. QED
      BY <1>2, <1>3, <1>4, <2>1, <2>3, <3>1
  <2>4. QED
    BY <1>2, <2>2, <2>3
<1>6. {d \in DOMAIN C : C[d] <= x} = 0..c
  BY <1>1, <1>2, <1>5
<1>7. Cardinality(0..c) = c + 1
  <2>1. c + 1 \in Nat /\ (c + 1) - 1 = c
    BY <1>2
  <2>2. QED
    BY <2>1, PositionsBelow
<1>8. SymbolAt(C, x) = c
  <2>1. SymbolAt(C, x) = (c + 1) - 1
    BY <1>6, <1>7 DEF SymbolAt
  <2>2. c \in Int
    BY <1>2
  <2>3. QED
    BY <2>1, <2>2
<1>9. QED
  BY <1>8 DEF x, c

\* psi undoes LF.
LEMMA PsiUndoesLF ==
  ASSUME NEW n, NEW bwt, Compact(bwt, n), NEW C, C = Cumulative(bwt), NEW p \in 0..(n - 1)
  PROVE  PsiOf(bwt, C, BasicLF(bwt, C, p)) = p
<1> DEFINE D == 0..(n - 1)
           c == bwt[p]
           x == BasicLF(bwt, C, p)
           rnk(q) == Cardinality({y \in DOMAIN bwt : y < q /\ bwt[y] = c})
<1>1. DOMAIN bwt = D /\ n \in Nat /\ bwt[p] = c
  BY DEF Compact
<1>2. SymbolAt(C, x) = c
  BY SymbolAtIs
<1>3. \A q \in D : bwt[q] = c => BasicLF(bwt, C, q) = C[c] + rnk(q)
  BY DEF BasicLF
<1>4. \A q \in D : rnk(q) \in Int
  <2> TAKE q \in D
  <2>1. IsFiniteSet(D)
    BY <1>1, PositionsBelow
  <2>2. {y \in DOMAIN bwt : y < q /\ bwt[y] = c} \in SUBSET D
    BY <1>1
  <2>3. IsFiniteSet({y \in DOMAIN bwt : y < q /\ bwt[y] = c})
    BY <2>1, <2>2, FS_Subset
  <2>4. rnk(q) \in Nat
    BY <2>3, FS_CardinalityType
  <2>5. QED
    BY <2>4
<1>5. C[c] \in Int /\ x \in Int
  BY LFInBlock, LFOrders
<1>6. \A q, y \in D : BasicLF(bwt, C, q) = BasicLF(bwt, C, y) => q = y
  BY LFOrders
<1>7. PsiOf(bwt, C, x) = CHOOSE q \in DOMAIN bwt : bwt[q] = c /\ rnk(q) = x - C[c]
  BY <1>2 DEF PsiOf
<1>8. bwt[p] = c /\ rnk(p) = x - C[c]
  <2>1. x = C[c] + rnk(p)
    BY <1>1, <1>3
  <2> HIDE DEF x, rnk, c
  <2>2. QED
    BY <1>1, <1>4, <1>5, <2>1
<1>9. ASSUME NEW q \in D, bwt[q] = c, rnk(q) = x - C[c]
      PROVE  q = p
  <2>1. BasicLF(bwt, C, q) = C[c] + rnk(q)
    BY <1>3, <1>9
  <2> HIDE DEF rnk
  <2>2. BasicLF(bwt, C, q) = x
    <3> HIDE DEF x, c
    <3> QED BY <1>4, <1>5, <1>9, <2>1
  <2>3. QED
    BY <1>6, <2>2
<1> HIDE DEF x, rnk, c
<1>10. p \in DOMAIN bwt /\ \A q \in DOMAIN bwt : bwt[q] = c /\ rnk(q) = x - C[c] => q = p
  BY <1>1, <1>9
<1>11. PsiOf(bwt, C, x) = p
  BY <1>7, <1>8, <1>10
<1>12. QED
  BY <1>11 DEF x

\* LF undoes psi.
LEMMA LFUndoesPsi ==
  ASSUME NEW n, NEW bwt, Compact(bwt, n), NEW C, C = Cumulative(bwt), NEW x \in 0..(n - 1)
  PROVE  PsiOf(bwt, C, x) \in 0..(n - 1) /\ BasicLF(bwt, C, PsiOf(bwt, C, x)) = x
<1>1. PICK p \in 0..(n - 1) : BasicLF(bwt, C, p) = x
  BY LFOrders
<1>2. PsiOf(bwt, C, x) = p
  BY <1>1, PsiUndoesLF
<1>3. QED
  BY <1>1, <1>2

-----------------------------------------------------------------------------
(* The runs of a BWT and the links between them.                           *)

\* The runs tile the BWT, each on one symbol, and no two could be one.
Tiles(n, bwt, run, r) ==
  /\ r \in Nat \ {0} /\ DOMAIN run = 0..(r - 1) /\ Size(run) = r
  /\ \A k \in 0..(r - 1) :
       /\ run[k].start \in 0..(n - 1) /\ run[k].end \in Nat /\ run[k].end - 1 \in 0..(n - 1)
       /\ run[k].c \in Nat /\ run[k].start < run[k].end
       /\ \A p \in run[k].start .. (run[k].end - 1) : bwt[p] = run[k].c
  /\ \A k, m \in 0..(r - 1) : k < m => run[k].end <= run[m].start
  /\ \A p \in RunHeads(bwt) : \E k \in 0..(r - 1) : run[k].start = p
  /\ \A k \in 0..(r - 1) : run[k].start \in RunHeads(bwt)
  /\ \A p \in RunTails(bwt) : \E k \in 0..(r - 1) : run[k].end - 1 = p
  /\ \A k \in 0..(r - 1) : run[k].end - 1 \in RunTails(bwt)

\* The runs the construction lists tile the BWT.
LEMMA RunsTile ==
  ASSUME NEW n \in Nat \ {0}, NEW bwt \in [0..(n - 1) -> Nat]
  PROVE  Tiles(n, bwt, RunsOf(bwt), Size(RunsOf(bwt)))
<1> DEFINE D == 0..(n - 1)
           run == RunsOf(bwt)
           r == Size(run)
           H == RunHeads(bwt)
           T == RunTails(bwt)
<1>1. /\ r \in Nat \ {0} /\ run \in [0..(r - 1) -> [start : Nat, end : Nat, c : Nat]]
      /\ run[r - 1].end = n
      /\ \A k \in DOMAIN run :
           /\ run[k].start < run[k].end /\ run[k].end <= n
           /\ k > 0 => run[k].start = run[k - 1].end
           /\ \A m \in DOMAIN run : k < m => run[k].end <= run[m].start
           /\ \A p \in run[k].start .. (run[k].end - 1) : bwt[p] = run[k].c
  BY RunsOfIs
<1>2. /\ H \in SUBSET D /\ T \in SUBSET D /\ IsFiniteSet(H) /\ IsFiniteSet(T)
      /\ Cardinality(T) = Cardinality(H)
  BY HeadsAndTails
<1>3. DOMAIN bwt = D /\ Size(bwt) = n
  <2>1. DOMAIN bwt = D /\ n \in Nat
    OBVIOUS
  <2>2. QED
    BY <2>1, SizeIs
<1>4. run = [k \in DOMAIN Ascending(H) |->
               [start |-> Ascending(H)[k], end |-> Ascending(T)[k] + 1, c |-> bwt[Ascending(H)[k]]]]
  BY DEF RunsOf, RunHeads, RunTails
<1>5. /\ DOMAIN Ascending(H) = 0..(Cardinality(H) - 1) /\ DOMAIN Ascending(T) = 0..(Cardinality(T) - 1)
      /\ \A k \in DOMAIN Ascending(H) : Ascending(H)[k] \in H
      /\ \A k \in DOMAIN Ascending(T) : Ascending(T)[k] \in T
      /\ \A x \in H : \E k \in DOMAIN Ascending(H) : Ascending(H)[k] = x
      /\ \A x \in T : \E k \in DOMAIN Ascending(T) : Ascending(T)[k] = x
  <2>1. H \in SUBSET Int /\ T \in SUBSET Int
    BY <1>2
  <2> HIDE DEF H, T
  <2>2. QED
    BY <1>2, <2>1, AscendingIs
<1> HIDE DEF run, r, H, T
<1>6. DOMAIN run = 0..(r - 1) /\ DOMAIN Ascending(H) = 0..(r - 1) /\ DOMAIN Ascending(T) = 0..(r - 1)
  BY <1>1, <1>2, <1>4, <1>5
<1>7. \A k \in 0..(r - 1) : run[k].start = Ascending(H)[k] /\ run[k].end = Ascending(T)[k] + 1
  BY <1>4, <1>6
<1>8. \A k \in 0..(r - 1) : run[k].end - 1 = Ascending(T)[k]
  <2> TAKE k \in 0..(r - 1)
  <2> DEFINE a == Ascending(T)[k]
             e == run[k].end
  <2>1. a \in D
    BY <1>2, <1>5, <1>6
  <2>2. e = a + 1
    BY <1>7
  <2>3. a \in Int
    BY <2>1
  <2> HIDE DEF a, e
  <2>4. e - 1 = a
    BY <2>2, <2>3
  <2>5. QED
    BY <2>4 DEF a, e
<1>9. /\ \A k \in 0..(r - 1) : run[k].start \in H /\ run[k].end - 1 \in T
      /\ \A p \in H : \E k \in 0..(r - 1) : run[k].start = p
      /\ \A p \in T : \E k \in 0..(r - 1) : run[k].end - 1 = p
  <2>1. \A k \in 0..(r - 1) : run[k].start = Ascending(H)[k] /\ Ascending(H)[k] \in H
    BY <1>5, <1>6, <1>7
  <2>2. \A k \in 0..(r - 1) : run[k].end - 1 = Ascending(T)[k] /\ Ascending(T)[k] \in T
    BY <1>5, <1>6, <1>8
  <2>3. \A p \in H : \E k \in 0..(r - 1) : Ascending(H)[k] = p
    BY <1>5, <1>6
  <2>4. \A p \in T : \E k \in 0..(r - 1) : Ascending(T)[k] = p
    BY <1>5, <1>6
  <2>5. \A p \in H : \E k \in 0..(r - 1) : run[k].start = p
    BY <2>1, <2>3
  <2>6. \A p \in T : \E k \in 0..(r - 1) : run[k].end - 1 = p
    BY <2>2, <2>4
  <2>7. QED
    BY <2>1, <2>2, <2>5, <2>6
<1>10. \A k \in 0..(r - 1) :
         /\ run[k].start \in D /\ run[k].end - 1 \in D
         /\ run[k].end \in Nat /\ run[k].c \in Nat /\ run[k].start < run[k].end
  BY <1>1, <1>2, <1>6, <1>9
<1>11. /\ \A k \in 0..(r - 1) : \A p \in run[k].start .. (run[k].end - 1) : bwt[p] = run[k].c
       /\ \A k, m \in 0..(r - 1) : k < m => run[k].end <= run[m].start
  BY <1>1, <1>6
<1>12. Size(run) = r
  BY DEF r
<1>13. Tiles(n, bwt, run, r)
  BY <1>1, <1>6, <1>9, <1>10, <1>11, <1>12 DEF Tiles, H, T
<1>14. QED
  BY <1>13 DEF run, r

\* Head and tail name a run.
LEMMA HeadNamesRun ==
  ASSUME NEW n, NEW bwt, NEW run, NEW r, Tiles(n, bwt, run, r),
         NEW k \in 0..(r - 1), NEW m \in 0..(r - 1)
  PROVE  /\ run[k].start = run[m].start => k = m
         /\ run[k].end - 1 = run[m].end - 1 => k = m
         /\ k < m <=> run[k].start < run[m].start
         /\ k < m <=> run[k].end - 1 < run[m].end - 1
<1>1. /\ r \in Nat \ {0}
      /\ run[k].start \in Int /\ run[k].end \in Int /\ run[m].start \in Int /\ run[m].end \in Int
      /\ run[k].start < run[k].end /\ run[m].start < run[m].end
      /\ k < m => run[k].end <= run[m].start
      /\ m < k => run[m].end <= run[k].start
  BY DEF Tiles
<1> DEFINE a == run[k].start
           b == run[k].end
           c == run[m].start
           d == run[m].end
<1>2. /\ k \in Int /\ m \in Int /\ a \in Int /\ b \in Int /\ c \in Int /\ d \in Int
      /\ a < b /\ c < d /\ (k < m => b <= c) /\ (m < k => d <= a)
  BY <1>1
<1> HIDE DEF a, b, c, d
<1>3. (a = c => k = m) /\ (b - 1 = d - 1 => k = m) /\ (k < m <=> a < c) /\ (k < m <=> b - 1 < d - 1)
  <2>1. CASE k < m
    BY <1>2, <2>1
  <2>2. CASE m < k
    BY <1>2, <2>2
  <2>3. CASE k = m
    <3>1. a = c /\ b = d
      BY <2>3 DEF a, b, c, d
    <3>2. QED
      BY <1>2, <2>3, <3>1
  <2>4. QED
    BY <1>2, <2>1, <2>2, <2>3
<1>4. QED
  BY <1>3 DEF a, b, c, d

\* The heads before a position, and the tails before it.
HeadsBefore(run, p) == Cardinality({m \in DOMAIN run : run[m].start < p})
TailsBefore(run, p) == Cardinality({m \in DOMAIN run : run[m].end - 1 < p})

\* The rank of a head among the heads, and of a tail among the tails, is the run.
LEMMA RankOfRun ==
  ASSUME NEW n, NEW bwt, NEW run, NEW r, Tiles(n, bwt, run, r), NEW k \in 0..(r - 1)
  PROVE  HeadsBefore(run, run[k].start) = k /\ TailsBefore(run, run[k].end - 1) = k
<1>1. r \in Nat \ {0} /\ DOMAIN run = 0..(r - 1)
  BY DEF Tiles
<1>2. {m \in DOMAIN run : run[m].start < run[k].start} = 0..(k - 1)
  <2>1. \A m \in 0..(r - 1) : run[m].start < run[k].start <=> m < k
    BY HeadNamesRun
  <2>2. QED
    BY <1>1, <2>1
<1>3. {m \in DOMAIN run : run[m].end - 1 < run[k].end - 1} = 0..(k - 1)
  <2>1. \A m \in 0..(r - 1) : run[m].end - 1 < run[k].end - 1 <=> m < k
    BY HeadNamesRun
  <2>2. QED
    BY <1>1, <2>1
<1>4. Cardinality(0..(k - 1)) = k
  <2>1. k \in Nat
    BY <1>1
  <2>2. QED
    BY <2>1, PositionsBelow
<1>5. QED
  BY <1>2, <1>3, <1>4 DEF HeadsBefore, TailsBefore

\* LF takes the mark of run k to the position right before the sample of run m.
Follows(n, bwt, C, run, k, m) ==
  BasicLF(bwt, C, run[m].start) = (BasicLF(bwt, C, run[k].end - 1) + 1) % n

\* After the LF image of a tail comes that of a head.
LEMMA HeadFollows ==
  ASSUME NEW n, NEW bwt, Compact(bwt, n), NEW C, C = Cumulative(bwt),
         NEW q \in RunTails(bwt), NEW h \in 0..(n - 1),
         BasicLF(bwt, C, h) = (BasicLF(bwt, C, q) + 1) % n
  PROVE  h \in RunHeads(bwt)
<1> DEFINE D == 0..(n - 1)
           L(x) == BasicLF(bwt, C, x)
<1>1. n \in Nat \ {0} /\ bwt \in [D -> Nat] /\ DOMAIN bwt = D
  BY DEF Compact
<1>2. Size(bwt) = n /\ q \in D /\ (q = n - 1 \/ bwt[q] # bwt[q + 1])
  <2>1. Size(bwt) = n
    BY <1>1, SizeIs
  <2>2. QED
    BY <1>1, <2>1 DEF RunTails
<1>3. (\A x \in D : L(x) \in D) /\ \A x, y \in D : L(x) = L(y) => x = y
  BY LFOrders
<1>4. SUFFICES ASSUME h # 0, bwt[h] = bwt[h - 1]
               PROVE  FALSE
  BY <1>1 DEF RunHeads
<1>5. h - 1 \in D /\ (h - 1) + 1 = h
  BY <1>1, <1>4
<1>6. L(h) = L(h - 1) + 1
  <2>1. (h - 1) + 1 \in 0..(n - 1) /\ bwt[(h - 1) + 1] = bwt[h - 1]
    BY <1>4, <1>5
  <2>2. BasicLF(bwt, C, (h - 1) + 1) = BasicLF(bwt, C, h - 1) + 1
    BY <1>5, <2>1, LFKeepsNeighbours
  <2>3. QED
    BY <1>5, <2>2
<1>7. L(h - 1) = L(q)
  <2> DEFINE x == L(q)
             y == L(h - 1)
             z == L(h)
  <2>1. x \in D /\ y \in D /\ z = y + 1 /\ z = (x + 1) % n
    BY <1>2, <1>3, <1>5, <1>6
  <2> HIDE DEF x, y, z
  <2>2. CASE x = n - 1
    <3>1. x + 1 = n * 1 + 0 /\ x + 1 \in Int /\ 0 \in D
      BY <1>1, <2>1, <2>2
    <3>2. (x + 1) % n = 0
      BY <1>1, <3>1, ModUnique
    <3>3. QED
      BY <1>1, <2>1, <3>2
  <2>3. CASE x # n - 1
    <3>1. x + 1 \in D
      BY <1>1, <2>1, <2>3
    <3>2. (x + 1) % n = x + 1
      BY <1>1, <3>1, ModSmall
    <3>3. x = y
      BY <1>1, <2>1, <3>2
    <3>4. QED
      BY <3>3 DEF x, y
  <2>4. QED
    BY <2>2, <2>3
<1>8. h - 1 = q
  BY <1>2, <1>3, <1>5, <1>7
<1>9. q # n - 1 /\ q + 1 = h
  BY <1>1, <1>5, <1>8
<1>10. QED
  BY <1>2, <1>4, <1>8, <1>9

\* Before the LF image of a head comes that of a tail.
LEMMA TailPrecedes ==
  ASSUME NEW n, NEW bwt, Compact(bwt, n), NEW C, C = Cumulative(bwt),
         NEW h \in RunHeads(bwt), NEW q \in 0..(n - 1),
         BasicLF(bwt, C, h) = (BasicLF(bwt, C, q) + 1) % n
  PROVE  q \in RunTails(bwt)
<1> DEFINE D == 0..(n - 1)
           L(x) == BasicLF(bwt, C, x)
<1>1. n \in Nat \ {0} /\ bwt \in [D -> Nat] /\ DOMAIN bwt = D
  BY DEF Compact
<1>2. Size(bwt) = n /\ h \in D /\ (h = 0 \/ bwt[h] # bwt[h - 1])
  <2>1. Size(bwt) = n
    BY <1>1, SizeIs
  <2>2. QED
    BY <1>1, <2>1 DEF RunHeads
<1>3. (\A x \in D : L(x) \in D) /\ \A x, y \in D : L(x) = L(y) => x = y
  BY LFOrders
<1>4. SUFFICES ASSUME q # n - 1, bwt[q] = bwt[q + 1]
               PROVE  FALSE
  BY <1>1, <1>2 DEF RunTails
<1>5. q + 1 \in D
  BY <1>1, <1>4
<1>6. L(q + 1) = L(q) + 1
  BY <1>4, <1>5, LFKeepsNeighbours
<1>7. L(h) = L(q + 1)
  <2> DEFINE x == L(q)
             y == L(q + 1)
  <2>1. x \in D /\ y \in D /\ y = x + 1
    BY <1>3, <1>5, <1>6
  <2> HIDE DEF x, y
  <2>2. (x + 1) % n = x + 1
    BY <1>1, <2>1, ModSmall
  <2>3. L(h) = (x + 1) % n
    BY DEF x
  <2>4. QED
    BY <2>1, <2>2, <2>3 DEF y
<1>8. h = q + 1
  BY <1>2, <1>3, <1>5, <1>7
<1>9. h # 0 /\ h - 1 = q
  BY <1>1, <1>8
<1>10. QED
  BY <1>2, <1>4, <1>8, <1>9

\* computeMarkToSampleLinkForPhiForward finds the sample that follows the mark.
LEMMA MarkLinkIs ==
  ASSUME NEW n, NEW bwt, Compact(bwt, n), NEW C, C = Cumulative(bwt),
         NEW run, NEW r, Tiles(n, bwt, run, r), NEW k \in 0..(r - 1)
  PROVE  /\ MarkToSample(run, bwt, C, k) \in 0..(r - 1)
         /\ Follows(n, bwt, C, run, k, MarkToSample(run, bwt, C, k))
<1> DEFINE D == 0..(n - 1)
           q == run[k].end - 1
           y == (BasicLF(bwt, C, q) + 1) % n
           h == PsiOf(bwt, C, y)
<1>1. n \in Nat \ {0} /\ DOMAIN bwt = D /\ Size(bwt) = n
  <2>1. n \in Nat \ {0} /\ DOMAIN bwt = D
    BY DEF Compact
  <2>2. QED
    BY <2>1, SizeIs
<1>2. q \in D /\ q \in RunTails(bwt)
  BY DEF Tiles
<1>3. y \in D
  <2> DEFINE x == BasicLF(bwt, C, q)
  <2>1. x \in D
    BY <1>2, LFOrders
  <2> HIDE DEF x
  <2>2. x + 1 \in Int
    BY <2>1
  <2>3. (x + 1) % n \in D
    BY <1>1, <2>2, ModDef
  <2>4. QED
    BY <2>3 DEF x
<1> HIDE DEF y
<1>4. h \in D /\ BasicLF(bwt, C, h) = y
  BY <1>3, LFUndoesPsi
<1>5. h \in RunHeads(bwt)
  BY <1>2, <1>4, HeadFollows DEF y
<1>6. PICK m \in 0..(r - 1) : run[m].start = h
  BY <1>5 DEF Tiles
<1>7. MarkToSample(run, bwt, C, k) = HeadsBefore(run, h)
  BY <1>1 DEF MarkToSample, y, HeadsBefore
<1>8. HeadsBefore(run, run[m].start) = m
  BY <1>6, RankOfRun
<1> HIDE DEF h
<1>9. MarkToSample(run, bwt, C, k) = m
  BY <1>6, <1>7, <1>8
<1>10. Follows(n, bwt, C, run, k, m)
  BY <1>4, <1>6 DEF Follows, y
<1>11. QED
  BY <1>9, <1>10

\* computeSampleToMarkLinkForPhiForward finds the mark that the sample follows.
LEMMA SampleLinkIs ==
  ASSUME NEW n, NEW bwt, Compact(bwt, n), NEW C, C = Cumulative(bwt),
         NEW run, NEW r, Tiles(n, bwt, run, r), NEW k \in 0..(r - 1)
  PROVE  /\ SampleToMark(run, bwt, C, k) \in 0..(r - 1)
         /\ Follows(n, bwt, C, run, SampleToMark(run, bwt, C, k), k)
<1> DEFINE D == 0..(n - 1)
           x == BasicLF(bwt, C, run[k].start)
           y == (x + n - 1) % n
           q == PsiOf(bwt, C, y)
<1>1. n \in Nat \ {0} /\ DOMAIN bwt = D /\ Size(bwt) = n
  <2>1. n \in Nat \ {0} /\ DOMAIN bwt = D
    BY DEF Compact
  <2>2. QED
    BY <2>1, SizeIs
<1>2. run[k].start \in D /\ run[k].start \in RunHeads(bwt)
  BY DEF Tiles
<1>3. x \in D
  BY <1>2, LFOrders
<1> HIDE DEF x
<1>4. y \in D /\ (y + 1) % n = x
  <2>1. x + n - 1 \in Int /\ 1 \in Int /\ (x + n - 1) + 1 = n * 1 + x /\ (x + n - 1) + 1 \in Int
    BY <1>1, <1>3
  <2>2. y \in D
    BY <1>1, <2>1, ModDef
  <2>3. (((x + n - 1) % n) + 1) % n = ((x + n - 1) + 1) % n
    BY <1>1, <2>1, ModMod
  <2>4. ((x + n - 1) + 1) % n = x
    BY <1>1, <1>3, <2>1, ModUnique
  <2>5. QED
    BY <2>2, <2>3, <2>4
<1> HIDE DEF y
<1>5. q \in D /\ BasicLF(bwt, C, q) = y
  BY <1>4, LFUndoesPsi
<1>6. BasicLF(bwt, C, run[k].start) = (BasicLF(bwt, C, q) + 1) % n
  BY <1>4, <1>5 DEF x
<1>7. q \in RunTails(bwt)
  BY <1>2, <1>5, <1>6, TailPrecedes
<1>8. PICK m \in 0..(r - 1) : run[m].end - 1 = q
  BY <1>7 DEF Tiles
<1>9. SampleToMark(run, bwt, C, k) = TailsBefore(run, q)
  BY <1>1 DEF SampleToMark, x, y, TailsBefore
<1>10. TailsBefore(run, run[m].end - 1) = m
  BY <1>8, RankOfRun
<1>11. SampleToMark(run, bwt, C, k) = m
  <2> HIDE DEF q
  <2> QED BY <1>8, <1>9, <1>10
<1>12. Follows(n, bwt, C, run, m, k)
  BY <1>6, <1>8 DEF Follows
<1>13. QED
  BY <1>11, <1>12

\* One sample follows a mark, and it follows no other.
LEMMA FollowsOne ==
  ASSUME NEW n, NEW bwt, Compact(bwt, n), NEW C, C = Cumulative(bwt),
         NEW run, NEW r, Tiles(n, bwt, run, r), NEW k \in 0..(r - 1), NEW m \in 0..(r - 1),
         Follows(n, bwt, C, run, k, m)
  PROVE  /\ \A x \in 0..(r - 1) : Follows(n, bwt, C, run, k, x) => x = m
         /\ \A x \in 0..(r - 1) : Follows(n, bwt, C, run, x, m) => x = k
<1> DEFINE D == 0..(n - 1)
           Lh(x) == BasicLF(bwt, C, run[x].start)
           Lt(x) == BasicLF(bwt, C, run[x].end - 1)
<1>1. n \in Nat \ {0}
  BY DEF Compact
<1>2. \A x \in 0..(r - 1) : run[x].start \in D /\ run[x].end - 1 \in D
  BY DEF Tiles
<1>3. (\A x \in D : BasicLF(bwt, C, x) \in D) /\ \A x, y \in D : BasicLF(bwt, C, x) = BasicLF(bwt, C, y) => x = y
  BY LFOrders
<1>4. \A x, y \in 0..(r - 1) : Lh(x) = Lh(y) => x = y
  BY <1>2, <1>3, HeadNamesRun
<1>5. \A x, y \in 0..(r - 1) : Lt(x) = Lt(y) => x = y
  BY <1>2, <1>3, HeadNamesRun
<1>6. \A x \in 0..(r - 1) : Lt(x) \in D
  BY <1>2, <1>3
<1> HIDE DEF Lh, Lt
<1>7. \A x, y \in 0..(r - 1) : Follows(n, bwt, C, run, x, y) <=> Lh(y) = (Lt(x) + 1) % n
  BY DEF Follows, Lh, Lt
<1>8. ASSUME NEW x \in 0..(r - 1), Follows(n, bwt, C, run, k, x)
      PROVE  x = m
  BY <1>4, <1>7, <1>8
<1>9. ASSUME NEW x \in 0..(r - 1), Follows(n, bwt, C, run, x, m)
      PROVE  x = k
  <2>1. (Lt(x) + 1) % n = (Lt(k) + 1) % n
    BY <1>7, <1>9
  <2>2. Lt(x) \in D /\ Lt(k) \in D /\ 1 \in Int
    BY <1>6
  <2>3. Lt(x) = Lt(k)
    BY <1>1, <2>1, <2>2, ModCancel
  <2>4. QED
    BY <1>5, <2>3
<1>10. QED
  BY <1>8, <1>9

-----------------------------------------------------------------------------
(* The runs in the order of the alphabet.                                  *)

AlphabetPairs(run) ==
  {km \in (DOMAIN run) \X (DOMAIN run) :
     run[km[1]].c < run[km[2]].c \/ (run[km[1]].c = run[km[2]].c /\ km[1] < km[2])}

\* Run k comes before run m in that order.
AlphabetBefore(run, k, m) == run[k].c < run[m].c \/ (run[k].c = run[m].c /\ k < m)

\* constructPsiRuns lists the runs once each, in that order.
LEMMA ByAlphabetIs ==
  ASSUME NEW n, NEW bwt, NEW run, NEW r, Tiles(n, bwt, run, r)
  PROVE  /\ ByAlphabet(run) \in [0..(r - 1) -> 0..(r - 1)]
         /\ \A i, j \in 0..(r - 1) :
              i < j <=> AlphabetBefore(run, ByAlphabet(run)[i], ByAlphabet(run)[j])
         /\ \A k \in 0..(r - 1) : \E i \in 0..(r - 1) : ByAlphabet(run)[i] = k
         /\ \A i, j \in 0..(r - 1) : ByAlphabet(run)[i] = ByAlphabet(run)[j] => i = j
         /\ \A i \in 0..(r - 1) :
              Cardinality({m \in DOMAIN run : AlphabetBefore(run, m, ByAlphabet(run)[i])}) = i
<1> DEFINE K == 0..(r - 1)
           R == AlphabetPairs(run)
           order == ByAlphabet(run)
<1>1. r \in Nat \ {0} /\ DOMAIN run = K /\ \A k \in K : run[k].c \in Nat
  BY DEF Tiles
<1>2. IsFiniteSet(K) /\ Cardinality(K) = r
  BY <1>1, PositionsBelow
<1>3. \A k, m \in K : <<k, m>> \in R <=> AlphabetBefore(run, k, m)
  BY <1>1 DEF AlphabetPairs, AlphabetBefore
<1>4. StrictOrder(K, R)
  <2>1. \A k \in K : k \in Int
    OBVIOUS
  <2> HIDE DEF K, R
  <2>2. \A k \in K : ~AlphabetBefore(run, k, k)
    BY <1>1, <2>1 DEF AlphabetBefore
  <2>3. \A k, m, x \in K : AlphabetBefore(run, k, m) /\ AlphabetBefore(run, m, x) => AlphabetBefore(run, k, x)
    BY <1>1, <2>1 DEF AlphabetBefore
  <2>4. \A k, m \in K : k = m \/ AlphabetBefore(run, k, m) \/ AlphabetBefore(run, m, k)
    BY <1>1, <2>1 DEF AlphabetBefore
  <2>5. QED
    BY <1>3, <2>2, <2>3, <2>4 DEF StrictOrder
<1> HIDE DEF R, K
<1>5. /\ \A x, y \in K : RankIn(K, R, x) = RankIn(K, R, y) => x = y
      /\ \A x, y \in K : <<x, y>> \in R <=> RankIn(K, R, x) < RankIn(K, R, y)
      /\ \A i \in 0..(Cardinality(K) - 1) : \E x \in K : RankIn(K, R, x) = i
  BY <1>2, <1>4, RankInOnto
<1>6. \A x \in K : RankIn(K, R, x) \in 0..(Cardinality(K) - 1)
  BY <1>2, <1>4, RankInOrder
<1>7. \A k \in K : {m \in K : AlphabetBefore(run, m, k)} = Below(K, R, k)
  <2> HIDE DEF K, R
  <2> QED BY <1>3 DEF Below
<1>8. \A k \in K : Cardinality({m \in K : AlphabetBefore(run, m, k)}) = RankIn(K, R, k)
  BY <1>7 DEF RankIn
<1> DEFINE at(i) == CHOOSE k \in K : Cardinality({m \in K : AlphabetBefore(run, m, k)}) = i
<1>9. order = [i \in K |-> at(i)]
  BY <1>1 DEF ByAlphabet, AlphabetBefore
<1> HIDE DEF order, at
<1>10. ASSUME NEW i \in K
       PROVE  order[i] \in K /\ RankIn(K, R, order[i]) = i
  <2>1. i \in 0..(Cardinality(K) - 1)
    BY <1>2 DEF K
  <2>2. \E x \in K : RankIn(K, R, x) = i
    BY <1>5, <2>1
  <2>3. \E x \in K : Cardinality({m \in K : AlphabetBefore(run, m, x)}) = i
    BY <1>8, <2>2
  <2>4. order[i] = CHOOSE k \in K : Cardinality({m \in K : AlphabetBefore(run, m, k)}) = i
    BY <1>9 DEF at
  <2>5. order[i] \in K /\ Cardinality({m \in K : AlphabetBefore(run, m, order[i])}) = i
    BY <2>3, <2>4
  <2>6. QED
    BY <1>8, <2>5
<1>11. order \in [K -> K]
  BY <1>9, <1>10
<1>12. \A i, j \in K : i < j <=> AlphabetBefore(run, order[i], order[j])
  <2> TAKE i, j \in K
  <2>1. order[i] \in K /\ order[j] \in K /\ RankIn(K, R, order[i]) = i /\ RankIn(K, R, order[j]) = j
    BY <1>10
  <2>2. <<order[i], order[j]>> \in R <=> RankIn(K, R, order[i]) < RankIn(K, R, order[j])
    BY <1>5, <2>1
  <2>3. QED
    BY <1>3, <2>1, <2>2
<1>13. \A k \in K : \E i \in K : order[i] = k
  <2> TAKE k \in K
  <2>1. RankIn(K, R, k) \in K
    BY <1>2, <1>6 DEF K
  <2> DEFINE i == RankIn(K, R, k)
  <2> HIDE DEF i
  <2>2. i \in K /\ order[i] \in K /\ RankIn(K, R, order[i]) = i
    BY <1>10, <2>1 DEF i
  <2>3. order[i] = k
    BY <1>5, <2>2 DEF i
  <2>4. QED
    BY <2>2, <2>3
<1>14. \A i, j \in K : order[i] = order[j] => i = j
  BY <1>10
<1>15. \A i \in K : Cardinality({m \in K : AlphabetBefore(run, m, order[i])}) = i
  BY <1>8, <1>10
<1>16. QED
  BY <1>1, <1>11, <1>12, <1>13, <1>14, <1>15 DEF order, K

\* LF keeps the order of the alphabet, and no other head comes between the head
\* and the tail of a run.
LEMMA RunsInOrder ==
  ASSUME NEW n, NEW bwt, Compact(bwt, n), NEW C, C = Cumulative(bwt),
         NEW run, NEW r, Tiles(n, bwt, run, r), NEW k \in 0..(r - 1), NEW m \in 0..(r - 1)
  PROVE  /\ AlphabetBefore(run, k, m) <=> BasicLF(bwt, C, run[k].start) < BasicLF(bwt, C, run[m].start)
         /\ AlphabetBefore(run, k, m) => BasicLF(bwt, C, run[k].end - 1) < BasicLF(bwt, C, run[m].start)
         /\ BasicLF(bwt, C, run[k].start) <= BasicLF(bwt, C, run[k].end - 1)
<1> DEFINE D == 0..(n - 1)
           L(x) == BasicLF(bwt, C, x)
           hk == run[k].start
           tk == run[k].end - 1
           hm == run[m].start
<1>1. /\ hk \in D /\ tk \in D /\ hm \in D /\ hk <= tk
      /\ bwt[hk] = run[k].c /\ bwt[tk] = run[k].c /\ bwt[hm] = run[m].c
      /\ run[k].c \in Nat /\ run[m].c \in Nat
      /\ k < m => tk < hm
  <2>1. /\ \A x \in 0..(r - 1) :
             /\ run[x].start \in D /\ run[x].end \in Nat /\ run[x].end - 1 \in D
             /\ run[x].c \in Nat /\ run[x].start < run[x].end
             /\ \A p \in run[x].start .. (run[x].end - 1) : bwt[p] = run[x].c
        /\ k < m => run[k].end <= run[m].start
    BY DEF Tiles
  <2>2. \A x \in 0..(r - 1) : /\ run[x].start \in run[x].start .. (run[x].end - 1)
                              /\ run[x].end - 1 \in run[x].start .. (run[x].end - 1)
    <3> TAKE x \in 0..(r - 1)
    <3> DEFINE a == run[x].start
               b == run[x].end
    <3>1. a \in Int /\ b \in Int /\ a < b
      BY <2>1
    <3> HIDE DEF a, b
    <3>2. a \in a .. (b - 1) /\ b - 1 \in a .. (b - 1)
      BY <3>1
    <3>3. QED
      BY <3>2 DEF a, b
  <2>3. \A x \in 0..(r - 1) : bwt[run[x].start] = run[x].c /\ bwt[run[x].end - 1] = run[x].c
    BY <2>1, <2>2
  <2>4. hk \in Int /\ run[k].end \in Int /\ hm \in Int /\ hk < run[k].end
    BY <2>1
  <2>5. hk <= tk /\ (k < m => tk < hm)
    <3> DEFINE b == run[k].end
    <3>1. b \in Int /\ hk < b /\ (k < m => b <= hm) /\ tk = b - 1
      BY <2>1, <2>4
    <3> HIDE DEF b, hk, hm, tk
    <3>2. QED
      BY <2>4, <3>1
  <2>6. QED
    BY <2>1, <2>3, <2>5
<1>2. /\ \A x, y \in D : L(x) < L(y) <=> Before(bwt, x, y)
      /\ \A x \in D : L(x) \in D
  BY LFOrders
<1>3. k < m <=> hk < hm
  BY HeadNamesRun
<1> HIDE DEF hk, hm, tk, L
<1>4. AlphabetBefore(run, k, m) <=> L(hk) < L(hm)
  <2>1. L(hk) < L(hm) <=> Before(bwt, hk, hm)
    BY <1>1, <1>2
  <2>2. QED
    BY <1>1, <1>3, <2>1 DEF Before, AlphabetBefore
<1>5. AlphabetBefore(run, k, m) => L(tk) < L(hm)
  <2>1. L(tk) < L(hm) <=> Before(bwt, tk, hm)
    BY <1>1, <1>2
  <2>2. QED
    BY <1>1, <2>1 DEF Before, AlphabetBefore
<1>6. L(hk) <= L(tk)
  <2>1. CASE hk = tk
    <3>1. L(hk) = L(tk) /\ L(hk) \in Int
      BY <1>1, <1>2, <2>1
    <3>2. QED
      BY <3>1
  <2>2. CASE hk # tk
    <3>1. hk < tk
      BY <1>1, <2>2
    <3>2. L(hk) < L(tk) /\ L(hk) \in Int /\ L(tk) \in Int
      BY <1>1, <1>2, <3>1 DEF Before
    <3>3. QED
      BY <3>2
  <2>3. QED
    BY <2>1, <2>2
<1>7. QED
  BY <1>4, <1>5, <1>6 DEF hk, hm, tk, L

\* So the sample that follows a mark is that of the next run in that order.
LEMMA PsiLinkIs ==
  ASSUME NEW n, NEW bwt, Compact(bwt, n), NEW C, C = Cumulative(bwt),
         NEW run, NEW r, Tiles(n, bwt, run, r), NEW i \in 0..(r - 1)
  PROVE  Follows(n, bwt, C, run, ByAlphabet(run)[i], ByAlphabet(run)[(i + 1) % r])
<1> DEFINE D == 0..(n - 1)
           K == 0..(r - 1)
           order == ByAlphabet(run)
           H(x) == BasicLF(bwt, C, run[order[x]].start)
           T(x) == BasicLF(bwt, C, run[order[x]].end - 1)
<1>1. n \in Nat \ {0} /\ r \in Nat \ {0}
  BY DEF Compact, Tiles
<1>2. /\ \A x \in K : order[x] \in K
      /\ \A x, y \in K : x < y <=> AlphabetBefore(run, order[x], order[y])
      /\ \A k \in K : \E x \in K : order[x] = k
  <2>1. order \in [K -> K]
    BY ByAlphabetIs
  <2>2. \A x, y \in K : x < y <=> AlphabetBefore(run, order[x], order[y])
    BY ByAlphabetIs
  <2>3. \A k \in K : \E x \in K : order[x] = k
    BY ByAlphabetIs
  <2> HIDE DEF order, K
  <2>4. QED
    BY <2>1, <2>2, <2>3
<1>3. \A k \in K : run[k].start \in D /\ run[k].end - 1 \in D
  BY DEF Tiles
<1>4. \A x \in D : BasicLF(bwt, C, x) \in D
  BY LFOrders
<1>5. \A x \in K : H(x) \in D /\ T(x) \in D
  BY <1>2, <1>3, <1>4
<1>6. \A x, y \in K : (x < y <=> H(x) < H(y)) /\ (x < y => T(x) < H(y)) /\ H(x) <= T(x)
  <2> TAKE x, y \in K
  <2>1. order[x] \in 0..(r - 1) /\ order[y] \in 0..(r - 1)
    BY <1>2
  <2>2. x < y <=> AlphabetBefore(run, order[x], order[y])
    BY <1>2
  <2> HIDE DEF order
  <2>3. QED
    BY <2>1, <2>2, RunsInOrder
<1> HIDE DEF H, T
<1>7. PICK m \in K : Follows(n, bwt, C, run, order[i], m)
  BY <1>2, MarkLinkIs
<1>8. PICK j \in K : order[j] = m
  BY <1>2, <1>7
<1>9. H(j) = (T(i) + 1) % n
  BY <1>7, <1>8 DEF Follows, H, T
<1> HIDE DEF order
<1>10. j = (i + 1) % r
  <2>1. CASE T(i) = n - 1
    <3>1. T(i) + 1 = n * 1 + 0 /\ T(i) + 1 \in Int /\ 0 \in D
      BY <1>1, <2>1
    <3>2. H(j) = 0
      BY <1>1, <1>9, <3>1, ModUnique
    <3>3. ~(0 < j)
      <4>1. 0 \in K
        BY <1>1
      <4>2. H(0) \in D
        BY <1>5, <4>1
      <4>3. ~(H(0) < H(j))
        BY <1>1, <3>2, <4>2
      <4>4. QED
        BY <1>6, <4>1, <4>3
    <3>4. i = r - 1
      <4>1. SUFFICES ASSUME i # r - 1
                     PROVE  FALSE
        OBVIOUS
      <4>2. i + 1 \in K /\ i < i + 1
        BY <1>1, <4>1
      <4>3. T(i) < H(i + 1) /\ H(i + 1) \in D
        BY <1>5, <1>6, <4>2
      <4>4. QED
        BY <1>1, <2>1, <4>3
    <3>5. i + 1 = r * 1 + 0 /\ i + 1 \in Int /\ 0 \in 0..(r - 1)
      BY <1>1, <3>4
    <3>6. (i + 1) % r = 0
      BY <1>1, <3>5, ModUnique
    <3>7. QED
      BY <1>1, <3>3, <3>6
  <2>2. CASE T(i) # n - 1
    <3>1. T(i) + 1 \in D /\ T(i) \in D
      BY <1>1, <1>5, <2>2
    <3>2. H(j) = T(i) + 1
      BY <1>1, <1>9, <3>1, ModSmall
    <3>3. H(i) <= T(i) /\ H(i) \in D
      BY <1>5, <1>6
    <3>4. i < j
      <4>1. H(i) < H(j)
        BY <3>1, <3>2, <3>3
      <4>2. QED
        BY <1>6, <4>1
    <3>5. ~(i + 1 < j)
      <4>1. SUFFICES ASSUME i + 1 < j
                     PROVE  FALSE
        OBVIOUS
      <4>2. i + 1 \in K /\ i < i + 1
        BY <1>1, <4>1
      <4>3. T(i) < H(i + 1) /\ H(i + 1) < H(j) /\ H(i + 1) \in D
        BY <1>5, <1>6, <4>1, <4>2
      <4>4. QED
        BY <3>1, <3>2, <4>3
    <3>6. j = i + 1
      BY <1>1, <3>4, <3>5
    <3>7. QED
      BY <1>1, <3>6, ModSmall
  <2>3. QED
    BY <2>1, <2>2
<1>11. QED
  BY <1>7, <1>8, <1>10 DEF order

-----------------------------------------------------------------------------
(* The text an index was built from, and the positions of its BWT.          *)

\* The text ends with its only terminator, and sa is its suffix array.
TextIsBuilt == Terminated(text, Size(text)) /\ sa = SuffixArray(text)

\* The suffix array of a text names every position once.
LEMMA BuiltText ==
  ASSUME TextIsBuilt
  PROVE  /\ Size(text) \in Nat \ {0} /\ Size(sa) = Size(text)
         /\ sa \in [0..(Size(text) - 1) -> 0..(Size(text) - 1)]
         /\ \A p, q \in 0..(Size(text) - 1) : sa[p] = sa[q] => p = q
         /\ Compact(BWT(text, sa), Size(text))
<1> DEFINE n == Size(text)
<1>1. Terminated(text, n) /\ sa = SuffixArray(text)
  BY DEF TextIsBuilt
<1> HIDE DEF n
<1>2. n \in Nat \ {0}
  BY <1>1 DEF Terminated
<1>3. /\ sa \in [0..(n - 1) -> 0..(n - 1)]
      /\ \A p, q \in 0..(n - 1) : sa[p] = sa[q] => p = q
  BY <1>1, SuffixArrayIs
<1>4. Size(sa) = n
  <2>1. DOMAIN sa = 0..(n - 1) /\ n \in Nat
    BY <1>2, <1>3
  <2>2. QED
    BY <2>1, SizeIs
<1>5. Compact(BWT(text, sa), n)
  BY <1>1, <1>3, BwtIsCompact
<1>6. QED
  BY <1>2, <1>3, <1>4, <1>5 DEF n

\* The LF of the construction leads to the suffix one symbol longer.
LEMMA BasicLFRight ==
  ASSUME TextIsBuilt, NEW p \in 0..(Size(text) - 1)
  PROVE  LET x == BasicLF(BWT(text, sa), Cumulative(BWT(text, sa)), p)
         IN x \in 0..(Size(text) - 1) /\ sa[x] = TextPos(sa, p)
<1> DEFINE n == Size(text)
           r == BasicLF(BWT(text, sa), Cumulative(BWT(text, sa)), p)
<1>1. Terminated(text, n) /\ sa = SuffixArray(text)
  BY DEF TextIsBuilt
<1> HIDE DEF n
<1>2. p \in 0..(n - 1)
  BY DEF n
<1>3. r \in 0..(n - 1) /\ sa[r] = TextPos(sa, p)
  BY <1>1, <1>2, LFCounts DEF BasicLF
<1>4. QED
  BY <1>3 DEF n

\* The suffix array and the BWT share the positions 0..n-1.
LEMMA PositionsAre ==
  ASSUME TextIsIndexed
  PROVE  /\ ix.n \in Nat \ {0} /\ DOMAIN sa = 0..(ix.n - 1) /\ DOMAIN ix.bwt = 0..(ix.n - 1)
         /\ sa \in [0..(ix.n - 1) -> 0..(ix.n - 1)] /\ Size(sa) = ix.n
         /\ DOMAIN text = 0..(ix.n - 1)
         /\ \A p \in DOMAIN sa : /\ p \in Nat /\ p < ix.n /\ sa[p] \in 0..(ix.n - 1)
                                 /\ TextPos(sa, p) \in 0..(ix.n - 1)
<1>2. /\ ix.n \in Nat /\ ix.n > 0 /\ DOMAIN sa = 0..(ix.n - 1) /\ Size(sa) = ix.n
      /\ DOMAIN text = 0..(ix.n - 1) /\ DOMAIN ix.bwt = 0..(ix.n - 1)
      /\ \A p \in DOMAIN sa : sa[p] \in 0..(ix.n - 1) /\ TextPos(sa, p) \in 0..(ix.n - 1)
  BY TextSize
<1>4. sa \in [0..(ix.n - 1) -> 0..(ix.n - 1)]
  BY DEF TextIsIndexed
<1> DEFINE n == ix.n
<1> HIDE DEF n
<1>5. \A p \in 0..(n - 1) : p \in Nat /\ p < n
  BY <1>2 DEF n
<1>6. QED
  BY <1>2, <1>4, <1>5 DEF n

\* Different entries of the suffix array are different.
LEMMA SaHasOnce ==
  ASSUME TextIsIndexed, NEW p \in DOMAIN sa, NEW q \in DOMAIN sa, sa[p] = sa[q]
  PROVE  p = q
  BY DEF TextIsIndexed

\* The BWT of the index is over a compact alphabet.
LEMMA BwtServes ==
  ASSUME TextIsIndexed
  PROVE  Compact(ix.bwt, ix.n) /\ ix.C = Cumulative(ix.bwt)
<1>1. /\ ix.n \in Nat \ {0} /\ text \in [0..(ix.n - 1) -> Nat]
      /\ \A i \in DOMAIN text : text[i] = 0 <=> i = ix.n - 1
      /\ sa \in [0..(ix.n - 1) -> 0..(ix.n - 1)]
      /\ \A p, q \in DOMAIN sa : sa[p] = sa[q] => p = q
      /\ ix.bwt = BWT(text, sa) /\ ix.C = Cumulative(ix.bwt)
  BY DEF TextIsIndexed
<1> DEFINE n == ix.n
<1>2. Terminated(text, n)
  BY <1>1 DEF Terminated
<1>3. \A p, q \in 0..(n - 1) : sa[p] = sa[q] => p = q
  BY <1>1
<1>4. sa \in [0..(n - 1) -> 0..(n - 1)]
  BY <1>1
<1> HIDE DEF n
<1>5. Compact(BWT(text, sa), n)
  BY <1>2, <1>3, <1>4, BwtIsCompact
<1>6. QED
  BY <1>1, <1>5 DEF n

\* The text position before, and one step on again.
LEMMA TextPosAdd ==
  ASSUME TextIsIndexed, NEW p \in DOMAIN sa
  PROVE  (TextPos(sa, p) + 1) % ix.n = sa[p]
<1> DEFINE n == ix.n
           v == sa[p]
<1>1. n \in Nat \ {0} /\ v \in 0..(n - 1) /\ Size(sa) = n
  BY PositionsAre
<1>2. TextPos(sa, p) = IF 0 < v THEN v - 1 ELSE n - 1
  BY <1>1 DEF TextPos
<1> HIDE DEF n, v
<1>3. CASE 0 < v
  <2>1. TextPos(sa, p) + 1 = v
    BY <1>1, <1>2, <1>3
  <2>2. QED
    BY <1>1, <2>1, ModSmall DEF n, v
<1>4. CASE ~(0 < v)
  <2>1. TextPos(sa, p) + 1 = n * 1 + 0 /\ v = 0 /\ TextPos(sa, p) + 1 \in Int
    BY <1>1, <1>2, <1>4
  <2>2. (TextPos(sa, p) + 1) % n = 0
    BY <1>1, <2>1, ModUnique
  <2>3. QED
    BY <2>1, <2>2 DEF n, v
<1>5. QED
  BY <1>3, <1>4

\* The text position LF leads to is one before.
LEMMA LFGoesBack ==
  ASSUME TextIsIndexed, LFIsRight, NEW p \in DOMAIN sa
  PROVE  LF(p) \in DOMAIN sa /\ (sa[LF(p)] + 1) % ix.n = sa[p]
<1>1. LF(p) \in DOMAIN sa /\ sa[LF(p)] = TextPos(sa, p)
  BY DEF LFIsRight
<1>2. QED
  BY <1>1, TextPosAdd

\* The suffix of text position w comes right after that of v, the first after the last.
After(v, w) ==
  \E p \in 0..(Size(text) - 1) : sa[p] = v /\ sa[(p + 1) % Size(text)] = w

\* The entry after a text position in the suffix array is one.
LEMMA AfterOne ==
  ASSUME TextIsBuilt, NEW v, NEW a, NEW b, After(v, a), After(v, b)
  PROVE  a = b
<1>1. \A p, q \in 0..(Size(text) - 1) : sa[p] = sa[q] => p = q
  BY BuiltText
<1>2. QED
  BY <1>1 DEF After

\* The suffix array names the text positions before its entries once each.
LEMMA BeforeEntry ==
  ASSUME TextIsBuilt
  PROVE  LET n == Size(text)
         IN /\ \A p \in 0..(n - 1) : TextPos(sa, p) \in 0..(n - 1)
            /\ \A p, q \in 0..(n - 1) : TextPos(sa, p) = TextPos(sa, q) => p = q
<1> DEFINE n == Size(text)
           D == 0..(n - 1)
<1>1. /\ n \in Nat \ {0} /\ Size(sa) = n
      /\ sa \in [D -> D] /\ \A p, q \in D : sa[p] = sa[q] => p = q
  BY BuiltText
<1> HIDE DEF n
<1>2. \A p \in D : TextPos(sa, p) = IF 0 < sa[p] THEN sa[p] - 1 ELSE n - 1
  BY <1>1 DEF TextPos
<1>3. \A p \in D : TextPos(sa, p) \in D
  <2> TAKE p \in D
  <2> DEFINE v == sa[p]
  <2>1. v \in D
    BY <1>1
  <2>2. TextPos(sa, p) = IF 0 < v THEN v - 1 ELSE n - 1
    BY <1>2
  <2> HIDE DEF v
  <2>3. QED
    BY <1>1, <2>1, <2>2
<1>4. ASSUME NEW p \in D, NEW q \in D, TextPos(sa, p) = TextPos(sa, q)
      PROVE  p = q
  <2> DEFINE v == sa[p]
             w == sa[q]
  <2>1. v \in D /\ w \in D
    BY <1>1
  <2>2. /\ TextPos(sa, p) = IF 0 < v THEN v - 1 ELSE n - 1
        /\ TextPos(sa, q) = IF 0 < w THEN w - 1 ELSE n - 1
    BY <1>2
  <2> HIDE DEF v, w
  <2>3. (IF 0 < v THEN v - 1 ELSE n - 1) = (IF 0 < w THEN w - 1 ELSE n - 1)
    BY <1>4, <2>2
  <2>4. v \in Int /\ w \in Int /\ v >= 0 /\ w >= 0 /\ v <= n - 1 /\ w <= n - 1 /\ n \in Int
    BY <1>1, <2>1
  <2>5. v = w
    BY <2>3, <2>4
  <2>6. QED
    BY <1>1, <2>5 DEF v, w
<1>5. QED
  BY <1>3, <1>4 DEF n

\* A sequence without its first element moves the others one place down.
LEMMA TailIs ==
  ASSUME NEW S, NEW s \in Seq(S), s # <<>>
  PROVE  /\ Tail(s) \in Seq(S) /\ DOMAIN Tail(s) = 1..(Len(s) - 1) /\ DOMAIN s = 1..Len(s)
         /\ Len(s) \in Nat /\ Len(s) > 0
         /\ \A k \in DOMAIN Tail(s) : k + 1 \in DOMAIN s /\ 1 < k + 1 /\ Tail(s)[k] = s[k + 1]
         /\ \A k \in DOMAIN s : k # 1 => k - 1 \in DOMAIN Tail(s) /\ (k - 1) + 1 = k
         /\ Len(s) # 1 => Tail(s) # <<>>
<1>1. Len(s) \in Nat /\ Len(s) > 0 /\ DOMAIN s = 1..Len(s)
  OBVIOUS
<1>2. Tail(s) \in Seq(S) /\ Len(Tail(s)) = Len(s) - 1
      /\ \A k \in 1..(Len(s) - 1) : Tail(s)[k] = s[k + 1]
  BY <1>1
<1>3. DOMAIN Tail(s) = 1..(Len(s) - 1)
  BY <1>2
<1>4. \A k \in DOMAIN Tail(s) : k + 1 \in DOMAIN s /\ 1 < k + 1 /\ Tail(s)[k] = s[k + 1]
  BY <1>1, <1>2, <1>3
<1>5. \A k \in DOMAIN s : k # 1 => k - 1 \in DOMAIN Tail(s) /\ (k - 1) + 1 = k
  BY <1>1, <1>3
<1>6. QED
  BY <1>1, <1>2, <1>3, <1>4, <1>5

-----------------------------------------------------------------------------
(* Numbers and their extremes, and cuts of a sum.                           *)

\* The members of a set below a number.
PlaceIn(S, v) == Cardinality({y \in S : y < v})

\* Numbers that ascend together have the same places.
LEMMA SamePlace ==
  ASSUME NEW S \in SUBSET Int, IsFiniteSet(S), NEW f, \A x, y \in S : x < y <=> f[x] < f[y],
         \A x, y \in S : f[x] = f[y] => x = y, NEW z \in S
  PROVE  PlaceIn({f[x] : x \in S}, f[z]) = PlaceIn(S, z)
<1> DEFINE B == {y \in S : y < z}
           T == {y \in {f[x] : x \in S} : y < f[z]}
           g == [x \in B |-> f[x]]
<1>1. IsFiniteSet(B)
  BY FS_Subset
<1>2. \A x \in B : f[x] \in T
  OBVIOUS
<1>3. g \in Injection(B, T)
  <2>1. g \in [B -> T]
    BY <1>2
  <2>2. \A x, y \in B : g[x] = g[y] => x = y
    OBVIOUS
  <2>3. QED
    BY <2>1, <2>2 DEF Injection, IsInjective
<1>4. g \in Surjection(B, T)
  <2>1. g \in [B -> T]
    BY <1>2
  <2>2. ASSUME NEW y \in T
        PROVE  \E x \in B : g[x] = y
    <3>1. PICK x \in S : y = f[x]
      OBVIOUS
    <3>2. f[x] < f[z]
      BY <3>1
    <3>3. x \in B
      BY <3>2
    <3>4. QED
      BY <3>1, <3>3
  <2>3. QED
    BY <2>1, <2>2 DEF Surjection
<1>5. g \in Bijection(B, T)
  BY <1>3, <1>4 DEF Bijection
<1> HIDE DEF B, T, g
<1>6. Cardinality(T) = Cardinality(B)
  BY <1>1, <1>5, SameSize
<1>7. QED
  BY <1>6 DEF B, T, PlaceIn

\* Sorted numbers that contain a least and a greatest one begin and end with them.
LEMMA ExtremesOf ==
  ASSUME NEW w \in Nat \ {0}, NEW a, \A o \in 0..(w - 1) : a[o] \in Int,
         \A o, q \in 0..(w - 1) : o < q => a[o] < a[q],
         NEW lo \in 0..(w - 1), NEW hi \in 0..(w - 1)
  PROVE  a[0] <= a[lo] /\ a[hi] <= a[w - 1]
<1>1. 0 \in 0..(w - 1) /\ w - 1 \in 0..(w - 1)
  OBVIOUS
<1>2. lo = 0 \/ 0 < lo
  OBVIOUS
<1>3. hi = w - 1 \/ hi < w - 1
  OBVIOUS
<1>4. a[0] \in Int /\ a[lo] \in Int /\ a[hi] \in Int /\ a[w - 1] \in Int
  BY <1>1
<1>5. a[0] <= a[lo]
  BY <1>1, <1>2, <1>4
<1>6. a[hi] <= a[w - 1]
  BY <1>1, <1>3, <1>4
<1>7. QED
  BY <1>5, <1>6

\* Where the k-th piece of a range ends that is cut at the places A.
NextCut(A, k, last) == IF k = Size(A) THEN last ELSE A[k]

\* Cut at S, the range splits in pieces with no place of S inside.
LEMMA CutsAre ==
  ASSUME NEW first \in Nat, NEW last \in Nat, NEW S \in SUBSET (first .. (last - 1)), first \in S
  PROVE  /\ Size(Ascending(S)) \in Nat \ {0}
         /\ \A k \in 1..Size(Ascending(S)) :
              /\ Ascending(S)[k - 1] \in S
              /\ Ascending(S)[k - 1] < NextCut(Ascending(S), k, last)
              /\ NextCut(Ascending(S), k, last) \in Nat /\ NextCut(Ascending(S), k, last) <= last
              /\ \A x \in S : x <= Ascending(S)[k - 1] \/ NextCut(Ascending(S), k, last) <= x
         /\ \A k, m \in 1..Size(Ascending(S)) :
              k < m => NextCut(Ascending(S), k, last) <= Ascending(S)[m - 1]
         /\ \A p \in first .. (last - 1) : \E k \in 1..Size(Ascending(S)) :
              Ascending(S)[k - 1] <= p /\ p < NextCut(Ascending(S), k, last)
<1> DEFINE A == Ascending(S)
           N == Cardinality(S)
           next(k) == IF k = N THEN last ELSE A[k]
<1>1. S \in SUBSET Int /\ IsFiniteSet(S)
  <2>1. first \in Int /\ last - 1 \in Int
    OBVIOUS
  <2>2. IsFiniteSet(first .. (last - 1))
    BY <2>1, FS_Interval
  <2>3. IsFiniteSet(S)
    BY <2>2, FS_Subset
  <2>4. QED
    BY <2>1, <2>3
<1>2. /\ DOMAIN A = 0..(N - 1) /\ N \in Nat /\ Size(A) = N
      /\ \A k \in DOMAIN A : A[k] \in S
      /\ \A k, m \in DOMAIN A : k < m <=> A[k] < A[m]
      /\ \A x \in S : Cardinality({y \in S : y < x}) \in DOMAIN A
                      /\ A[Cardinality({y \in S : y < x})] = x
  BY <1>1, AscendingIs
<1>3. \A k : NextCut(A, k, last) = next(k)
  BY <1>2 DEF NextCut
<1>4. \A x \in S : x \in Nat /\ first <= x /\ x < last
  OBVIOUS
<1>5. \A x \in S : \E k \in 0..(N - 1) : A[k] = x
  BY <1>2
<1> HIDE DEF A, N
<1>6. N \in Nat \ {0}
  BY <1>2, <1>5
<1>7. \A k \in 1..N : k - 1 \in 0..(N - 1) /\ (k # N => k \in 0..(N - 1))
  BY <1>6
<1>8. \A k \in 0..(N - 1) : A[k] \in S /\ A[k] \in Nat /\ first <= A[k] /\ A[k] < last
  BY <1>2, <1>4
<1>9. ASSUME NEW k \in 1..N
      PROVE  /\ A[k - 1] \in S /\ A[k - 1] < next(k) /\ next(k) \in Nat /\ next(k) <= last
             /\ \A x \in S : x <= A[k - 1] \/ next(k) <= x
  <2>1. A[k - 1] \in S /\ A[k - 1] \in Nat /\ A[k - 1] < last
    BY <1>7, <1>8
  <2>2. k # N => A[k] \in Nat /\ A[k] < last /\ A[k - 1] < A[k]
    BY <1>2, <1>7, <1>8
  <2>3. ASSUME NEW x \in S, A[k - 1] < x
        PROVE  next(k) <= x
    <3>1. PICK m \in 0..(N - 1) : A[m] = x
      BY <1>5
    <3>2. k - 1 < m
      BY <1>2, <1>7, <2>3, <3>1
    <3>3. k # N /\ (m = k \/ k < m)
      BY <1>6, <3>2
    <3>4. A[k] <= x
      <4>1. k < m => A[k] < A[m]
        BY <1>2, <1>7, <3>3
      <4>2. QED
        BY <1>4, <2>2, <3>1, <3>3, <4>1
    <3>5. QED
      BY <3>3, <3>4
  <2>4. QED
    BY <1>4, <2>1, <2>2, <2>3
<1>10. ASSUME NEW k \in 1..N, NEW m \in 1..N, k < m
       PROVE  next(k) <= A[m - 1]
  <2>1. k # N /\ (k = m - 1 \/ k < m - 1)
    BY <1>6, <1>10
  <2>2. k \in 0..(N - 1) /\ m - 1 \in 0..(N - 1) /\ A[k] \in Nat /\ A[m - 1] \in Nat
    BY <1>7, <1>8, <2>1
  <2>3. k < m - 1 => A[k] < A[m - 1]
    BY <1>2, <2>2
  <2>4. QED
    BY <2>1, <2>2, <2>3
<1>11. ASSUME NEW p \in first .. (last - 1)
       PROVE  \E k \in 1..N : A[k - 1] <= p /\ p < next(k)
  <2> DEFINE T == {j \in 0..(N - 1) : A[j] <= p}
  <2>1. T # {}
    <3>1. PICK j \in 0..(N - 1) : A[j] = first
      BY <1>5
    <3>2. QED
      BY <3>1
  <2>2. N - 1 \in Nat /\ T \in SUBSET (0..(N - 1))
    BY <1>6
  <2> HIDE DEF T
  <2>3. PICK j \in T : \A y \in T : y <= j
    BY <2>1, <2>2, MaxExists
  <2>4. j \in 0..(N - 1) /\ A[j] <= p /\ \A y \in 0..(N - 1) : A[y] <= p => y <= j
    BY <2>3 DEF T
  <2>5. j + 1 \in 1..N /\ (j + 1) - 1 = j
    BY <1>6, <2>4
  <2>6. p < next(j + 1)
    <3>1. CASE j + 1 = N
      BY <3>1
    <3>2. CASE j + 1 # N
      <4>1. j + 1 \in 0..(N - 1) /\ ~(j + 1 <= j)
        BY <1>6, <2>4, <3>2
      <4>2. ~(A[j + 1] <= p) /\ A[j + 1] \in Nat
        BY <1>8, <2>4, <4>1
      <4>3. QED
        BY <3>2, <4>2
    <3>3. QED
      BY <3>1, <3>2
  <2>7. QED
    BY <2>4, <2>5, <2>6
<1>12. QED
  <2> HIDE DEF next
  <2>1. \A k \in 1..N :
          /\ A[k - 1] \in S /\ A[k - 1] < next(k) /\ next(k) \in Nat /\ next(k) <= last
          /\ \A x \in S : x <= A[k - 1] \/ next(k) <= x
    BY <1>9
  <2>2. \A k, m \in 1..N : k < m => next(k) <= A[m - 1]
    BY <1>10
  <2>3. \A p \in first .. (last - 1) : \E k \in 1..N : A[k - 1] <= p /\ p < next(k)
    BY <1>11
  <2> DEFINE M == Size(A)
  <2>4. M = N
    BY <1>2
  <2>5. /\ M \in Nat \ {0}
        /\ \A k \in 1..M :
             /\ A[k - 1] \in S /\ A[k - 1] < NextCut(A, k, last)
             /\ NextCut(A, k, last) \in Nat /\ NextCut(A, k, last) <= last
             /\ \A x \in S : x <= A[k - 1] \/ NextCut(A, k, last) <= x
        /\ \A k, m \in 1..M : k < m => NextCut(A, k, last) <= A[m - 1]
        /\ \A p \in first .. (last - 1) : \E k \in 1..M :
             A[k - 1] <= p /\ p < NextCut(A, k, last)
    BY <1>3, <1>6, <2>1, <2>2, <2>3, <2>4
  <2>6. QED
    BY <2>5 DEF A, M

=============================================================================
