------------------------- MODULE IndexStream_proofs -------------------------
(***************************************************************************)
(* Proof that an index object never mixes the items of two indexes.  The   *)
(* names of the items and the orders they are written and read in are      *)
(* those of the code, so the first half are facts about every class.       *)
(***************************************************************************)
EXTENDS IndexStream, SequenceTheorems, TLAPS

-----------------------------------------------------------------------------
(* Names: in a family of classes the name of an item says its role. *)

RoleOf(family, name) ==
  CASE name = "alphabet" -> "alphabet"
    [] name \in {"bwtRle", "psi"} -> "navigate"
    [] name = "sa" -> "sa"
    [] name \in {"firstTextAlpha", "psiFirstText"} -> "samples"
    [] name \in {"firstByLast", "lastByFirst", "psiLastText"} -> "marks"
    [] name \in {"firstToLast", "lastToFirst", "lastToFirstAlpha", "psiLink"} -> "markToSample"
    [] name \in {"lastIdx", "first", "firstIdx", "firstIdxAlpha", "psiFirstIdx"} -> "samplesIdx"
    [] name \in {"bwtCumulative", "psiCumulative"} -> "cumulative"
    [] name \in {"firstValidMark", "lastValidMark", "psiValidMark"} -> "validMarks"
    [] name \in {"firstValidArea", "lastValidArea", "psiValidArea"} -> "validAreas"
    [] name = "lastText" -> IF family = "sr-index" THEN "samples" ELSE "marks"
    [] name = "firstText" -> IF family = "sr-index" THEN "marks" ELSE "samples"

\* The same of a key in a storage: that of a rank leads to the rank.
RoleAt(family, key) == IF key[3] = "" THEN RoleOf(family, key[2]) ELSE "validMarksRank"

Named(keys, roles, family) ==
  /\ roles \subseteq DOMAIN keys /\ "rate" \notin roles
  /\ \A role \in roles : RoleOf(family, keys[role].name) = role

Unprefixed(keys, roles) == \A role \in roles : ~keys[role].prefixed

BaseRoles == {"alphabet", "navigate", "samples", "marks", "markToSample"}

\* Keys that override those of a base class.
LEMMA OverrideNamed ==
  ASSUME NEW base, NEW over, NEW family, NEW roles, NEW more,
         Named(base, roles, family), Named(over, more, family), DOMAIN over = more
  PROVE  Named(Override(base, over), roles \cup more, family)
BY DEF Named, Override

\* The names that a constructor of keys stores.
LEMMA KeyNames == \A n : Plain(n).name = n /\ AtRate(n).name = n /\ ~Plain(n).prefixed
BY DEF Plain, AtRate

\* The keys of the plain classes.
LEMMA PlainKeys ==
  /\ Named(RIndexKeys, BaseRoles, "sr-index") /\ Unprefixed(RIndexKeys, BaseRoles)
  /\ Named(RCSAWithBWTRunKeys, BaseRoles, "sr-csa") /\ Unprefixed(RCSAWithBWTRunKeys, BaseRoles)
  /\ Named(RCSAWithPsiRunKeys, BaseRoles, "sr-csa") /\ Unprefixed(RCSAWithPsiRunKeys, BaseRoles)
<1>1. /\ RIndexKeys["alphabet"] = Plain("alphabet") /\ RIndexKeys["navigate"] = Plain("bwtRle")
      /\ RIndexKeys["samples"] = Plain("lastText") /\ RIndexKeys["marks"] = Plain("firstText")
      /\ RIndexKeys["markToSample"] = Plain("firstToLast") /\ DOMAIN RIndexKeys = BaseRoles
  BY DEF RIndexKeys, BaseRoles
<1>2. /\ RCSAWithBWTRunKeys["alphabet"] = Plain("alphabet")
      /\ RCSAWithBWTRunKeys["navigate"] = Plain("psi")
      /\ RCSAWithBWTRunKeys["samples"] = Plain("firstText")
      /\ RCSAWithBWTRunKeys["marks"] = Plain("lastText")
      /\ RCSAWithBWTRunKeys["markToSample"] = Plain("lastToFirst")
      /\ DOMAIN RCSAWithBWTRunKeys = BaseRoles
  BY DEF RCSAWithBWTRunKeys, BaseRoles
<1>3. /\ RCSAWithPsiRunKeys["alphabet"] = Plain("alphabet")
      /\ RCSAWithPsiRunKeys["navigate"] = Plain("psi")
      /\ RCSAWithPsiRunKeys["samples"] = Plain("psiFirstText")
      /\ RCSAWithPsiRunKeys["marks"] = Plain("psiLastText")
      /\ RCSAWithPsiRunKeys["markToSample"] = Plain("psiLink")
      /\ DOMAIN RCSAWithPsiRunKeys = BaseRoles
  BY DEF RCSAWithPsiRunKeys, BaseRoles
<1>4. /\ RoleOf("sr-index", "alphabet") = "alphabet" /\ RoleOf("sr-csa", "alphabet") = "alphabet"
      /\ RoleOf("sr-index", "bwtRle") = "navigate" /\ RoleOf("sr-csa", "psi") = "navigate"
      /\ RoleOf("sr-index", "lastText") = "samples" /\ RoleOf("sr-csa", "lastText") = "marks"
      /\ RoleOf("sr-index", "firstText") = "marks" /\ RoleOf("sr-csa", "firstText") = "samples"
      /\ RoleOf("sr-index", "firstToLast") = "markToSample"
      /\ RoleOf("sr-csa", "lastToFirst") = "markToSample"
      /\ RoleOf("sr-csa", "psiFirstText") = "samples" /\ RoleOf("sr-csa", "psiLastText") = "marks"
      /\ RoleOf("sr-csa", "psiLink") = "markToSample"
  BY DEF RoleOf
<1>5. Named(RIndexKeys, BaseRoles, "sr-index") /\ Unprefixed(RIndexKeys, BaseRoles)
  BY <1>1, <1>4, KeyNames DEF Named, Unprefixed, BaseRoles
<1>6. Named(RCSAWithBWTRunKeys, BaseRoles, "sr-csa") /\ Unprefixed(RCSAWithBWTRunKeys, BaseRoles)
  BY <1>2, <1>4, KeyNames DEF Named, Unprefixed, BaseRoles
<1>7. Named(RCSAWithPsiRunKeys, BaseRoles, "sr-csa") /\ Unprefixed(RCSAWithPsiRunKeys, BaseRoles)
  BY <1>3, <1>4, KeyNames DEF Named, Unprefixed, BaseRoles
<1>8. QED
  BY <1>5, <1>6, <1>7

SubsampleRoles == {"samples", "marks", "markToSample", "samplesIdx"}
ValidityRoles == {"validMarks", "validMarksRank", "validAreas"}

\* The keys that the sub-sampled classes add to those of their base class.
LEMMA SampledKeys ==
  /\ Named(SrIndexKeys, BaseRoles \cup SubsampleRoles, "sr-index")
  /\ Named(SrCSAKeys, BaseRoles \cup SubsampleRoles, "sr-csa")
  /\ Named(SrCSASlimKeys, (BaseRoles \cup SubsampleRoles) \cup {"cumulative"}, "sr-csa")
  /\ Named(SrCSAWithPsiRunKeys, (BaseRoles \cup SubsampleRoles) \cup {"cumulative"}, "sr-csa")
<1>1. ASSUME NEW a, NEW b, NEW c, NEW d, NEW family,
             RoleOf(family, a) = "samples", RoleOf(family, b) = "marks",
             RoleOf(family, c) = "markToSample", RoleOf(family, d) = "samplesIdx"
      PROVE  Named([samples |-> AtRate(a), marks |-> AtRate(b),
                    markToSample |-> AtRate(c), samplesIdx |-> AtRate(d)],
                   SubsampleRoles, family)
  BY <1>1, KeyNames DEF Named, SubsampleRoles
<1>2. ASSUME NEW a, NEW b, NEW c, NEW d, NEW e, NEW family,
             RoleOf(family, a) = "samples", RoleOf(family, b) = "marks",
             RoleOf(family, c) = "markToSample", RoleOf(family, d) = "samplesIdx",
             RoleOf(family, e) = "cumulative"
      PROVE  Named([samples |-> AtRate(a), marks |-> AtRate(b),
                    markToSample |-> AtRate(c), samplesIdx |-> AtRate(d),
                    cumulative |-> Plain(e)],
                   SubsampleRoles \cup {"cumulative"}, family)
  BY <1>2, KeyNames DEF Named, SubsampleRoles
<1>3. /\ RoleOf("sr-index", "lastText") = "samples" /\ RoleOf("sr-index", "firstByLast") = "marks"
      /\ RoleOf("sr-index", "firstToLast") = "markToSample"
      /\ RoleOf("sr-index", "lastIdx") = "samplesIdx"
  BY DEF RoleOf
<1>4. /\ RoleOf("sr-csa", "firstText") = "samples" /\ RoleOf("sr-csa", "lastByFirst") = "marks"
      /\ RoleOf("sr-csa", "lastToFirst") = "markToSample"
      /\ RoleOf("sr-csa", "firstIdx") = "samplesIdx" /\ RoleOf("sr-csa", "first") = "samplesIdx"
      /\ RoleOf("sr-csa", "firstTextAlpha") = "samples"
      /\ RoleOf("sr-csa", "lastToFirstAlpha") = "markToSample"
      /\ RoleOf("sr-csa", "firstIdxAlpha") = "samplesIdx"
      /\ RoleOf("sr-csa", "bwtCumulative") = "cumulative"
      /\ RoleOf("sr-csa", "psiFirstText") = "samples" /\ RoleOf("sr-csa", "psiLastText") = "marks"
      /\ RoleOf("sr-csa", "psiLink") = "markToSample"
      /\ RoleOf("sr-csa", "psiFirstIdx") = "samplesIdx"
      /\ RoleOf("sr-csa", "psiCumulative") = "cumulative"
  BY DEF RoleOf
<1>5. Named(SrIndexKeys, BaseRoles \cup SubsampleRoles, "sr-index")
  BY <1>1, <1>3, PlainKeys, OverrideNamed DEF SrIndexKeys, SubsampleRoles
<1>6. Named(SrCSABaseKeys, BaseRoles \cup SubsampleRoles, "sr-csa")
  BY <1>1, <1>4, PlainKeys, OverrideNamed DEF SrCSABaseKeys, SubsampleRoles
<1>7. Named(SrCSAKeys, BaseRoles \cup SubsampleRoles, "sr-csa")
  <2>1. Named([samplesIdx |-> AtRate("first")], {"samplesIdx"}, "sr-csa")
    BY <1>4, KeyNames DEF Named
  <2>2. Named(SrCSAKeys, (BaseRoles \cup SubsampleRoles) \cup {"samplesIdx"}, "sr-csa")
    BY <1>6, <2>1, OverrideNamed DEF SrCSAKeys
  <2>3. QED
    BY <2>2 DEF Named
<1>8. Named(SrCSASlimKeys, (BaseRoles \cup SubsampleRoles) \cup {"cumulative"}, "sr-csa")
  <2>1. Named(SrCSASlimKeys,
              (BaseRoles \cup SubsampleRoles) \cup (SubsampleRoles \cup {"cumulative"}), "sr-csa")
    BY <1>2, <1>4, <1>6, OverrideNamed DEF SrCSASlimKeys, SubsampleRoles
  <2>2. QED
    BY <2>1 DEF Named
<1>9. Named(SrCSAWithPsiRunKeys, (BaseRoles \cup SubsampleRoles) \cup {"cumulative"}, "sr-csa")
  <2>1. Named(SrCSAWithPsiRunKeys,
              BaseRoles \cup (SubsampleRoles \cup {"cumulative"}), "sr-csa")
    BY <1>2, <1>4, PlainKeys, OverrideNamed DEF SrCSAWithPsiRunKeys, SubsampleRoles
  <2>2. QED
    BY <2>1 DEF Named
<1>10. QED
  BY <1>5, <1>7, <1>8, <1>9

-----------------------------------------------------------------------------
(* Orders: what is read is what was written, and no role comes twice. *)

\* s reads each of these roles once, and a rank after its vector.
Order(s, roles) ==
  /\ s \in Seq(roles) /\ Len(s) > 0
  /\ \A role \in roles : \E i \in 1..Len(s) : s[i] = role
  /\ \A i, j \in 1..Len(s) : s[i] = s[j] => i = j
  /\ \A i \in 1..Len(s) :
       KeyRole(s[i]) = s[i] \/ \E j \in 1..Len(s) : j < i /\ s[j] = KeyRole(s[i])

\* w writes what s reads, after a rate if skip is 1.
Writes(w, s, skip) ==
  /\ \E U : w \in Seq(U)
  /\ Len(w) = Len(s) + skip
  /\ \A i \in 1..Len(s) : w[i + skip] = s[i]
  /\ skip = 1 => w[1] = "rate"

\* One more role, read and written last.
LEMMA OneMore ==
  ASSUME NEW s, NEW w, NEW roles, NEW skip \in {0, 1}, NEW role,
         Order(s, roles), Writes(w, s, skip), role \notin roles,
         KeyRole(role) = role \/ KeyRole(role) \in roles
  PROVE  Order(s \o <<role>>, roles \cup {role}) /\ Writes(w \o <<role>>, s \o <<role>>, skip)
<1> DEFINE t == s \o <<role>>
           x == w \o <<role>>
<1>1. s \in Seq(roles) /\ <<role>> \in Seq({role}) /\ Len(s) \in Nat
  BY DEF Order
<1>2. t \in Seq(roles \cup {role})
  <2>1. s \in Seq(roles \cup {role}) /\ <<role>> \in Seq(roles \cup {role})
    BY <1>1
  <2>2. QED
    BY <2>1
<1>3. Len(t) = Len(s) + 1 /\ t[Len(s) + 1] = role /\ \A i \in 1..Len(s) : t[i] = s[i]
  BY <1>1
<1>4. \A r \in roles \cup {role} : \E i \in 1..Len(t) : t[i] = r
  BY <1>1, <1>3 DEF Order
<1>5. \A i \in 1..Len(s) : s[i] \in roles
  BY <1>1
<1>6. ASSUME NEW i \in 1..Len(t), NEW j \in 1..Len(t), t[i] = t[j]
      PROVE  i = j
  <2>1. (i \in 1..Len(s) \/ i = Len(s) + 1) /\ (j \in 1..Len(s) \/ j = Len(s) + 1)
    BY <1>1, <1>3
  <2>2. QED
    BY <1>3, <1>5, <1>6, <2>1 DEF Order
<1>60. ASSUME NEW i \in 1..Len(t), KeyRole(t[i]) # t[i]
       PROVE  \E j \in 1..Len(t) : j < i /\ t[j] = KeyRole(t[i])
  <2>1. CASE i \in 1..Len(s)
    <3>1. t[i] = s[i]
      BY <1>3, <2>1
    <3>2. PICK j \in 1..Len(s) : j < i /\ s[j] = KeyRole(s[i])
      BY <1>60, <2>1, <3>1 DEF Order
    <3>3. j \in 1..Len(t) /\ t[j] = s[j]
      BY <1>1, <1>3
    <3>4. QED
      BY <3>1, <3>2, <3>3
  <2>2. CASE i = Len(s) + 1
    <3>1. t[i] = role /\ KeyRole(role) \in roles
      BY <1>3, <1>60, <2>2
    <3>2. PICK j \in 1..Len(s) : s[j] = KeyRole(role)
      BY <3>1 DEF Order
    <3>3. j \in 1..Len(t) /\ t[j] = s[j] /\ j < i
      BY <1>1, <1>3, <2>2
    <3>4. QED
      BY <3>1, <3>2, <3>3
  <2>3. i \in 1..Len(s) \/ i = Len(s) + 1
    BY <1>1, <1>3
  <2>4. QED
    BY <2>1, <2>2, <2>3
<1>7. PICK U : w \in Seq(U)
  BY DEF Writes
<1>8. Len(w) \in Nat /\ Len(w) = Len(s) + skip
  BY <1>7 DEF Writes
<1>9. Len(x) = Len(w) + 1 /\ x[Len(w) + 1] = role /\ \A i \in 1..Len(w) : x[i] = w[i]
  BY <1>7
<1>10. x \in Seq(U \cup {role})
  <2>1. w \in Seq(U \cup {role}) /\ <<role>> \in Seq(U \cup {role})
    BY <1>7
  <2>2. QED
    BY <2>1
<1>11. ASSUME NEW i \in 1..Len(t)
       PROVE  x[i + skip] = t[i]
  <2>1. CASE i \in 1..Len(s)
    <3>1. i + skip \in 1..Len(w) /\ w[i + skip] = s[i]
      BY <1>1, <1>8, <2>1 DEF Writes
    <3>2. QED
      BY <1>3, <1>9, <2>1, <3>1
  <2>2. CASE i = Len(s) + 1
    <3>1. i + skip = Len(w) + 1
      BY <1>1, <1>8, <2>2
    <3>2. x[i + skip] = role /\ t[i] = role
      <4> HIDE DEF t, x
      <4>1. QED
        BY <1>3, <1>9, <2>2, <3>1
    <3>3. QED
      BY <3>2
  <2>3. i \in 1..Len(s) \/ i = Len(s) + 1
    BY <1>1, <1>3
  <2>4. QED
    BY <2>1, <2>2, <2>3
<1>12. skip = 1 => x[1] = "rate"
  BY <1>1, <1>8, <1>9 DEF Writes
<1>13. Order(t, roles \cup {role})
  <2> HIDE DEF t
  <2>1. QED
    BY <1>1, <1>2, <1>3, <1>4, <1>6, <1>60 DEF Order
<1>14. Writes(x, t, skip)
  <2> HIDE DEF t, x
  <2>1. QED
    BY <1>3, <1>8, <1>9, <1>10, <1>11, <1>12, <1>1 DEF Writes
<1>15. QED
  BY <1>13, <1>14

\* The plain classes, one item after the other.
LEMMA PlainOrders ==
  /\ Order(RIndexItems, BaseRoles) /\ RIndexWrites = RIndexItems
  /\ Order(RCSAWithBWTRunItems, BaseRoles) /\ RCSAWithBWTRunWrites = RCSAWithBWTRunItems
  /\ Order(RCSAWithPsiRunItems, BaseRoles) /\ RCSAWithPsiRunWrites = RCSAWithPsiRunItems
  /\ Order(CSARawItems, {"alphabet", "navigate", "sa"}) /\ CSARawWrites = CSARawItems
<1>1. Order(<<"alphabet", "navigate", "samples", "marks", "markToSample">>, BaseRoles)
  BY DEF Order, BaseRoles, KeyRole
<1>2. Order(<<"alphabet", "navigate", "sa">>, {"alphabet", "navigate", "sa"})
  BY DEF Order, KeyRole
<1>3. QED
  BY <1>1, <1>2
     DEF RIndexItems, RIndexWrites, RCSAWithBWTRunItems, RCSAWithBWTRunWrites,
         RCSAWithPsiRunItems, RCSAWithPsiRunWrites, CSARawItems, CSARawWrites

\* A sequence writes itself; with the rate before it, the rate is skipped.
LEMMA RateFirst ==
  ASSUME NEW s, NEW roles, Order(s, roles)
  PROVE  Writes(s, s, 0) /\ Writes(<<"rate">> \o s, s, 1)
<1>1. s \in Seq(roles) /\ Len(s) \in Nat
  BY DEF Order
<1>2. Writes(s, s, 0)
  BY <1>1 DEF Writes
<1>3. <<"rate">> \o s \in Seq({"rate"} \cup roles)
  <2>1. s \in Seq({"rate"} \cup roles) /\ <<"rate">> \in Seq({"rate"} \cup roles)
    BY <1>1
  <2>2. QED
    BY <2>1
<1>4. /\ Len(<<"rate">> \o s) = Len(s) + 1 /\ (<<"rate">> \o s)[1] = "rate"
      /\ \A i \in 1..Len(s) : (<<"rate">> \o s)[i + 1] = s[i]
  BY <1>1
<1>5. Writes(<<"rate">> \o s, s, 1)
  BY <1>3, <1>4 DEF Writes
<1>6. QED
  BY <1>2, <1>5

-----------------------------------------------------------------------------
(* Classes. *)

\* The names are those of the roles that have a key.
Fits(keys, s, w, roles, skip, family) ==
  Named(keys, roles \ {"validMarksRank"}, family) /\ Order(s, roles) /\ Writes(w, s, skip)

\* A class all of whose roles have keys.
LEMMA NamedFits ==
  ASSUME NEW keys, NEW s, NEW w, NEW roles, NEW skip, NEW family,
         Named(keys, roles, family), Order(s, roles), Writes(w, s, skip)
  PROVE  Fits(keys, s, w, roles, skip, family)
BY DEF Fits, Named

\* A class adds the validity marks, or the areas, to its base class.
LEMMA AddsItem ==
  ASSUME NEW keys, NEW s, NEW w, NEW roles, NEW skip \in {0, 1}, NEW family, NEW role \in {"validMarks", "validAreas"}, NEW over,
         Fits(keys, s, w, roles, skip, family), role \notin roles,
         DOMAIN over = {role}, RoleOf(family, over[role].name) = role
  PROVE  Fits(Override(keys, over), s \o <<role>>, w \o <<role>>, roles \cup {role}, skip, family)
<1>1. Named(over, {role}, family)
  BY DEF Named
<1>2. Named(Override(keys, over), (roles \ {"validMarksRank"}) \cup {role}, family)
  BY <1>1, OverrideNamed DEF Fits
<1>3. (roles \ {"validMarksRank"}) \cup {role} = (roles \cup {role}) \ {"validMarksRank"}
  OBVIOUS
<1>4. KeyRole(role) = role
  BY DEF KeyRole
<1>5. Order(s \o <<role>>, roles \cup {role}) /\ Writes(w \o <<role>>, s \o <<role>>, skip)
  BY <1>4, OneMore DEF Fits
<1>6. QED
  BY <1>2, <1>3, <1>5 DEF Fits

\* A class adds the rank of its validity marks, which has no key of its own.
LEMMA AddsRank ==
  ASSUME NEW keys, NEW s, NEW w, NEW roles, NEW skip \in {0, 1}, NEW family,
         Fits(keys, s, w, roles, skip, family),
         "validMarks" \in roles, "validMarksRank" \notin roles
  PROVE  Fits(keys, s \o <<"validMarksRank">>, w \o <<"validMarksRank">>,
              roles \cup {"validMarksRank"}, skip, family)
<1>1. KeyRole("validMarksRank") \in roles
  BY DEF KeyRole
<1>2. /\ Order(s \o <<"validMarksRank">>, roles \cup {"validMarksRank"})
      /\ Writes(w \o <<"validMarksRank">>, s \o <<"validMarksRank">>, skip)
  BY <1>1, OneMore DEF Fits
<1>3. (roles \cup {"validMarksRank"}) \ {"validMarksRank"} = roles \ {"validMarksRank"}
  OBVIOUS
<1>4. QED
  BY <1>2, <1>3 DEF Fits

\* Two items written last are one after the other.
LEMMA PairLast ==
  ASSUME NEW T, NEW t \in Seq(T), NEW a, NEW b
  PROVE  (t \o <<a>>) \o <<b>> = t \o <<a, b>>
<1> DEFINE S == T \cup {a, b}
           s == (t \o <<a>>) \o <<b>>
           u == t \o <<a, b>>
<1>1. t \in Seq(S) /\ <<a>> \in Seq(S) /\ <<b>> \in Seq(S) /\ <<a, b>> \in Seq(S)
  OBVIOUS
<1>2. t \o <<a>> \in Seq(S) /\ u \in Seq(S)
  BY <1>1, ConcatProperties
<1>3. s \in Seq(S)
  BY <1>1, <1>2, ConcatProperties
<1>4. Len(s) = Len(t) + 2 /\ Len(u) = Len(t) + 2 /\ Len(t) \in Nat
  BY <1>1
<1>5. ASSUME NEW i \in 1..Len(s)
      PROVE  s[i] = u[i]
  BY <1>1, <1>4
<1>6. s = u
  <2> HIDE DEF s, u, S
  <2>1. QED
    BY <1>2, <1>3, <1>4, <1>5, SeqEqual
<1>7. QED
  BY <1>6

\* The classes without validity.
LEMMA BaseClasses ==
  /\ Fits(SrIndexKeys, SrIndexItems, SrIndexWrites, BaseRoles \cup SubsampleRoles, 1, "sr-index")
  /\ Fits(SrCSAKeys, SrCSAItems, SrCSAWrites, BaseRoles \cup SubsampleRoles, 1, "sr-csa")
  /\ Fits(SrCSASlimKeys, SrCSASlimItems, SrCSASlimWrites,
          (BaseRoles \cup SubsampleRoles) \cup {"cumulative"}, 1, "sr-csa")
  /\ Fits(SrCSAWithPsiRunKeys, SrCSAWithPsiRunItems, SrCSAWithPsiRunWrites,
          (BaseRoles \cup SubsampleRoles) \cup {"cumulative"}, 0, "sr-csa")
<1>1. "samplesIdx" \notin BaseRoles /\ "cumulative" \notin BaseRoles \cup {"samplesIdx"}
  BY DEF BaseRoles
<1>2. BaseRoles \cup {"samplesIdx"} = BaseRoles \cup SubsampleRoles
  BY DEF BaseRoles, SubsampleRoles
<1>3. ASSUME NEW s, NEW w, NEW skip \in {0, 1}, Order(s, BaseRoles), Writes(w, s, skip)
      PROVE  /\ Order(s \o <<"samplesIdx">>, BaseRoles \cup SubsampleRoles)
             /\ Writes(w \o <<"samplesIdx">>, s \o <<"samplesIdx">>, skip)
  BY <1>1, <1>2, <1>3, OneMore DEF KeyRole
<1>4. Order(SrIndexItems, BaseRoles \cup SubsampleRoles) /\ Writes(SrIndexWrites, SrIndexItems, 1)
  BY <1>3, PlainOrders, RateFirst DEF SrIndexItems, SrIndexWrites
<1>5. Order(SrCSAItems, BaseRoles \cup SubsampleRoles) /\ Writes(SrCSAWrites, SrCSAItems, 1)
  BY <1>3, PlainOrders, RateFirst DEF SrCSAItems, SrCSAWrites, SrCSABaseWrites
<1>6. ASSUME NEW s, NEW w, NEW skip \in {0, 1}, Order(s, BaseRoles), Writes(w, s, skip)
      PROVE  /\ Order(s \o <<"samplesIdx", "cumulative">>,
                      (BaseRoles \cup SubsampleRoles) \cup {"cumulative"})
             /\ Writes(w \o <<"samplesIdx", "cumulative">>, s \o <<"samplesIdx", "cumulative">>, skip)
  <2>1. /\ Order((s \o <<"samplesIdx">>) \o <<"cumulative">>,
                 (BaseRoles \cup SubsampleRoles) \cup {"cumulative"})
        /\ Writes((w \o <<"samplesIdx">>) \o <<"cumulative">>,
                  (s \o <<"samplesIdx">>) \o <<"cumulative">>, skip)
    BY <1>1, <1>2, <1>3, <1>6, OneMore DEF KeyRole
  <2>2. s \in Seq(BaseRoles) /\ \E U : w \in Seq(U)
    BY <1>6 DEF Order, Writes
  <2>3. QED
    BY <2>1, <2>2, PairLast
<1>7. /\ Order(SrCSASlimItems, (BaseRoles \cup SubsampleRoles) \cup {"cumulative"})
      /\ Writes(SrCSASlimWrites, SrCSASlimItems, 1)
  <2>1. Order(RCSAWithBWTRunItems, BaseRoles) /\ Writes(SrCSABaseWrites, RCSAWithBWTRunItems, 1)
    BY PlainOrders, RateFirst DEF SrCSABaseWrites
  <2>2. QED
    BY <1>6, <2>1 DEF SrCSASlimItems, SrCSASlimWrites
<1>8. /\ Order(SrCSAWithPsiRunItems, (BaseRoles \cup SubsampleRoles) \cup {"cumulative"})
      /\ Writes(SrCSAWithPsiRunWrites, SrCSAWithPsiRunItems, 0)
  <2>1. Order(RCSAWithPsiRunItems, BaseRoles) /\ Writes(RCSAWithPsiRunWrites, RCSAWithPsiRunItems, 0)
    BY PlainOrders, RateFirst
  <2>2. QED
    BY <1>6, <2>1 DEF SrCSAWithPsiRunItems, SrCSAWithPsiRunWrites
<1>9. QED
  BY <1>4, <1>5, <1>7, <1>8, SampledKeys, NamedFits

Classes ==
  [layout : {"bwt", "position", "alphabet", "psi"}, kind : {"r", "sr", "vm", "va"}]
  \cup [layout : {"position"}, kind : {"raw"}]

\* What a class reads, what it writes and the names of both fit together.
ClassFits(v) ==
  \E roles :
    /\ Fits(Keys(v), LoadOrder(v), WriteOrder(v), roles, IF ReadsRate(v) THEN 1 ELSE 0, Family(v))
    /\ ~Sampled(v) => Unprefixed(Keys(v), roles)

\* The classes with validity marks, and those with their rank and areas, add to a
\* class that fits.
LEMMA ValidityFits ==
  ASSUME NEW keys, NEW s, NEW w, NEW roles, NEW skip \in {0, 1}, NEW family, NEW mark, NEW area,
         Fits(keys, s, w, roles, skip, family),
         roles \cap ValidityRoles = {},
         RoleOf(family, mark) = "validMarks", RoleOf(family, area) = "validAreas"
  PROVE  LET marked == Override(keys, [validMarks |-> AtRate(mark)])
         IN /\ Fits(marked, s \o <<"validMarks">>, w \o <<"validMarks">>,
                    roles \cup {"validMarks"}, skip, family)
            /\ Fits(Override(marked, [validAreas |-> AtRate(area)]),
                    (s \o <<"validMarks">>) \o <<"validMarksRank", "validAreas">>,
                    (w \o <<"validMarks">>) \o <<"validMarksRank", "validAreas">>,
                    roles \cup ValidityRoles, skip, family)
<1> DEFINE first == [validMarks |-> AtRate(mark)]
           marked == Override(keys, first)
           over == [validAreas |-> AtRate(area)]
           t == s \o <<"validMarks">>
           x == w \o <<"validMarks">>
           t2 == t \o <<"validMarksRank">>
           x2 == x \o <<"validMarksRank">>
           more == roles \cup {"validMarks"}
           most == more \cup {"validMarksRank"}
<1>1. /\ DOMAIN first = {"validMarks"} /\ first["validMarks"].name = mark
      /\ DOMAIN over = {"validAreas"} /\ over["validAreas"].name = area
  BY KeyNames
<1>2. Fits(marked, t, x, more, skip, family)
  <2>1. RoleOf(family, first["validMarks"].name) = "validMarks" /\ DOMAIN first = {"validMarks"}
    BY <1>1
  <2>2. "validMarks" \notin roles
    BY DEF ValidityRoles
  <2> HIDE DEF first
  <2>3. QED
    BY <2>1, <2>2, AddsItem
<1>3. /\ "validMarks" \in more /\ "validMarksRank" \notin more /\ "validAreas" \notin most
      /\ most \cup {"validAreas"} = roles \cup ValidityRoles
  BY DEF ValidityRoles
<1>4. RoleOf(family, over["validAreas"].name) = "validAreas" /\ DOMAIN over = {"validAreas"}
  BY <1>1
<1> HIDE DEF first, marked, over, t, x, more, most
<1>5. Fits(marked, t2, x2, most, skip, family)
  BY <1>2, <1>3, AddsRank DEF most
<1>6. Fits(Override(marked, over), t2 \o <<"validAreas">>, x2 \o <<"validAreas">>,
           most \cup {"validAreas"}, skip, family)
  <2> HIDE DEF t2, x2
  <2>1. "validAreas" \notin most
    BY <1>3
  <2>2. QED
    BY <1>4, <1>5, <2>1, AddsItem
<1>7. /\ t2 \o <<"validAreas">> = t \o <<"validMarksRank", "validAreas">>
      /\ x2 \o <<"validAreas">> = x \o <<"validMarksRank", "validAreas">>
  <2>1. t \in Seq(more) /\ \E U : x \in Seq(U)
    BY <1>2 DEF Fits, Order, Writes
  <2>2. QED
    BY <2>1, PairLast
<1>8. Fits(Override(marked, over), t \o <<"validMarksRank", "validAreas">>,
           x \o <<"validMarksRank", "validAreas">>, roles \cup ValidityRoles, skip, family)
  BY <1>3, <1>6, <1>7
<1>9. QED
  BY <1>2, <1>8 DEF first, marked, over, t, x, more

\* The names of the validity items.
LEMMA ValidityNames ==
  /\ RoleOf("sr-index", "firstValidMark") = "validMarks"
  /\ RoleOf("sr-index", "firstValidArea") = "validAreas"
  /\ RoleOf("sr-csa", "lastValidMark") = "validMarks"
  /\ RoleOf("sr-csa", "lastValidArea") = "validAreas"
  /\ RoleOf("sr-csa", "psiValidMark") = "validMarks"
  /\ RoleOf("sr-csa", "psiValidArea") = "validAreas"
BY DEF RoleOf

\* Every class fits.
LEMMA AllFit ==
  ASSUME NEW v \in Classes
  PROVE  ClassFits(v)
<1>1. /\ v.layout \in {"bwt", "position", "alphabet", "psi"}
      /\ v.kind \in {"raw", "r", "sr", "vm", "va"}
      /\ v.kind = "raw" => v.layout = "position"
  BY DEF Classes
<1> DEFINE skip == IF ReadsRate(v) THEN 1 ELSE 0
           small == BaseRoles \cup SubsampleRoles
           large == small \cup {"cumulative"}
<1>2. small \cap ValidityRoles = {} /\ large \cap ValidityRoles = {}
  BY DEF BaseRoles, SubsampleRoles, ValidityRoles
<1>3. CASE v.kind = "raw"
  <2>1. Keys(v) = CSARawKeys /\ LoadOrder(v) = CSARawItems /\ WriteOrder(v) = CSARawWrites
    BY <1>1, <1>3 DEF Keys, LoadOrder, WriteOrder
  <2>2. skip = 0 /\ ~Sampled(v)
    BY <1>3 DEF ReadsRate, Sampled
  <2>3. /\ \A f : RoleOf(f, "sa") = "sa" /\ RoleOf(f, "alphabet") = "alphabet"
        /\ \A f : RoleOf(f, "psi") = "navigate"
    BY DEF RoleOf
  <2>4. /\ CSARawKeys["sa"] = Plain("sa") /\ CSARawKeys["alphabet"] = Plain("alphabet")
        /\ CSARawKeys["navigate"] = Plain("psi")
        /\ {"alphabet", "navigate", "sa"} \subseteq DOMAIN CSARawKeys
    BY DEF CSARawKeys, Override, RCSAWithBWTRunKeys
  <2>5. /\ Named(CSARawKeys, {"alphabet", "navigate", "sa"}, Family(v))
        /\ Unprefixed(CSARawKeys, {"alphabet", "navigate", "sa"})
    BY <2>3, <2>4, KeyNames DEF Named, Unprefixed
  <2>6. QED
    BY <2>1, <2>2, <2>5, PlainOrders, RateFirst, NamedFits DEF ClassFits
<1>4. CASE v.kind = "r"
  <2>1. skip = 0 /\ ~Sampled(v)
    BY <1>4 DEF ReadsRate, Sampled
  <2>2. CASE v.layout = "bwt"
    <3>1. /\ Keys(v) = RIndexKeys /\ LoadOrder(v) = RIndexItems /\ WriteOrder(v) = RIndexWrites
          /\ Family(v) = "sr-index"
      BY <1>4, <2>2 DEF Keys, LoadOrder, WriteOrder, ByKind, Family
    <3>2. QED
      BY <2>1, <3>1, PlainKeys, PlainOrders, RateFirst, NamedFits DEF ClassFits
  <2>3. CASE v.layout \in {"position", "alphabet"}
    <3>1. /\ Keys(v) = RCSAWithBWTRunKeys /\ LoadOrder(v) = RCSAWithBWTRunItems
          /\ WriteOrder(v) = RCSAWithBWTRunWrites /\ Family(v) = "sr-csa"
      BY <1>4, <2>3 DEF Keys, LoadOrder, WriteOrder, ByKind, Family
    <3>2. QED
      BY <2>1, <3>1, PlainKeys, PlainOrders, RateFirst, NamedFits DEF ClassFits
  <2>4. CASE v.layout = "psi"
    <3>1. /\ Keys(v) = RCSAWithPsiRunKeys /\ LoadOrder(v) = RCSAWithPsiRunItems
          /\ WriteOrder(v) = RCSAWithPsiRunWrites /\ Family(v) = "sr-csa"
      BY <1>4, <2>4 DEF Keys, LoadOrder, WriteOrder, ByKind, Family
    <3>2. QED
      BY <2>1, <3>1, PlainKeys, PlainOrders, RateFirst, NamedFits DEF ClassFits
  <2>5. QED
    BY <1>1, <2>2, <2>3, <2>4
<1>5. CASE v.kind \in {"sr", "vm", "va"}
  <2>1. Sampled(v) /\ v.kind # "raw" /\ v.kind # "r"
    BY <1>5 DEF Sampled
  <2>2. CASE v.layout = "bwt"
    <3>1. /\ Keys(v) = ByKind(v, RIndexKeys, SrIndexKeys, SrIndexValidMarkKeys, SrIndexValidAreaKeys)
          /\ LoadOrder(v) = ByKind(v, RIndexItems, SrIndexItems,
                                   SrIndexValidMarkItems, SrIndexValidAreaItems)
          /\ WriteOrder(v) = ByKind(v, RIndexWrites, SrIndexWrites,
                                    SrIndexValidMarkWrites, SrIndexValidAreaWrites)
          /\ Family(v) = "sr-index" /\ skip = 1
      BY <2>1, <2>2 DEF Keys, LoadOrder, WriteOrder, Family, ReadsRate
    <3>2. /\ Fits(SrIndexValidMarkKeys, SrIndexValidMarkItems, SrIndexValidMarkWrites,
                  small \cup {"validMarks"}, 1, "sr-index")
          /\ Fits(SrIndexValidAreaKeys, SrIndexValidAreaItems, SrIndexValidAreaWrites,
                  small \cup ValidityRoles, 1, "sr-index")
      BY <1>2, BaseClasses, ValidityFits, ValidityNames
         DEF SrIndexValidMarkKeys, SrIndexValidMarkItems, SrIndexValidMarkWrites,
             SrIndexValidAreaKeys, SrIndexValidAreaItems, SrIndexValidAreaWrites
    <3>3. QED
      BY <1>5, <2>1, <3>1, <3>2, BaseClasses DEF ClassFits, ByKind
  <2>3. CASE v.layout = "position"
    <3>1. /\ Keys(v) = ByKind(v, RCSAWithBWTRunKeys, SrCSAKeys,
                              SrCSAValidMarkKeys(SrCSAKeys), SrCSAValidAreaKeys(SrCSAKeys))
          /\ LoadOrder(v) = ByKind(v, RCSAWithBWTRunItems, SrCSAItems,
                              SrCSAValidMarkItems(SrCSAItems), SrCSAValidAreaItems(SrCSAItems))
          /\ WriteOrder(v) = ByKind(v, RCSAWithBWTRunWrites, SrCSAWrites,
                              SrCSAValidMarkWrites(SrCSAWrites), SrCSAValidAreaWrites(SrCSAWrites))
          /\ Family(v) = "sr-csa" /\ skip = 1
      BY <2>1, <2>3 DEF Keys, LoadOrder, WriteOrder, Family, ReadsRate
    <3>2. /\ Fits(SrCSAValidMarkKeys(SrCSAKeys), SrCSAValidMarkItems(SrCSAItems),
                  SrCSAValidMarkWrites(SrCSAWrites), small \cup {"validMarks"}, 1, "sr-csa")
          /\ Fits(SrCSAValidAreaKeys(SrCSAKeys), SrCSAValidAreaItems(SrCSAItems),
                  SrCSAValidAreaWrites(SrCSAWrites),
                  small \cup ValidityRoles, 1, "sr-csa")
      BY <1>2, BaseClasses, ValidityFits, ValidityNames
         DEF SrCSAValidMarkKeys, SrCSAValidMarkItems, SrCSAValidMarkWrites,
             SrCSAValidAreaKeys, SrCSAValidAreaItems, SrCSAValidAreaWrites
    <3>3. QED
      BY <1>5, <2>1, <3>1, <3>2, BaseClasses DEF ClassFits, ByKind
  <2>4. CASE v.layout = "alphabet"
    <3>1. /\ Keys(v) = ByKind(v, RCSAWithBWTRunKeys, SrCSASlimKeys,
                              SrCSAValidMarkKeys(SrCSASlimKeys), SrCSAValidAreaKeys(SrCSASlimKeys))
          /\ LoadOrder(v) = ByKind(v, RCSAWithBWTRunItems, SrCSASlimItems,
                              SrCSAValidMarkItems(SrCSASlimItems),
                              SrCSAValidAreaItems(SrCSASlimItems))
          /\ WriteOrder(v) = ByKind(v, RCSAWithBWTRunWrites, SrCSASlimWrites,
                              SrCSAValidMarkWrites(SrCSASlimWrites),
                              SrCSAValidAreaWrites(SrCSASlimWrites))
          /\ Family(v) = "sr-csa" /\ skip = 1
      BY <2>1, <2>4 DEF Keys, LoadOrder, WriteOrder, Family, ReadsRate
    <3>2. /\ Fits(SrCSAValidMarkKeys(SrCSASlimKeys), SrCSAValidMarkItems(SrCSASlimItems),
                  SrCSAValidMarkWrites(SrCSASlimWrites), large \cup {"validMarks"}, 1, "sr-csa")
          /\ Fits(SrCSAValidAreaKeys(SrCSASlimKeys), SrCSAValidAreaItems(SrCSASlimItems),
                  SrCSAValidAreaWrites(SrCSASlimWrites),
                  large \cup ValidityRoles, 1, "sr-csa")
      BY <1>2, BaseClasses, ValidityFits, ValidityNames
         DEF SrCSAValidMarkKeys, SrCSAValidMarkItems, SrCSAValidMarkWrites,
             SrCSAValidAreaKeys, SrCSAValidAreaItems, SrCSAValidAreaWrites
    <3>3. QED
      BY <1>5, <2>1, <3>1, <3>2, BaseClasses DEF ClassFits, ByKind
  <2>5. CASE v.layout = "psi"
    <3>1. /\ Keys(v) = ByKind(v, RCSAWithPsiRunKeys, SrCSAWithPsiRunKeys,
                              SRCSAValidMarkKeys, SRCSAValidAreaKeys)
          /\ LoadOrder(v) = ByKind(v, RCSAWithPsiRunItems, SrCSAWithPsiRunItems,
                                   SRCSAValidMarkItems, SRCSAValidAreaItems)
          /\ WriteOrder(v) = ByKind(v, RCSAWithPsiRunWrites, SrCSAWithPsiRunWrites,
                                    SRCSAValidMarkWrites, SRCSAValidAreaWrites)
          /\ Family(v) = "sr-csa" /\ skip = 0
      BY <2>1, <2>5 DEF Keys, LoadOrder, WriteOrder, Family, ReadsRate
    <3>2. /\ Fits(SRCSAValidMarkKeys, SRCSAValidMarkItems, SRCSAValidMarkWrites,
                  large \cup {"validMarks"}, 0, "sr-csa")
          /\ Fits(SRCSAValidAreaKeys, SRCSAValidAreaItems, SRCSAValidAreaWrites,
                  large \cup ValidityRoles, 0, "sr-csa")
      BY <1>2, BaseClasses, ValidityFits, ValidityNames
         DEF SRCSAValidMarkKeys, SRCSAValidMarkItems, SRCSAValidMarkWrites,
             SRCSAValidAreaKeys, SRCSAValidAreaItems, SRCSAValidAreaWrites
    <3>3. QED
      BY <1>5, <2>1, <3>1, <3>2, BaseClasses DEF ClassFits, ByKind
  <2>6. QED
    BY <1>1, <2>2, <2>3, <2>4, <2>5
<1>6. QED
  BY <1>1, <1>3, <1>4, <1>5

-----------------------------------------------------------------------------
(* The invariant. *)

OrderOf(o) == LoadOrder(objs[o].v)
KeyAt(o, role) == Key(objs[o].v, role, objs[o].prefix)
StoreOf(o) == storage[objs[o].store]
ItemOf(index, role) == [type |-> TypeOf(role), value |-> Content(index, role)]
IsLoaded(o) == o \in DOMAIN objs /\ objs[o].loads > 0
Sharing(o) == o \in DOMAIN objs /\ objs[o].store = Shared
FirstLoad(o) == loading.on /\ loading.o = o /\ objs[o].loads = 1
Skip(v) == IF ReadsRate(v) THEN 1 ELSE 0

\* Objects know their class, and the rate of their keys until a load changes it.
ObjectsInv ==
  /\ DOMAIN objs \subseteq Objects /\ DOMAIN storage = Objects \cup {Shared}
  /\ \A o \in DOMAIN objs :
       /\ objs[o].v \in Variants /\ objs[o].store \in {o, Shared}
       /\ objs[o].loads \in Nat /\ objs[o].again \in BOOLEAN
       /\ ~Sampled(objs[o].v) => objs[o].prefix = 0
       /\ objs[o].loads = 0 /\ objs[o].prefix # 0 => objs[o].rate = objs[o].prefix
       /\ objs[o].loads > 0 => objs[o].index.v = objs[o].v

\* A storage that no object has loaded into is empty.
EmptyInv ==
  \A s \in Objects \cup {Shared} :
    (\A o \in DOMAIN objs : objs[o].store = s => objs[o].loads = 0) => DOMAIN storage[s] = {}

\* What an object finds under its keys is its own, and all of it is there once a
\* first load has ended.
ItemsRight ==
  \A o \in DOMAIN objs : \A role \in Items(objs[o].v) :
    objs[o].loads > 0 /\ KeyAt(o, role) \in DOMAIN StoreOf(o) =>
      StoreOf(o)[KeyAt(o, role)] = ItemOf(objs[o].index, role)

Present ==
  \A o \in DOMAIN objs : \A i \in 1..Len(OrderOf(o)) :
    objs[o].loads > 0 /\ (FirstLoad(o) => i < loading.at) =>
      KeyAt(o, OrderOf(o)[i]) \in DOMAIN StoreOf(o)

\* Objects that share a storage are of one family and hold one text, and each key
\* leads to the item it names.
SharedInv ==
  /\ \A x, y \in DOMAIN objs :
       Sharing(x) /\ Sharing(y) =>
         /\ Family(objs[x].v) = Family(objs[y].v)
         /\ IsLoaded(x) /\ IsLoaded(y) => objs[x].index.text = objs[y].index.text
  /\ \A x \in DOMAIN objs :
       Sharing(x) /\ IsLoaded(x) /\ Sampled(objs[x].v) => objs[x].index.rate = objs[x].prefix
  /\ \A key \in DOMAIN storage[Shared] :
       \E x \in DOMAIN objs :
         /\ Sharing(x) /\ IsLoaded(x)
         /\ storage[Shared][key] =
              [type  |-> TypeOf(RoleAt(Family(objs[x].v), key)),
               value |-> [name |-> key[2], rate |-> key[1], text |-> objs[x].index.text]]

\* The items of v are at these places of the tokens.
TokensRight(tokens, v, index) ==
  \A i \in 1..Len(LoadOrder(v)) :
    i + Skip(v) \in DOMAIN tokens /\ tokens[i + Skip(v)] = ItemOf(index, LoadOrder(v)[i])

StreamsInv ==
  \A s \in streams :
    /\ s.v \in Variants /\ s.index.v = s.v /\ s.again \in BOOLEAN
    /\ TokensRight(s.tokens, s.v, s.index)
    /\ ReadsRate(s.v) /\ ~s.again => s.tokens[1].value.rate = s.index.rate

\* A first load reads what belongs to the index it makes of the object.
SourceRight(o) ==
  \/ /\ loading.source.from = "cache" /\ loading.source.text = objs[o].index.text
     /\ Sampled(objs[o].v) => objs[o].index.rate = objs[o].prefix
  \/ /\ loading.source.from = "stream" /\ objs[o].store = o
     /\ TokensRight(loading.source.tokens, objs[o].v, objs[o].index)
     /\ loading.source.read = loading.at - 1 + Skip(objs[o].v)
     /\ \A i \in loading.at .. Len(OrderOf(o)) : KeyAt(o, OrderOf(o)[i]) \notin DOMAIN StoreOf(o)

LoadingInv ==
  /\ loading.on \in BOOLEAN
  /\ loading.on =>
       /\ IsLoaded(loading.o) /\ loading.at \in 1..Len(OrderOf(loading.o))
       /\ objs[loading.o].loads = 1 => SourceRight(loading.o)

RateInv ==
  \A o \in DOMAIN objs :
    objs[o].loads > 0 /\ ~objs[o].again /\ ReadsRate(objs[o].v) => objs[o].rate = objs[o].index.rate

StreamInv ==
  ObjectsInv /\ EmptyInv /\ ItemsRight /\ Present /\ SharedInv /\ StreamsInv /\ LoadingInv /\ RateInv

\* What the proof needs to know of a class.
LEMMA ClassFacts ==
  ASSUME NEW v \in Variants
  PROVE  /\ Len(LoadOrder(v)) \in Nat \ {0} /\ DOMAIN LoadOrder(v) = 1..Len(LoadOrder(v))
         /\ \A i, j \in 1..Len(LoadOrder(v)) : LoadOrder(v)[i] = LoadOrder(v)[j] => i = j
         /\ \A i \in 1..Len(LoadOrder(v)) :
              LoadOrder(v)[i] \in Items(v) /\ LoadOrder(v)[i] # "rate"
         /\ \A role \in Items(v) :
              /\ \E i \in 1..Len(LoadOrder(v)) : LoadOrder(v)[i] = role
              /\ RoleOf(Family(v), Keys(v)[KeyRole(role)].name) = KeyRole(role)
              /\ ~Sampled(v) => ~Keys(v)[KeyRole(role)].prefixed
         /\ \A i \in 1..Len(LoadOrder(v)) :
              \/ KeyRole(LoadOrder(v)[i]) = LoadOrder(v)[i]
              \/ \E j \in 1..Len(LoadOrder(v)) : j < i /\ LoadOrder(v)[j] = KeyRole(LoadOrder(v)[i])
         /\ Len(WriteOrder(v)) = Len(LoadOrder(v)) + Skip(v)
         /\ \A i \in 1..Len(LoadOrder(v)) : WriteOrder(v)[i + Skip(v)] = LoadOrder(v)[i]
         /\ Skip(v) \in {0, 1} /\ (ReadsRate(v) => Skip(v) = 1 /\ WriteOrder(v)[1] = "rate")
<1>1. v \in Classes
  BY IndexStreamAssumption DEF Classes
<1>2. PICK roles :
        /\ Fits(Keys(v), LoadOrder(v), WriteOrder(v), roles, Skip(v), Family(v))
        /\ ~Sampled(v) => Unprefixed(Keys(v), roles)
  BY <1>1, AllFit DEF ClassFits, Skip
<1>3. LoadOrder(v) \in Seq(roles) /\ Len(LoadOrder(v)) \in Nat
      /\ DOMAIN LoadOrder(v) = 1..Len(LoadOrder(v))
  BY <1>2 DEF Fits, Order
<1>4. Items(v) = roles
  BY <1>2, <1>3 DEF Fits, Order, Items
<1>5. /\ \A role \in roles : \E i \in 1..Len(LoadOrder(v)) : LoadOrder(v)[i] = role
      /\ \A i \in 1..Len(LoadOrder(v)) :
           \/ KeyRole(LoadOrder(v)[i]) = LoadOrder(v)[i]
           \/ \E j \in 1..Len(LoadOrder(v)) : j < i /\ LoadOrder(v)[j] = KeyRole(LoadOrder(v)[i])
  BY <1>2 DEF Fits, Order
<1>6. ASSUME NEW role \in roles
      PROVE  /\ RoleOf(Family(v), Keys(v)[KeyRole(role)].name) = KeyRole(role)
             /\ ~Sampled(v) => ~Keys(v)[KeyRole(role)].prefixed
  <2>1. KeyRole(role) \in roles
    BY <1>3, <1>5
  <2>2. KeyRole(role) # "validMarksRank"
    BY DEF KeyRole
  <2>3. QED
    BY <1>2, <2>1, <2>2 DEF Fits, Named, Unprefixed
<1>7. "rate" \notin roles
  BY <1>2 DEF Fits, Named
<1>8. QED
  BY <1>2, <1>3, <1>4, <1>5, <1>6, <1>7 DEF Fits, Order, Writes, Skip

\* The key of an item, and what the item of that key is in an index.
LEMMA KeyFacts ==
  ASSUME NEW v \in Variants, NEW role \in Items(v), NEW prefix
  PROVE  /\ RoleAt(Family(v), Key(v, role, prefix)) = role
         /\ \A index :
              index.v = v /\ (Sampled(v) => index.rate = prefix) =>
                Content(index, role) = [name |-> Key(v, role, prefix)[2],
                                        rate |-> Key(v, role, prefix)[1], text |-> index.text]
<1>1. /\ RoleOf(Family(v), Keys(v)[KeyRole(role)].name) = KeyRole(role)
      /\ ~Sampled(v) => ~Keys(v)[KeyRole(role)].prefixed
  BY ClassFacts
<1>2. /\ Key(v, role, prefix)[2] = Keys(v)[KeyRole(role)].name
      /\ Key(v, role, prefix)[1] = IF Keys(v)[KeyRole(role)].prefixed THEN prefix ELSE 0
      /\ Key(v, role, prefix)[3] = IF role = KeyRole(role) THEN "" ELSE "_rank"
  BY DEF Key
<1>3. RoleAt(Family(v), Key(v, role, prefix)) = role
  BY <1>1, <1>2 DEF RoleAt, KeyRole
<1>4. QED
  BY <1>1, <1>2, <1>3 DEF Content

\* In a family a key belongs to one role.
LEMMA KeysDiffer ==
  ASSUME NEW v \in Variants, NEW w \in Variants, Family(v) = Family(w),
         NEW role \in Items(v), NEW other \in Items(w), NEW prefix, NEW prefix2,
         Key(v, role, prefix) = Key(w, other, prefix2)
  PROVE  role = other
BY KeyFacts

-----------------------------------------------------------------------------
(* The steps. *)

LEMMA StreamInit == ASSUME Init PROVE StreamInv
<1>1. objs = <<>> /\ DOMAIN objs = {} /\ streams = {} /\ ~loading.on /\ loading.on \in BOOLEAN
  BY DEF Init, NoLoad
<1>2. DOMAIN storage = Objects \cup {Shared} /\ \A s \in Objects \cup {Shared} : DOMAIN storage[s] = {}
  BY DEF Init
<1>3. QED
  BY <1>1, <1>2
     DEF StreamInv, ObjectsInv, EmptyInv, ItemsRight, Present, SharedInv, StreamsInv, LoadingInv,
         RateInv, IsLoaded

\* A new object has loaded nothing.
LEMMA CreateKeeps ==
  ASSUME StreamInv, NEW o \in Objects, NEW v \in Variants, NEW k \in Rates \cup {1},
         NEW s \in Objects \cup {Shared}, Create(o, v, k, s)
  PROVE  StreamInv'
<1>1. /\ DOMAIN objs' = DOMAIN objs \cup {o} /\ o \notin DOMAIN objs
      /\ \A x \in DOMAIN objs : objs'[x] = objs[x]
      /\ objs'[o] = [v |-> v, rate |-> k, prefix |-> IF k > 1 THEN k ELSE 0,
                     store |-> s, loads |-> 0, again |-> FALSE]
  BY DEF Create, Override, Entry
<1>2. /\ storage' = storage /\ streams' = streams /\ loading' = loading /\ ~loading.on
      /\ s \in {o, Shared}
      /\ s = Shared => \A x \in DOMAIN objs : objs[x].store = Shared => Family(objs[x].v) = Family(v)
      /\ k > 1 => Sampled(v)
  BY DEF Create
<1>3. ObjectsInv'
  <2>1. objs'[o].prefix # 0 => objs'[o].rate = objs'[o].prefix
    BY <1>1
  <2>2. ~Sampled(objs'[o].v) => objs'[o].prefix = 0
    BY <1>1, <1>2
  <2>3. /\ objs'[o].v \in Variants /\ objs'[o].store \in {o, Shared}
        /\ objs'[o].loads = 0 /\ objs'[o].again \in BOOLEAN
    BY <1>1, <1>2
  <2>4. QED
    <3>1. /\ DOMAIN objs \subseteq Objects /\ DOMAIN storage = Objects \cup {Shared}
          /\ \A x \in DOMAIN objs :
               /\ objs[x].v \in Variants /\ objs[x].store \in {x, Shared}
               /\ objs[x].loads \in Nat /\ objs[x].again \in BOOLEAN
               /\ ~Sampled(objs[x].v) => objs[x].prefix = 0
               /\ objs[x].loads = 0 /\ objs[x].prefix # 0 => objs[x].rate = objs[x].prefix
               /\ objs[x].loads > 0 => objs[x].index.v = objs[x].v
      BY DEF StreamInv, ObjectsInv
    <3>2. ~(objs'[o].loads > 0)
      BY <2>3
    <3>3. ASSUME NEW x \in DOMAIN objs'
          PROVE  /\ objs'[x].v \in Variants /\ objs'[x].store \in {x, Shared}
                 /\ objs'[x].loads \in Nat /\ objs'[x].again \in BOOLEAN
                 /\ ~Sampled(objs'[x].v) => objs'[x].prefix = 0
                 /\ objs'[x].loads = 0 /\ objs'[x].prefix # 0 => objs'[x].rate = objs'[x].prefix
                 /\ objs'[x].loads > 0 => objs'[x].index.v = objs'[x].v
      <4>1. CASE x = o
        BY <2>1, <2>2, <2>3, <3>2, <4>1
      <4>2. CASE x \in DOMAIN objs
        <5>1. objs'[x] = objs[x]
          BY <1>1, <4>2
        <5>2. QED
          BY <3>1, <4>2, <5>1
      <4>3. QED
        BY <1>1, <4>1, <4>2
    <3>4. DOMAIN objs' \subseteq Objects /\ DOMAIN storage' = Objects \cup {Shared}
      BY <1>1, <1>2, <3>1
    <3>5. QED
      BY <3>3, <3>4 DEF ObjectsInv
<1>4. EmptyInv'
  BY <1>1, <1>2 DEF StreamInv, EmptyInv
<1>5. ItemsRight' /\ Present'
  BY <1>1, <1>2
     DEF StreamInv, ItemsRight, Present, KeyAt, StoreOf, ItemOf, FirstLoad, OrderOf
<1>6. SharedInv'
  <2>1. objs'[o].v = v /\ objs'[o].store = s /\ objs'[o].loads = 0
    BY <1>1
  <2>2. \A x, y \in DOMAIN objs' :
          Sharing(x)' /\ Sharing(y)' =>
            /\ Family(objs'[x].v) = Family(objs'[y].v)
            /\ IsLoaded(x)' /\ IsLoaded(y)' => objs'[x].index.text = objs'[y].index.text
    BY <1>1, <1>2, <2>1 DEF StreamInv, SharedInv, Sharing, IsLoaded
  <2>3. \A x \in DOMAIN objs' :
          Sharing(x)' /\ IsLoaded(x)' /\ Sampled(objs'[x].v) =>
            objs'[x].index.rate = objs'[x].prefix
    BY <1>1, <1>2, <2>1 DEF StreamInv, SharedInv, Sharing, IsLoaded
  <2>4. ASSUME NEW key \in DOMAIN storage'[Shared]
        PROVE  \E x \in DOMAIN objs' :
                 /\ Sharing(x)' /\ IsLoaded(x)'
                 /\ storage'[Shared][key] =
                      [type  |-> TypeOf(RoleAt(Family(objs'[x].v), key)),
                       value |-> [name |-> key[2], rate |-> key[1], text |-> objs'[x].index.text]]
    <3>1. PICK x \in DOMAIN objs :
            /\ Sharing(x) /\ IsLoaded(x)
            /\ storage[Shared][key] =
                 [type  |-> TypeOf(RoleAt(Family(objs[x].v), key)),
                  value |-> [name |-> key[2], rate |-> key[1], text |-> objs[x].index.text]]
      BY <1>2 DEF StreamInv, SharedInv
    <3>2. objs'[x] = objs[x] /\ x \in DOMAIN objs'
      BY <1>1
    <3>3. Sharing(x)' /\ IsLoaded(x)'
      BY <3>1, <3>2 DEF Sharing, IsLoaded
    <3>4. QED
      BY <1>2, <3>1, <3>2, <3>3
  <2>5. QED
    BY <2>2, <2>3, <2>4 DEF SharedInv
<1>7. StreamsInv' /\ LoadingInv'
  BY <1>1, <1>2 DEF StreamInv, StreamsInv, LoadingInv, TokensRight, ItemOf
<1>8. RateInv'
  BY <1>1, <1>2 DEF StreamInv, RateInv
<1>9. QED
  BY <1>3, <1>4, <1>5, <1>6, <1>7, <1>8 DEF StreamInv

\* A load begins: the object has its items, if it was loaded before, and none of
\* them is in a storage of its own otherwise.
LEMMA StartKeeps ==
  ASSUME StreamInv, NEW o \in Objects, NEW rate, NEW index, NEW again \in BOOLEAN, NEW source,
         StartLoad(o, rate, index, again, source),
         index.v = objs[o].v,
         \/ /\ source.from = "cache" /\ source.text = index.text
            /\ objs[o].loads = 0 /\ Sampled(objs[o].v) => index.rate = objs[o].prefix
         \/ /\ source.from = "stream" /\ objs[o].store = o
            /\ TokensRight(source.tokens, objs[o].v, index) /\ source.read = Skip(objs[o].v),
         objs[o].store = Shared =>
           /\ source.from = "cache"
           /\ \A x \in DOMAIN objs : Sharing(x) /\ IsLoaded(x) => objs[x].index.text = index.text,
         objs[o].loads = 0 /\ ~again /\ ReadsRate(objs[o].v) => rate = index.rate
  PROVE  StreamInv'
<1> DEFINE obj == objs[o]
           new == objs'[o]
<1>1. /\ DOMAIN objs' = DOMAIN objs /\ o \in DOMAIN objs /\ ~loading.on
      /\ \A x \in DOMAIN objs : x # o => objs'[x] = objs[x]
      /\ storage' = storage /\ streams' = streams
  BY DEF StartLoad
<1>2. new = [v |-> obj.v, rate |-> rate, prefix |-> obj.prefix, store |-> obj.store,
             loads |-> obj.loads + 1, again |-> obj.again \/ again \/ obj.loads > 0,
             index |-> IF obj.loads = 0 THEN index ELSE obj.index]
  BY DEF StartLoad
<1>3. /\ new.v = obj.v /\ new.rate = rate /\ new.prefix = obj.prefix /\ new.store = obj.store
      /\ new.loads = obj.loads + 1 /\ new.again = (obj.again \/ again \/ obj.loads > 0)
      /\ new.index = IF obj.loads = 0 THEN index ELSE obj.index
  BY <1>2
<1>4. /\ loading'.on /\ loading'.on \in BOOLEAN /\ loading'.o = o /\ loading'.at = 1
      /\ loading'.source = source
  BY DEF StartLoad
<1>5. /\ obj.v \in Variants /\ obj.store \in {o, Shared} /\ obj.loads \in Nat
      /\ obj.again \in BOOLEAN /\ (~Sampled(obj.v) => obj.prefix = 0)
      /\ (obj.loads > 0 => obj.index.v = obj.v)
  BY <1>1 DEF StreamInv, ObjectsInv
<1> HIDE DEF new, obj
<1>6. new.loads \in Nat /\ new.loads > 0 /\ (new.loads = 1 <=> obj.loads = 0)
      /\ (obj.loads # 0 <=> obj.loads > 0)
  BY <1>3, <1>5
<1>7. new.index.v = new.v
  BY <1>3, <1>5, <1>6 DEF obj
<1>8. ObjectsInv'
  <2>1. ASSUME NEW x \in DOMAIN objs'
        PROVE  /\ objs'[x].v \in Variants /\ objs'[x].store \in {x, Shared}
               /\ objs'[x].loads \in Nat /\ objs'[x].again \in BOOLEAN
               /\ ~Sampled(objs'[x].v) => objs'[x].prefix = 0
               /\ objs'[x].loads = 0 /\ objs'[x].prefix # 0 => objs'[x].rate = objs'[x].prefix
               /\ objs'[x].loads > 0 => objs'[x].index.v = objs'[x].v
    <3>1. CASE x = o
      <4>1. new.again \in BOOLEAN
        BY <1>3, <1>5
      <4>2. /\ new.v \in Variants /\ new.store \in {o, Shared}
            /\ ~Sampled(new.v) => new.prefix = 0
        BY <1>3, <1>5
      <4>3. objs'[x] = new
        BY <3>1 DEF new
      <4>4. QED
        BY <1>6, <1>7, <3>1, <4>1, <4>2, <4>3
    <3>2. CASE x # o
      BY <1>1, <3>2 DEF StreamInv, ObjectsInv
    <3>3. QED
      BY <3>1, <3>2
  <2>2. DOMAIN objs' \subseteq Objects /\ DOMAIN storage' = Objects \cup {Shared}
    BY <1>1 DEF StreamInv, ObjectsInv
  <2>3. QED
    BY <2>1, <2>2 DEF ObjectsInv
<1>9. EmptyInv'
  <2>1. ASSUME NEW s \in Objects \cup {Shared},
               \A x \in DOMAIN objs' : objs'[x].store = s => objs'[x].loads = 0
        PROVE  DOMAIN storage'[s] = {}
    <3>1. obj.store # s
      BY <1>1, <1>3, <1>6, <2>1 DEF new
    <3>2. \A x \in DOMAIN objs : objs[x].store = s => objs[x].loads = 0
      BY <1>1, <2>1, <3>1 DEF obj
    <3>3. QED
      BY <1>1, <3>2 DEF StreamInv, EmptyInv
  <2>2. QED
    BY <2>1 DEF EmptyInv
\* Before its first load the object finds nothing in a storage of its own, and in a
\* shared one what other objects read under the same keys.
<1>10. ASSUME obj.loads = 0, NEW role \in Items(obj.v),
              Key(obj.v, role, obj.prefix) \in DOMAIN storage[obj.store]
       PROVE  storage[obj.store][Key(obj.v, role, obj.prefix)] = ItemOf(index, role)
  <2> DEFINE key == Key(obj.v, role, obj.prefix)
  <2>1. obj.store = Shared
    <3>1. CASE obj.store = o
      <4>1. \A x \in DOMAIN objs : objs[x].store = o => x = o
        BY IndexStreamAssumption DEF StreamInv, ObjectsInv
      <4>2. DOMAIN storage[o] = {}
        BY <1>10, <4>1 DEF StreamInv, EmptyInv, obj
      <4>3. QED
        BY <1>10, <3>1, <4>2
    <3>2. QED
      BY <1>5, <3>1
  <2>2. key \in DOMAIN storage[Shared]
    BY <1>10, <2>1
  <2>3. PICK x \in DOMAIN objs :
          /\ Sharing(x) /\ IsLoaded(x)
          /\ storage[Shared][key] =
               [type  |-> TypeOf(RoleAt(Family(objs[x].v), key)),
                value |-> [name |-> key[2], rate |-> key[1], text |-> objs[x].index.text]]
    BY <2>2 DEF StreamInv, SharedInv
  <2>4. Family(objs[x].v) = Family(obj.v) /\ objs[x].index.text = index.text
    BY <1>1, <2>1, <2>3 DEF StreamInv, SharedInv, Sharing, obj
  <2>5. Sampled(obj.v) => index.rate = obj.prefix
    BY <1>10, <2>1, IndexStreamAssumption DEF obj
  <2>6. /\ RoleAt(Family(obj.v), key) = role
        /\ Content(index, role) = [name |-> key[2], rate |-> key[1], text |-> index.text]
    BY <1>5, <2>5, KeyFacts DEF obj
  <2>7. QED
    BY <2>1, <2>3, <2>4, <2>6 DEF ItemOf
<1>11. ItemsRight'
  <2>1. ASSUME NEW x \in DOMAIN objs', NEW role \in Items(objs'[x].v),
               objs'[x].loads > 0, KeyAt(x, role)' \in DOMAIN StoreOf(x)'
        PROVE  StoreOf(x)'[KeyAt(x, role)'] = ItemOf(objs[x].index, role)'
    <3>1. CASE x # o
      BY <1>1, <2>1, <3>1 DEF StreamInv, ItemsRight, KeyAt, StoreOf
    <3>2. CASE x = o /\ obj.loads = 0
      BY <1>1, <1>3, <1>10, <2>1, <3>2 DEF KeyAt, StoreOf, new
    <3>3. CASE x = o /\ obj.loads > 0
      BY <1>1, <1>3, <1>6, <2>1, <3>3 DEF StreamInv, ItemsRight, KeyAt, StoreOf, new, obj
    <3>4. QED
      BY <1>6, <3>1, <3>2, <3>3
  <2>2. QED
    BY <2>1 DEF ItemsRight
<1>12. Present'
  <2>1. ASSUME NEW x \in DOMAIN objs', NEW i \in 1..Len(OrderOf(x)'),
               objs'[x].loads > 0, FirstLoad(x)' => i < loading'.at
        PROVE  KeyAt(x, OrderOf(x)[i])' \in DOMAIN StoreOf(x)'
    <3>1. CASE x # o
      BY <1>1, <2>1, <3>1 DEF StreamInv, Present, KeyAt, StoreOf, OrderOf, FirstLoad
    <3>2. CASE x = o /\ obj.loads = 0
      BY <1>4, <1>6, <2>1, <3>2 DEF FirstLoad, new
    <3>3. CASE x = o /\ obj.loads > 0
      BY <1>1, <1>3, <2>1, <3>3 DEF StreamInv, Present, KeyAt, StoreOf, OrderOf, FirstLoad, new, obj
    <3>4. QED
      BY <1>6, <3>1, <3>2, <3>3
  <2>2. QED
    BY <2>1 DEF Present
<1>13. SharedInv'
  <2>1. obj.store = Shared =>
          /\ Sampled(obj.v) => new.index.rate = new.prefix
          /\ \A x \in DOMAIN objs :
               Sharing(x) /\ IsLoaded(x) => objs[x].index.text = new.index.text
    <3>1. SUFFICES ASSUME obj.store = Shared
                   PROVE  /\ Sampled(obj.v) => new.index.rate = new.prefix
                          /\ \A x \in DOMAIN objs :
                               Sharing(x) /\ IsLoaded(x) => objs[x].index.text = new.index.text
      OBVIOUS
    <3>2. CASE obj.loads = 0
      BY <1>3, <3>1, <3>2, IndexStreamAssumption DEF obj
    <3>3. CASE obj.loads > 0
      <4>1. Sharing(o) /\ IsLoaded(o)
        BY <1>1, <3>1, <3>3 DEF Sharing, IsLoaded, obj
      <4>2. new.index = objs[o].index /\ new.prefix = objs[o].prefix
        BY <1>3, <1>6, <3>3 DEF obj
      <4>3. QED
        BY <1>1, <4>1, <4>2 DEF StreamInv, SharedInv, obj
    <3>4. QED
      BY <1>6, <3>2, <3>3
  <2>2. ASSUME NEW x \in DOMAIN objs', NEW y \in DOMAIN objs', Sharing(x)', Sharing(y)'
        PROVE  /\ Family(objs'[x].v) = Family(objs'[y].v)
               /\ IsLoaded(x)' /\ IsLoaded(y)' => objs'[x].index.text = objs'[y].index.text
    <3>1. /\ Sharing(x) /\ Sharing(y) /\ x \in DOMAIN objs /\ y \in DOMAIN objs
          /\ objs'[x].v = objs[x].v /\ objs'[y].v = objs[y].v
      BY <1>1, <1>3, <2>2 DEF Sharing, new, obj
    <3>2. Family(objs'[x].v) = Family(objs'[y].v)
      BY <3>1 DEF StreamInv, SharedInv
    <3>3. ASSUME IsLoaded(x)', IsLoaded(y)'
          PROVE  objs'[x].index.text = objs'[y].index.text
      <4>1. x # o => IsLoaded(x) /\ objs'[x] = objs[x]
        BY <1>1, <3>1, <3>3 DEF IsLoaded
      <4>2. y # o => IsLoaded(y) /\ objs'[y] = objs[y]
        BY <1>1, <3>1, <3>3 DEF IsLoaded
      <4>3. x = o \/ y = o => obj.store = Shared
        BY <3>1 DEF Sharing, obj
      <4>4. CASE x # o /\ y # o
        BY <3>1, <4>1, <4>2, <4>4 DEF StreamInv, SharedInv
      <4>5. CASE x = o /\ y # o
        BY <2>1, <3>1, <4>2, <4>3, <4>5 DEF new
      <4>6. CASE x # o /\ y = o
        BY <2>1, <3>1, <4>1, <4>3, <4>6 DEF new
      <4>7. QED
        BY <4>4, <4>5, <4>6
    <3>4. QED
      BY <3>2, <3>3
  <2>3. ASSUME NEW x \in DOMAIN objs', Sharing(x)', IsLoaded(x)', Sampled(objs'[x].v)
        PROVE  objs'[x].index.rate = objs'[x].prefix
    <3>1. CASE x = o
      BY <1>3, <2>1, <2>3, <3>1 DEF Sharing, new
    <3>2. CASE x # o
      <4>1. objs'[x] = objs[x] /\ Sharing(x) /\ IsLoaded(x) /\ x \in DOMAIN objs
        BY <1>1, <2>3, <3>2 DEF Sharing, IsLoaded
      <4>2. QED
        BY <2>3, <4>1 DEF StreamInv, SharedInv
    <3>3. QED
      BY <3>1, <3>2
  <2>4. ASSUME NEW key \in DOMAIN storage'[Shared]
        PROVE  \E x \in DOMAIN objs' :
                 /\ Sharing(x)' /\ IsLoaded(x)'
                 /\ storage'[Shared][key] =
                      [type  |-> TypeOf(RoleAt(Family(objs'[x].v), key)),
                       value |-> [name |-> key[2], rate |-> key[1], text |-> objs'[x].index.text]]
    <3>1. PICK x \in DOMAIN objs :
            /\ Sharing(x) /\ IsLoaded(x)
            /\ storage[Shared][key] =
                 [type  |-> TypeOf(RoleAt(Family(objs[x].v), key)),
                  value |-> [name |-> key[2], rate |-> key[1], text |-> objs[x].index.text]]
      BY <1>1 DEF StreamInv, SharedInv
    <3>2. /\ x \in DOMAIN objs' /\ Sharing(x)' /\ IsLoaded(x)'
          /\ objs'[x].v = objs[x].v /\ objs'[x].index = objs[x].index
      <4>1. CASE x = o
        BY <1>1, <1>3, <1>6, <3>1, <4>1 DEF Sharing, IsLoaded, new, obj
      <4>2. CASE x # o
        BY <1>1, <3>1, <4>2 DEF Sharing, IsLoaded
      <4>3. QED
        BY <4>1, <4>2
    <3>3. QED
      BY <1>1, <3>1, <3>2
  <2>5. QED
    BY <2>2, <2>3, <2>4 DEF SharedInv
<1>14. StreamsInv'
  BY <1>1 DEF StreamInv, StreamsInv, TokensRight, ItemOf
<1>15. LoadingInv'
  <2>1. IsLoaded(o)' /\ OrderOf(o)' = LoadOrder(obj.v) /\ 1 \in 1..Len(LoadOrder(obj.v))
    <3>1. Len(LoadOrder(obj.v)) \in Nat \ {0}
      BY <1>5, ClassFacts
    <3>2. QED
      BY <1>1, <1>3, <1>6, <3>1 DEF IsLoaded, OrderOf, new
  <2>2. ASSUME new.loads = 1
        PROVE  SourceRight(o)'
    <3>1. obj.loads = 0 /\ new.index = index
      BY <1>3, <1>6, <2>2
    <3>2. CASE source.from = "cache" /\ source.text = index.text
               /\ (objs[o].loads = 0 /\ Sampled(objs[o].v) => index.rate = objs[o].prefix)
      BY <1>3, <1>4, <3>1, <3>2 DEF SourceRight, new, obj
    <3>3. CASE source.from = "stream" /\ objs[o].store = o
               /\ TokensRight(source.tokens, objs[o].v, index) /\ source.read = Skip(objs[o].v)
      <4>1. DOMAIN storage[o] = {}
        <5>1. \A x \in DOMAIN objs : objs[x].store = o => x = o
          BY IndexStreamAssumption DEF StreamInv, ObjectsInv
        <5>2. QED
          BY <3>1, <5>1 DEF StreamInv, EmptyInv, obj
      <4>2. Skip(obj.v) \in {0, 1}
        BY DEF Skip
      <4>3. loading'.source.read = loading'.at - 1 + Skip(new.v)
        BY <1>3, <1>4, <3>3, <4>2 DEF obj
      <4>4. StoreOf(o)' = storage[o] /\ new.store = o
        BY <1>1, <1>3, <3>3 DEF StoreOf, new, obj
      <4>5. TokensRight(loading'.source.tokens, new.v, new.index)
        BY <1>3, <1>4, <3>1, <3>3 DEF obj
      <4>6. QED
        BY <1>4, <3>3, <4>1, <4>3, <4>4, <4>5
           DEF SourceRight, new, KeyAt, OrderOf, StoreOf, TokensRight, ItemOf
    <3>4. QED
      BY <3>2, <3>3
  <2>3. QED
    BY <1>4, <2>1, <2>2 DEF LoadingInv, new
<1>16. RateInv'
  <2>1. ASSUME NEW x \in DOMAIN objs', objs'[x].loads > 0, ~objs'[x].again, ReadsRate(objs'[x].v)
        PROVE  objs'[x].rate = objs'[x].index.rate
    <3>1. CASE x # o
      BY <1>1, <2>1, <3>1 DEF StreamInv, RateInv
    <3>2. CASE x = o
      <4>1. obj.loads = 0 /\ ~again
        BY <1>3, <1>5, <1>6, <2>1, <3>2 DEF new
      <4>2. QED
        BY <1>3, <2>1, <3>2, <4>1 DEF new, obj
    <3>3. QED
      BY <3>1, <3>2
  <2>2. QED
    BY <2>1 DEF RateInv
<1>17. QED
  BY <1>8, <1>9, <1>11, <1>12, <1>13, <1>14, <1>15, <1>16 DEF StreamInv


\* load(config): the rate of the keys is the rate of the index, at a first load.
LEMMA LoadConfigKeeps ==
  ASSUME StreamInv, NEW o \in Objects, NEW text \in Inputs, LoadConfig(o, text)
  PROVE  StreamInv'
<1> DEFINE index == [v |-> objs[o].v, rate |-> objs[o].rate, text |-> text]
           source == [from |-> "cache", text |-> text]
<1>1. StartLoad(o, objs[o].rate, index, FALSE, source) /\ o \in DOMAIN objs
  BY DEF LoadConfig
<1>2. index.v = objs[o].v /\ index.rate = objs[o].rate /\ index.text = text
  OBVIOUS
<1>3. source.from = "cache" /\ source.text = index.text
  OBVIOUS
<1>4. objs[o].loads = 0 /\ Sampled(objs[o].v) => index.rate = objs[o].prefix
  BY <1>1 DEF LoadConfig, StreamInv, ObjectsInv
<1>5. objs[o].store = Shared =>
        \A x \in DOMAIN objs : Sharing(x) /\ IsLoaded(x) => objs[x].index.text = index.text
  BY <1>1 DEF LoadConfig, Sharing, IsLoaded
<1> HIDE DEF index, source
<1>6. QED
  BY <1>1, <1>2, <1>3, <1>4, <1>5, StartKeeps

\* load(istream): a stream has the items of its class in the order they are read.
LEMMA LoadStreamKeeps ==
  ASSUME StreamInv, NEW o \in Objects, NEW stream \in streams, LoadStream(o, stream)
  PROVE  StreamInv'
<1> DEFINE rate == IF ReadsRate(stream.v) THEN stream.tokens[1].value.rate ELSE objs[o].rate
           source == [from |-> "stream", tokens |-> stream.tokens,
                      read |-> IF ReadsRate(stream.v) THEN 1 ELSE 0]
<1>1. /\ StartLoad(o, rate, stream.index, stream.again, source) /\ o \in DOMAIN objs
      /\ objs[o].store = o /\ stream.v = objs[o].v
  BY DEF LoadStream
<1>2. /\ stream.index.v = stream.v /\ stream.again \in BOOLEAN
      /\ TokensRight(stream.tokens, stream.v, stream.index)
      /\ ReadsRate(stream.v) /\ ~stream.again => stream.tokens[1].value.rate = stream.index.rate
  BY DEF StreamInv, StreamsInv
<1>3. /\ source.from = "stream" /\ source.read = Skip(objs[o].v)
      /\ TokensRight(source.tokens, objs[o].v, stream.index)
  BY <1>1, <1>2 DEF Skip
<1>4. ~stream.again /\ ReadsRate(objs[o].v) => rate = stream.index.rate
  BY <1>1, <1>2
<1>5. objs[o].store # Shared
  BY <1>1, IndexStreamAssumption
<1> HIDE DEF rate, source
<1>6. QED
  BY <1>1, <1>2, <1>3, <1>4, <1>5, StartKeeps

\* What loadRawItem does: the key of the item leads to the item of the index, no
\* other key changes, and the next item is due.
Stores(o, role, key) ==
  /\ DOMAIN storage' = DOMAIN storage
  /\ DOMAIN storage'[objs[o].store] = DOMAIN StoreOf(o) \cup {key}
  /\ \A other \in DOMAIN StoreOf(o) : storage'[objs[o].store][other] = StoreOf(o)[other]
  /\ storage'[objs[o].store][key] = ItemOf(objs[o].index, role)
  /\ \A s \in Objects \cup {Shared} : s # objs[o].store => storage'[s] = storage[s]

Moves(o) ==
  IF loading.at = Len(OrderOf(o)) THEN ~loading'.on /\ loading'.on \in BOOLEAN
  ELSE /\ loading'.on = TRUE /\ loading'.o = o /\ loading'.at = loading.at + 1
       /\ objs[o].loads = 1 =>
            \/ /\ loading.source.from = "cache" /\ loading'.source = loading.source
               /\ loading.source.text = objs[o].index.text
               /\ Sampled(objs[o].v) => objs[o].index.rate = objs[o].prefix
            \/ /\ loading'.source.from = "stream" /\ objs[o].store = o
               /\ loading'.source.tokens = loading.source.tokens
               /\ TokensRight(loading.source.tokens, objs[o].v, objs[o].index)
               /\ loading.source.read = loading.at - 1 + Skip(objs[o].v)
               /\ loading'.source.read = loading.source.read + 1
               /\ \A i \in loading.at .. Len(OrderOf(o)) :
                    KeyAt(o, OrderOf(o)[i]) \notin DOMAIN StoreOf(o)

LEMMA LoadItemStep ==
  ASSUME StreamInv, LoadItem, NEW o, o = loading.o, NEW role, role = OrderOf(o)[loading.at],
         NEW key, key = KeyAt(o, role)
  PROVE  /\ objs' = objs /\ streams' = streams /\ loading.on
         /\ IsLoaded(o) /\ loading.at \in 1..Len(OrderOf(o)) /\ role \in Items(objs[o].v)
         /\ objs[o].v \in Variants /\ objs[o].loads \in Nat \ {0}
         /\ objs[o].index.v = objs[o].v /\ objs[o].store \in Objects \cup {Shared}
         /\ Len(OrderOf(o)) \in Nat
         /\ Stores(o, role, key) /\ Moves(o)
<1> DEFINE obj == objs[o]
           type == TypeOf(role)
           store == StoreOf(o)
           held == Holds(store, key, type)
           item == NextItem(loading.source, key, type)
           source == IF held \/ loading.source.from = "cache" THEN loading.source
                     ELSE [from |-> "stream", tokens |-> loading.source.tokens,
                           read |-> loading.source.read + 1]
           s0 == [store |-> store, source |-> loading.source]
           loaded == LoadRole(s0, obj, role)
<1>1. /\ objs' = objs /\ streams' = streams /\ loading.on
      /\ storage' = [storage EXCEPT ![obj.store] = loaded.store]
      /\ loading' = IF loading.at = Len(OrderOf(o)) THEN NoLoad
                    ELSE [on |-> TRUE, o |-> o, at |-> loading.at + 1, source |-> loaded.source]
  BY DEF LoadItem, OrderOf, StoreOf
<1>2. /\ IsLoaded(o) /\ loading.at \in 1..Len(OrderOf(o))
      /\ obj.loads = 1 => SourceRight(o)
  BY <1>1 DEF StreamInv, LoadingInv
<1>3. /\ obj.v \in Variants /\ obj.loads \in Nat /\ obj.loads > 0 /\ obj.index.v = obj.v
      /\ DOMAIN storage = Objects \cup {Shared} /\ obj.store \in Objects \cup {Shared}
      /\ o \in DOMAIN objs /\ o \in Objects
  BY <1>2 DEF StreamInv, ObjectsInv, IsLoaded
<1>4. Len(OrderOf(o)) \in Nat /\ role \in Items(obj.v)
  BY <1>2, <1>3, ClassFacts DEF OrderOf
\* A rank is due after its vector, which is then held, so nothing else is read.
<1>41. KeyRole(role) = role \/ Holds(store, KeyAt(o, KeyRole(role)), TypeOf(KeyRole(role)))
  <2>1. SUFFICES ASSUME KeyRole(role) # role
                 PROVE  Holds(store, KeyAt(o, KeyRole(role)), TypeOf(KeyRole(role)))
    OBVIOUS
  <2>2. PICK j \in 1..Len(OrderOf(o)) : j < loading.at /\ OrderOf(o)[j] = KeyRole(role)
    BY <1>2, <1>3, <2>1, ClassFacts DEF OrderOf
  <2>3. KeyRole(role) \in Items(obj.v)
    BY <1>3, <2>2, ClassFacts DEF OrderOf
  <2>4. KeyAt(o, KeyRole(role)) \in DOMAIN store
    BY <1>3, <2>2 DEF StreamInv, Present
  <2>5. store[KeyAt(o, KeyRole(role))] = ItemOf(obj.index, KeyRole(role))
    BY <1>3, <2>3, <2>4 DEF StreamInv, ItemsRight
  <2>6. ItemOf(obj.index, KeyRole(role)).type = TypeOf(KeyRole(role))
    BY DEF ItemOf
  <2>7. QED
    BY <2>4, <2>5, <2>6 DEF Holds
<1>42. /\ loaded.store = IF held THEN store ELSE Override(Entry(key, item), store)
       /\ loaded.source = source
  <2>1. s0.store = store /\ s0.source = loading.source
    OBVIOUS
  <2>2. loaded = LoadRaw(s0, key, type)
    <3>1. loaded = LoadRaw(IF role = KeyRole(role) \/ held THEN s0
                           ELSE LoadRaw(s0, KeyAt(o, KeyRole(role)), TypeOf(KeyRole(role))), key, type)
      BY <2>1 DEF LoadRole, KeyAt
    <3>2. role # KeyRole(role) => LoadRaw(s0, KeyAt(o, KeyRole(role)), TypeOf(KeyRole(role))) = s0
      BY <1>41, <2>1 DEF LoadRaw
    <3> HIDE DEF loaded, s0, held
    <3>3. QED
      BY <3>1, <3>2
  <2>3. QED
    BY <2>1, <2>2 DEF LoadRaw
<1> HIDE DEF loaded, s0
\* An item under the key is the right one, so it is held.
<1>5. key \in DOMAIN store => store[key] = ItemOf(obj.index, role) /\ held
  <2>1. key \in DOMAIN store => store[key] = ItemOf(obj.index, role)
    BY <1>3, <1>4 DEF StreamInv, ItemsRight
  <2>2. ItemOf(obj.index, role).type = type
    BY DEF ItemOf
  <2>3. QED
    BY <2>1, <2>2 DEF Holds
<1>6. obj.loads # 1 => key \in DOMAIN store
  BY <1>1, <1>2, <1>3 DEF StreamInv, Present, FirstLoad
<1>7. obj.loads = 1 /\ ~held => item = ItemOf(obj.index, role)
  <2>1. SUFFICES ASSUME obj.loads = 1, ~held PROVE item = ItemOf(obj.index, role)
    OBVIOUS
  <2>2. CASE /\ loading.source.from = "cache" /\ loading.source.text = obj.index.text
             /\ Sampled(obj.v) => obj.index.rate = obj.prefix
    <3>1. Content(obj.index, role) = [name |-> key[2], rate |-> key[1], text |-> obj.index.text]
      BY <1>3, <1>4, <2>2, KeyFacts DEF KeyAt
    <3>2. item = [type |-> type,
                  value |-> [name |-> key[2], rate |-> key[1], text |-> obj.index.text]]
      BY <2>2 DEF NextItem
    <3>3. QED
      BY <3>1, <3>2 DEF ItemOf
  <2>3. CASE /\ loading.source.from = "stream" /\ obj.store = o
             /\ TokensRight(loading.source.tokens, obj.v, obj.index)
             /\ loading.source.read = loading.at - 1 + Skip(obj.v)
    <3>1. loading.source.read + 1 = loading.at + Skip(obj.v)
      BY <1>2, <1>4, <2>3 DEF Skip
    <3>2. /\ loading.at + Skip(obj.v) \in DOMAIN loading.source.tokens
          /\ loading.source.tokens[loading.at + Skip(obj.v)] = ItemOf(obj.index, role)
      BY <1>2, <2>3 DEF TokensRight, OrderOf
    <3>3. loading.source.from # "cache"
      BY <2>3
    <3>4. item = loading.source.tokens[loading.source.read + 1]
      BY <3>1, <3>2, <3>3 DEF NextItem
    <3>5. QED
      BY <3>1, <3>2, <3>4
  <2>4. QED
    BY <1>2, <2>1, <2>2, <2>3 DEF SourceRight
<1>8. Stores(o, role, key)
  <2>1. CASE held
    <3>1. key \in DOMAIN store /\ loaded.store = store
      BY <1>42, <2>1 DEF Holds
    <3>2. storage'[obj.store] = store /\ DOMAIN storage' = DOMAIN storage
          /\ \A x \in Objects \cup {Shared} : x # obj.store => storage'[x] = storage[x]
      BY <1>1, <1>3, <3>1
    <3>3. QED
      BY <1>5, <3>1, <3>2 DEF Stores
  <2>2. CASE ~held
    <3>1. key \notin DOMAIN store /\ obj.loads = 1
      BY <1>5, <1>6, <2>2
    <3>2. /\ storage' = [storage EXCEPT ![obj.store] = Override(Entry(key, item), store)]
          /\ item = ItemOf(obj.index, role)
      BY <1>1, <1>42, <1>7, <2>2, <3>1
    <3>3. storage'[obj.store] = Override(Entry(key, item), store) /\ DOMAIN storage' = DOMAIN storage
          /\ \A s \in Objects \cup {Shared} : s # obj.store => storage'[s] = storage[s]
      BY <1>3, <3>2
    <3> HIDE DEF item, store
    <3>4. /\ DOMAIN Override(Entry(key, item), store) = DOMAIN store \cup {key}
          /\ Override(Entry(key, item), store)[key] = item
          /\ \A other \in DOMAIN store : Override(Entry(key, item), store)[other] = store[other]
      BY <3>1 DEF Override, Entry
    <3>5. QED
      BY <3>2, <3>3, <3>4 DEF Stores, store
  <2>3. QED
    BY <2>1, <2>2
<1>9. Moves(o)
  <2>1. CASE loading.at = Len(OrderOf(o))
    BY <1>1, <2>1 DEF Moves, NoLoad
  <2>2. CASE loading.at # Len(OrderOf(o))
    <3>1. /\ loading'.on = TRUE /\ loading'.o = o /\ loading'.at = loading.at + 1
          /\ loading'.source = source
      BY <1>1, <1>42, <2>2
    <3>2. CASE obj.loads # 1
      BY <2>2, <3>1, <3>2 DEF Moves
    <3>3. CASE /\ loading.source.from = "cache" /\ loading.source.text = obj.index.text
               /\ Sampled(obj.v) => obj.index.rate = obj.prefix
      BY <2>2, <3>1, <3>3 DEF Moves
    <3>4. CASE /\ loading.source.from = "stream" /\ obj.store = o
               /\ TokensRight(loading.source.tokens, obj.v, obj.index)
               /\ loading.source.read = loading.at - 1 + Skip(obj.v)
               /\ \A i \in loading.at .. Len(OrderOf(o)) : KeyAt(o, OrderOf(o)[i]) \notin DOMAIN store
      <4>1. ~held
        BY <1>2, <1>4, <3>4 DEF Holds
      <4>2. /\ loading'.source.from = "stream" /\ loading'.source.tokens = loading.source.tokens
            /\ loading'.source.read = loading.source.read + 1
        BY <3>1, <3>4, <4>1
      <4>3. QED
        BY <2>2, <3>1, <3>4, <4>2 DEF Moves
    <3>5. QED
      BY <1>2, <3>2, <3>3, <3>4 DEF SourceRight
  <2>3. QED
    BY <2>1, <2>2
<1>10. QED
  BY <1>1, <1>2, <1>3, <1>4, <1>8, <1>9

\* One item of a load, from the storage, a file or a stream.
LEMMA LoadItemKeeps ==
  ASSUME StreamInv, LoadItem
  PROVE  StreamInv'
<1>0. PICK o : o = loading.o
  OBVIOUS
<1> DEFINE role == OrderOf(o)[loading.at]
           key == KeyAt(o, role)
           N == storage'[objs[o].store]
<1>1. /\ objs' = objs /\ streams' = streams /\ loading.on
      /\ IsLoaded(o) /\ loading.at \in 1..Len(OrderOf(o)) /\ role \in Items(objs[o].v)
      /\ objs[o].v \in Variants /\ objs[o].loads \in Nat \ {0}
      /\ objs[o].index.v = objs[o].v /\ objs[o].store \in Objects \cup {Shared}
      /\ Len(OrderOf(o)) \in Nat
      /\ Stores(o, role, key) /\ Moves(o)
  BY <1>0, LoadItemStep
<1>2. /\ DOMAIN storage' = DOMAIN storage /\ DOMAIN N = DOMAIN StoreOf(o) \cup {key}
      /\ \A other \in DOMAIN StoreOf(o) : N[other] = StoreOf(o)[other]
      /\ N[key] = ItemOf(objs[o].index, role)
      /\ \A s \in Objects \cup {Shared} : s # objs[o].store => storage'[s] = storage[s]
  BY <1>1 DEF Stores
<1>3. o \in DOMAIN objs /\ key = Key(objs[o].v, role, objs[o].prefix)
  BY <1>1 DEF IsLoaded, KeyAt
<1>4. \A x \in DOMAIN objs :
        /\ objs[x].v \in Variants /\ objs[x].store \in {x, Shared} /\ x \in Objects
        /\ objs[x].index.v = objs[x].v \/ objs[x].loads = 0
        /\ objs[x].loads \in Nat
  BY DEF StreamInv, ObjectsInv
<1>5. storage'[objs[o].store] = N
  OBVIOUS
<1> HIDE DEF N, key, role
\* The objects of the storage that is written are the loading one and those that share it.
<1>6. \A x \in DOMAIN objs :
        objs[x].store = objs[o].store /\ x # o => Sharing(x) /\ Sharing(o)
  BY <1>3, <1>4, IndexStreamAssumption DEF Sharing
<1>7. ObjectsInv'
  BY <1>1, <1>2 DEF StreamInv, ObjectsInv
<1>8. EmptyInv'
  BY <1>1, <1>2, <1>3 DEF StreamInv, EmptyInv
<1>9. ItemsRight'
  <2>1. ASSUME NEW x \in DOMAIN objs, NEW r \in Items(objs[x].v), objs[x].loads > 0,
               KeyAt(x, r) \in DOMAIN storage'[objs[x].store]
        PROVE  storage'[objs[x].store][KeyAt(x, r)] = ItemOf(objs[x].index, r)
    <3>1. CASE objs[x].store # objs[o].store
      <4>1. storage'[objs[x].store] = StoreOf(x)
        BY <1>2, <1>4, <3>1 DEF StoreOf
      <4>2. QED
        BY <2>1, <4>1 DEF StreamInv, ItemsRight
    <3>2. CASE objs[x].store = objs[o].store /\ KeyAt(x, r) # key
      <4>1. StoreOf(x) = StoreOf(o) /\ KeyAt(x, r) \in DOMAIN StoreOf(x)
        BY <1>2, <1>5, <2>1, <3>2 DEF StoreOf
      <4>2. QED
        BY <1>2, <1>5, <2>1, <3>2, <4>1 DEF StreamInv, ItemsRight
    <3>3. CASE objs[x].store = objs[o].store /\ KeyAt(x, r) = key /\ x = o
      <4>1. r = role
        BY <1>1, <1>3, <2>1, <3>3, KeysDiffer DEF KeyAt
      <4>2. QED
        BY <1>2, <1>5, <3>3, <4>1
    <3>4. CASE objs[x].store = objs[o].store /\ KeyAt(x, r) = key /\ x # o
      <4>1. Sharing(x) /\ Sharing(o) /\ IsLoaded(x)
        BY <1>6, <2>1, <3>4 DEF IsLoaded
      <4>2. /\ Family(objs[x].v) = Family(objs[o].v)
            /\ objs[x].index.text = objs[o].index.text
            /\ Sampled(objs[x].v) => objs[x].index.rate = objs[x].prefix
            /\ Sampled(objs[o].v) => objs[o].index.rate = objs[o].prefix
        BY <1>1, <1>3, <4>1 DEF StreamInv, SharedInv
      <4>3. Key(objs[x].v, r, objs[x].prefix) = Key(objs[o].v, role, objs[o].prefix)
        BY <1>3, <3>4 DEF KeyAt
      <4>4. r = role
        BY <1>1, <1>4, <2>1, <4>2, <4>3, KeysDiffer
      <4>5. objs[x].index.v = objs[x].v /\ objs[o].index.v = objs[o].v
        BY <1>1, <1>4, <2>1
      <4>6. Content(objs[x].index, r) = [name |-> key[2], rate |-> key[1],
                                         text |-> objs[x].index.text]
        BY <1>3, <1>4, <2>1, <4>2, <4>3, <4>5, KeyFacts
      <4>7. Content(objs[o].index, role) = [name |-> key[2], rate |-> key[1],
                                            text |-> objs[o].index.text]
        BY <1>1, <1>3, <4>2, <4>5, KeyFacts
      <4>8. ItemOf(objs[x].index, r) = ItemOf(objs[o].index, role)
        BY <4>2, <4>4, <4>6, <4>7 DEF ItemOf
      <4>9. QED
        BY <1>2, <1>5, <3>4, <4>8
    <3>5. QED
      BY <3>1, <3>2, <3>3, <3>4
  <2>2. QED
    BY <1>1, <2>1 DEF ItemsRight, KeyAt, StoreOf, ItemOf
<1>10. Present'
  <2>1. ASSUME NEW x \in DOMAIN objs, NEW i \in 1..Len(OrderOf(x)), objs[x].loads > 0,
               FirstLoad(x)' => i < loading'.at
        PROVE  KeyAt(x, OrderOf(x)[i]) \in DOMAIN storage'[objs[x].store]
    <3>1. DOMAIN StoreOf(x) \subseteq DOMAIN storage'[objs[x].store]
      <4>1. CASE objs[x].store = objs[o].store
        BY <1>2, <1>5, <4>1 DEF StoreOf
      <4>2. CASE objs[x].store # objs[o].store
        BY <1>2, <1>4, <4>2 DEF StoreOf
      <4>3. QED
        BY <4>1, <4>2
    <3>2. CASE FirstLoad(x) => i < loading.at
      BY <2>1, <3>1, <3>2 DEF StreamInv, Present
    <3>3. CASE FirstLoad(x) /\ ~(i < loading.at)
      <4>1. x = o /\ objs[o].loads = 1 /\ Len(OrderOf(o)) \in Nat
        BY <1>0, <1>1, <3>3 DEF FirstLoad
      <4>2. i = loading.at
        <5>1. CASE loading.at = Len(OrderOf(o))
          BY <1>1, <2>1, <3>3, <4>1, <5>1
        <5>2. CASE loading.at # Len(OrderOf(o))
          <6>1. loading'.on = TRUE /\ loading'.o = o /\ loading'.at = loading.at + 1
            BY <1>1, <5>2 DEF Moves
          <6>2. FirstLoad(x)'
            BY <1>1, <4>1, <6>1 DEF FirstLoad
          <6>3. QED
            BY <1>1, <2>1, <3>3, <4>1, <6>1, <6>2
        <5>3. QED
          BY <5>1, <5>2
      <4>3. KeyAt(x, OrderOf(x)[i]) = key
        BY <4>1, <4>2 DEF key, role
      <4>4. QED
        BY <1>2, <1>5, <4>1, <4>3
    <3>4. QED
      BY <3>2, <3>3
  <2>2. QED
    BY <1>1, <2>1 DEF Present, KeyAt, StoreOf, OrderOf
<1>11. SharedInv'
  <2>1. ASSUME NEW other \in DOMAIN storage'[Shared]
        PROVE  \E x \in DOMAIN objs :
                 /\ Sharing(x) /\ IsLoaded(x)
                 /\ storage'[Shared][other] =
                      [type  |-> TypeOf(RoleAt(Family(objs[x].v), other)),
                       value |-> [name |-> other[2], rate |-> other[1],
                                  text |-> objs[x].index.text]]
    <3>1. CASE other \in DOMAIN storage[Shared]
      <4>1. storage'[Shared][other] = storage[Shared][other]
        BY <1>2, <1>5, <3>1 DEF StoreOf
      <4>2. QED
        BY <3>1, <4>1 DEF StreamInv, SharedInv
    <3>2. CASE other \notin DOMAIN storage[Shared]
      <4>1. objs[o].store = Shared /\ other = key
        BY <1>2, <1>5, <2>1, <3>2 DEF StoreOf
      <4>2. Sharing(o) /\ IsLoaded(o)
        BY <1>1, <1>3, <4>1 DEF Sharing
      <4>3. Sampled(objs[o].v) => objs[o].index.rate = objs[o].prefix
        BY <1>3, <4>2 DEF StreamInv, SharedInv
      <4>4. /\ RoleAt(Family(objs[o].v), key) = role
            /\ Content(objs[o].index, role) =
                 [name |-> key[2], rate |-> key[1], text |-> objs[o].index.text]
        BY <1>1, <1>3, <4>3, KeyFacts
      <4>5. storage'[Shared][other] =
              [type  |-> TypeOf(RoleAt(Family(objs[o].v), other)),
               value |-> [name |-> other[2], rate |-> other[1], text |-> objs[o].index.text]]
        BY <1>2, <1>5, <4>1, <4>4 DEF ItemOf
      <4>6. QED
        BY <1>3, <4>2, <4>5
    <3>3. QED
      BY <3>1, <3>2
  <2>2. QED
    BY <1>1, <2>1 DEF StreamInv, SharedInv, Sharing, IsLoaded
<1>12. StreamsInv' /\ RateInv'
  BY <1>1 DEF StreamInv, StreamsInv, RateInv, TokensRight, ItemOf
<1>13. LoadingInv'
  <2>1. CASE loading.at = Len(OrderOf(o))
    BY <1>1, <2>1 DEF Moves, LoadingInv
  <2>2. CASE loading.at # Len(OrderOf(o))
    <3>1. loading'.on = TRUE /\ loading'.o = o /\ loading'.at = loading.at + 1
      BY <1>1, <2>2 DEF Moves
    <3>2. loading'.at \in 1..Len(OrderOf(o))
      BY <1>1, <2>2, <3>1
    <3>3. ASSUME objs[o].loads = 1
          PROVE  SourceRight(o)'
      <4>1. CASE /\ loading.source.from = "cache" /\ loading'.source = loading.source
                 /\ loading.source.text = objs[o].index.text
                 /\ Sampled(objs[o].v) => objs[o].index.rate = objs[o].prefix
        BY <1>1, <4>1 DEF SourceRight
      <4>2. CASE /\ loading'.source.from = "stream" /\ objs[o].store = o
                 /\ loading'.source.tokens = loading.source.tokens
                 /\ TokensRight(loading.source.tokens, objs[o].v, objs[o].index)
                 /\ loading.source.read = loading.at - 1 + Skip(objs[o].v)
                 /\ loading'.source.read = loading.source.read + 1
                 /\ \A i \in loading.at .. Len(OrderOf(o)) :
                      KeyAt(o, OrderOf(o)[i]) \notin DOMAIN StoreOf(o)
        <5>1. loading'.source.read = loading'.at - 1 + Skip(objs[o].v)
          BY <1>1, <3>1, <4>2 DEF Skip
        <5>2. ASSUME NEW i \in loading'.at .. Len(OrderOf(o))
              PROVE  KeyAt(o, OrderOf(o)[i]) \notin DOMAIN storage'[objs[o].store]
          <6>1. /\ i \in loading.at .. Len(OrderOf(o)) /\ i # loading.at
                /\ i \in 1..Len(OrderOf(o))
            BY <1>1, <3>1
          <6>2. OrderOf(o)[i] \in Items(objs[o].v) /\ OrderOf(o)[i] # role
            BY <1>1, <6>1, ClassFacts DEF OrderOf, role
          <6>3. KeyAt(o, OrderOf(o)[i]) # key
            BY <1>1, <1>3, <6>2, KeysDiffer DEF KeyAt
          <6>4. QED
            BY <1>2, <1>5, <4>2, <6>1, <6>3
        <5>3. QED
          BY <1>1, <4>2, <5>1, <5>2
             DEF SourceRight, KeyAt, OrderOf, StoreOf, TokensRight, ItemOf
      <4>3. QED
        BY <1>1, <2>2, <3>3, <4>1, <4>2 DEF Moves
    <3>4. QED
      BY <1>1, <3>1, <3>2, <3>3 DEF LoadingInv, IsLoaded, OrderOf
  <2>3. QED
    BY <2>1, <2>2
<1>14. QED
  BY <1>7, <1>8, <1>9, <1>10, <1>11, <1>12, <1>13 DEF StreamInv

\* serialize writes the items of the class, each at the place where it is read.
LEMMA SerializeKeeps ==
  ASSUME StreamInv, NEW o \in Objects, Serialize(o)
  PROVE  StreamInv'
<1> DEFINE v == objs[o].v
           order == WriteOrder(v)
           tokens == [i \in 1..Len(order) |-> Token(objs[o], order[i])]
           new == [v |-> v, index |-> objs[o].index, again |-> objs[o].again, tokens |-> tokens]
<1>1. /\ ~loading.on /\ o \in DOMAIN objs /\ objs[o].loads > 0
      /\ streams' = streams \cup {new} /\ objs' = objs /\ storage' = storage /\ loading' = loading
  BY DEF Serialize
<1>2. v \in Variants /\ objs[o].index.v = v /\ objs[o].again \in BOOLEAN
  BY <1>1 DEF StreamInv, ObjectsInv
<1>3. /\ Len(order) = Len(LoadOrder(v)) + Skip(v) /\ Len(LoadOrder(v)) \in Nat
      /\ \A i \in 1..Len(LoadOrder(v)) : order[i + Skip(v)] = LoadOrder(v)[i]
      /\ \A i \in 1..Len(LoadOrder(v)) :
           LoadOrder(v)[i] \in Items(v) /\ LoadOrder(v)[i] # "rate"
      /\ Skip(v) \in {0, 1} /\ (ReadsRate(v) => Skip(v) = 1 /\ order[1] = "rate")
  BY <1>2, ClassFacts
<1>4. new.v = v /\ new.index = objs[o].index /\ new.again = objs[o].again /\ new.tokens = tokens
  OBVIOUS
<1> HIDE DEF new, order
<1>5. TokensRight(tokens, v, objs[o].index)
  <2>1. ASSUME NEW i \in 1..Len(LoadOrder(v))
        PROVE  /\ i + Skip(v) \in DOMAIN tokens
               /\ tokens[i + Skip(v)] = ItemOf(objs[o].index, LoadOrder(v)[i])
    <3> DEFINE role == LoadOrder(v)[i]
               key == Key(v, role, objs[o].prefix)
               store == storage[objs[o].store]
    <3>1. i + Skip(v) \in 1..Len(order) /\ order[i + Skip(v)] = role
      BY <1>3
    <3>2. tokens[i + Skip(v)] = Token(objs[o], role)
      BY <3>1
    <3>3. key \in DOMAIN store
      BY <1>1 DEF StreamInv, Present, FirstLoad, KeyAt, StoreOf, OrderOf
    <3>4. store[key] = ItemOf(objs[o].index, role)
      BY <1>1, <1>3, <3>3 DEF StreamInv, ItemsRight, KeyAt, StoreOf
    <3>5. Holds(store, key, TypeOf(role))
      <4>1. ItemOf(objs[o].index, role).type = TypeOf(role)
        BY DEF ItemOf
      <4>2. QED
        BY <3>3, <3>4, <4>1 DEF Holds
    <3>6. Token(objs[o], role) = store[key]
      BY <1>3, <3>5 DEF Token
    <3>7. QED
      BY <3>1, <3>2, <3>4, <3>6
  <2>2. QED
    BY <2>1 DEF TokensRight
<1>6. ReadsRate(v) /\ ~objs[o].again => tokens[1].value.rate = objs[o].index.rate
  <2>1. SUFFICES ASSUME ReadsRate(v), ~objs[o].again
                 PROVE  tokens[1].value.rate = objs[o].index.rate
    OBVIOUS
  <2>2. tokens[1] = Token(objs[o], "rate")
    BY <1>3, <2>1
  <2>3. Token(objs[o], "rate").value.rate = objs[o].rate
    BY DEF Token
  <2>4. objs[o].rate = objs[o].index.rate
    BY <1>1, <2>1 DEF StreamInv, RateInv
  <2>5. QED
    BY <2>2, <2>3, <2>4
<1> HIDE DEF tokens, v
<1>7. StreamsInv'
  <2>1. ASSUME NEW s \in streams'
        PROVE  /\ s.v \in Variants /\ s.index.v = s.v /\ s.again \in BOOLEAN
               /\ TokensRight(s.tokens, s.v, s.index)
               /\ ReadsRate(s.v) /\ ~s.again => s.tokens[1].value.rate = s.index.rate
    <3>1. CASE s \in streams
      BY <3>1 DEF StreamInv, StreamsInv
    <3>2. CASE s = new
      BY <1>2, <1>4, <1>5, <1>6, <3>2
    <3>3. QED
      BY <1>1, <2>1, <3>1, <3>2
  <2>2. QED
    BY <2>1 DEF StreamsInv, TokensRight, ItemOf
<1>8. ObjectsInv' /\ EmptyInv' /\ RateInv'
  BY <1>1 DEF StreamInv, ObjectsInv, EmptyInv, RateInv
<1>9. ItemsRight' /\ Present'
  BY <1>1 DEF StreamInv, ItemsRight, Present, KeyAt, StoreOf, OrderOf, ItemOf, FirstLoad
<1>10. SharedInv'
  BY <1>1 DEF StreamInv, SharedInv, Sharing, IsLoaded
<1>11. LoadingInv'
  BY <1>1 DEF StreamInv, LoadingInv
<1>12. QED
  BY <1>7, <1>8, <1>9, <1>10, <1>11 DEF StreamInv

\* The invariant at a step of the process, whichever class, text and rate it uses.
LEMMA StreamStep ==
  ASSUME StreamInv, [Next]_vars
  PROVE  StreamInv'
<1>1. CASE \E o \in Objects, v \in Variants, k \in Rates \cup {1}, s \in Objects \cup {Shared} :
             Create(o, v, k, s)
  BY <1>1, CreateKeeps
<1>2. CASE \E o \in Objects, text \in Inputs : LoadConfig(o, text)
  BY <1>2, LoadConfigKeeps
<1>3. CASE LoadItem
  BY <1>3, LoadItemKeeps
<1>4. CASE \E o \in Objects : Serialize(o)
  BY <1>4, SerializeKeeps
<1>5. CASE \E o \in Objects, stream \in streams : LoadStream(o, stream)
  BY <1>5, LoadStreamKeeps
<1>6. CASE UNCHANGED vars
  <2>1. objs' = objs /\ storage' = storage /\ streams' = streams /\ loading' = loading
    BY <1>6 DEF vars
  <2>2. ObjectsInv' /\ EmptyInv' /\ RateInv'
    BY <2>1 DEF StreamInv, ObjectsInv, EmptyInv, RateInv
  <2>3. ItemsRight' /\ Present'
    BY <2>1 DEF StreamInv, ItemsRight, Present, KeyAt, StoreOf, OrderOf, ItemOf, FirstLoad
  <2>4. SharedInv' /\ StreamsInv'
    BY <2>1 DEF StreamInv, SharedInv, StreamsInv, Sharing, IsLoaded, TokensRight, ItemOf
  <2>5. LoadingInv'
    <3>1. loading.on => (SourceRight(loading.o)' <=> SourceRight(loading.o))
      BY <2>1 DEF SourceRight, KeyAt, StoreOf, OrderOf, TokensRight, ItemOf
    <3>2. loading.on => (IsLoaded(loading.o)' <=> IsLoaded(loading.o))
                        /\ OrderOf(loading.o)' = OrderOf(loading.o)
      BY <2>1 DEF IsLoaded, OrderOf
    <3>3. QED
      BY <2>1, <3>1, <3>2 DEF StreamInv, LoadingInv
  <2>6. QED
    BY <2>2, <2>3, <2>4, <2>5 DEF StreamInv
<1>7. QED
  BY <1>1, <1>2, <1>3, <1>4, <1>5, <1>6 DEF Next

-----------------------------------------------------------------------------
(* The result. *)

\* An object that has ended a load has the items of its class, each under its key.
LEMMA InvIsWhole == ASSUME StreamInv PROVE WholeIndex
<1>1. ASSUME NEW o \in DOMAIN objs, objs[o].loads > 0, loading.on => loading.o # o
      PROVE  /\ \A role \in Items(objs[o].v) :
                  storage[objs[o].store][Key(objs[o].v, role, objs[o].prefix)] =
                    [type |-> TypeOf(role), value |-> Content(objs[o].index, role)]
             /\ ~objs[o].again /\ ReadsRate(objs[o].v) => objs[o].rate = objs[o].index.rate
  <2>1. ASSUME NEW role \in Items(objs[o].v)
        PROVE  storage[objs[o].store][Key(objs[o].v, role, objs[o].prefix)] =
                 [type |-> TypeOf(role), value |-> Content(objs[o].index, role)]
    <3>1. PICK i \in 1..Len(OrderOf(o)) : OrderOf(o)[i] = role
      BY ClassFacts DEF OrderOf, StreamInv, ObjectsInv
    <3>2. KeyAt(o, role) \in DOMAIN StoreOf(o)
      BY <1>1, <3>1 DEF StreamInv, Present, FirstLoad
    <3>3. QED
      BY <1>1, <3>2 DEF StreamInv, ItemsRight, KeyAt, StoreOf, ItemOf
  <2>2. QED
    BY <1>1, <2>1 DEF StreamInv, RateInv
<1>2. QED
  BY <1>1 DEF WholeIndex

\* Whatever objects of whatever classes are created, loaded from files or streams
\* and serialized, in whatever order, an object that has ended a load has the items
\* of one index, all of them and no others, and its rate if it is to have it.
THEOREM IndexIsWhole == Spec => []WholeIndex
<1>1. Init => StreamInv
  BY StreamInit
<1>2. StreamInv /\ [Next]_vars => StreamInv'
  BY StreamStep
<1>3. StreamInv => WholeIndex
  BY InvIsWhole
<1>4. QED
  BY <1>1, <1>2, <1>3, PTL DEF Spec
=============================================================================
