----------------------------- MODULE IndexStream -----------------------------
(***************************************************************************)
(* Index objects, the storage they keep their items in, and the streams    *)
(* they are serialized to.  An item has a key in the storage and none in a *)
(* stream: load has to ask for the items in the order serialize wrote them *)
(* in, through the class hierarchy of each index.  An item the storage has *)
(* is not loaded again (index_base.h), which is what lets the indexes of a *)
(* benchmark share one storage.  The supports of an sd_vector write no     *)
(* bytes and are left out; the rank of a bit_vector has bytes of its own.  *)
(***************************************************************************)
EXTENDS Naturals, Sequences

CONSTANTS
  Variants,  \* The classes, as records [layout, kind]
  Rates,     \* The sub-sampling rates, as natural numbers
  Inputs,    \* The indexed texts
  Objects,   \* The index objects of a process
  Shared,    \* The storage that objects may share
  MaxLoads   \* Bound on the calls of load on one object

ASSUME IndexStreamAssumption ==
  /\ Variants \subseteq
       [layout : {"bwt", "position", "alphabet", "psi"}, kind : {"r", "sr", "vm", "va"}]
       \cup [layout : {"position"}, kind : {"raw"}]
  /\ Rates \subseteq Nat \ {0, 1}
  /\ Shared \notin Objects
  /\ MaxLoads \in Nat

VARIABLES
  objs,      \* the objects that exist
  storage,   \* storage_ of each object, and the shared one
  streams,   \* the streams written
  loading    \* the load that runs: its object, its next item, its source

vars == <<objs, storage, streams, loading>>

-----------------------------------------------------------------------------

Sampled(v) == v.kind \in {"sr", "vm", "va"}

\* What the class of v has, of what the classes of one family have.
ByKind(v, r, sr, vm, va) ==
  CASE v.kind = "r" -> r [] v.kind = "sr" -> sr [] v.kind = "vm" -> vm [] v.kind = "va" -> va

\* The types of the items.
TypeOf(role) ==
  CASE role = "alphabet" -> "alphabet"
    [] role = "navigate" -> "navigate"
    [] role \in {"marks", "samplesIdx"} -> "sdVector"
    [] role = "validMarks" -> "bitVector"
    [] role = "validMarksRank" -> "rank0"
    [] OTHER -> "iv"

\* The item whose key a role has: for the rank of a bit_vector, that of the vector.
KeyRole(role) == IF role = "validMarksRank" THEN "validMarks" ELSE role

(***************************************************************************)
(* setupKeyNames, class by class: each calls the one of its base class and *)
(* overrides or adds keys.  A sub-sampled class puts key_prefix_, its      *)
(* rate, before the keys it sets, but not before all.                      *)
(***************************************************************************)
Override(base, over) ==
  [x \in DOMAIN base \cup DOMAIN over |-> IF x \in DOMAIN over THEN over[x] ELSE base[x]]

Plain(name) == [name |-> name, prefixed |-> FALSE]
AtRate(name) == [name |-> name, prefixed |-> TRUE]

RIndexKeys ==
  [alphabet |-> Plain("alphabet"), navigate |-> Plain("bwtRle"), samples |-> Plain("lastText"),
   marks |-> Plain("firstText"), markToSample |-> Plain("firstToLast")]

SrIndexKeys ==
  Override(RIndexKeys,
    [samples |-> AtRate("lastText"), marks |-> AtRate("firstByLast"),
     markToSample |-> AtRate("firstToLast"), samplesIdx |-> AtRate("lastIdx")])

SrIndexValidMarkKeys == Override(SrIndexKeys, [validMarks |-> AtRate("firstValidMark")])

SrIndexValidAreaKeys == Override(SrIndexValidMarkKeys, [validAreas |-> AtRate("firstValidArea")])

RCSAWithBWTRunKeys ==
  [alphabet |-> Plain("alphabet"), navigate |-> Plain("psi"), samples |-> Plain("firstText"),
   marks |-> Plain("lastText"), markToSample |-> Plain("lastToFirst")]

\* A CSARaw names the suffix array where it reads and writes it.
CSARawKeys == Override(RCSAWithBWTRunKeys, [sa |-> Plain("sa")])

SrCSABaseKeys ==
  Override(RCSAWithBWTRunKeys,
    [samples |-> AtRate("firstText"), marks |-> AtRate("lastByFirst"),
     markToSample |-> AtRate("lastToFirst"), samplesIdx |-> AtRate("firstIdx")])

SrCSAKeys == Override(SrCSABaseKeys, [samplesIdx |-> AtRate("first")])

SrCSASlimKeys ==
  Override(SrCSABaseKeys,
    [samples |-> AtRate("firstTextAlpha"), marks |-> AtRate("lastByFirst"),
     markToSample |-> AtRate("lastToFirstAlpha"), samplesIdx |-> AtRate("firstIdxAlpha"),
     cumulative |-> Plain("bwtCumulative")])

\* These two extend SrCSA or SrCSASlim.
SrCSAValidMarkKeys(keys) == Override(keys, [validMarks |-> AtRate("lastValidMark")])

SrCSAValidAreaKeys(keys) == Override(SrCSAValidMarkKeys(keys), [validAreas |-> AtRate("lastValidArea")])

RCSAWithPsiRunKeys ==
  [alphabet |-> Plain("alphabet"), navigate |-> Plain("psi"), samples |-> Plain("psiFirstText"),
   marks |-> Plain("psiLastText"), markToSample |-> Plain("psiLink")]

SrCSAWithPsiRunKeys ==
  Override(RCSAWithPsiRunKeys,
    [samples |-> AtRate("psiFirstText"), marks |-> AtRate("psiLastText"),
     markToSample |-> AtRate("psiLink"), samplesIdx |-> AtRate("psiFirstIdx"),
     cumulative |-> Plain("psiCumulative")])

SRCSAValidMarkKeys == Override(SrCSAWithPsiRunKeys, [validMarks |-> AtRate("psiValidMark")])

SRCSAValidAreaKeys == Override(SRCSAValidMarkKeys, [validAreas |-> AtRate("psiValidArea")])

Keys(v) ==
  CASE v.kind = "raw" -> CSARawKeys
    [] v.layout = "bwt" ->
         ByKind(v, RIndexKeys, SrIndexKeys, SrIndexValidMarkKeys, SrIndexValidAreaKeys)
    [] v.layout = "position" /\ v.kind # "raw" ->
         ByKind(v, RCSAWithBWTRunKeys, SrCSAKeys,
                SrCSAValidMarkKeys(SrCSAKeys), SrCSAValidAreaKeys(SrCSAKeys))
    [] v.layout = "alphabet" ->
         ByKind(v, RCSAWithBWTRunKeys, SrCSASlimKeys,
                SrCSAValidMarkKeys(SrCSASlimKeys), SrCSAValidAreaKeys(SrCSASlimKeys))
    [] v.layout = "psi" ->
         ByKind(v, RCSAWithPsiRunKeys, SrCSAWithPsiRunKeys, SRCSAValidMarkKeys, SRCSAValidAreaKeys)

\* key(ItemKey), for an object whose key_prefix_ is that of a rate, or 0 if empty.
\* In a storage the key of a rank has "_rank" after it.
Key(v, role, prefix) ==
  LET key == Keys(v)[KeyRole(role)]
  IN <<IF key.prefixed THEN prefix ELSE 0, key.name, IF role = KeyRole(role) THEN "" ELSE "_rank">>

\* The item of a role in the index of a text at a rate.
Content(index, role) ==
  LET key == Keys(index.v)[KeyRole(role)]
  IN [name |-> key.name, rate |-> IF key.prefixed THEN index.rate ELSE 0, text |-> index.text]

-----------------------------------------------------------------------------

(***************************************************************************)
(* serialize, class by class: what the base class writes, then the items   *)
(* of the class.  The classes of sr_csa_psi.h do not write their rate.     *)
(***************************************************************************)
RIndexWrites == <<"alphabet", "navigate", "samples", "marks", "markToSample">>
SrIndexWrites == <<"rate">> \o RIndexWrites \o <<"samplesIdx">>
SrIndexValidMarkWrites == SrIndexWrites \o <<"validMarks">>
SrIndexValidAreaWrites == SrIndexValidMarkWrites \o <<"validMarksRank", "validAreas">>

RCSAWithBWTRunWrites == <<"alphabet", "navigate", "samples", "marks", "markToSample">>
CSARawWrites == <<"alphabet", "navigate", "sa">>
SrCSABaseWrites == <<"rate">> \o RCSAWithBWTRunWrites
SrCSAWrites == SrCSABaseWrites \o <<"samplesIdx">>
SrCSASlimWrites == SrCSABaseWrites \o <<"samplesIdx", "cumulative">>
SrCSAValidMarkWrites(base) == base \o <<"validMarks">>
SrCSAValidAreaWrites(base) == SrCSAValidMarkWrites(base) \o <<"validMarksRank", "validAreas">>

RCSAWithPsiRunWrites == <<"alphabet", "navigate", "samples", "marks", "markToSample">>
SrCSAWithPsiRunWrites == RCSAWithPsiRunWrites \o <<"samplesIdx", "cumulative">>
SRCSAValidMarkWrites == SrCSAWithPsiRunWrites \o <<"validMarks">>
SRCSAValidAreaWrites == SRCSAValidMarkWrites \o <<"validMarksRank", "validAreas">>

WriteOrder(v) ==
  CASE v.kind = "raw" -> CSARawWrites
    [] v.layout = "bwt" ->
         ByKind(v, RIndexWrites, SrIndexWrites, SrIndexValidMarkWrites, SrIndexValidAreaWrites)
    [] v.layout = "position" /\ v.kind # "raw" ->
         ByKind(v, RCSAWithBWTRunWrites, SrCSAWrites,
                SrCSAValidMarkWrites(SrCSAWrites), SrCSAValidAreaWrites(SrCSAWrites))
    [] v.layout = "alphabet" ->
         ByKind(v, RCSAWithBWTRunWrites, SrCSASlimWrites,
                SrCSAValidMarkWrites(SrCSASlimWrites), SrCSAValidAreaWrites(SrCSASlimWrites))
    [] v.layout = "psi" ->
         ByKind(v, RCSAWithPsiRunWrites, SrCSAWithPsiRunWrites,
                SRCSAValidMarkWrites, SRCSAValidAreaWrites)

(***************************************************************************)
(* loadAllItems, class by class.                                           *)
(***************************************************************************)
RIndexItems == <<"alphabet", "navigate", "samples", "marks", "markToSample">>
SrIndexItems == RIndexItems \o <<"samplesIdx">>
SrIndexValidMarkItems == SrIndexItems \o <<"validMarks">>

\* Faulty: the areas are loaded before the rank of the marks.
FaultySrIndexValidAreaItems == SrIndexValidMarkItems \o <<"validAreas", "validMarksRank">>

SrIndexValidAreaItems == SrIndexValidMarkItems \o <<"validMarksRank", "validAreas">>

RCSAWithBWTRunItems == <<"alphabet", "navigate", "samples", "marks", "markToSample">>
CSARawItems == <<"alphabet", "navigate", "sa">>
SrCSAItems == RCSAWithBWTRunItems \o <<"samplesIdx">>
SrCSASlimItems == RCSAWithBWTRunItems \o <<"samplesIdx", "cumulative">>
SrCSAValidMarkItems(base) == base \o <<"validMarks">>
SrCSAValidAreaItems(base) == SrCSAValidMarkItems(base) \o <<"validMarksRank", "validAreas">>

RCSAWithPsiRunItems == <<"alphabet", "navigate", "samples", "marks", "markToSample">>
SrCSAWithPsiRunItems == RCSAWithPsiRunItems \o <<"samplesIdx", "cumulative">>
SRCSAValidMarkItems == SrCSAWithPsiRunItems \o <<"validMarks">>
SRCSAValidAreaItems == SRCSAValidMarkItems \o <<"validMarksRank", "validAreas">>

LoadOrder(v) ==
  CASE v.kind = "raw" -> CSARawItems
    [] v.layout = "bwt" ->
         ByKind(v, RIndexItems, SrIndexItems, SrIndexValidMarkItems, SrIndexValidAreaItems)
    [] v.layout = "position" /\ v.kind # "raw" ->
         ByKind(v, RCSAWithBWTRunItems, SrCSAItems,
                SrCSAValidMarkItems(SrCSAItems), SrCSAValidAreaItems(SrCSAItems))
    [] v.layout = "alphabet" ->
         ByKind(v, RCSAWithBWTRunItems, SrCSASlimItems,
                SrCSAValidMarkItems(SrCSASlimItems), SrCSAValidAreaItems(SrCSASlimItems))
    [] v.layout = "psi" ->
         ByKind(v, RCSAWithPsiRunItems, SrCSAWithPsiRunItems,
                SRCSAValidMarkItems, SRCSAValidAreaItems)

\* load(istream) of the sub-sampled classes that read subsample_rate_ first.
ReadsRate(v) == Sampled(v) /\ v.layout # "psi"

Items(v) == {LoadOrder(v)[i] : i \in DOMAIN LoadOrder(v)}

-----------------------------------------------------------------------------

(***************************************************************************)
(* The storage.  get gives nothing for a key that holds an item of another *)
(* type, and set does not replace it.                                      *)
(***************************************************************************)
Entry(key, item) == [k \in {key} |-> item]

Holds(store, key, type) == key \in DOMAIN store /\ store[key].type = type

NoItem == [type |-> "none", value |-> [name |-> "none"]]

NoLoad == [on |-> FALSE]

Init ==
  /\ objs = <<>> /\ streams = {} /\ loading = NoLoad
  /\ storage = [s \in Objects \cup {Shared} |-> <<>>]

\* A constructor.  The default one leaves the rate 1 and the prefix empty.
\* A shared storage serves one family of classes, as in the benchmarks' factories.
Family(v) == IF v.layout = "bwt" THEN "sr-index" ELSE "sr-csa"

Create(o, v, k, store) ==
  /\ ~loading.on
  /\ o \notin DOMAIN objs
  /\ store \in {o, Shared}
  /\ store = Shared =>
       \A x \in DOMAIN objs : objs[x].store = Shared => Family(objs[x].v) = Family(v)
  /\ k > 1 => Sampled(v)
  /\ objs' = Override(objs, Entry(o,
       [v |-> v, rate |-> k, prefix |-> IF k > 1 THEN k ELSE 0,
        store |-> store, loads |-> 0, again |-> FALSE]))
  /\ UNCHANGED <<storage, streams, loading>>

\* The start of a load.  The first load says which index the object becomes;
\* "again" remembers a second one, of this object or on the way to its stream.
StartLoad(o, rate, index, again, source) ==
  /\ ~loading.on
  /\ o \in DOMAIN objs /\ objs[o].loads < MaxLoads
  /\ objs' = [objs EXCEPT ![o] =
       [v |-> @.v, rate |-> rate, prefix |-> @.prefix, store |-> @.store,
        loads |-> @.loads + 1, again |-> @.again \/ again \/ @.loads > 0,
        index |-> IF @.loads = 0 THEN index ELSE @.index]]
  /\ loading' = [on |-> TRUE, o |-> o, at |-> 1, source |-> source]
  /\ UNCHANGED <<storage, streams>>

\* load(config), on an object that knows the rate it was built for.  A shared
\* storage is used for one text.
LoadConfig(o, text) ==
  /\ o \in DOMAIN objs
  /\ Sampled(objs[o].v) => objs[o].prefix # 0
  /\ objs[o].store = Shared =>
       \A x \in DOMAIN objs :
         objs[x].store = Shared /\ objs[x].loads > 0 => objs[x].index.text = text
  /\ StartLoad(o, objs[o].rate, [v |-> objs[o].v, rate |-> objs[o].rate, text |-> text], FALSE,
               [from |-> "cache", text |-> text])

\* load(istream), on an object with a storage of its own.
LoadStream(o, stream) ==
  /\ o \in DOMAIN objs
  /\ objs[o].store = o /\ stream.v = objs[o].v
  /\ LET readsRate == ReadsRate(stream.v)
     IN StartLoad(o, IF readsRate THEN stream.tokens[1].value.rate ELSE objs[o].rate,
                  stream.index, stream.again,
                  [from |-> "stream", tokens |-> stream.tokens, read |-> IF readsRate THEN 1 ELSE 0])

\* What a source gives for a key: the file of that key and type in a cache, the
\* next item of a stream.
NextItem(source, key, type) ==
  IF source.from = "cache"
  THEN [type |-> type, value |-> [name |-> key[2], rate |-> key[1], text |-> source.text]]
  ELSE IF source.read + 1 \in DOMAIN source.tokens THEN source.tokens[source.read + 1] ELSE NoItem

\* A source, or the storage as it is, gives the item of a key.
LoadRaw(s, key, type) ==
  IF Holds(s.store, key, type) THEN s
  ELSE [store  |-> Override(Entry(key, NextItem(s.source, key, type)), s.store),
        source |-> IF s.source.from = "cache" THEN s.source
                   ELSE [from |-> "stream", tokens |-> s.source.tokens, read |-> s.source.read + 1]]

\* loadRawItem, or loadBVRank, which asks for the vector first if it has no rank.
LoadRole(s, obj, role) ==
  LET key == Key(obj.v, role, obj.prefix)
      vector == Key(obj.v, KeyRole(role), obj.prefix)
      ready == IF role = KeyRole(role) \/ Holds(s.store, key, TypeOf(role)) THEN s
               ELSE LoadRaw(s, vector, TypeOf(KeyRole(role)))
  IN LoadRaw(ready, key, TypeOf(role))

\* The next item of loadAllItems.
LoadItem ==
  LET obj == objs[loading.o]
      order == LoadOrder(obj.v)
      s == LoadRole([store |-> storage[obj.store], source |-> loading.source],
                    obj, order[loading.at])
  IN /\ loading.on
     /\ storage' = [storage EXCEPT ![obj.store] = s.store]
     /\ loading' = IF loading.at = Len(order) THEN NoLoad
                   ELSE [on |-> TRUE, o |-> loading.o, at |-> loading.at + 1, source |-> s.source]
     /\ UNCHANGED <<objs, streams>>

\* serialize: an item that the storage does not have is written empty.
Token(obj, role) ==
  IF role = "rate" THEN [type |-> "rate", value |-> [rate |-> obj.rate]]
  ELSE LET store == storage[obj.store]
           key == Key(obj.v, role, obj.prefix)
       IN IF Holds(store, key, TypeOf(role)) THEN store[key]
          ELSE [type |-> TypeOf(role), value |-> NoItem.value]

Serialize(o) ==
  /\ ~loading.on
  /\ o \in DOMAIN objs /\ objs[o].loads > 0
  /\ LET order == WriteOrder(objs[o].v)
     IN streams' = streams \cup
          {[v |-> objs[o].v, index |-> objs[o].index, again |-> objs[o].again,
            tokens |-> [i \in 1..Len(order) |-> Token(objs[o], order[i])]]}
  /\ UNCHANGED <<objs, storage, loading>>

Next ==
  \/ \E o \in Objects, v \in Variants, k \in Rates \cup {1}, s \in Objects \cup {Shared} :
       Create(o, v, k, s)
  \/ \E o \in Objects, text \in Inputs : LoadConfig(o, text)
  \/ LoadItem
  \/ \E o \in Objects : Serialize(o)
  \/ \E o \in Objects, stream \in streams : LoadStream(o, stream)

Spec == Init /\ [][Next]_vars

-----------------------------------------------------------------------------

\* However an object came by its items, from files or from a stream, through a
\* storage of its own or a shared one, at the first load or at a later one, they
\* are together those of one index, the first it was loaded with: never an item
\* of another role, another rate or another text.  Its rate is that index's too,
\* if its class saves it and no object on the way was loaded a second time, which
\* changes the rate and not the items.
WholeIndex ==
  \A o \in DOMAIN objs :
    LET obj == objs[o]
    IN obj.loads > 0 /\ (loading.on => loading.o # o) =>
         /\ \A role \in Items(obj.v) :
              storage[obj.store][Key(obj.v, role, obj.prefix)] =
                [type |-> TypeOf(role), value |-> Content(obj.index, role)]
         /\ ~obj.again /\ ReadsRate(obj.v) => obj.rate = obj.index.rate

=============================================================================
