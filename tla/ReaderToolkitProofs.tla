------------------------- MODULE ReaderToolkitProofs -------------------------
(***************************************************************************)
(* Theorems about the reader packages, for every set of database states    *)
(* and every lookup: the handles of a call nest, and a call gives out the  *)
(* answer of one state that was current during it.  The argument is        *)
(* GivenInOrder: after each step of the cursor the call has given out as   *)
(* many items as the cursor has left behind, in the order of the answer.   *)
(* It rests on ObKeysProofs: the order of the keys is the order of the     *)
(* items, and the keys with a relation's prefix lie together.              *)
(***************************************************************************)
EXTENDS ReaderToolkit, ObKeysProofs

(* A prefix, element by element.                                           *)
LEMMA PrefixByElement ==
  ASSUME NEW S, NEW s \in Seq(S), NEW t \in Seq(S)
  PROVE  IsPrefix(s, t) <=> Len(s) <= Len(t) /\ \A i \in 1..Len(s) : s[i] = t[i]
  <1>1. Len(s) \in Nat /\ Len(t) \in Nat
    BY LenProperties
  <1>2. ASSUME NEW q \in Seq(S), Len(s) <= Len(q)
        PROVE  /\ SubSeq(q, 1, Len(s)) \in Seq(S)
               /\ Len(SubSeq(q, 1, Len(s))) = Len(s)
               /\ \A i \in 1..Len(s) : SubSeq(q, 1, Len(s))[i] = q[i]
    <2>1. Len(q) \in Nat
      BY LenProperties
    <2>2. \A i \in 1..Len(s) : i \in 1..Len(q)
      BY <1>1, <1>2, <2>1
    <2> QED BY <1>1, <1>2, <2>1, <2>2, SubSeqProperties
  <1>3. ASSUME Len(s) <= Len(t), \A i \in 1..Len(s) : s[i] = t[i]
        PROVE  SubSeq(s, 1, Len(s)) = SubSeq(t, 1, Len(s))
    <2>1. /\ SubSeq(s, 1, Len(s)) \in Seq(S) /\ Len(SubSeq(s, 1, Len(s))) = Len(s)
          /\ \A i \in 1..Len(s) : SubSeq(s, 1, Len(s))[i] = s[i]
      BY <1>1, <1>2
    <2>2. /\ SubSeq(t, 1, Len(s)) \in Seq(S) /\ Len(SubSeq(t, 1, Len(s))) = Len(s)
          /\ \A i \in 1..Len(s) : SubSeq(t, 1, Len(s))[i] = t[i]
      BY <1>2, <1>3
    <2> QED BY <1>3, <2>1, <2>2, SeqEqual
  <1>4. ASSUME Len(s) <= Len(t), SubSeq(s, 1, Len(s)) = SubSeq(t, 1, Len(s)), NEW i \in 1..Len(s)
        PROVE  s[i] = t[i]
    <2>1. Len(s) <= Len(s)
      BY <1>1
    <2> QED BY <1>2, <1>4, <2>1
  <1> QED BY <1>3, <1>4 DEF IsPrefix
LEMMA EmptyPrefix ==
  ASSUME NEW S, NEW t \in Seq(S)
  PROVE  IsPrefix(<<>>, t)
  <1> DEFINE s == <<>>
  <1>1. s \in Seq(S) /\ Len(s) = 0 /\ Len(t) \in Nat
    BY EmptySeq, LenProperties
  <1> HIDE DEF s
  <1>2. Len(s) <= Len(t) /\ \A i \in 1..Len(s) : s[i] = t[i]
    BY <1>1
  <1>3. IsPrefix(s, t)
    BY <1>1, <1>2, PrefixByElement
  <1> QED BY <1>3 DEF s

-----------------------------------------------------------------------------
(* What a cursor on the key k gives out, if anything. *)
Wanted(k) == IF call.fn = "records" THEN IsDataKey(k) ELSE IsLink(k)
ItemAt(d, k) ==
  IF call.fn = "records"
  THEN [entity |-> EntityId(k), id |-> ObjectId(k), body |-> BodyAt(d, k)]
  ELSE readUint32BE(k, 9)

(* The order of the items is the order of their keys. *)
KeyBefore(S) == {p \in S \X S : KeyLess(KeyOf(p[1]), KeyOf(p[2]))}

(* What a call may be: one of records, or of the targets of a lookup.      *)
LEMMA CallKinds ==
  ASSUME call \in Calls
  PROVE  \/ call.fn = "records"
         \/ /\ call.fn = "targets"
            /\ call.lookup.relation \in ShortIds /\ call.lookup.source \in UInt32
  BY LookupsAssumption DEF Calls

(* The objects of a database, by their keys.                               *)
LEMMA RecordKeys ==
  ASSUME NEW d \in Databases, call.fn = "records"
  PROVE  /\ \A o \in d.objects : /\ o \in Records
                                 /\ KeyOf(o) \in KeysOf[d] /\ KeyOf(o) \in Seq(Nat)
                                 /\ Wanted(KeyOf(o)) /\ ItemAt(d, KeyOf(o)) = o
         /\ \A k \in KeysOf[d] : Wanted(k) => \E o \in d.objects : k = KeyOf(o)
         /\ \A o, p \in d.objects : /\ KeyOf(o) = KeyOf(p) => o = p
                                    /\ KeyLess(KeyOf(o), KeyOf(p)) <=> RecordLess(o, p)
  <1>1. IsDatabase(d) /\ d.objects \subseteq Records
    BY DatabasesAssumption DEF IsDatabase, Records
  <1>2. ASSUME NEW o \in d.objects
        PROVE  /\ o.entity \in ShortIds /\ o.id \in UInt32
               /\ KeyOf(o) = DataKey(o.entity, o.id)
               /\ IsDataKey(KeyOf(o)) /\ EntityId(KeyOf(o)) = o.entity /\ ObjectId(KeyOf(o)) = o.id
    <2>1. o.entity \in ShortIds /\ o.id \in UInt32
      BY <1>1 DEF Records
    <2> QED BY <2>1, KeysKeepIds DEF KeyOf, KeyKeepsIds
  <1>3. ASSUME NEW o \in d.objects, NEW p \in d.objects
        PROVE  /\ KeyOf(o) = KeyOf(p) => o = p
               /\ KeyLess(KeyOf(o), KeyOf(p)) <=> RecordLess(o, p)
    <2>1. KeyOf(o) = KeyOf(p) => o = p
      BY <1>1, <1>2 DEF IsDatabase
    <2>2. KeysFollowIds(o.entity, o.id, p.entity, p.id)
      BY <1>2, KeyOrder
    <2> QED BY <1>2, <2>1, <2>2 DEF KeysFollowIds, RecordLess
  <1>4. ASSUME NEW o \in d.objects
        PROVE  ItemAt(d, KeyOf(o)) = o
    <2>1. BodyAt(d, KeyOf(o)) = o.body
      <3>1. \A p \in d.objects : DataKey(p.entity, p.id) = KeyOf(o) => p = o
        BY <1>2, <1>3
      <3>2. DataKey(o.entity, o.id) = KeyOf(o)
        BY <1>2
      <3> QED BY <3>1, <3>2 DEF BodyAt
    <2>2. ItemAt(d, KeyOf(o)) = [entity |-> o.entity, id |-> o.id, body |-> o.body]
      BY <1>2, <2>1 DEF ItemAt
    <2> QED BY <1>1, <2>2 DEF Records
  <1>5. ASSUME NEW o \in d.objects
        PROVE  KeyOf(o) \in KeysOf[d] /\ KeyOf(o) \in Seq(Nat)
    <2>1. KeyOf(o) \in Image(d)
      BY <1>2 DEF Image, DataKeys
    <2> QED BY <1>1, <2>1, ImageKeys DEF KeysOf
  <1>6. ASSUME NEW k \in KeysOf[d], IsDataKey(k)
        PROVE  \E o \in d.objects : k = KeyOf(o)
    <2>1. k \in Image(d)
      BY DEF KeysOf
    <2> QED BY <1>1, <1>2, <1>6, <2>1, ImageKeys
  <1> QED BY <1>1, <1>2, <1>3, <1>4, <1>5, <1>6 DEF Wanted

(* A key comes after its proper prefixes.                                  *)
LEMMA PrefixFirst ==
  ASSUME NEW p \in Seq(Nat), NEW k \in Seq(Nat), HasPrefix(k, p), Len(p) < Len(k)
  PROVE  KeyLess(p, k)
  <1>1. Len(p) \in Nat /\ Len(k) \in Nat
    BY LenProperties
  <1> DEFINE i == Len(p) + 1
  <1>2. i \in 1..Len(k) /\ i <= Len(p) + 1 /\ ~(i <= Len(p))
    BY <1>1
  <1>3. \A j \in 1..(i - 1) : p[j] = k[j]
    BY <1>1 DEF HasPrefix
  <1> HIDE DEF i
  <1> QED BY <1>2, <1>3, Zenon DEF KeyLess

(* The targets of the lookup, by the keys of their links, and where the    *)
(* walk of them begins.                                                    *)
LEMMA TargetKeys ==
  ASSUME NEW d \in Databases, call \in Calls, call.fn = "targets"
  PROVE  /\ \A x \in Targets(d) : /\ x \in UInt32
                                  /\ KeyOf(x) \in KeysOf[d] /\ KeyOf(x) \in Seq(Nat)
                                  /\ Wanted(KeyOf(x)) /\ ItemAt(d, KeyOf(x)) = x
         /\ \A k \in KeysOf[d] : HasPrefix(k, Prefix) =>
              Wanted(k) /\ \E x \in Targets(d) : k = KeyOf(x)
         /\ \A x, y \in Targets(d) : /\ KeyOf(x) = KeyOf(y) => x = y
                                     /\ KeyLess(KeyOf(x), KeyOf(y)) <=> x < y
         /\ \A x \in Targets(d) : HasPrefix(KeyOf(x), Prefix)
                                  /\ (SeekKey = KeyOf(x) \/ KeyLess(SeekKey, KeyOf(x)))
         /\ Prefix \in Seq(Nat) /\ SeekKey \in Seq(Nat) /\ HasPrefix(SeekKey, Prefix)
  <1> DEFINE r == call.lookup.relation
             s == call.lookup.source
  <1>1. r \in ShortIds /\ s \in UInt32 /\ IsDatabase(d)
    BY CallKinds, DatabasesAssumption
  <1>2. kRelationDirectionForward = 0 /\ 0 \in UInt32
    BY DEF kRelationDirectionForward, UInt32
  <1>3. /\ Prefix = RelationPrefix(r, 0, s) /\ KeysOf[d] = Image(d)
        /\ \A x : KeyOf(x) = RelationKey(r, 0, s, x)
    BY <1>2 DEF Prefix, KeyOf, KeysOf
  <1> HIDE DEF r, s
  <1>4. ASSUME NEW t \in UInt32
        PROVE  /\ RelationKey(r, 0, s, t) \in Seq(Nat) /\ Len(RelationKey(r, 0, s, t)) = 12
               /\ readUint32BE(RelationKey(r, 0, s, t), 9) = t
               /\ Prefix \in Seq(Nat) /\ Len(Prefix) = 8
               /\ HasPrefix(RelationKey(r, 0, s, t), Prefix)
    <2>1. PICK a, b, c, e, f, g, h, i \in Byte : LinkCodedBy(r, 0, s, t, a, b, c, e, f, g, h, i)
      BY <1>1, LinkKeyShape
    <2> DEFINE p == <<8, 0, 0, r * 4 + 0, a, b, c, e>>
               k == <<8, 0, 0, r * 4 + 0, a, b, c, e, f, g, h, i>>
    <2>2. Prefix = p /\ RelationKey(r, 0, s, t) = k
      BY <1>3, <2>1 DEF LinkCodedBy
    <2>3. p \in Seq(Nat) /\ Len(p) = 8 /\ Len(k) = 12 /\ \A j \in 1..8 : k[j] = p[j]
      BY <1>1 DEF Byte, ShortIds
    <2>4. HasPrefix(k, p)
      <3> HIDE DEF p, k
      <3> QED BY <2>3 DEF HasPrefix
    <2>5. /\ RelationKey(r, 0, s, t) \in Seq(Nat) /\ Len(RelationKey(r, 0, s, t)) = 12
          /\ readUint32BE(RelationKey(r, 0, s, t), 9) = t
      BY <1>1, LinkOrder
    <2> HIDE DEF p, k
    <2> QED BY <2>2, <2>3, <2>4, <2>5
  <1>5. \A x \in Targets(d) : x \in UInt32
    BY <1>1 DEF Targets, IsDatabase
  <1>6. \A k \in Image(d) : HasPrefix(k, Prefix) <=>
          \E l \in d.links : l.relation = r /\ l.source = s /\ k = RelationKey(r, 0, s, l.target)
    BY <1>1, <1>2, <1>3, LinksByPrefix
  <1>7. ASSUME NEW k \in KeysOf[d], HasPrefix(k, Prefix)
        PROVE  Wanted(k) /\ \E x \in Targets(d) : k = KeyOf(x)
    <2>1. PICK l \in d.links : l.relation = r /\ l.source = s /\ k = RelationKey(r, 0, s, l.target)
      BY <1>3, <1>6, <1>7
    <2>2. l.target \in Targets(d)
      BY <2>1 DEF Targets, r, s
    <2>3. Len(k) = 12
      BY <1>4, <1>5, <2>1, <2>2
    <2> QED BY <1>3, <1>7, <2>1, <2>2, <2>3 DEF Wanted, IsLink
  <1>8. ASSUME NEW x \in Targets(d)
        PROVE  KeyOf(x) \in KeysOf[d]
    <2>1. PICK l \in d.links : l.relation = r /\ l.source = s /\ x = l.target
      BY DEF Targets, r, s
    <2> QED BY <1>2, <1>3, <2>1 DEF Image, LinkKeys
  <1>9. ASSUME NEW x \in Targets(d)
        PROVE  Wanted(KeyOf(x)) /\ ItemAt(d, KeyOf(x)) = x
    <2>1. Wanted(KeyOf(x))
      BY <1>3, <1>4, <1>5, <1>7, <1>8
    <2>2. ItemAt(d, KeyOf(x)) = x
      BY <1>3, <1>4, <1>5 DEF ItemAt
    <2> QED BY <2>1, <2>2
  <1>10. ASSUME NEW x \in Targets(d), NEW y \in Targets(d)
         PROVE  /\ KeyOf(x) = KeyOf(y) => x = y
                /\ KeyLess(KeyOf(x), KeyOf(y)) <=> x < y
    BY <1>1, <1>3, <1>4, <1>5, LinkOrder
  <1>11. SeekKey = RelationKey(r, 0, s, 0) \/ SeekKey = Prefix
    BY <1>2 DEF SeekKey, RelationKey, Prefix, r, s
  <1>12. HasPrefix(Prefix, Prefix)
    BY <1>2, <1>4 DEF HasPrefix
  <1>13. SeekKey \in Seq(Nat) /\ HasPrefix(SeekKey, Prefix)
    BY <1>2, <1>4, <1>11, <1>12
  <1>14. ASSUME NEW x \in Targets(d)
         PROVE  SeekKey = KeyOf(x) \/ KeyLess(SeekKey, KeyOf(x))
    <2>1. CASE SeekKey = Prefix
      <3>1. /\ Prefix \in Seq(Nat) /\ KeyOf(x) \in Seq(Nat) /\ HasPrefix(KeyOf(x), Prefix)
            /\ Len(Prefix) = 8 /\ Len(KeyOf(x)) = 12
        BY <1>3, <1>4, <1>5
      <3>2. Len(Prefix) < Len(KeyOf(x))
        BY <3>1
      <3> QED BY <2>1, <3>1, <3>2, PrefixFirst
    <2>2. CASE SeekKey = RelationKey(r, 0, s, 0)
      <3>1. x = 0 \/ 0 < x
        BY <1>5 DEF UInt32
      <3> QED BY <1>1, <1>2, <1>3, <1>5, <2>2, <3>1, LinkOrder
    <2> QED BY <1>11, <2>1, <2>2
  <1> QED BY <1>2, <1>3, <1>4, <1>5, <1>7, <1>8, <1>9, <1>10, <1>13, <1>14
-----------------------------------------------------------------------------
(* The items of a database lie in the order of their keys, and an item is  *)
(* in the answer at the place of its rank.                                 *)
LEMMA ItemsOrdered ==
  ASSUME NEW d \in Databases, call \in Calls
  PROVE  /\ IsFiniteSet(Items(d))
         /\ \A x \in Items(d) : /\ KeyOf(x) \in KeysOf[d] /\ KeyOf(x) \in Seq(Nat)
                                /\ Wanted(KeyOf(x)) /\ ItemAt(d, KeyOf(x)) = x
         /\ \A x, y \in Items(d) : KeyOf(x) = KeyOf(y) => x = y
         /\ Orders(KeyBefore(Items(d)), Items(d))
  <1>1. IsDatabase(d)
    BY DatabasesAssumption
  <1>2. CASE call.fn = "records"
    <2>1. Items(d) = d.objects
      BY <1>2 DEF Items
    <2>2. IsFiniteSet(Items(d))
      BY <1>1, <2>1 DEF IsDatabase
    <2>3. Orders(KeyBefore(Items(d)), Items(d))
      <3>1. ASSUME NEW x \in Items(d)
            PROVE  x.entity \in Nat /\ x.id \in Nat
        <4>1. x.entity \in ShortIds /\ x.id \in UInt32
          BY <1>1, <2>1 DEF IsDatabase
        <4> QED BY <4>1, SMT DEF ShortIds, UInt32
      <3>2. \A x, y \in Items(d) : <<x, y>> \in KeyBefore(Items(d)) <=> RecordLess(x, y)
        BY <1>2, <2>1, RecordKeys DEF KeyBefore
      <3>3. \A x, y \in Items(d) : x.entity = y.entity /\ x.id = y.id => x = y
        BY <1>1, <2>1 DEF IsDatabase
      <3>4. \A x \in Items(d) : ~RecordLess(x, x)
        BY <3>1 DEF RecordLess
      <3>5. \A x, y, z \in Items(d) : RecordLess(x, y) /\ RecordLess(y, z) => RecordLess(x, z)
        BY <3>1 DEF RecordLess
      <3>6. \A x, y \in Items(d) : x = y \/ RecordLess(x, y) \/ RecordLess(y, x)
        BY <3>1, <3>3 DEF RecordLess
      <3> QED BY <3>2, <3>4, <3>5, <3>6 DEF Orders
    <2> QED BY <1>2, <2>1, <2>2, <2>3, RecordKeys
  <1>3. CASE call.fn = "targets"
    <2>1. Items(d) = Targets(d)
      BY <1>3 DEF Items
    <2>2. IsFiniteSet(Items(d))
      <3> DEFINE links == {m \in d.links : m.relation = call.lookup.relation
                                            /\ m.source = call.lookup.source}
      <3>1. IsFiniteSet(links)
        <4>1. links \in SUBSET d.links /\ IsFiniteSet(d.links)
          BY <1>1 DEF IsDatabase
        <4> QED BY <4>1, FS_Subset
      <3>2. Targets(d) = {l.target : l \in links}
        BY DEF Targets
      <3> HIDE DEF links
      <3>3. IsFiniteSet({l.target : l \in links})
        <4> DEFINE T == {l.target : l \in links}
                   f == [l \in links |-> l.target]
        <4>1. f \in Surjection(links, T)
          BY DEF Surjection
        <4> HIDE DEF T, f
        <4>2. IsFiniteSet(T)
          BY <3>1, <4>1, FS_Surjection
        <4> QED BY <4>2 DEF T
      <3> QED BY <2>1, <3>2, <3>3
    <2>3. Orders(KeyBefore(Items(d)), Items(d))
      <3>1. \A x \in Items(d) : x \in Nat
        BY <1>3, <2>1, TargetKeys, SMT DEF UInt32
      <3>2. \A x, y \in Items(d) : <<x, y>> \in KeyBefore(Items(d)) <=> x < y
        BY <1>3, <2>1, TargetKeys DEF KeyBefore
      <3>3. \A x, y, z \in Items(d) : /\ ~(x < x)
                                      /\ x < y /\ y < z => x < z
                                      /\ x = y \/ x < y \/ y < x
        BY <3>1
      <3> QED BY <3>2, <3>3 DEF Orders
    <2> QED BY <1>3, <2>1, <2>2, <2>3, TargetKeys
  <1> QED BY <1>2, <1>3, CallKinds

LEMMA AnswerByRank ==
  ASSUME NEW d \in Databases, call \in Calls, NEW x \in Items(d)
  PROVE  LET n == Rank(KeyBefore(Items(d)), Items(d), x)
         IN  n \in Nat /\ n < Cardinality(Items(d)) /\ Answer(d)[n + 1] = x
  <1> DEFINE S == Items(d)
             R == KeyBefore(S)
             n == Rank(R, S, x)
  <1>1. IsFiniteSet(S) /\ Orders(R, S)
    BY ItemsOrdered
  <1>2. n \in Nat /\ n < Cardinality(S) /\ Cardinality(S) \in Nat
    BY <1>1, RankInside, FS_CardinalityType
  <1>3. \A y \in S : Rank(R, S, y) = n <=> y = x
    BY <1>1, RankTells
  <1>4. n + 1 \in 1..Cardinality(S) /\ (n + 1) - 1 = n
    BY <1>2
  <1>5. CASE call.fn = "records"
    <2>1. S = d.objects /\ \A y, z \in S : <<z, y>> \in R <=> RecordLess(z, y)
      BY <1>5, RecordKeys DEF Items, KeyBefore
    <2>2. Answer(d) = [i \in 1..Cardinality(S) |->
                         CHOOSE y \in S : Cardinality({z \in S : RecordLess(z, y)}) = i - 1]
      BY <1>5, <2>1 DEF Answer, Ascending
    <2>3. \A y \in S : {z \in S : RecordLess(z, y)} = Below(R, S, y)
      BY <2>1 DEF Below
    <2>4. \A y \in S : Cardinality({z \in S : RecordLess(z, y)}) = Rank(R, S, y)
      BY <2>3 DEF Rank
    <2> HIDE DEF n, R, S
    <2>5. Answer(d)[n + 1] = CHOOSE y \in S : Cardinality({z \in S : RecordLess(z, y)}) = (n + 1) - 1
      BY <1>4, <2>2
    <2>6. \A y \in S : Cardinality({z \in S : RecordLess(z, y)}) = (n + 1) - 1 <=> y = x
      BY <1>3, <1>4, <2>4
    <2> QED BY <1>2, <2>5, <2>6 DEF n, R, S
  <1>6. CASE call.fn = "targets"
    <2>1. S = Targets(d) /\ \A y, z \in S : <<z, y>> \in R <=> z < y
      BY <1>6, TargetKeys DEF Items, KeyBefore
    <2>2. Answer(d) = [i \in 1..Cardinality(S) |->
                         CHOOSE y \in S : Cardinality({z \in S : z < y}) = i - 1]
      BY <1>6, <2>1 DEF Answer, Ascending
    <2>3. \A y \in S : {z \in S : z < y} = Below(R, S, y)
      BY <2>1 DEF Below
    <2>4. \A y \in S : Cardinality({z \in S : z < y}) = Rank(R, S, y)
      BY <2>3 DEF Rank
    <2> HIDE DEF n, R, S
    <2>5. Answer(d)[n + 1] = CHOOSE y \in S : Cardinality({z \in S : z < y}) = (n + 1) - 1
      BY <1>4, <2>2
    <2>6. \A y \in S : Cardinality({z \in S : z < y}) = (n + 1) - 1 <=> y = x
      BY <1>3, <1>4, <2>4
    <2> QED BY <1>2, <2>5, <2>6 DEF n, R, S
  <1> QED BY <1>5, <1>6, CallKinds

(* The answer is a sequence of the items, each of them once.               *)
LEMMA AnswerIsSeq ==
  ASSUME NEW d \in Databases, call \in Calls
  PROVE  /\ Answer(d) \in Seq(Items(d)) /\ Len(Answer(d)) = Cardinality(Items(d))
         /\ Cardinality(Items(d)) \in Nat
  <1> DEFINE S == Items(d)
             R == KeyBefore(S)
             N == Cardinality(S)
  <1>1. IsFiniteSet(S) /\ Orders(R, S) /\ N \in Nat
    BY ItemsOrdered, FS_CardinalityType
  <1>2. DOMAIN Answer(d) = 1..N /\ Answer(d) = [i \in 1..N |-> Answer(d)[i]]
    <2>1. CASE call.fn = "records"
      <3>1. Answer(d) = [i \in 1..N |-> CHOOSE y \in S : Cardinality({z \in S : RecordLess(z, y)}) = i - 1]
        BY <2>1 DEF Answer, Ascending, Items
      <3> HIDE DEF S, R, N
      <3> QED BY <3>1
    <2>2. CASE call.fn = "targets"
      <3>1. Answer(d) = [i \in 1..N |-> CHOOSE y \in S : Cardinality({z \in S : z < y}) = i - 1]
        BY <2>2 DEF Answer, Ascending, Items
      <3> HIDE DEF S, R, N
      <3> QED BY <3>1
    <2> QED BY <2>1, <2>2, CallKinds
  <1>3. ASSUME NEW i \in 1..N PROVE Answer(d)[i] \in S
    <2>1. i - 1 \in Nat /\ i - 1 < N /\ (i - 1) + 1 = i
      BY <1>1
    <2>2. PICK x \in S : Rank(R, S, x) = i - 1
      BY <1>1, <2>1, RankTaken
    <2> QED BY <2>1, <2>2, AnswerByRank
  <1> HIDE DEF S, R, N
  <1>4. Answer(d) \in Seq(S) /\ Len(Answer(d)) = N
    BY <1>1, <1>2, <1>3
  <1> QED BY <1>1, <1>4 DEF S, N

-----------------------------------------------------------------------------
(* One step of the cursor. *)

(* The items before the key k, and those up to it.                         *)
Passed(d, k) == {x \in Items(d) : k = NotFound \/ KeyLess(KeyOf(x), k)}
Through(d, k) == {x \in Items(d) : KeyOf(x) = k \/ KeyLess(KeyOf(x), k)}

LEMMA KeysAreBytes ==
  ASSUME NEW d \in Databases, NEW k \in KeysOf[d]
  PROVE  k \in Seq(Nat) /\ k # NotFound
  BY DatabasesAssumption, ImageKeys, KeysNotEmpty DEF KeysOf, NotFound

(* The first key found leaves no item behind, if all were looked for.      *)
LEMMA FirstLanding ==
  ASSUME NEW d \in Databases, call \in Calls, NEW K, K \subseteq KeysOf[d], NEW k,
         CursorLands(K, k), \A x \in Items(d) : KeyOf(x) \in K
  PROVE  Passed(d, k) = {}
  <1>1. CASE K = {}
    BY <1>1 DEF Passed
  <1>2. CASE k \in K
    <2>1. k \in Seq(Nat) /\ k # NotFound
      BY <1>2, KeysAreBytes
    <2>2. ASSUME NEW x \in Items(d) PROVE ~KeyLess(KeyOf(x), k)
      <3>1. KeyOf(x) \in Seq(Nat) /\ KeyOf(x) \in K
        BY ItemsOrdered
      <3>2. KeyOf(x) = k \/ KeyLess(k, KeyOf(x))
        BY <1>2, <2>1, <3>1 DEF CursorLands
      <3> QED BY <2>1, <3>1, <3>2, KeyLessIrreflexive, KeyLessTransitive
    <2> QED BY <2>1, <2>2 DEF Passed
  <1> QED BY <1>1, <1>2 DEF CursorLands

(* A step from the key c leaves behind the items up to c, and no other.    *)
LEMMA NextLanding ==
  ASSUME NEW d \in Databases, call \in Calls, NEW c \in KeysOf[d], NEW k,
         CursorLands({j \in KeysOf[d] : KeyLess(c, j)}, k)
  PROVE  Passed(d, k) = Through(d, c)
  <1> DEFINE K == {j \in KeysOf[d] : KeyLess(c, j)}
  <1>1. c \in Seq(Nat)
    BY KeysAreBytes
  <1>2. ASSUME NEW x \in Items(d)
        PROVE  /\ KeyOf(x) \in KeysOf[d] /\ KeyOf(x) \in Seq(Nat)
               /\ KeyOf(x) = c \/ KeyLess(KeyOf(x), c) \/ KeyOf(x) \in K
               /\ KeyOf(x) \in K => ~(KeyOf(x) = c \/ KeyLess(KeyOf(x), c))
    <2>1. KeyOf(x) \in KeysOf[d] /\ KeyOf(x) \in Seq(Nat)
      BY ItemsOrdered
    <2>2. KeyOf(x) = c \/ KeyLess(KeyOf(x), c) \/ KeyLess(c, KeyOf(x))
      BY <1>1, <2>1, KeyLessTotal
    <2>3. ~(KeyLess(c, KeyOf(x)) /\ (KeyOf(x) = c \/ KeyLess(KeyOf(x), c)))
      BY <1>1, <2>1, KeyLessIrreflexive, KeyLessTransitive
    <2> QED BY <2>1, <2>2, <2>3
  <1>3. CASE K = {} /\ k = NotFound
    BY <1>2, <1>3 DEF Passed, Through
  <1>4. CASE k \in K /\ \A j \in K : j = k \/ KeyLess(k, j)
    <2>1. k \in Seq(Nat) /\ k # NotFound /\ KeyLess(c, k)
      BY <1>4, KeysAreBytes
    <2> HIDE DEF K
    <2>2. ASSUME NEW x \in Items(d), KeyOf(x) \in K PROVE ~KeyLess(KeyOf(x), k)
      BY <1>2, <1>4, <2>1, <2>2, KeyLessIrreflexive, KeyLessTransitive
    <2>3. ASSUME NEW x \in Items(d), KeyOf(x) = c \/ KeyLess(KeyOf(x), c)
          PROVE  KeyLess(KeyOf(x), k)
      BY <1>1, <1>2, <2>1, <2>3, KeyLessTransitive
    <2> QED BY <1>2, <2>1, <2>2, <2>3 DEF Passed, Through
  <1> QED BY <1>3, <1>4 DEF CursorLands

(* A key that is not wanted is passed with nothing given out; a wanted one *)
(* is that of the item which comes next in the answer.                     *)
LEMMA Unwanted ==
  ASSUME NEW d \in Databases, call \in Calls, NEW k \in KeysOf[d], ~Wanted(k)
  PROVE  Through(d, k) = Passed(d, k)
  BY ItemsOrdered, KeysAreBytes DEF Passed, Through

LEMMA Taken ==
  ASSUME NEW d \in Databases, call \in Calls, NEW k \in KeysOf[d], Wanted(k)
  PROVE  /\ ItemAt(d, k) \in Items(d)
         /\ Cardinality(Passed(d, k)) \in Nat
         /\ Cardinality(Through(d, k)) = Cardinality(Passed(d, k)) + 1
         /\ Answer(d)[Cardinality(Passed(d, k)) + 1] = ItemAt(d, k)
  <1> DEFINE S == Items(d)
             R == KeyBefore(S)
  <1>1. PICK x \in S : KeyOf(x) = k
    <2>1. CASE call.fn = "records"
      BY <2>1, RecordKeys DEF Items
    <2>2. CASE call.fn = "targets"
      <3>1. HasPrefix(k, Prefix)
        BY <2>2 DEF Wanted, IsLink
      <3> QED BY <2>2, <3>1, TargetKeys DEF Items
    <2> QED BY <2>1, <2>2, CallKinds
  <1>2. ItemAt(d, k) = x
    BY <1>1, ItemsOrdered
  <1>3. Passed(d, k) = Below(R, S, x)
    BY <1>1, KeysAreBytes DEF Passed, Below, KeyBefore
  <1>4. x \notin Passed(d, k) /\ Through(d, k) = Passed(d, k) \cup {x}
    BY <1>1, KeysAreBytes, KeyLessIrreflexive, ItemsOrdered DEF Passed, Through
  <1>5. IsFiniteSet(Passed(d, k))
    <2>1. Passed(d, k) \in SUBSET S /\ IsFiniteSet(S)
      BY ItemsOrdered DEF Passed
    <2> QED BY <2>1, FS_Subset
  <1>6. Cardinality(Through(d, k)) = Cardinality(Passed(d, k)) + 1
    BY <1>4, <1>5, FS_AddElement
  <1>7. Cardinality(Passed(d, k)) = Rank(R, S, x)
    BY <1>3 DEF Rank
  <1> QED BY <1>2, <1>6, <1>7, AnswerByRank

(* The walk of a relation ends behind its last link: where the prefix      *)
(* ends, all the links of the source have been passed.                     *)
LEMMA WalkEnds ==
  ASSUME NEW d \in Databases, call \in Calls, call.fn = "targets", NEW k \in KeysOf[d],
         ~IsLink(k), k = SeekKey \/ KeyLess(SeekKey, k)
  PROVE  Passed(d, k) = Items(d)
  <1>1. k \in Seq(Nat) /\ ~Wanted(k) /\ Items(d) = Targets(d)
    BY KeysAreBytes DEF Wanted, Items
  <1>2. Prefix \in Seq(Nat) /\ SeekKey \in Seq(Nat) /\ HasPrefix(SeekKey, Prefix)
    BY TargetKeys
  <1>3. ~HasPrefix(k, Prefix)
    BY <1>1, TargetKeys
  <1>4. ASSUME NEW x \in Items(d) PROVE KeyLess(KeyOf(x), k)
    <2>1. KeyOf(x) \in Seq(Nat) /\ HasPrefix(KeyOf(x), Prefix)
      BY <1>1, TargetKeys
    <2>2. k # KeyOf(x)
      BY <1>3, <2>1
    <2>3. ~KeyLess(k, KeyOf(x))
      <3>1. CASE k = SeekKey
        BY <1>2, <1>3, <3>1
      <3>2. CASE KeyLess(SeekKey, k)
        BY <1>1, <1>2, <1>3, <2>1, <3>2, PrefixConvex
      <3> QED BY <3>1, <3>2
    <2> QED BY <1>1, <2>1, <2>2, <2>3, KeyLessTotal
  <1> QED BY <1>4 DEF Passed
-----------------------------------------------------------------------------
(* The invariant is inductive. *)

LEMMA StackIs ==
  ASSUME NEW api
  PROVE  /\ Stack(api) \in Seq(Handles) /\ Len(Stack(api)) \in Nat
         /\ Len(Stack(api)) >= 2
  <1>1. Stack(api) = <<"env", "range">> \/ Stack(api) = <<"env", "txn", "cursor">>
    BY DEF Stack
  <1>2. <<"env", "range">> \in Seq(Handles) /\ <<"env", "txn", "cursor">> \in Seq(Handles)
    BY DEF Handles
  <1>3. Len(<<"env", "range">>) = 2 /\ Len(<<"env", "txn", "cursor">>) = 3
    OBVIOUS
  <1>4. Stack(api) \in Seq(Handles) /\ Len(Stack(api)) \in {2, 3}
    BY <1>1, <1>2, <1>3, Zenon
  <1>5. \A n \in {2, 3} : n \in Nat /\ n >= 2
    OBVIOUS
  <1> QED BY <1>4, <1>5, Zenon

Given == IF call.fn = "records" THEN Records ELSE UInt32

LEMMA ItemsGiven ==
  ASSUME NEW d \in Databases, call \in Calls
  PROVE  Items(d) \subseteq Given /\ Answer(d) \in Seq(Given)
  <1>1. Items(d) \subseteq Given
    BY CallKinds, RecordKeys, TargetKeys DEF Items, Given
  <1>2. Answer(d) \in Seq(Items(d))
    BY AnswerIsSeq
  <1> QED BY <1>1, <1>2

(* What GivenInOrder says, by what the cursor has passed.                  *)
LEMMA BehindIs ==
  ASSUME ToolkitInductive
  PROVE  /\ pc = "at" => Behind = Passed(snap, cur)
         /\ pc = "done" => Behind = Through(snap, cur)
  BY DEF ToolkitInductive, WalkShape, Behind, Passed, Through

LEMMA GivenBegins ==
  ASSUME ToolkitInductive, pc \in {"at", "done"}
  PROVE  IsPrefix(got, Answer(snap))
  <1>1. snap \in Databases /\ call \in Calls /\ got \in Seq(Given)
    BY DEF ToolkitInductive, ToolkitTypeOK, Given
  <1>2. Answer(snap) \in Seq(Given) /\ Len(Answer(snap)) = Cardinality(Items(snap))
    BY <1>1, ItemsGiven, AnswerIsSeq
  <1>3. Cardinality(Behind) <= Cardinality(Items(snap))
    <2>1. Behind \in SUBSET Items(snap) /\ IsFiniteSet(Items(snap))
      BY <1>1, ItemsOrdered DEF Behind
    <2> QED BY <2>1, FS_Subset
  <1>4. Len(got) = Cardinality(Behind) /\ \A i \in 1..Len(got) : got[i] = Answer(snap)[i]
    BY DEF ToolkitInductive, GivenInOrder
  <1> QED BY <1>1, <1>2, <1>3, <1>4, PrefixByElement

(* A call that leaves has given out the beginning of one state's answer.   *)
LEMMA LeavesWithAnswer ==
  ASSUME ToolkitInductive, pc \in {"opening", "at", "done"}
  PROVE  \E d \in seen : IsPrefix(got, Answer(d))
  <1>1. CASE pc = "opening"
    <2>1. /\ db \in seen /\ got = <<>> /\ call \in Calls /\ db \in Databases
      BY <1>1 DEF ToolkitInductive, SnapshotSeen, WalkShape, ToolkitTypeOK
    <2>2. IsPrefix(<<>>, Answer(db))
      BY <2>1, ItemsGiven, EmptyPrefix
    <2> QED BY <2>1, <2>2
  <1>2. CASE pc \in {"at", "done"}
    BY <1>2, GivenBegins DEF ToolkitInductive, SnapshotSeen
  <1> QED BY <1>1, <1>2

(* At the end of the walk it has given out all of it.                      *)
LEMMA EndsWithAll ==
  ASSUME ToolkitInductive, pc = "at", cur = NotFound \/ (call.fn = "targets" /\ ~IsLink(cur))
  PROVE  got = Answer(snap)
  <1>1. snap \in Databases /\ call \in Calls /\ got \in Seq(Given)
    BY DEF ToolkitInductive, ToolkitTypeOK, Given
  <1>2. Passed(snap, cur) = Items(snap)
    <2>1. CASE cur = NotFound
      BY <2>1 DEF Passed
    <2>2. CASE cur # NotFound
      <3>1. call.fn = "targets" /\ ~IsLink(cur) /\ cur \in KeysOf[snap]
        BY <2>2 DEF ToolkitInductive, ToolkitTypeOK
      <3>2. cur = SeekKey \/ KeyLess(SeekKey, cur)
        BY <2>2, <3>1 DEF ToolkitInductive, WalkShape
      <3> QED BY <1>1, <3>1, <3>2, WalkEnds
    <2> QED BY <2>1, <2>2
  <1>3. /\ Len(got) = Cardinality(Items(snap))
        /\ \A i \in 1..Len(got) : got[i] = Answer(snap)[i]
    BY <1>2, BehindIs DEF ToolkitInductive, GivenInOrder
  <1>4. Answer(snap) \in Seq(Given) /\ Len(Answer(snap)) = Cardinality(Items(snap))
    BY <1>1, ItemsGiven, AnswerIsSeq
  <1> QED BY <1>1, <1>3, <1>4, SeqEqual

LEMMA ToolkitStarts == Init => ToolkitInductive
  <1> SUFFICES ASSUME Init PROVE ToolkitInductive
    OBVIOUS
  <1> USE DEF Init
  <1>1. got = <<>> /\ open = <<>> /\ pc = "idle" /\ outcome = "none" /\ call \in Calls /\ db \in Databases
    OBVIOUS
  <1>2. got \in Seq(Given) /\ open \in Seq(Handles) /\ Len(got) = 0 /\ Len(open) = 0
    BY <1>1, EmptySeq
  <1>3. ToolkitTypeOK
    BY <1>1, <1>2 DEF ToolkitTypeOK, Given
  <1>4. IsPrefix(open, Stack(call.api))
    BY <1>1, StackIs, EmptyPrefix
  <1>5. IsPrefix(got, Answer(db))
    <2>1. IsPrefix(<<>>, Answer(db))
      BY <1>1, ItemsGiven, EmptyPrefix
    <2> QED BY <1>1, <2>1
  <1>6. HandlesNest /\ SnapshotSeen /\ WalkShape /\ GivenInOrder
    BY <1>1, <1>2, <1>4 DEF HandlesNest, SnapshotSeen, WalkShape, GivenInOrder
  <1> QED BY <1>1, <1>3, <1>5, <1>6 DEF ToolkitInductive, AnswersOfOneState

(* Operators of a call whose lookup does not change.                       *)
LEMMA SameCall ==
  ASSUME call' = call
  PROVE  /\ Given' = Given
         /\ SeekKey' = SeekKey
         /\ \A d : Items(d)' = Items(d) /\ Answer(d)' = Answer(d)
         /\ \A x : KeyOf(x)' = KeyOf(x)
         /\ \A d, k : Passed(d, k)' = Passed(d, k) /\ Through(d, k)' = Through(d, k)
  BY DEF Given, SeekKey, Prefix, Items, Targets, Answer, Ascending, KeyOf, Passed, Through

(* What is appended to what a call has given out.                          *)
LEMMA Yielded ==
  ASSUME ToolkitInductive, pc = "at", cur # NotFound, Wanted(cur), call' = call, snap' = snap,
         Yield(ItemAt(snap, cur))
  PROVE  got' \in Seq(Given) /\ GivenInOrder'
  <1>1. /\ snap \in Databases /\ call \in Calls /\ got \in Seq(Given) /\ cur \in KeysOf[snap]
        /\ Behind = Passed(snap, cur)
    BY BehindIs DEF ToolkitInductive, ToolkitTypeOK, Given
  <1>2. /\ Len(got) = Cardinality(Passed(snap, cur))
        /\ \A i \in 1..Len(got) : got[i] = Answer(snap)[i]
    BY <1>1 DEF ToolkitInductive, GivenInOrder
  <1> DEFINE item == ItemAt(snap, cur)
  <1>3. /\ item \in Given /\ Len(got) \in Nat /\ Answer(snap)[Len(got) + 1] = item
        /\ Cardinality(Through(snap, cur)) = Len(got) + 1
    BY <1>1, <1>2, Taken, ItemsGiven
  <1> HIDE DEF item
  <1>4. /\ got' = Append(got, item) /\ pc' = "done" /\ cur' = cur
    BY DEF Yield, item
  <1>5. /\ got' \in Seq(Given) /\ Len(got') = Len(got) + 1
        /\ \A i \in 1..Len(got) : got'[i] = got[i]
        /\ got'[Len(got) + 1] = item
    BY <1>1, <1>3, <1>4, AppendProperties
  <1>6. \A i \in 1..Len(got') : got'[i] = Answer(snap)[i]
    BY <1>2, <1>3, <1>5
  <1>7. Behind' = Through(snap, cur)
    <2>1. Behind' = {x \in Items(snap)' : KeyOf(x)' = cur \/ KeyLess(KeyOf(x)', cur)}
      BY <1>4 DEF Behind
    <2> QED BY <2>1, SameCall DEF Through
  <1>8. Answer(snap)' = Answer(snap)
    BY SameCall
  <1>9. GivenInOrder'
    BY <1>3, <1>5, <1>6, <1>7, <1>8 DEF GivenInOrder
  <1> QED BY <1>5, <1>9

(* A step of the cursor, wherever it lands.                                *)
LEMMA Moved ==
  ASSUME ToolkitInductive, NEW K, K \subseteq KeysOf[snap], MoveTo(K),
         \A k \in KeysOf[snap] \cup {NotFound} :
            CursorLands(K, k) => Cardinality(Passed(snap, k)) = Len(got),
         \A i \in 1..Len(got) : got[i] = Answer(snap)[i],
         call.fn = "targets" => \A k \in K : k = SeekKey \/ KeyLess(SeekKey, k),
         AllOpen, pc # "idle", snap \in seen, outcome = "none"
  PROVE  ToolkitInductive'
  <1> USE DEF ToolkitInductive
  <1>1. PICK k \in K \cup {NotFound} : CursorLands(K, k) /\ cur' = k
    BY DEF MoveTo
  <1>2. /\ pc' = "at" /\ db' = db /\ call' = call /\ open' = open /\ snap' = snap /\ got' = got
        /\ outcome' = outcome /\ seen' = seen
    BY DEF MoveTo
  <1>3. ToolkitTypeOK'
    BY <1>1, <1>2 DEF ToolkitTypeOK
  <1>4. HandlesNest'
    BY <1>2 DEF HandlesNest, AllOpen
  <1>5. SnapshotSeen'
    BY <1>2 DEF SnapshotSeen
  <1>6. WalkShape'
    BY <1>1, <1>2, SameCall DEF WalkShape
  <1>7. Behind' = Passed(snap, k)
    <2>1. Behind' = {x \in Items(snap)' : k = NotFound \/ KeyLess(KeyOf(x)', k)}
      BY <1>1, <1>2 DEF Behind
    <2> QED BY <1>2, <2>1, SameCall DEF Passed
  <1>8. GivenInOrder'
    BY <1>1, <1>2, <1>7, SameCall DEF GivenInOrder
  <1> QED BY <1>2, <1>3, <1>4, <1>5, <1>6, <1>8

LEMMA Left ==
  ASSUME ToolkitInductive, pc \in {"opening", "at", "done"}, NEW how \in {"ok", "raised"}, Leave(how),
         how = "ok" => pc = "at" /\ got = Answer(snap)
  PROVE  ToolkitInductive'
  <1> USE DEF ToolkitInductive
  <1>1. /\ pc' = "closing" /\ outcome' = how
        /\ db' = db /\ call' = call /\ open' = open /\ snap' = snap /\ cur' = cur /\ got' = got /\ seen' = seen
    BY DEF Leave
  <1>2. ToolkitTypeOK'
    BY <1>1 DEF ToolkitTypeOK
  <1>3. HandlesNest' /\ SnapshotSeen' /\ WalkShape' /\ GivenInOrder'
    BY <1>1 DEF HandlesNest, SnapshotSeen, WalkShape, GivenInOrder
  <1>4. AnswersOfOneState'
    <2>1. \E d \in seen : IsPrefix(got, Answer(d)) /\ (how = "ok" => got = Answer(d))
      <3>1. CASE how = "ok"
        <4>1. snap \in seen /\ IsPrefix(got, Answer(snap))
          BY <3>1, GivenBegins DEF SnapshotSeen
        <4> QED BY <3>1, <4>1
      <3>2. CASE how # "ok"
        BY <3>2, LeavesWithAnswer
      <3> QED BY <3>1, <3>2
    <2> QED BY <1>1, <2>1, SameCall DEF AnswersOfOneState
  <1> QED BY <1>1, <1>2, <1>3, <1>4

(* A handle more, or the last one less, is still the beginning of the      *)
(* package's order.                                                        *)
LEMMA PrefixGrows ==
  ASSUME NEW S, NEW s \in Seq(S), NEW t \in Seq(S), IsPrefix(s, t), Len(s) # Len(t)
  PROVE  LET u == Append(s, t[Len(s) + 1])
         IN  u \in Seq(S) /\ Len(u) = Len(s) + 1 /\ IsPrefix(u, t)
  <1> DEFINE u == Append(s, t[Len(s) + 1])
  <1>1. Len(s) \in Nat /\ Len(t) \in Nat /\ Len(s) <= Len(t) /\ \A i \in 1..Len(s) : s[i] = t[i]
    BY PrefixByElement, LenProperties
  <1>2. Len(s) + 1 \in 1..Len(t)
    BY <1>1
  <1>3. t[Len(s) + 1] \in S
    BY <1>2, ElementOfSeq
  <1>4. /\ u \in Seq(S) /\ Len(u) = Len(s) + 1 /\ u[Len(s) + 1] = t[Len(s) + 1]
        /\ \A i \in 1..Len(s) : u[i] = s[i]
    BY <1>3, AppendProperties
  <1> HIDE DEF u
  <1>5. Len(u) <= Len(t) /\ \A i \in 1..Len(u) : u[i] = t[i]
    BY <1>1, <1>2, <1>4
  <1>6. IsPrefix(u, t)
    BY <1>4, <1>5, PrefixByElement
  <1> QED BY <1>4, <1>6 DEF u

LEMMA PrefixShrinks ==
  ASSUME NEW S, NEW s \in Seq(S), NEW t \in Seq(S), IsPrefix(s, t), s # <<>>
  PROVE  Front(s) \in Seq(S) /\ IsPrefix(Front(s), t)
  <1>1. Len(s) \in Nat \ {0} /\ Len(t) \in Nat /\ Len(s) <= Len(t) /\ \A i \in 1..Len(s) : s[i] = t[i]
    BY PrefixByElement, LenProperties, EmptySeq
  <1> DEFINE n == Len(s) - 1
             u == SubSeq(s, 1, n)
  <1>2. n \in Int /\ \A i \in 1..n : i \in 1..Len(s) /\ 1 + i - 1 = i
    BY <1>1
  <1>3. \A i \in 1..n : s[i] \in S
    BY <1>2, ElementOfSeq
  <1>4. /\ u \in Seq(S) /\ Len(u) = (IF 1 <= n THEN n - 1 + 1 ELSE 0)
        /\ \A i \in 1..(n - 1 + 1) : u[i] = s[1 + i - 1]
    BY <1>2, <1>3, SubSeqProperties
  <1>5. n \in Nat /\ n <= Len(t) /\ n - 1 + 1 = n
    BY <1>1
  <1>6. Len(u) = n /\ \A i \in 1..n : u[i] = s[i]
    <2> HIDE DEF u, n
    <2>1. Len(u) = n
      BY <1>4, <1>5
    <2> QED BY <1>2, <1>4, <1>5, <2>1
  <1> HIDE DEF u
  <1>7. Len(u) <= Len(t) /\ \A i \in 1..Len(u) : u[i] = t[i]
    BY <1>1, <1>2, <1>5, <1>6
  <1>8. IsPrefix(u, t)
    BY <1>4, <1>7, PrefixByElement
  <1>9. Front(s) = u
    BY DEF Front, u
  <1> QED BY <1>4, <1>8, <1>9

LEMMA ToolkitSteps == ToolkitInductive /\ [Next]_vars => ToolkitInductive'
  <1> SUFFICES ASSUME ToolkitInductive, [Next]_vars PROVE ToolkitInductive'
    OBVIOUS
  <1>0. ToolkitTypeOK /\ HandlesNest /\ SnapshotSeen /\ WalkShape /\ GivenInOrder
    BY DEF ToolkitInductive
  <1>1. CASE Begin
    <2>1. /\ pc = "idle" /\ call' \in Calls /\ pc' = "opening" /\ got' = <<>> /\ outcome' = "none"
          /\ seen' = {db} /\ db' = db /\ open' = open /\ snap' = snap /\ cur' = cur
      BY <1>1 DEF Begin
    <2>2. open = <<>> /\ open \in Seq(Handles) /\ cur = NotFound
      BY <1>0, <2>1 DEF HandlesNest, WalkShape
    <2>3. ToolkitTypeOK'
      <3>1. got' \in Seq(Given')
        BY <2>1, EmptySeq
      <3> QED BY <1>0, <2>1, <2>2, <3>1 DEF ToolkitTypeOK, Given
    <2>4. HandlesNest'
      <3>1. IsPrefix(open, Stack(call'.api))
        BY <2>2, StackIs, EmptyPrefix
      <3> QED BY <2>1, <3>1 DEF HandlesNest
    <2>5. SnapshotSeen' /\ WalkShape' /\ GivenInOrder'
      <3>1. ~(Len(open) >= 2)
        <4>1. Len(open) = 0
          BY <2>2, EmptySeq
        <4> QED BY <4>1
      <3> QED BY <2>1, <2>2, <3>1 DEF SnapshotSeen, WalkShape, GivenInOrder
    <2> QED BY <2>1, <2>3, <2>4, <2>5 DEF ToolkitInductive
  <1>2. CASE OpenNext
    <2>1. /\ pc = "opening" /\ Len(open) # Len(Stack(call.api))
          /\ open' = Append(open, Stack(call.api)[Len(open) + 1])
          /\ snap' = IF Len(open) = 1 THEN db ELSE snap
          /\ db' = db /\ pc' = pc /\ call' = call /\ cur' = cur /\ got' = got
          /\ outcome' = outcome /\ seen' = seen
      BY <1>2 DEF OpenNext, AllOpen
    <2>2. open \in Seq(Handles) /\ cur = NotFound /\ IsPrefix(open, Stack(call.api))
      BY <1>0, <2>1 DEF HandlesNest, WalkShape
    <2>3. open' \in Seq(Handles) /\ Len(open') = Len(open) + 1 /\ IsPrefix(open', Stack(call.api))
      BY <2>1, <2>2, StackIs, PrefixGrows
    <2>4. ToolkitTypeOK' /\ HandlesNest' /\ WalkShape' /\ GivenInOrder'
      BY <1>0, <2>1, <2>2, <2>3 DEF ToolkitTypeOK, HandlesNest, WalkShape, GivenInOrder
    <2>5. SnapshotSeen'
      <3>1. Len(open) \in Nat
        BY <2>2, LenProperties
      <3>2. Len(open') >= 2 => Len(open) = 1 \/ Len(open) >= 2
        <4>1. Len(open') = Len(open) + 1
          BY <2>3
        <4>2. \A n \in Nat : n + 1 >= 2 => n = 1 \/ n >= 2
          OBVIOUS
        <4> QED BY <3>1, <4>1, <4>2, Zenon
      <3> QED BY <1>0, <2>1, <3>2 DEF SnapshotSeen
    <2> QED BY <2>1, <2>4, <2>5 DEF ToolkitInductive
  <1>3. CASE CallFails
    <2>1. pc \in {"opening", "done"} /\ Leave("raised")
      BY <1>3 DEF CallFails
    <2> QED BY <2>1, Left
  <1>4. ASSUME pc = "opening", AllOpen
        PROVE  got = <<>> /\ Len(got) = 0 /\ snap \in seen /\ outcome = "none"
    <2>1. Len(open) >= 2
      BY <1>4, StackIs DEF AllOpen
    <2>2. Len(<<>>) = 0
      OBVIOUS
    <2> QED BY <1>0, <1>4, <2>1, <2>2 DEF WalkShape, SnapshotSeen
  <1>5. ASSUME NEW K, K \subseteq KeysOf[snap], \A x \in Items(snap) : KeyOf(x) \in K,
               NEW k \in KeysOf[snap] \cup {NotFound}, CursorLands(K, k)
        PROVE  Cardinality(Passed(snap, k)) = 0
    <2>1. snap \in Databases /\ call \in Calls
      BY <1>0 DEF ToolkitTypeOK
    <2>2. Passed(snap, k) = {}
      BY <1>5, <2>1, FirstLanding
    <2> QED BY <2>2, FS_EmptySet
  <1>6. CASE First
    <2>1. pc = "opening" /\ AllOpen /\ call.fn = "records" /\ MoveTo(KeysOf[snap])
      BY <1>6 DEF First
    <2>2. \A x \in Items(snap) : KeyOf(x) \in KeysOf[snap]
      BY <1>0, ItemsOrdered DEF ToolkitTypeOK
    <2> QED BY <1>4, <1>5, <2>1, <2>2, Moved
  <1>7. CASE SetRange
    <2> DEFINE K == {k \in KeysOf[snap] : k = SeekKey \/ KeyLess(SeekKey, k)}
    <2>1. pc = "opening" /\ AllOpen /\ call.fn = "targets" /\ MoveTo(K)
      BY <1>7 DEF SetRange
    <2>2. \A x \in Items(snap) : KeyOf(x) \in K
      <3>1. snap \in Databases /\ call \in Calls /\ Items(snap) = Targets(snap)
        BY <1>0, <2>1 DEF ToolkitTypeOK, Items
      <3> QED BY <2>1, <3>1, TargetKeys
    <2>3. K \subseteq KeysOf[snap] /\ \A k \in K : k = SeekKey \/ KeyLess(SeekKey, k)
      OBVIOUS
    <2> HIDE DEF K
    <2> QED BY <1>4, <1>5, <2>1, <2>2, <2>3, Moved
  <1>8. CASE Skip
    <2>1. /\ pc = "at" /\ cur # NotFound /\ call.fn = "records" /\ ~IsDataKey(cur) /\ pc' = "done"
          /\ db' = db /\ call' = call /\ open' = open /\ snap' = snap /\ cur' = cur
          /\ got' = got /\ outcome' = outcome /\ seen' = seen
      BY <1>8 DEF Skip, AtKey
    <2>2. snap \in Databases /\ call \in Calls /\ cur \in KeysOf[snap]
      BY <1>0, <2>1 DEF ToolkitTypeOK
    <2>3. ToolkitTypeOK' /\ HandlesNest' /\ SnapshotSeen' /\ WalkShape'
      BY <1>0, <2>1, SameCall DEF ToolkitTypeOK, HandlesNest, AllOpen, SnapshotSeen, WalkShape
    <2>4. GivenInOrder'
      <3>1. Behind = Passed(snap, cur) /\ Through(snap, cur) = Passed(snap, cur)
        BY <2>1, <2>2, BehindIs, Unwanted DEF Wanted
      <3>2. Behind' = Through(snap, cur)
        <4>1. Behind' = {x \in Items(snap)' : KeyOf(x)' = cur \/ KeyLess(KeyOf(x)', cur)}
          BY <2>1 DEF Behind
        <4> QED BY <2>1, <4>1, SameCall DEF Through
      <3> QED BY <1>0, <2>1, <3>1, <3>2, SameCall DEF GivenInOrder
    <2> QED BY <2>1, <2>3, <2>4 DEF ToolkitInductive
  <1>9. ASSUME pc = "at", cur # NotFound, Wanted(cur), Yield(ItemAt(snap, cur))
        PROVE  ToolkitInductive'
    <2>1. /\ pc' = "done" /\ db' = db /\ call' = call /\ open' = open /\ snap' = snap /\ cur' = cur
          /\ outcome' = outcome /\ seen' = seen
      BY <1>9 DEF Yield
    <2>2. got' \in Seq(Given) /\ GivenInOrder'
      BY <1>9, <2>1, Yielded
    <2>3. ToolkitTypeOK'
      BY <1>0, <2>1, <2>2 DEF ToolkitTypeOK, Given
    <2>4. HandlesNest' /\ SnapshotSeen' /\ WalkShape'
      BY <1>0, <1>9, <2>1, SameCall DEF HandlesNest, AllOpen, SnapshotSeen, WalkShape
    <2> QED BY <2>1, <2>2, <2>3, <2>4 DEF ToolkitInductive
  <1>10. CASE OnRecord
    <2>1. pc = "at" /\ cur # NotFound /\ call.fn = "records" /\ IsDataKey(cur)
      BY <1>10 DEF OnRecord, AtKey
    <2>2. Wanted(cur) /\ Yield(ItemAt(snap, cur))
      BY <1>10, <2>1 DEF OnRecord, Wanted, ItemAt
    <2> QED BY <1>9, <2>1, <2>2
  <1>11. CASE CallbackRaises
    <2>1. pc = "done" /\ Leave("raised")
      BY <1>11 DEF CallbackRaises
    <2> QED BY <2>1, Left
  <1>12. CASE AddTarget
    <2>1. pc = "at" /\ cur # NotFound /\ call.fn = "targets" /\ IsLink(cur)
      BY <1>12 DEF AddTarget, AtKey
    <2>2. Wanted(cur) /\ Yield(ItemAt(snap, cur))
      BY <1>12, <2>1 DEF AddTarget, Wanted, ItemAt
    <2> QED BY <1>9, <2>1, <2>2
  <1>13. CASE Advance
    <2> DEFINE K == {k \in KeysOf[snap] : KeyLess(cur, k)}
    <2>1. pc = "done" /\ MoveTo(K)
      BY <1>13 DEF Advance
    <2>2. snap \in Databases /\ call \in Calls /\ cur \in KeysOf[snap] /\ cur # NotFound
      BY <1>0, <2>1 DEF ToolkitTypeOK, WalkShape
    <2>3. \A k \in KeysOf[snap] \cup {NotFound} :
            CursorLands(K, k) => Cardinality(Passed(snap, k)) = Len(got)
      BY <1>0, <2>1, <2>2, BehindIs, NextLanding DEF GivenInOrder
    <2>4. call.fn = "targets" => \A k \in K : k = SeekKey \/ KeyLess(SeekKey, k)
      <3> SUFFICES ASSUME call.fn = "targets", NEW k \in K PROVE KeyLess(SeekKey, k)
        OBVIOUS
      <3>1. SeekKey \in Seq(Nat) /\ cur \in Seq(Nat) /\ k \in Seq(Nat) /\ KeyLess(cur, k)
        BY <2>2, TargetKeys, KeysAreBytes
      <3>2. cur = SeekKey \/ KeyLess(SeekKey, cur)
        BY <1>0, <2>1, <2>2 DEF WalkShape
      <3> QED BY <3>1, <3>2, KeyLessTransitive
    <2>5. /\ \A i \in 1..Len(got) : got[i] = Answer(snap)[i]
          /\ AllOpen /\ pc # "idle" /\ snap \in seen /\ outcome = "none"
      BY <1>0, <2>1 DEF GivenInOrder, HandlesNest, SnapshotSeen, WalkShape
    <2>6. K \subseteq KeysOf[snap]
      OBVIOUS
    <2> HIDE DEF K
    <2> QED BY <2>1, <2>3, <2>4, <2>5, <2>6, Moved
  <1>14. CASE EndOfWalk
    <2>1. pc = "at" /\ (cur = NotFound \/ (call.fn = "targets" /\ ~IsLink(cur))) /\ Leave("ok")
      BY <1>14 DEF EndOfWalk
    <2> QED BY <2>1, EndsWithAll, Left
  <1>15. CASE CloseLast
    <2>1. /\ pc = "closing" /\ open # <<>> /\ open' = Front(open)
          /\ db' = db /\ pc' = pc /\ call' = call /\ snap' = snap /\ cur' = cur /\ got' = got
          /\ outcome' = outcome /\ seen' = seen
      BY <1>15 DEF CloseLast
    <2>2. open' \in Seq(Handles) /\ IsPrefix(open', Stack(call.api))
      BY <1>0, <2>1, StackIs, PrefixShrinks DEF HandlesNest, WalkShape
    <2>3. ToolkitTypeOK' /\ HandlesNest' /\ SnapshotSeen' /\ WalkShape' /\ GivenInOrder'
      BY <1>0, <2>1, <2>2
         DEF ToolkitTypeOK, HandlesNest, SnapshotSeen, WalkShape, GivenInOrder
    <2>4. AnswersOfOneState'
      BY <2>1, SameCall DEF ToolkitInductive, AnswersOfOneState
    <2> QED BY <2>3, <2>4 DEF ToolkitInductive
  <1>16. CASE Return
    <2>1. /\ pc = "closing" /\ open = <<>> /\ pc' = "idle" /\ cur' = NotFound
          /\ db' = db /\ call' = call /\ open' = open /\ snap' = snap /\ got' = got
          /\ outcome' = outcome /\ seen' = seen
      BY <1>16 DEF Return
    <2>2. ToolkitTypeOK' /\ HandlesNest' /\ SnapshotSeen' /\ WalkShape' /\ GivenInOrder'
      BY <1>0, <2>1 DEF ToolkitTypeOK, HandlesNest, SnapshotSeen, WalkShape, GivenInOrder
    <2>3. AnswersOfOneState'
      BY <2>1, SameCall DEF ToolkitInductive, AnswersOfOneState
    <2> QED BY <2>2, <2>3 DEF ToolkitInductive
  <1>17. CASE Cancelled
    <2>1. pc \in {"opening", "at", "done"} /\ Leave("raised")
      BY <1>17 DEF Cancelled
    <2> QED BY <2>1, Left
  <1>18. CASE Commit
    <2>1. /\ db' \in Databases /\ seen' = IF pc = "idle" THEN seen ELSE seen \cup {db'}
          /\ pc' = pc /\ call' = call /\ open' = open /\ snap' = snap /\ cur' = cur
          /\ got' = got /\ outcome' = outcome
      BY <1>18 DEF Commit
    <2>2. ToolkitTypeOK' /\ HandlesNest' /\ SnapshotSeen'
      BY <1>0, <2>1 DEF ToolkitTypeOK, HandlesNest, AllOpen, SnapshotSeen
    <2>3. WalkShape' /\ GivenInOrder'
      <3>1. Behind' = Behind
        <4>1. Behind' = {x \in Items(snap)' : \/ cur = NotFound \/ KeyLess(KeyOf(x)', cur)
                                              \/ pc = "done" /\ KeyOf(x)' = cur}
          BY <2>1 DEF Behind
        <4> QED BY <2>1, <4>1, SameCall DEF Behind
      <3> QED BY <1>0, <2>1, <3>1, SameCall DEF WalkShape, GivenInOrder
    <2>4. pc \in {"closing", "idle"} => AnswersOfOneState'
      BY <2>1, SameCall DEF ToolkitInductive, AnswersOfOneState
    <2> QED BY <2>1, <2>2, <2>3, <2>4 DEF ToolkitInductive
  <1>19. CASE UNCHANGED vars
    <2>1. /\ db' = db /\ pc' = pc /\ call' = call /\ open' = open /\ snap' = snap /\ cur' = cur
          /\ got' = got /\ outcome' = outcome /\ seen' = seen
      BY <1>19 DEF vars
    <2>2. ToolkitTypeOK' /\ HandlesNest' /\ SnapshotSeen' /\ WalkShape'
      BY <1>0, <2>1, SameCall DEF ToolkitTypeOK, HandlesNest, AllOpen, SnapshotSeen, WalkShape
    <2>3. Behind' = Behind
      <3>1. Behind' = {x \in Items(snap)' : \/ cur = NotFound \/ KeyLess(KeyOf(x)', cur)
                                            \/ pc = "done" /\ KeyOf(x)' = cur}
        BY <2>1 DEF Behind
      <3> QED BY <2>1, <3>1, SameCall DEF Behind
    <2>4. GivenInOrder'
      BY <1>0, <2>1, <2>3, SameCall DEF GivenInOrder
    <2>5. pc \in {"closing", "idle"} => AnswersOfOneState'
      BY <2>1, SameCall DEF ToolkitInductive, AnswersOfOneState
    <2> QED BY <2>1, <2>2, <2>4, <2>5 DEF ToolkitInductive
  <1> QED BY <1>1, <1>2, <1>3, <1>6, <1>7, <1>8, <1>10, <1>11, <1>12, <1>13, <1>14, <1>15,
             <1>16, <1>17, <1>18, <1>19 DEF Next, Work

-----------------------------------------------------------------------------
(* The theorems. *)

(* In every reachable state a call has given out, in the order of the      *)
(* answer, what its cursor has left behind of its snapshot.                *)
THEOREM ToolkitInvariance == Spec => []ToolkitInductive
  <1>1. Init => ToolkitInductive
    BY ToolkitStarts
  <1>2. ToolkitInductive /\ [Next]_vars => ToolkitInductive'
    BY ToolkitSteps
  <1> QED BY <1>1, <1>2, PTL DEF Spec

(* Every variable of the packages keeps its type; what they give out are   *)
(* ids the format has room for.                                            *)
THEOREM ToolkitTypes == Spec => []ToolkitTypeOK
  <1>1. ToolkitInductive => ToolkitTypeOK
    BY DEF ToolkitInductive
  <1> QED BY <1>1, ToolkitInvariance, PTL

(* The open handles are at every instant the first of the package's order, *)
(* and a call that ended, however it did, left none open.                  *)
THEOREM HandlesNested == Spec => []HandlesNest
  <1>1. ToolkitInductive => HandlesNest
    BY DEF ToolkitInductive
  <1> QED BY <1>1, ToolkitInvariance, PTL

(* Every call gives out the answer of one state of the store that was      *)
(* current during the call, in order, and all of it if it returns.         *)
THEOREM AnswersAtOneInstant == Spec => []AnswersOfOneState
  <1>1. ToolkitInductive => AnswersOfOneState
    <2> SUFFICES ASSUME ToolkitInductive PROVE AnswersOfOneState
      OBVIOUS
    <2>1. CASE pc \in {"opening", "at", "done"}
      <3>1. outcome = "none"
        BY <2>1 DEF ToolkitInductive, WalkShape
      <3> QED BY <2>1, <3>1, LeavesWithAnswer DEF AnswersOfOneState
    <2>2. CASE pc \in {"closing", "idle"}
      BY <2>2 DEF ToolkitInductive
    <2> QED BY <2>1, <2>2 DEF ToolkitInductive, ToolkitTypeOK
  <1> QED BY <1>1, ToolkitInvariance, PTL
=============================================================================
