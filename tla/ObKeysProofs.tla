---------------------------- MODULE ObKeysProofs ----------------------------
(***************************************************************************)
(* Facts about the key format, for all ids: the codec inverts, and the     *)
(* byte order LMDB sorts by is the order of (entity id, object id), and    *)
(* about the keys that the image of a database is made of.                 *)
(***************************************************************************)
EXTENDS ObStore, OrderLemmas, SequenceTheorems

(* The low byte of a number and the rest of it.                            *)
LEMMA LowByte ==
  ASSUME NEW v \in Nat
  PROVE  /\ v = 256 * (v \div 256) + (v % 256)
         /\ v % 256 \in 0..255
         /\ v \div 256 \in Nat
  BY SMT

(* Taking a byte off is dividing by 256.                                   *)
LEMMA HighBytes ==
  ASSUME NEW v \in Nat
  PROVE  /\ v \div 65536 = (v \div 256) \div 256
         /\ v \div 16777216 = (v \div 65536) \div 256
  <1>1. v \div 65536 = (v \div 256) \div 256
    BY SMT
  <1>2. v \div 16777216 = (v \div 65536) \div 256
    BY SMT
  <1> QED BY <1>1, <1>2

(* The key of object v of entity e, and v itself, by four bytes.           *)
CodedBy(e, v, a, b, c, d) ==
  /\ DataKey(e, v) = <<24, 0, 0, e * 4, a, b, c, d>>
  /\ v = ((a * 256 + b) * 256 + c) * 256 + d

(* An id of 32 bits is the four bytes it is written as, most significant   *)
(* first.                                                                  *)
LEMMA WordShape ==
  ASSUME NEW v \in UInt32
  PROVE  \E a, b, c, d \in Byte : /\ writeUint32BE(v) = <<a, b, c, d>>
                                  /\ v = ((a * 256 + b) * 256 + c) * 256 + d
  <1> DEFINE x == v \div 256
             y == x \div 256
             z == y \div 256
  <1>0. v \in Nat /\ v \div 16777216 <= 255
    BY SMT DEF UInt32
  <1>1. /\ v = 256 * x + (v % 256) /\ v % 256 \in 0..255 /\ x \in Nat
    BY <1>0, LowByte, SMT
  <1>2. /\ x = 256 * y + (x % 256) /\ x % 256 \in 0..255 /\ y \in Nat
    BY <1>1, LowByte, SMT
  <1>3. /\ y = 256 * z + (y % 256) /\ y % 256 \in 0..255 /\ z \in Nat
    BY <1>2, LowByte, SMT
  <1>4. v \div 65536 = y /\ v \div 16777216 = z
    BY <1>0, HighBytes, SMT
  <1>5. z % 256 = z /\ z \in 0..255
    BY <1>0, <1>3, <1>4, SMT
  <1>6. writeUint32BE(v) = <<z, y % 256, x % 256, v % 256>>
    BY <1>4, <1>5, SMT DEF writeUint32BE
  <1> HIDE DEF x, y, z
  <1>7. v = ((z * 256 + (y % 256)) * 256 + (x % 256)) * 256 + (v % 256)
    BY <1>0, <1>1, <1>2, <1>3, <1>5, SMT
  <1>8. z \in Byte /\ y % 256 \in Byte /\ x % 256 \in Byte /\ v % 256 \in Byte
    BY <1>1, <1>2, <1>3, <1>5, SMT DEF Byte
  <1> QED BY <1>6, <1>7, <1>8

(* The key of an object: its entity id times four in one byte, then the    *)
(* four bytes its object id is made of.                                    *)
LEMMA DataKeyShape ==
  ASSUME NEW e \in ShortIds, NEW v \in UInt32
  PROVE  \E a, b, c, d \in Byte : CodedBy(e, v, a, b, c, d)
  <1>1. PICK a, b, c, d \in Byte : /\ writeUint32BE(v) = <<a, b, c, d>>
                                   /\ v = ((a * 256 + b) * 256 + c) * 256 + d
    BY WordShape
  <1>2. (e * 4) % 256 = e * 4
    BY SMT DEF ShortIds
  <1> QED BY <1>1, <1>2, SMT DEF CodedBy, DataKey, kKeyTypeData

(* The decoders invert the encoder.                                        *)
THEOREM KeysKeepIds ==
  ASSUME NEW e \in ShortIds, NEW v \in UInt32
  PROVE  KeyKeepsIds(e, v)
  <1>1. PICK a, b, c, d \in Byte : CodedBy(e, v, a, b, c, d)
    BY DataKeyShape
  <1>2. (e * 4) \div 4 = e
    BY SMT DEF ShortIds
  <1> QED BY <1>1, <1>2, SMT
          DEF CodedBy, KeyKeepsIds, IsDataKey, EntityId, ObjectId, readUint32BE, kKeyTypeData

(* The order of the bytes is the order of the ids.                         *)
THEOREM KeyOrder ==
  ASSUME NEW e \in ShortIds, NEW v \in UInt32,
         NEW f \in ShortIds, NEW w \in UInt32
  PROVE  KeysFollowIds(e, v, f, w)
  <1>1. PICK a, b, c, d \in Byte : CodedBy(e, v, a, b, c, d)
    BY DataKeyShape
  <1>2. PICK a2, b2, c2, d2 \in Byte : CodedBy(f, w, a2, b2, c2, d2)
    BY DataKeyShape
  <1> DEFINE Bytewise == \/ e * 4 < f * 4
                         \/ e = f /\ a < a2
                         \/ e = f /\ a = a2 /\ b < b2
                         \/ e = f /\ a = a2 /\ b = b2 /\ c < c2
                         \/ e = f /\ a = a2 /\ b = b2 /\ c = c2 /\ d < d2
  <1>3. KeyLess(DataKey(e, v), DataKey(f, w)) <=> Bytewise
    BY <1>1, <1>2, SMT DEF CodedBy, KeyLess, Byte, ShortIds
  <1>4. e < f \/ (e = f /\ v < w) <=> Bytewise
    BY <1>1, <1>2, SMT DEF CodedBy, Byte, ShortIds
  <1> QED BY <1>3, <1>4 DEF KeysFollowIds

(* LMDB's order is strict and total.                                       *)
LEMMA KeyLessIrreflexive ==
  ASSUME NEW a \in Seq(Nat)
  PROVE  ~KeyLess(a, a)
  <1> SUFFICES ASSUME NEW i \in 1..Len(a), i <= Len(a) => a[i] < a[i] PROVE FALSE
    BY DEF KeyLess
  <1>1. a[i] \in Nat /\ a[i] < a[i]
    OBVIOUS
  <1> QED BY <1>1

LEMMA KeyLessTotal ==
  ASSUME NEW a \in Seq(Nat), NEW b \in Seq(Nat)
  PROVE  a = b \/ KeyLess(a, b) \/ KeyLess(b, a)
  <1> SUFFICES ASSUME a # b PROVE KeyLess(a, b) \/ KeyLess(b, a)
    OBVIOUS
  <1> DEFINE Differ(i) == i > Len(a) \/ i > Len(b) \/ a[i] # b[i]
             D == {i \in Nat : i > 0 /\ Differ(i)}
  <1>1. Len(a) \in Nat /\ Len(b) \in Nat
    BY LenProperties
  <1>2. Len(a) + 1 \in D
    BY <1>1
  <1>3. PICK m \in D : \A j \in D : m <= j
    <2>1. D \subseteq Nat /\ D # {}
      BY <1>2
    <2> HIDE DEF D
    <2> QED BY <2>1, LeastMember
  <1>4. m \in Nat /\ m > 0 /\ Differ(m)
    OBVIOUS
  <1>5. \A j \in 1..(m - 1) : j <= Len(a) /\ j <= Len(b) /\ a[j] = b[j]
    <2> SUFFICES ASSUME NEW j \in 1..(m - 1) PROVE ~Differ(j)
      BY <1>1
    <2>1. j \in Nat /\ j > 0 /\ ~(m <= j)
      BY <1>4
    <2> QED BY <1>3, <2>1
  <1>6. m <= Len(a) + 1 /\ m <= Len(b) + 1
    <2>1. m > 1 => m - 1 \in 1..(m - 1) /\ m - 1 <= Len(a) /\ m - 1 <= Len(b)
      BY <1>4, <1>5
    <2> QED BY <1>1, <1>4, <2>1
  <1> HIDE DEF D
  <1>7. CASE m > Len(a) /\ m > Len(b)
    <2>1. Len(a) = Len(b) /\ \A j \in 1..Len(a) : a[j] = b[j]
      BY <1>1, <1>4, <1>5, <1>6, <1>7
    <2> QED BY <2>1, SeqEqual
  <1>8. CASE m > Len(a) /\ m <= Len(b)
    <2>1. m \in 1..Len(b) /\ ~(m <= Len(a))
      BY <1>1, <1>4, <1>8
    <2> QED BY <1>5, <1>6, <2>1 DEF KeyLess
  <1>9. CASE m <= Len(a) /\ m > Len(b)
    <2>1. m \in 1..Len(a) /\ ~(m <= Len(b))
      BY <1>1, <1>4, <1>9
    <2>2. \A j \in 1..(m - 1) : b[j] = a[j]
      BY <1>5
    <2> QED BY <1>6, <2>1, <2>2 DEF KeyLess
  <1>10. CASE m <= Len(a) /\ m <= Len(b)
    <2>1. m \in 1..Len(a) /\ m \in 1..Len(b) /\ a[m] # b[m]
      BY <1>1, <1>4, <1>10
    <2>2. a[m] \in Nat /\ b[m] \in Nat
      BY <2>1, ElementOfSeq
    <2>3. CASE a[m] < b[m]
      BY <1>1, <1>5, <1>6, <2>1, <2>3 DEF KeyLess
    <2>4. CASE b[m] < a[m]
      BY <1>1, <1>5, <1>6, <2>1, <2>4 DEF KeyLess
    <2> QED BY <2>1, <2>2, <2>3, <2>4
  <1> QED BY <1>1, <1>4, <1>7, <1>8, <1>9, <1>10

(* LMDB's order is transitive.                                             *)
LEMMA KeyLessTransitive ==
  ASSUME NEW a \in Seq(Nat), NEW b \in Seq(Nat), NEW c \in Seq(Nat),
         KeyLess(a, b), KeyLess(b, c)
  PROVE  KeyLess(a, c)
  <1>1. PICK i \in 1..Len(b) : /\ i <= Len(a) + 1
                               /\ \A j \in 1..(i - 1) : a[j] = b[j]
                               /\ i <= Len(a) => a[i] < b[i]
    BY DEF KeyLess
  <1>2. PICK m \in 1..Len(c) : /\ m <= Len(b) + 1
                               /\ \A j \in 1..(m - 1) : b[j] = c[j]
                               /\ m <= Len(b) => b[m] < c[m]
    BY DEF KeyLess
  <1>3. CASE i < m
    <2>1. i \in 1..Len(c) /\ b[i] = c[i]
      BY <1>1, <1>2, <1>3
    <2>2. \A j \in 1..(i - 1) : a[j] = c[j]
      BY <1>1, <1>2, <1>3
    <2> QED BY <1>1, <2>1, <2>2 DEF KeyLess
  <1>4. CASE m < i
    <2>1. m <= Len(a) /\ m <= Len(b) /\ a[m] = b[m]
      BY <1>1, <1>2, <1>4
    <2>2. \A j \in 1..(m - 1) : a[j] = c[j]
      BY <1>1, <1>2, <1>4
    <2>3. m <= Len(a) + 1 /\ a[m] < c[m]
      BY <1>2, <2>1
    <2> QED BY <2>2, <2>3 DEF KeyLess
  <1>5. CASE i = m
    <2>1. i <= Len(a) => a[i] < c[i]
      BY <1>1, <1>2, <1>5
    <2>2. \A j \in 1..(i - 1) : a[j] = c[j]
      BY <1>1, <1>2, <1>5
    <2> QED BY <1>1, <1>2, <1>5, <2>1, <2>2 DEF KeyLess
  <1> QED BY <1>3, <1>4, <1>5

-----------------------------------------------------------------------------
(* The keys of an image are sequences of numbers, and those that look like *)
(* the key of an object are.                                               *)
LEMMA IdBytes ==
  ASSUME NEW v \in Nat
  PROVE  /\ writeUint32BE(v) \in Seq(Nat) /\ Len(writeUint32BE(v)) = 4
         /\ \A i \in 1..4 : writeUint32BE(v)[i] \in Nat
  BY SMT DEF writeUint32BE

LEMMA EightAndFour ==
  ASSUME NEW p \in Seq(Nat), NEW w \in Seq(Nat), Len(p) = 8, Len(w) = 4
  PROVE  p \o w \in Seq(Nat) /\ Len(p \o w) = 12
  <1>1. p \o w \in Seq(Nat) /\ Len(p \o w) = Len(p) + Len(w)
    BY ConcatProperties
  <1> QED BY <1>1

LEMMA ImageKeys ==
  ASSUME NEW d, IsDatabase(d), NEW k \in Image(d)
  PROVE  /\ k \in Seq(Nat)
         /\ IsDataKey(k) => \E o \in d.objects : k = DataKey(o.entity, o.id)
  <1>1. CASE k \in SchemaKeys(d)
    <2>1. PICK o \in d.objects : k = SchemaKey(o.entity)
      BY <1>1 DEF SchemaKeys
    <2>2. o.entity \in Nat
      BY DEF IsDatabase, ShortIds
    <2>3. k \in Seq(Nat) /\ k[1] = 0
      BY <2>1, <2>2, SMT DEF SchemaKey, kKeyTypeSchema
    <2> QED BY <2>3 DEF IsDataKey, kKeyTypeData
  <1>2. ASSUME NEW r, r \in Nat, NEW s, s \in Nat, NEW t, t \in Nat, NEW b, b \in Nat,
               k = RelationKey(r, b, s, t)
        PROVE  k \in Seq(Nat) /\ Len(k) = 12
    <2>1. RelationPrefix(r, b, s) \in Seq(Nat) /\ Len(RelationPrefix(r, b, s)) = 8
      BY <1>2, IdBytes, SMT DEF RelationPrefix, kKeyTypeRelation
    <2>2. writeUint32BE(t) \in Seq(Nat) /\ Len(writeUint32BE(t)) = 4
      BY <1>2, IdBytes
    <2>3. k = RelationPrefix(r, b, s) \o writeUint32BE(t)
      BY <1>2 DEF RelationKey
    <2> QED BY <2>1, <2>2, <2>3, EightAndFour
  <1>3. CASE k \in LinkKeys(d)
    <2>1. \A l \in d.links : l.relation \in Nat /\ l.source \in Nat /\ l.target \in Nat
      BY DEF IsDatabase, ShortIds, UInt32
    <2>2. k \in Seq(Nat) /\ Len(k) = 12
      BY <1>2, <1>3, <2>1
         DEF LinkKeys, kRelationDirectionForward, kRelationDirectionBackward
    <2> QED BY <2>2 DEF IsDataKey
  <1>4. CASE k \in DataKeys(d)
    <2>1. PICK o \in d.objects : k = DataKey(o.entity, o.id)
      BY <1>4 DEF DataKeys
    <2>2. o.entity \in Nat /\ o.id \in Nat
      BY SMT DEF IsDatabase, ShortIds, UInt32
    <2>3. (o.entity * 4) % 256 \in Nat
      BY <2>2, SMT
    <2>4. \A i \in 1..4 : writeUint32BE(o.id)[i] \in Nat
      BY <2>2, IdBytes
    <2>5. k \in Seq(Nat)
      BY <2>1, <2>3, <2>4, SMT DEF DataKey, kKeyTypeData
    <2> QED BY <2>1, <2>5
  <1> QED BY <1>1, <1>3, <1>4 DEF Image

-----------------------------------------------------------------------------
(* The keys of links. *)

(* The key of a link: relation id and direction in one byte, then the four *)
(* bytes of its source and the four bytes of its target.                   *)
LinkCodedBy(r, dir, s, t, a, b, c, d, e, f, g, h) ==
  /\ RelationPrefix(r, dir, s) = <<8, 0, 0, r * 4 + dir, a, b, c, d>>
  /\ RelationKey(r, dir, s, t) = <<8, 0, 0, r * 4 + dir, a, b, c, d, e, f, g, h>>
  /\ s = ((a * 256 + b) * 256 + c) * 256 + d
  /\ t = ((e * 256 + f) * 256 + g) * 256 + h

LEMMA Joined ==
  ASSUME NEW p \in Seq(Nat), NEW w \in Seq(Nat), NEW k \in Seq(Nat),
         Len(p) = 8, Len(w) = 4, Len(k) = 12,
         \A i \in 1..12 : k[i] = IF i <= 8 THEN p[i] ELSE w[i - 8]
  PROVE  p \o w = k
  <1>1. /\ p \o w \in Seq(Nat) /\ Len(p \o w) = Len(p) + Len(w)
        /\ \A i \in 1..Len(p) + Len(w) : (p \o w)[i] = IF i <= Len(p) THEN p[i] ELSE w[i - Len(p)]
    BY ConcatProperties
  <1>2. Len(p \o w) = 12
    BY <1>1
  <1>3. ASSUME NEW i \in 1..12 PROVE (p \o w)[i] = k[i]
    <2>1. i \in 1..Len(p) + Len(w)
      OBVIOUS
    <2>2. (p \o w)[i] = IF i <= Len(p) THEN p[i] ELSE w[i - Len(p)]
      BY <1>1, <2>1
    <2> QED BY <2>2
  <1> QED BY <1>1, <1>2, <1>3, SeqEqual

LEMMA LinkKeyShape ==
  ASSUME NEW r \in ShortIds, NEW dir \in {0, 2}, NEW s \in UInt32, NEW t \in UInt32
  PROVE  \E a, b, c, d, e, f, g, h \in Byte : LinkCodedBy(r, dir, s, t, a, b, c, d, e, f, g, h)
  <1>1. PICK a, b, c, d \in Byte : /\ writeUint32BE(s) = <<a, b, c, d>>
                                   /\ s = ((a * 256 + b) * 256 + c) * 256 + d
    BY WordShape
  <1>2. PICK e, f, g, h \in Byte : /\ writeUint32BE(t) = <<e, f, g, h>>
                                   /\ t = ((e * 256 + f) * 256 + g) * 256 + h
    BY WordShape
  <1> DEFINE n == r * 4 + dir
             p == <<8, 0, 0, n, a, b, c, d>>
             w == <<e, f, g, h>>
             k == <<8, 0, 0, n, a, b, c, d, e, f, g, h>>
  <1>3. n \in Nat /\ n % 256 = n
    BY SMT DEF ShortIds
  <1>4. RelationPrefix(r, dir, s) = p
    BY <1>1, <1>3 DEF RelationPrefix, kKeyTypeRelation
  <1>5. RelationKey(r, dir, s, t) = p \o w
    BY <1>2, <1>4 DEF RelationKey
  <1> HIDE DEF n
  <1>6. p \in Seq(Nat) /\ w \in Seq(Nat) /\ k \in Seq(Nat) /\ Len(p) = 8 /\ Len(w) = 4 /\ Len(k) = 12
    BY <1>3 DEF Byte
  <1>7. p \o w = k
    <2>1. \A i \in 1..12 : k[i] = IF i <= 8 THEN p[i] ELSE w[i - 8]
      OBVIOUS
    <2> HIDE DEF p, w, k
    <2> QED BY <2>1, <1>6, Joined
  <1> USE DEF n
  <1> QED BY <1>1, <1>2, <1>4, <1>5, <1>7 DEF LinkCodedBy

(* The links of one source lie in the order of their targets, and the      *)
(* reader takes the target from the key.                                   *)
LEMMA LinkOrder ==
  ASSUME NEW r \in ShortIds, NEW dir \in {0, 2}, NEW s \in UInt32, NEW t \in UInt32, NEW u \in UInt32
  PROVE  /\ KeyLess(RelationKey(r, dir, s, t), RelationKey(r, dir, s, u)) <=> t < u
         /\ readUint32BE(RelationKey(r, dir, s, t), 9) = t
         /\ RelationKey(r, dir, s, t) \in Seq(Nat)
         /\ Len(RelationKey(r, dir, s, t)) = 12
  <1>1. PICK a, b, c, d, e, f, g, h \in Byte : LinkCodedBy(r, dir, s, t, a, b, c, d, e, f, g, h)
    BY LinkKeyShape
  <1>2. PICK a2, b2, c2, d2, e2, f2, g2, h2 \in Byte :
          LinkCodedBy(r, dir, s, u, a2, b2, c2, d2, e2, f2, g2, h2)
    BY LinkKeyShape
  <1>3. a = a2 /\ b = b2 /\ c = c2 /\ d = d2
    BY <1>1, <1>2 DEF LinkCodedBy
  <1> DEFINE Bytewise == \/ e < e2
                         \/ e = e2 /\ f < f2
                         \/ e = e2 /\ f = f2 /\ g < g2
                         \/ e = e2 /\ f = f2 /\ g = g2 /\ h < h2
  <1>4. r * 4 + dir \in Nat
    BY DEF ShortIds
  <1>5. KeyLess(RelationKey(r, dir, s, t), RelationKey(r, dir, s, u)) <=> Bytewise
    <2> DEFINE n == r * 4 + dir
               k == <<8, 0, 0, n, a, b, c, d, e, f, g, h>>
               j == <<8, 0, 0, n, a, b, c, d, e2, f2, g2, h2>>
    <2>1. RelationKey(r, dir, s, t) = k /\ RelationKey(r, dir, s, u) = j
      BY <1>1, <1>2, <1>3 DEF LinkCodedBy
    <2>2. Len(k) = 12 /\ Len(j) = 12 /\ \A i \in 1..8 : k[i] = j[i] /\ k[i] \in Nat
      BY <1>4 DEF Byte
    <2>3. /\ k[9] = e /\ k[10] = f /\ k[11] = g /\ k[12] = h
          /\ j[9] = e2 /\ j[10] = f2 /\ j[11] = g2 /\ j[12] = h2
      OBVIOUS
    <2> HIDE DEF k, j, n
    <2>4. ASSUME KeyLess(k, j) PROVE Bytewise
      <3>1. PICK i \in 1..12 : (\A m \in 1..(i - 1) : k[m] = j[m]) /\ k[i] < j[i]
        BY <2>2, <2>4 DEF KeyLess
      <3>2. i \notin 1..8
        BY <2>2, <3>1
      <3>3. i = 9 \/ i = 10 \/ i = 11 \/ i = 12
        BY <3>2
      <3> QED BY <2>3, <3>1, <3>3
    <2>5. ASSUME NEW i \in 9..12, \A m \in 9..(i - 1) : k[m] = j[m], k[i] < j[i]
          PROVE  KeyLess(k, j)
      <3>1. i \in 1..Len(j) /\ i <= Len(k) + 1
        BY <2>2
      <3>2. \A m \in 1..(i - 1) : k[m] = j[m]
        BY <2>2, <2>5
      <3> QED BY <2>5, <3>1, <3>2 DEF KeyLess
    <2>6. ASSUME Bytewise PROVE KeyLess(k, j)
      BY <2>3, <2>5, <2>6
    <2> QED BY <2>1, <2>4, <2>6
  <1>6. t < u <=> Bytewise
    BY <1>1, <1>2 DEF LinkCodedBy, Byte
  <1> QED BY <1>1, <1>4, <1>5, <1>6 DEF LinkCodedBy, readUint32BE, Byte


(* The keys with the forward prefix of a relation and a source are those   *)
(* of its links: no schema entry, no object, no backward entry and no link *)
(* of a neighbouring source gets among them.                               *)
LEMMA LinksByPrefix ==
  ASSUME NEW db, IsDatabase(db), NEW r \in ShortIds, NEW s \in UInt32, NEW k \in Image(db)
  PROVE  HasPrefix(k, RelationPrefix(r, kRelationDirectionForward, s)) <=>
           \E l \in db.links : /\ l.relation = r /\ l.source = s
                               /\ k = RelationKey(r, kRelationDirectionForward, s, l.target)
  <1> DEFINE p == RelationPrefix(r, 0, s)
  <1>1. kRelationDirectionForward = 0 /\ kRelationDirectionBackward = 2
    BY DEF kRelationDirectionForward, kRelationDirectionBackward
  <1>2. \A l \in db.links : l.relation \in ShortIds /\ l.source \in UInt32 /\ l.target \in UInt32
    BY DEF IsDatabase
  <1>3. 0 \in UInt32
    BY DEF UInt32
  <1>4. PICK a, b, c, d, e, f, g, h \in Byte : LinkCodedBy(r, 0, s, 0, a, b, c, d, e, f, g, h)
    BY <1>3, LinkKeyShape
  <1>5. /\ p = <<8, 0, 0, r * 4, a, b, c, d>>
        /\ s = ((a * 256 + b) * 256 + c) * 256 + d
    BY <1>4 DEF LinkCodedBy, ShortIds
  <1>6. ASSUME NEW l \in db.links, NEW dir \in {0, 2}, NEW t \in UInt32, NEW u \in UInt32,
               HasPrefix(RelationKey(l.relation, dir, t, u), p)
        PROVE  l.relation = r /\ dir = 0 /\ t = s
    <2>1. l.relation \in ShortIds
      BY <1>2
    <2>2. PICK a2, b2, c2, d2, e2, f2, g2, h2 \in Byte :
            LinkCodedBy(l.relation, dir, t, u, a2, b2, c2, d2, e2, f2, g2, h2)
      BY <2>1, LinkKeyShape
    <2> DEFINE j == <<8, 0, 0, l.relation * 4 + dir, a2, b2, c2, d2, e2, f2, g2, h2>>
    <2>a. RelationKey(l.relation, dir, t, u) = j
      BY <2>2 DEF LinkCodedBy
    <2>b. HasPrefix(j, p)
      BY <1>6, <2>a
    <2>c. /\ Len(p) = 8 /\ p[4] = r * 4 /\ p[5] = a /\ p[6] = b /\ p[7] = c /\ p[8] = d
          /\ j[4] = l.relation * 4 + dir /\ j[5] = a2 /\ j[6] = b2 /\ j[7] = c2 /\ j[8] = d2
      <3> HIDE DEF p
      <3> QED BY <1>5
    <2>d. \A i \in 1..8 : j[i] = p[i]
      <3> HIDE DEF p, j
      <3> QED BY <2>b, <2>c DEF HasPrefix
    <2>3. l.relation * 4 + dir = r * 4 /\ a = a2 /\ b = b2 /\ c = c2 /\ d = d2
      <3> HIDE DEF p, j
      <3>1. j[4] = p[4] /\ j[5] = p[5] /\ j[6] = p[6] /\ j[7] = p[7] /\ j[8] = p[8]
        BY <2>d
      <3> QED BY <2>c, <3>1
    <2>4. l.relation = r /\ dir = 0
      BY <2>1, <2>3 DEF ShortIds
    <2>5. t = s
      BY <1>5, <2>2, <2>3 DEF LinkCodedBy
    <2> QED BY <2>4, <2>5
  <1>7. ASSUME NEW l \in db.links, l.relation = r, l.source = s,
               k = RelationKey(r, 0, s, l.target)
        PROVE  HasPrefix(k, p)
    <2>1. l.target \in UInt32
      BY <1>2
    <2>2. PICK a2, b2, c2, d2, e2, f2, g2, h2 \in Byte :
            LinkCodedBy(r, 0, s, l.target, a2, b2, c2, d2, e2, f2, g2, h2)
      BY <2>1, LinkKeyShape
    <2> DEFINE j == <<8, 0, 0, r * 4 + 0, a2, b2, c2, d2, e2, f2, g2, h2>>
    <2>3. k = j /\ p = <<8, 0, 0, r * 4 + 0, a2, b2, c2, d2>>
      BY <1>7, <2>2 DEF LinkCodedBy
    <2>4. Len(p) = 8 /\ Len(j) = 12 /\ \A i \in 1..8 : j[i] = p[i]
      <3> HIDE DEF p
      <3> QED BY <2>3
    <2> HIDE DEF p, j
    <2> QED BY <2>3, <2>4 DEF HasPrefix
  <1>8. CASE k \in SchemaKeys(db) \cup DataKeys(db)
    <2>1. k[1] # 8
      BY <1>8 DEF SchemaKeys, DataKeys, SchemaKey, DataKey, kKeyTypeSchema, kKeyTypeData
    <2>2. ~HasPrefix(k, p)
      <3>1. p[1] = 8 /\ 1 \in 1..Len(p)
        BY <1>5
      <3> HIDE DEF p
      <3> QED BY <2>1, <3>1 DEF HasPrefix
    <2> QED BY <1>1, <1>7, <2>2
  <1>9. CASE k \in LinkKeys(db)
    <2> HIDE DEF p
    <2>1. ASSUME HasPrefix(k, p)
          PROVE  \E l \in db.links : /\ l.relation = r /\ l.source = s
                                     /\ k = RelationKey(r, 0, s, l.target)
      <3>1. CASE \E l \in db.links : k = RelationKey(l.relation, 0, l.source, l.target)
        BY <1>2, <1>6, <2>1, <3>1
      <3>2. CASE \E l \in db.links : k = RelationKey(l.relation, 2, l.target, l.source)
        <4>1. PICK l \in db.links : k = RelationKey(l.relation, 2, l.target, l.source)
          BY <3>2
        <4>2. FALSE
          BY <1>2, <1>6, <2>1, <4>1
        <4> QED BY <4>2
      <3> QED BY <1>1, <1>9, <3>1, <3>2 DEF LinkKeys
    <2> QED BY <1>1, <1>7, <2>1 DEF p
  <1> QED BY <1>8, <1>9 DEF Image

(* What lies between two keys with a prefix has the prefix.                *)
LEMMA PrefixConvex ==
  ASSUME NEW a \in Seq(Nat), NEW b \in Seq(Nat), NEW c \in Seq(Nat), NEW p \in Seq(Nat),
         HasPrefix(a, p), HasPrefix(c, p), KeyLess(a, b), KeyLess(b, c)
  PROVE  HasPrefix(b, p)
  <1>1. PICK i \in 1..Len(b) : /\ i <= Len(a) + 1
                               /\ \A j \in 1..(i - 1) : a[j] = b[j]
                               /\ i <= Len(a) => a[i] < b[i]
    BY DEF KeyLess
  <1>2. PICK m \in 1..Len(c) : /\ m <= Len(b) + 1
                               /\ \A j \in 1..(m - 1) : b[j] = c[j]
                               /\ m <= Len(b) => b[m] < c[m]
    BY DEF KeyLess
  <1>3. /\ Len(a) \in Nat /\ Len(b) \in Nat /\ Len(c) \in Nat /\ Len(p) \in Nat
        /\ Len(p) <= Len(a) /\ Len(p) <= Len(c)
        /\ \A j \in 1..Len(p) : a[j] = p[j] /\ c[j] = p[j] /\ p[j] \in Nat
    BY LenProperties, ElementOfSeq DEF HasPrefix
  <1>4. CASE m > Len(p)
    <2>1. Len(b) >= Len(p) /\ \A j \in 1..Len(p) : b[j] = p[j]
      BY <1>2, <1>3, <1>4
    <2> QED BY <2>1 DEF HasPrefix
  <1>5. CASE i > Len(p)
    <2>1. Len(b) >= Len(p) /\ \A j \in 1..Len(p) : b[j] = p[j]
      BY <1>1, <1>3, <1>5
    <2> QED BY <2>1 DEF HasPrefix
  <1>6. CASE i <= Len(p) /\ m <= Len(p)
    <2>1. i \in Nat /\ m \in Nat /\ i \in 1..Len(p) /\ m \in 1..Len(p)
      BY <1>3, <1>6
    <2>2. a[i] = p[i] /\ c[m] = p[m] /\ a[i] < b[i]
      BY <1>1, <1>3, <1>6, <2>1
    <2>3. CASE i < m
      <3>1. b[i] = c[i] /\ c[i] = p[i] /\ p[i] \in Nat
        BY <1>2, <1>3, <2>1, <2>3
      <3> QED BY <2>2, <3>1
    <2>4. CASE m <= i
      <3>1. m \in 1..Len(b)
        BY <1>3, <2>1, <2>4
      <3>2. b[m] \in Nat /\ b[i] \in Nat /\ p[m] \in Nat
        BY <1>3, <2>1, <3>1, ElementOfSeq
      <3>3. b[m] < c[m]
        BY <1>2, <1>3, <3>1
      <3>4. CASE m = i
        BY <2>2, <3>2, <3>3, <3>4
      <3>5. CASE m < i
        <4>1. a[m] = b[m] /\ a[m] = p[m]
          BY <1>1, <1>3, <2>1, <3>5
        <4> QED BY <2>2, <3>2, <3>3, <4>1
      <3> QED BY <2>1, <2>4, <3>4, <3>5
    <2> QED BY <2>1, <2>3, <2>4
  <1>7. m > Len(p) \/ i > Len(p) \/ (i <= Len(p) /\ m <= Len(p))
    <2>1. i \in Nat /\ m \in Nat /\ Len(p) \in Nat
      BY <1>3
    <2> QED BY <2>1
  <1> QED BY <1>4, <1>5, <1>6, <1>7

(* No key of an image is empty.                                            *)
LEMMA KeysNotEmpty ==
  ASSUME NEW db, IsDatabase(db), NEW k \in Image(db)
  PROVE  k # <<>>
  <1>1. CASE k \in SchemaKeys(db) \cup DataKeys(db)
    <2>1. \A e, v : SchemaKey(e) # <<>> /\ DataKey(e, v) # <<>>
      BY DEF SchemaKey, DataKey
    <2> QED BY <1>1, <2>1 DEF SchemaKeys, DataKeys
  <1>2. ASSUME NEW l \in db.links, NEW dir \in {0, 2}
        PROVE  /\ RelationKey(l.relation, dir, l.source, l.target) # <<>>
               /\ RelationKey(l.relation, dir, l.target, l.source) # <<>>
    <2>1. l.relation \in ShortIds /\ l.source \in UInt32 /\ l.target \in UInt32
      BY DEF IsDatabase
    <2>2. /\ Len(RelationKey(l.relation, dir, l.source, l.target)) = 12
          /\ Len(RelationKey(l.relation, dir, l.target, l.source)) = 12
      BY <2>1, LinkOrder
    <2>3. ASSUME NEW j, Len(j) = 12 PROVE j # <<>>
      <3> SUFFICES ASSUME j = <<>> PROVE FALSE
        OBVIOUS
      <3>1. Len(<<>>) = 0
        OBVIOUS
      <3>2. Len(<<>>) = 12
        BY <2>3, Zenon
      <3> QED BY <3>1, <3>2
    <2> QED BY <2>2, <2>3, Zenon
  <1>3. CASE k \in LinkKeys(db)
    BY <1>2, <1>3 DEF LinkKeys, kRelationDirectionForward, kRelationDirectionBackward
  <1> QED BY <1>1, <1>3 DEF Image
=============================================================================
