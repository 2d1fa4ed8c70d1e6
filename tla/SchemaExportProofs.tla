------------------------- MODULE SchemaExportProofs -------------------------
(***************************************************************************)
(* Where fields lie, for every list of properties: each id has a vtable    *)
(* slot of its own, and the generated .fbs declares each property where    *)
(* flatc gives it that slot.                                               *)
(***************************************************************************)
EXTENDS SchemaExport, TLAPS

(* A property list as ObjectBox keeps it: an id is used once, and a table  *)
(* has room for it.                                                        *)
IsPropertyList(properties) ==
  /\ properties \in Seq([id : TableIds, name : STRING, type : STRING,
                         isUnsigned : BOOLEAN, externalType : Int])
  /\ \A i, j \in DOMAIN properties : properties[i].id = properties[j].id => i = j

LEMMA SmallRemainder ==
  ASSUME NEW n \in Nat, n < 65536
  PROVE  n % 65536 = n
  BY SMT

LEMMA TableIdBounds ==
  ASSUME NEW i \in TableIds
  PROVE  i \in Nat /\ 1 <= i /\ i <= 32766 /\ i \in 1..i
  <1>1. i \in Nat /\ 1 <= i /\ i <= 32766
    BY SMT DEF TableIds
  <1> QED BY <1>1, SMT

(* Up to the last slot 16 bits can hold slotFor does not wrap.             *)
LEMMA SlotDoesNotWrap ==
  ASSUME NEW i \in TableIds
  PROVE  /\ slotFor(i) = 2 * i + 2
         /\ FlatcSlot(i) = 2 * i + 2
  <1>1. i \in Nat /\ 1 <= i /\ i <= 32766
    BY TableIdBounds
  <1>2. /\ 4 + (i - 1) * 2 = 2 * i + 2
        /\ 4 + 2 * (i - 1) = 2 * i + 2
        /\ 2 * i + 2 \in Nat
        /\ 2 * i + 2 < 65536
    BY <1>1, SMT
  <1>3. (2 * i + 2) % 65536 = 2 * i + 2
    BY <1>2, SmallRemainder
  <1> QED BY <1>2, <1>3 DEF slotFor, FlatcSlot

(* Two properties of an entity never read the same field, and none reads   *)
(* the header of the vtable (fb_decode.cpp, slotFor).                      *)
THEOREM SlotsNeverMeet ==
  \A i, j \in TableIds : SlotsApart(i, j)
  <1> TAKE i, j \in TableIds
  <1>1. slotFor(i) = 2 * i + 2 /\ slotFor(j) = 2 * j + 2
    BY SlotDoesNotWrap
  <1>2. i \in Nat /\ j \in Nat /\ 1 <= i
    BY TableIdBounds
  <1> QED BY <1>1, <1>2, SMT DEF SlotsApart

LEMMA ElementInSet ==
  ASSUME NEW S, NEW s \in Seq(S), NEW i \in DOMAIN s
  PROVE  /\ s[i] \in S
         /\ i \in Nat
  BY SMT

(* The property of an id used once is the one the map byId keeps.          *)
LEMMA ByIdIsUnique ==
  ASSUME NEW properties, IsPropertyList(properties), NEW i \in DOMAIN properties
  PROVE  byId(properties, properties[i].id) = properties[i]
  <1> DEFINE Kept(k) == /\ properties[k].id = properties[i].id
                        /\ \A j \in DOMAIN properties :
                             properties[j].id = properties[i].id => j <= k
  <1>1. \A k \in DOMAIN properties : properties[k].id = properties[i].id => k = i
    BY DEF IsPropertyList
  <1>2. i <= i
    <2>1. i \in Nat
      BY ElementInSet DEF IsPropertyList
    <2> QED BY <2>1, SMT
  <1>3. Kept(i)
    BY <1>1, <1>2
  <1>4. (CHOOSE k \in DOMAIN properties : Kept(k)) = i
    BY <1>1, <1>3
  <1> QED BY <1>4 DEF byId

(* A flatc reader of the generated table reads every property at the slot  *)
(* the decoder reads it at, under its name and type, whatever ids are      *)
(* retired and in whatever order the document lists them (fbs_gen.cpp).    *)
THEOREM DeclaredAtSlots ==
  ASSUME NEW properties, IsPropertyList(properties), NEW i \in DOMAIN properties
  PROVE  DeclaredAtItsSlot(properties, properties[i])
  <1> DEFINE id == properties[i].id
             ids == PropertyIds(properties)
  <1>1. id \in TableIds
    <2>1. properties[i] \in [id : TableIds, name : STRING, type : STRING,
                             isUnsigned : BOOLEAN, externalType : Int]
      BY ElementInSet DEF IsPropertyList
    <2> QED BY <2>1
  <1>2. id \in ids
    BY DEF PropertyIds
  <1>3. id \in 1..id
    BY <1>1, TableIdBounds
  <1>4. id \in UNION {1..last : last \in ids}
    BY <1>2, <1>3
  <1>5. /\ id \in DOMAIN generateTable(properties)
        /\ generateTable(properties)[id] = writeField(byId(properties, id))
    BY <1>2, <1>4 DEF generateTable
  <1>6. generateTable(properties)[id] = writeField(properties[i])
    BY <1>5, ByIdIsUnique
  <1>7. FlatcSlot(id) = slotFor(id)
    BY <1>1, SlotDoesNotWrap
  <1> QED BY <1>5, <1>6, <1>7 DEF DeclaredAtItsSlot
=============================================================================
