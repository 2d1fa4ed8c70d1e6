------------------------------- MODULE ObKeys -------------------------------
(***************************************************************************)
(* The keys of the root LMDB database of an ObjectBox store, as byte       *)
(* tuples: the encoders that write them (dart fixture_writer.dart), the    *)
(* decoders of the reader (lmdb_reader.cpp) and the order LMDB keeps them  *)
(* in (mdb_cmp_memn).                                                      *)
(*                                                                         *)
(*   data     <<16#18, 0, 0, entity*4, object id: u32 big endian>>         *)
(*   schema   <<16#00, 0, 0, 0, 0, 0, 0, entity>>                          *)
(*   relation <<16#08, 0, 0, rel*4 + direction, source: u32, target: u32>> *)
(***************************************************************************)
EXTENDS Naturals, Sequences, FiniteSets

Byte == 0..255
Key == Seq(Byte)
ShortIds == 1..63   \* ids a key byte has room for, beside two bits
UInt32 == {n \in Nat : n \div 16777216 <= 255}   \* fits into four bytes

kKeyTypeSchema   == 0
kKeyTypeRelation == 8
kKeyTypeData     == 24
kKeyTypeIndex    == 32

kRelationDirectionForward  == 0
kRelationDirectionBackward == 2

-----------------------------------------------------------------------------
(* Encoding.  A byte store keeps the low eight bits. *)

(* Mutant: the bytes of an id in the order of the machine.                 *)
LittleEndianWrite(v) ==
  <<v % 256, (v \div 256) % 256, (v \div 65536) % 256, (v \div 16777216) % 256>>

writeUint32BE(v) ==
  <<(v \div 16777216) % 256, (v \div 65536) % 256, (v \div 256) % 256, v % 256>>

DataKey(entityId, objectId) ==
  LET id == writeUint32BE(objectId)
  IN  <<kKeyTypeData, 0, 0, (entityId * 4) % 256, id[1], id[2], id[3], id[4]>>

SchemaKey(entityId) == <<kKeyTypeSchema, 0, 0, 0, 0, 0, 0, entityId % 256>>

RelationPrefix(relationId, direction, source) ==
  LET id == writeUint32BE(source)
  IN  <<kKeyTypeRelation, 0, 0, (relationId * 4 + direction) % 256,
        id[1], id[2], id[3], id[4]>>

RelationKey(relationId, direction, source, target) ==
  RelationPrefix(relationId, direction, source) \o writeUint32BE(target)

-----------------------------------------------------------------------------
(* Decoding. *)

(* Mutants: the id read in the order of the machine (less the top bit, for  *)
(* which TLC's integers have no room); the entity id not shifted back.     *)
LittleEndianRead(k, i) ==
  (((k[i + 3] % 128) * 256 + k[i + 2]) * 256 + k[i + 1]) * 256 + k[i]
UnshiftedEntityId(k) == k[4]

(* The four bytes of k from position i on, big endian. *)
readUint32BE(k, i) ==
  ((k[i] * 256 + k[i + 1]) * 256 + k[i + 2]) * 256 + k[i + 3]

IsDataKey(k) == Len(k) = 8 /\ k[1] = kKeyTypeData
EntityId(k) == k[4] \div 4
ObjectId(k) == readUint32BE(k, 5)

HasPrefix(k, prefix) ==
  Len(k) >= Len(prefix) /\ \A i \in 1..Len(prefix) : k[i] = prefix[i]

-----------------------------------------------------------------------------
(* LMDB's order: the first byte that differs decides, a proper prefix is   *)
(* the smaller key.                                                        *)
KeyLess(a, b) ==
  \E i \in 1..Len(b) :
    /\ i <= Len(a) + 1
    /\ \A j \in 1..(i - 1) : a[j] = b[j]
    /\ i <= Len(a) => a[i] < b[i]

(* The elements of a finite set in the order Less, which is total on it.   *)
Ascending(S, Less(_, _)) ==
  [i \in 1..Cardinality(S) |->
     CHOOSE x \in S : Cardinality({y \in S : Less(y, x)}) = i - 1]

(* What the walk of the reader rests on: the keys of two objects (entity   *)
(* e, id v) and (entity f, id w) lie in the order of entity and object id, *)
(* and a key gives back the ids it was made from.                          *)
KeysFollowIds(e, v, f, w) ==
  KeyLess(DataKey(e, v), DataKey(f, w)) <=> e < f \/ (e = f /\ v < w)

KeyKeepsIds(e, v) ==
  /\ IsDataKey(DataKey(e, v))
  /\ EntityId(DataKey(e, v)) = e
  /\ ObjectId(DataKey(e, v)) = v

(* Where a cursor that looks for the least key of S stands afterwards: on  *)
(* that key, or nowhere (mdb_cursor_get answers MDB_NOTFOUND).  No key of  *)
(* LMDB is empty.                                                          *)
NotFound == <<>>
CursorLands(S, k) ==
  \/ S = {} /\ k = NotFound
  \/ k \in S /\ \A j \in S : j = k \/ KeyLess(k, j)
=============================================================================
