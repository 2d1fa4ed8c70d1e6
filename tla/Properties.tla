----------------------------- MODULE Properties -----------------------------
(***************************************************************************)
(* The properties of an entity as Schema::parse reads them from the model  *)
(* document, and where a record's table keeps them.                        *)
(*                                                                         *)
(* In the document a property is [id, name, type, flags, externalType],    *)
(* with the raw numbers of ObjectBox; flags and externalType are 0 where   *)
(* the document leaves them out, which Schema::parse treats alike.  Parsed *)
(* it is [id, name, type, isUnsigned, externalType]; types are named as    *)
(* toString names them.                                                    *)
(***************************************************************************)
EXTENDS Integers, Sequences, FiniteSets

PropertyTypes ==
  [Bool |-> 1, Byte |-> 2, Short |-> 3, Char |-> 4, Int |-> 5, Long |-> 6,
   Float |-> 7, Double |-> 8, String |-> 9, Date |-> 10, Relation |-> 11,
   DateNano |-> 12, Flex |-> 13, BoolVector |-> 22, ByteVector |-> 23,
   ShortVector |-> 24, CharVector |-> 25, IntVector |-> 26, LongVector |-> 27,
   FloatVector |-> 28, DoubleVector |-> 29, StringVector |-> 30,
   DateVector |-> 31, DateNanoVector |-> 32]

toPropertyType(raw) ==
  IF \E t \in DOMAIN PropertyTypes : PropertyTypes[t] = raw
  THEN CHOOSE t \in DOMAIN PropertyTypes : PropertyTypes[t] = raw
  ELSE "Unknown"

(* toPropertyType backwards, as a reader of the schema export applies it.  *)
RawType(name) == IF name \in DOMAIN PropertyTypes THEN PropertyTypes[name] ELSE -1

kPropertyFlagUnsigned == 8192

ExternalPropertyType ==
  [Int128 |-> 100, Uuid |-> 102, Decimal128 |-> 103, FlexMap |-> 107,
   FlexVector |-> 108, Json |-> 109, Bson |-> 110, JavaScript |-> 111,
   JsonToNative |-> 112, Int128Vector |-> 116, UuidVector |-> 118]

(* No name for a code that is not listed.                                  *)
NoName == ""
externalTypeName(code) ==
  IF \E n \in DOMAIN ExternalPropertyType : ExternalPropertyType[n] = code
  THEN CHOOSE n \in DOMAIN ExternalPropertyType : ExternalPropertyType[n] = code
  ELSE NoName

Unsigned(flags) == (flags \div kPropertyFlagUnsigned) % 2 = 1

ParseProperty(p) ==
  [id |-> p.id, name |-> p.name, type |-> toPropertyType(p.type),
   isUnsigned |-> Unsigned(p.flags), externalType |-> p.externalType]

ParseProperties(raw) == [i \in DOMAIN raw |-> ParseProperty(raw[i])]

-----------------------------------------------------------------------------
(* The vtable of a FlatBuffers table: two header entries, then one 16-bit   *)
(* entry per field.  ObjectBox declares fields in the order of their ids.  *)

(* Mutant: the header left out.                                            *)
slotWithoutHeader(propertyId) == ((propertyId - 1) * 2) % 65536

slotFor(propertyId) == (4 + (propertyId - 1) * 2) % 65536

(* The ids whose slot 16 bits can hold.                                    *)
TableIds == 1..32766

(* Every id has a slot of its own, and none lies in the header.            *)
SlotsApart(i, j) ==
  /\ slotFor(i) >= 4
  /\ slotFor(i) = slotFor(j) => i = j
=============================================================================
