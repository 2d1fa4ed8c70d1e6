------------------------------- MODULE Decode -------------------------------
(***************************************************************************)
(* decodeObject: one record, a FlatBuffers table, to one JSON object.      *)
(*                                                                         *)
(* A record is [root, fields]: root says whether the verifier accepts the  *)
(* root offset and the vtable, fields maps the slots whose vtable entry is *)
(* not 0 to what the entry points at:                                      *)
(*                                                                         *)
(*   [scalar |-> bytes]                 stored inline, little endian       *)
(*   [count |-> n, data |-> bytes]      a vector of n scalars              *)
(*   [text |-> t]    [texts |-> <<..>>] a string, a vector of strings      *)
(*   [flex |-> value]                   a byte vector that holds a         *)
(*                                      FlexBuffers value                  *)
(*   Broken                             what a verifier rejects            *)
(*                                                                         *)
(* A byte has Radix values (256): numbers keep their width in bytes and    *)
(* wrap at Radix^width.  Floating-point values stay the bytes they are.    *)
(***************************************************************************)
EXTENDS Properties, Flex, SequencesExt

CONSTANT Radix
ASSUME RadixAssumption == Radix \in Nat /\ Radix >= 2 /\ Radix % 2 = 0

Broken == [broken |-> TRUE]
Throws == [throws |-> TRUE]    \* decodeObject throws
Omitted == [omitted |-> TRUE]  \* no such member in the JSON object

-----------------------------------------------------------------------------
(* The C++ type a property's elements are read as: bytes, and signedness.  *)
Vectors ==
  [BoolVector |-> "Bool", ByteVector |-> "Byte", ShortVector |-> "Short",
   CharVector |-> "Char", IntVector |-> "Int", LongVector |-> "Long",
   FloatVector |-> "Float", DoubleVector |-> "Double", DateVector |-> "Date",
   DateNanoVector |-> "DateNano"]

Width ==
  [Bool |-> 1, Byte |-> 1, Short |-> 2, Char |-> 2, Int |-> 4, Long |-> 8,
   Date |-> 8, Relation |-> 8, DateNano |-> 8, Float |-> 4, Double |-> 8]

Reals == {"Float", "Double"}

(* Mutant: the UNSIGNED flag is not looked at.                             *)
SignedByType(type, isUnsigned) == type # "Char"

Signed(type, isUnsigned) == ~isUnsigned /\ type # "Char"

(* The element of data that begins behind the first `at` bytes.            *)
Bytes(data, at, width) == SubSeq(data, at + 1, at + width)

GetField(bytes, signed) ==
  LET unsigned == FoldRight(LAMBDA b, high : b + Radix * high, bytes, 0)
  IN  IF signed /\ bytes[Len(bytes)] >= Radix \div 2
      THEN unsigned - Radix ^ Len(bytes)
      ELSE unsigned

JsonScalar(type, isUnsigned, bytes) ==
  CASE type = "Bool"   -> [bool |-> bytes # <<0>>]
    [] type \in Reals  -> [real |-> bytes]
    [] OTHER           -> [number |-> GetField(bytes, Signed(type, isUnsigned))]

-----------------------------------------------------------------------------
(* Texts that hold JSON.  nlohmann::json::parse, outside src, either       *)
(* returns a value or throws: parse_error for what is not JSON, or         *)
(* out_of_range for a number too large for a double.                       *)
Texts == {"json", "prose", "hugeNumber"}
ParseOutcome == [json |-> "value", prose |-> "parse_error", hugeNumber |-> "out_of_range"]

(* Only parse_error is caught.                                             *)
decodeStringAsJson(text) ==
  CASE ParseOutcome[text] = "value"       -> [parsed |-> text]
    [] ParseOutcome[text] = "parse_error" -> [string |-> text]
    [] OTHER                              -> Throws

JsonTexts == {ExternalPropertyType.Json, ExternalPropertyType.JavaScript,
              ExternalPropertyType.JsonToNative}

-----------------------------------------------------------------------------
Blobs == {ExternalPropertyType.Int128, ExternalPropertyType.Decimal128,
          ExternalPropertyType.Bson}

hexAsUuid(bytes) == IF Len(bytes) = 16 THEN [uuid |-> bytes] ELSE [hex |-> bytes]

(* A vector of scalars, or the bytes of a blob as a string.                *)
decodeVector(prop, vec) ==
  LET element == Vectors[prop.type]
      w == Width[element]
  IN  CASE prop.type = "ByteVector" /\ prop.externalType = ExternalPropertyType.Uuid ->
             hexAsUuid(vec.data)
        [] prop.type = "ByteVector" /\ prop.externalType \in Blobs -> [hex |-> vec.data]
        [] OTHER -> [array |-> [i \in 1..vec.count |->
                       JsonScalar(element, prop.isUnsigned, Bytes(vec.data, (i - 1) * w, w))]]

(* What the field of a property contributes; the verifier has accepted it. *)
decodeField(prop, field) ==
  CASE prop.type \in DOMAIN Width ->
         JsonScalar(prop.type, prop.isUnsigned, Bytes(field.scalar, 0, Width[prop.type]))
    [] prop.type \in DOMAIN Vectors -> decodeVector(prop, field)
    [] prop.type = "String" /\ prop.externalType \in JsonTexts -> decodeStringAsJson(field.text)
    [] prop.type = "String" /\ prop.externalType \notin JsonTexts -> [string |-> field.text]
    [] prop.type = "StringVector" ->
         [array |-> [i \in DOMAIN field.texts |-> [string |-> field.texts[i]]]]
    [] prop.type = "Flex" -> flexToJson(field.flex)

(* CheckField: the slot lies in this record's vtable and is not 0.         *)
CheckField(record, slot) == slot \in DOMAIN record.fields

(* Mutant: a broken field is left out as if the record did not have it.    *)
BrokenOmitted(record, prop) ==
  LET slot == slotFor(prop.id)
  IN  IF prop.type = "Unknown" \/ ~CheckField(record, slot) \/ record.fields[slot] = Broken
      THEN Omitted
      ELSE decodeField(prop, record.fields[slot])

decodeProperty(record, prop) ==
  LET slot == slotFor(prop.id)
  IN  IF prop.type = "Unknown" \/ ~CheckField(record, slot) THEN Omitted
      ELSE IF record.fields[slot] = Broken THEN Throws
      ELSE decodeField(prop, record.fields[slot])

(* The first field that throws ends the record; of two members of one name *)
(* the later one stays.  The id comes from the key and not from here.      *)
decodeObject(record, properties) ==
  LET read == [i \in DOMAIN properties |->
                 IF properties[i].name = "id" THEN Omitted
                 ELSE decodeProperty(record, properties[i])]
      Members(name) == {i \in DOMAIN read : properties[i].name = name /\ read[i] # Omitted}
      Latest(S) == CHOOSE i \in S : \A j \in S : j <= i
      names == {properties[i].name : i \in {j \in DOMAIN read : read[j] # Omitted}}
  IN  IF ~record.root \/ \E i \in DOMAIN read : read[i] = Throws
      THEN Throws
      ELSE [n \in names |-> read[Latest(Members(n))]]
=============================================================================
