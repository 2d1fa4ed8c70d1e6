------------------------------ MODULE MCDecode ------------------------------
(***************************************************************************)
(* The decoder and the two exports on small models: an ObjectBox           *)
(* application sets and clears the fields of one object, each of the type  *)
(* its model gives it, and bytes go bad on the disk.                       *)
(***************************************************************************)
EXTENDS Decode, SchemaExport

CONSTANTS
  RawTypes, RawFlags, RawExternalTypes,   \* of a property of its own
  StoredTexts                             \* the texts the application stores

ASSUME StoredTexts \subseteq Texts

VARIABLES
  properties,   \* of the entity, as the model document lists them
  written,      \* property id -> value, for the fields that are set
  damaged       \* property ids whose field is broken; 0 is the table itself

vars == <<properties, written, damaged>>

Property(id, name, type, flags, externalType) ==
  [id |-> id, name |-> name, type |-> PropertyTypes[type], flags |-> flags,
   externalType |-> externalType]

(* One property of every kind, and entities with an "id", with gaps of     *)
(* retired ids, in another order than that of the ids, and with a type     *)
(* this version does not know.                                             *)
Singles ==
  {<<[id |-> 2, name |-> "a", type |-> t, flags |-> f, externalType |-> x]>> :
     t \in RawTypes, f \in RawFlags, x \in RawExternalTypes}

Entities ==
  {<<Property(4, "c", "String", 0, ExternalPropertyType.Json),
     Property(1, "id", "Long", 1, 0),
     Property(3, "b", "Short", kPropertyFlagUnsigned, 0)>>,
   <<Property(1, "a", "Bool", 0, 0),
     [id |-> 3, name |-> "b", type |-> 14, flags |-> 0, externalType |-> 0],
     Property(4, "c", "CharVector", 0, 0)>>}

Retired == 2
KindOf(id) ==
  IF id \in PropertyIds(properties) THEN ParseProperty(byId(properties, id))
  ELSE ParseProperty(Property(id, "retired", "Long", 0, 0))

-----------------------------------------------------------------------------
(* What an application stores in a field, and the bytes of it: two's       *)
(* complement, least significant byte first.                               *)
StoredWidth(type) ==
  CASE type \in {"Bool", "Byte", "BoolVector", "ByteVector"}             -> 1
    [] type \in {"Short", "Char", "ShortVector", "CharVector"}           -> 2
    [] type \in {"Int", "Float", "IntVector", "FloatVector"}             -> 4
    [] OTHER                                                             -> 8

StoredBytes(n, width) == [i \in 1..width |-> (n \div Radix ^ (i - 1)) % Radix]

Unsigned_(kind) == kind.isUnsigned \/ kind.type \in {"Char", "CharVector"}

Numbers(kind) ==
  LET n == Radix ^ StoredWidth(kind.type)
      edges == IF Unsigned_(kind) THEN {0, 1, n \div 2, n - 1}
               ELSE {-(n \div 2), -1, 0, 1, (n \div 2) - 1}
  IN  {[number |-> e] : e \in edges}

RealsOf(kind) == {[real |-> [i \in 1..StoredWidth(kind.type) |-> b]] : b \in {0, 1}}
Strings == {[string |-> t] : t \in StoredTexts}
Booleans == {[bool |-> b] : b \in BOOLEAN}

Arrays(elements) ==
  {[array |-> <<>>]} \cup {[array |-> <<e>>] : e \in elements}
    \cup {[array |-> <<e, f>>] : e, f \in elements}

FlexLeaves == {Null, [bool |-> TRUE], [int |-> -1], [uint |-> 1], [float |-> <<1>>],
               [text |-> "prose"], [key |-> "k"], [blob |-> <<1, 0>>]}
Nested(leaves) ==
  {[vector |-> <<l>>] : l \in leaves} \cup {[typed |-> <<l, l>>] : l \in leaves}
    \cup {[fixed |-> <<l, l, l>>] : l \in leaves}
    \cup {[map |-> [keys |-> <<"a", "b">>, vals |-> <<l, [vector |-> <<l>>]>>]] : l \in leaves}
FlexValues == FlexLeaves \cup Nested(FlexLeaves)
                \cup Nested({[map |-> [keys |-> <<"k">>, vals |-> <<l>>]] : l \in FlexLeaves})

Values(kind) ==
  LET element == [kind EXCEPT !.type = IF kind.type \in DOMAIN Vectors
                                       THEN Vectors[kind.type] ELSE kind.type]
      scalars == CASE element.type = "Bool" -> Booleans
                   [] element.type \in {"Float", "Double"} -> RealsOf(element)
                   [] OTHER -> Numbers(element)
  IN  CASE kind.type = "String"       -> Strings
        [] kind.type = "StringVector" -> Arrays(Strings)
        [] kind.type = "Flex"         -> {[flex |-> v] : v \in FlexValues}
        [] kind.type = "ByteVector"   ->
             Arrays(scalars) \cup {[array |-> [i \in 1..16 |-> e]] : e \in scalars}
        [] kind.type \in DOMAIN Vectors -> Arrays(scalars)
        [] OTHER                      -> scalars

ScalarBytes(value, width) ==
  CASE "bool" \in DOMAIN value -> IF value.bool THEN <<1>> ELSE <<0>>
    [] "real" \in DOMAIN value -> value.real
    [] OTHER                   -> StoredBytes(value.number, width)

Encode(kind, value) ==
  LET width == StoredWidth(kind.type)
  IN  CASE kind.type = "String"       -> [text |-> value.string]
        [] kind.type = "StringVector" -> [texts |-> [i \in DOMAIN value.array |->
                                                       value.array[i].string]]
        [] kind.type = "Flex"         -> value
        [] kind.type \in DOMAIN Vectors ->
             [count |-> Len(value.array),
              data |-> FlattenSeq([i \in DOMAIN value.array |->
                                     ScalarBytes(value.array[i], width)])]
        [] OTHER -> [scalar |-> ScalarBytes(value, width)]

(* The record of the object: slots in the order of the ids.                *)
Record ==
  LET Slot(id) == 2 * id + 2
      slots == {Slot(id) : id \in DOMAIN written}
      IdAt(slot) == (slot - 2) \div 2
  IN  [root |-> 0 \notin damaged,
       fields |-> [s \in slots |-> IF IdAt(s) \in damaged THEN Broken
                                   ELSE Encode(KindOf(IdAt(s)), written[IdAt(s)])]]

-----------------------------------------------------------------------------
Init ==
  /\ properties \in Singles \cup Entities
  /\ written = <<>>
  /\ damaged = {}

Put ==
  \E id \in PropertyIds(properties) \cup {Retired} : \E v \in Values(KindOf(id)) :
    /\ written' = [i \in DOMAIN written \cup {id} |-> IF i = id THEN v ELSE written[i]]
    /\ UNCHANGED <<properties, damaged>>

Damage ==
  /\ damaged = {}
  /\ \E id \in DOMAIN written \cup {0} : damaged' = {id}
  /\ UNCHANGED <<properties, written>>

Next == Put \/ Damage
Spec == Init /\ [][Next]_vars

-----------------------------------------------------------------------------
Parsed == ParseProperties(properties)
Document_ == [ok |-> TRUE,
              entities |-> <<[id |-> 7, name |-> "E", properties |-> properties, relations |-> <<>>],
                             [id |-> 3, name |-> "D", properties |-> <<>>,
                              relations |-> <<[id |-> 1, name |-> "r", target |-> 7]>>]>>]

(* What a value is in JSON.                                                *)
Meaning(kind, value) ==
  CASE kind.type = "String" /\ kind.externalType \in JsonTexts /\ value.string = "json" ->
         [parsed |-> "json"]
    [] kind.type = "ByteVector" /\ kind.externalType \in Blobs \cup {ExternalPropertyType.Uuid} ->
         LET bytes == Encode(kind, value).data
         IN  IF kind.externalType = ExternalPropertyType.Uuid /\ Len(bytes) = 16
             THEN [uuid |-> bytes] ELSE [hex |-> bytes]
    [] kind.type = "Flex" -> flexToJson(value.flex)
    [] OTHER -> value

(* The fields of the record a reader of this model looks at.               *)
Shown == {i \in DOMAIN Parsed : /\ Parsed[i].name # "id"
                                /\ Parsed[i].type # "Unknown"
                                /\ Parsed[i].id \in DOMAIN written}

(* A record decodes to the values the application set under the same model *)
(* or an older one: every field that is set, be it 0 or empty, none that   *)
(* is not, none of a retired property; it throws if and only if the table  *)
(* or a field that is shown is broken.                                     *)
FieldsAsWritten ==
  decodeObject(Record, Parsed) =
    IF 0 \in damaged \/ \E i \in Shown : Parsed[i].id \in damaged THEN Throws
    ELSE [n \in {Parsed[i].name : i \in Shown} |->
            LET i == CHOOSE j \in Shown : Parsed[j].name = n
            IN  Meaning(Parsed[i], written[Parsed[i].id])]

(* A FlexBuffers value keeps its shape: the keys and positions of all of   *)
(* its leaves.                                                             *)
FlexKeepsShape ==
  \A id \in DOMAIN written :
    KindOf(id).type = "Flex" =>
      JsonPaths(flexToJson(written[id].flex)) = FlexPaths(written[id].flex)

(* flatc, outside src: the declarations of a table count up the slots, the *)
(* deprecated ones included, and a keyword fixes width and sign.           *)
KeywordBytes ==
  [byte |-> 1, ubyte |-> 1, short |-> 2, ushort |-> 2, int |-> 4, uint |-> 4,
   long |-> 8, ulong |-> 8]
ReadAs(keyword, bytes) ==
  CASE keyword = "bool" -> [bool |-> bytes # <<0>>]
    [] keyword \in {"float", "double"} -> [real |-> bytes]
    [] OTHER -> [number |-> GetField(SubSeq(bytes, 1, KeywordBytes[keyword]),
                                     keyword \in {"byte", "short", "int", "long"})]
ReadField(field, cell) ==
  CASE field.keyword = "string" /\ field.vector ->
         [array |-> [i \in DOMAIN cell.texts |-> [string |-> cell.texts[i]]]]
    [] field.keyword = "string" /\ ~field.vector -> [string |-> cell.text]
    [] field.keyword # "string" /\ field.vector ->
         LET w == Len(cell.data) \div cell.count
         IN  [array |-> [i \in 1..cell.count |->
                           ReadAs(field.keyword, Bytes(cell.data, (i - 1) * w, w))]]
    [] OTHER -> ReadAs(field.keyword, cell.scalar)

GeneratedReads(name) ==
  LET file == generateFbs(Document_)
      fields == (CHOOSE t \in {file[i] : i \in DOMAIN file} : t.table = "E").fields
      at == {k \in DOMAIN fields : fields[k].name = name /\ ~fields[k].deprecated}
      k == CHOOSE k \in at : TRUE
      slot == FlatcSlot(k)
  IN  IF at = {} \/ slot \notin DOMAIN Record.fields THEN Omitted
      ELSE ReadField(fields[k], Record.fields[slot])

(* The comment on fbsTypeName: a reader flatc generates from the .fbs      *)
(* reads the same values as the decoder, where no external type changes    *)
(* their form; it finds every field, with its width and sign.              *)
GeneratedReaderAgrees ==
  damaged = {} =>
    \A i \in DOMAIN Parsed :
      Parsed[i].name # "id" /\ Parsed[i].type # "Flex" =>
        GeneratedReads(Parsed[i].name) =
          decodeProperty(Record, [Parsed[i] EXCEPT !.externalType = 0])

(* Who has the listing of --schema, slots and names, can decode as the     *)
(* decoder does.                                                           *)
FromListing(p) ==
  [id |-> ((p.vtableSlot - 4) \div 2) + 1, name |-> p.name,
   type |-> toPropertyType(RawType(p.type)), isUnsigned |-> p.unsigned,
   externalType |-> IF p.externalType = NoName THEN 0 ELSE ExternalPropertyType[p.externalType]]
ListingSuffices ==
  LET file == schemaToJson(Document_)
      entity == CHOOSE e \in {file[i] : i \in DOMAIN file} : e.entityId = 7
  IN  decodeObject(Record, [i \in DOMAIN entity.properties |-> FromListing(entity.properties[i])])
        = decodeObject(Record, Parsed)

(* Two properties never share a slot of the table, up to the last slot     *)
(* there is; no slot lies in the header.                                   *)
EdgeIds == {1, 2, 127, 128, 32765, 32766}
SlotsDistinct ==
  \A i, j \in PropertyIds(properties) \cup EdgeIds : SlotsApart(i, j)

-----------------------------------------------------------------------------
(* What comments and documents say and the code does not do.               *)

(* The comment on decodeStringAsJson: a text that cannot be parsed stays a *)
(* string, whatever is wrong with it; it does not fail the record.         *)
UnparsedTextKept ==
  damaged = {} => decodeObject(Record, Parsed) # Throws
=============================================================================
