---------------------------- MODULE SchemaExport ----------------------------
(***************************************************************************)
(* The two exports of a model: --fbs, a FlatBuffers schema from which      *)
(* flatc generates a reader of the records (fbs_gen.cpp), and --schema, a  *)
(* JSON listing (schema_json.cpp).                                         *)
(*                                                                         *)
(* A table of the .fbs is the sequence of its field declarations           *)
(* [name, keyword, vector, deprecated]; comments are left out.             *)
(***************************************************************************)
EXTENDS Schema, Properties

(* Schema::all: the entities in the order of their ids.                    *)
all(entities) ==
  [i \in 1..Cardinality(DOMAIN entities) |->
     entities[CHOOSE e \in DOMAIN entities :
                Cardinality({f \in DOMAIN entities : f < e}) = i - 1]]

-----------------------------------------------------------------------------
UnsignedKeywords == [byte |-> "ubyte", short |-> "ushort", int |-> "uint", long |-> "ulong"]

(* Types that share a keyword, the element types of vectors included.      *)
TypesOf ==
  [bool |-> {"Bool", "BoolVector"}, byte |-> {"Byte", "ByteVector"},
   short |-> {"Short", "ShortVector"}, ushort |-> {"Char", "CharVector"},
   int |-> {"Int", "IntVector"},
   long |-> {"Long", "LongVector", "Date", "DateVector", "Relation", "DateNano",
             "DateNanoVector"},
   float |-> {"Float", "FloatVector"}, double |-> {"Double", "DoubleVector"},
   string |-> {"String", "StringVector"}, ubyte |-> {"Flex", "Unknown"}]

fbsTypeName(type, isUnsigned) ==
  LET keyword == CHOOSE k \in DOMAIN TypesOf : type \in TypesOf[k]
  IN  IF isUnsigned /\ keyword \in DOMAIN UnsignedKeywords
      THEN UnsignedKeywords[keyword] ELSE keyword

isVectorType(type) ==
  type \in {"BoolVector", "ByteVector", "ShortVector", "CharVector", "IntVector",
            "LongVector", "FloatVector", "DoubleVector", "StringVector", "DateVector",
            "DateNanoVector"}

writeField(prop) ==
  [name |-> prop.name,
   keyword |-> IF prop.type = "Flex" THEN "ubyte" ELSE fbsTypeName(prop.type, prop.isUnsigned),
   vector |-> prop.type = "Flex" \/ isVectorType(prop.type),
   deprecated |-> prop.type = "Unknown"]

Reserved == "_reserved_"   \* the id behind it is left out
writeReservedPlaceholder ==
  [name |-> Reserved, keyword |-> "ubyte", vector |-> FALSE, deprecated |-> TRUE]

(* Of two properties with one id the last one stays in the map byId.       *)
PropertyIds(properties) == {properties[i].id : i \in DOMAIN properties}
byId(properties, id) ==
  properties[CHOOSE i \in DOMAIN properties :
               /\ properties[i].id = id
               /\ \A j \in DOMAIN properties : properties[j].id = id => j <= i]

(* Mutant: the gaps of retired ids are closed.                             *)
Gapless(properties) == [i \in DOMAIN properties |-> writeField(properties[i])]

(* The declarations: one for every id from 1 to the largest in use.        *)
generateTable(properties) ==
  LET ids == PropertyIds(properties)
  IN  [id \in UNION {1..last : last \in ids} |->
         IF id \in ids THEN writeField(byId(properties, id)) ELSE writeReservedPlaceholder]

(* What flatc makes of that: the declaration of a property stands where    *)
(* its number of places in front gives it the slot the decoder reads, with *)
(* its name and type.                                                      *)
FlatcSlot(position) == 4 + 2 * (position - 1)
DeclaredAtItsSlot(properties, prop) ==
  /\ prop.id \in DOMAIN generateTable(properties)
  /\ generateTable(properties)[prop.id] = writeField(prop)
  /\ FlatcSlot(prop.id) = slotFor(prop.id)

generateFbs(model) ==
  LET entities == all(Parse(model))
  IN  [i \in DOMAIN entities |->
         [table |-> entities[i].name,
          fields |-> generateTable(ParseProperties(entities[i].properties))]]

-----------------------------------------------------------------------------
(* Mutant: an unsigned property is not marked.                             *)
UnmarkedProperty(prop) ==
  [id |-> prop.id, name |-> prop.name, type |-> prop.type, vtableSlot |-> slotFor(prop.id),
   unsigned |-> FALSE, externalType |-> externalTypeName(prop.externalType)]

(* A property of the listing; an external type without a name is left out  *)
(* (NoName), and so is "unsigned" where it does not hold.                  *)
PropertyToJson(prop) ==
  [id |-> prop.id, name |-> prop.name, type |-> prop.type, vtableSlot |-> slotFor(prop.id),
   unsigned |-> prop.isUnsigned, externalType |-> externalTypeName(prop.externalType)]

schemaToJson(model) ==
  LET entities == all(Parse(model))
      Listed(properties) == [i \in DOMAIN properties |-> PropertyToJson(properties[i])]
      Relation(r) == [id |-> r.id, name |-> r.name, targetEntityId |-> r.target]
  IN  [i \in DOMAIN entities |->
         [entityId |-> entities[i].id, name |-> entities[i].name,
          properties |-> Listed(ParseProperties(entities[i].properties)),
          relations |-> [r \in DOMAIN entities[i].relations |->
                           Relation(entities[i].relations[r])]]]
=============================================================================
