------------------------------ MODULE ObStore ------------------------------
(***************************************************************************)
(* What an ObjectBox application keeps in its store, and the LMDB image of *)
(* it.  A database is a record                                             *)
(*                                                                         *)
(*   objects : set of [entity, id, body]   the stored objects              *)
(*   links   : set of [relation, source, target]   the ToMany links        *)
(*                                                                         *)
(* where body says how the object's FlatBuffers bytes decode: "good",      *)
(* "corrupt" (the verifier rejects them) or "badUtf8" (a string the JSON   *)
(* serializer rejects).  ObjectBox itself writes the image: schema entry   *)
(* per entity, data entry per object, two relation entries per link, the   *)
(* second one the auto-maintained reverse index.                           *)
(***************************************************************************)
EXTENDS ObKeys

CONSTANT Databases   \* the database states the application may commit

Bodies == {"good", "corrupt", "badUtf8"}

(* One byte of a key holds entity id * 4, or relation id * 4 + direction:   *)
(* the format has room for the ids below 64.  There is at most one object  *)
(* per entity and object id, and a store holds finitely many.              *)
IsDatabase(d) ==
  /\ IsFiniteSet(d.objects) /\ IsFiniteSet(d.links)
  /\ d.objects \subseteq [entity : ShortIds, id : UInt32, body : Bodies]
  /\ d.links \subseteq [relation : ShortIds, source : UInt32, target : UInt32]
  /\ \A o, p \in d.objects : o.entity = p.entity /\ o.id = p.id => o = p

ASSUME DatabasesAssumption == \A d \in Databases : IsDatabase(d)

-----------------------------------------------------------------------------
DataKeys(d) == {DataKey(o.entity, o.id) : o \in d.objects}

LinkKeys(d) ==
  {RelationKey(l.relation, kRelationDirectionForward, l.source, l.target) :
     l \in d.links}
  \cup
  {RelationKey(l.relation, kRelationDirectionBackward, l.target, l.source) :
     l \in d.links}

SchemaKeys(d) == {SchemaKey(o.entity) : o \in d.objects}

Image(d) == SchemaKeys(d) \cup LinkKeys(d) \cup DataKeys(d)

(* The value stored under a data key.                                      *)
BodyAt(d, k) == (CHOOSE o \in d.objects : DataKey(o.entity, o.id) = k).body
=============================================================================
