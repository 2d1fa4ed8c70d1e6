------------------------------- MODULE Schema -------------------------------
(***************************************************************************)
(* objectbox-model.json as the dumper sees it.  A model document is a      *)
(* record [ok, entities]: ok is FALSE for every text Schema::parse throws  *)
(* on (not JSON, no "entities" array, an id without its colon, a missing   *)
(* member), entities is the document's array, in file order.  An entity is *)
(* [id, name, relations], a relation [id, name]; what only the decoding of *)
(* the fields needs is left to the modules about decoding.                 *)
(***************************************************************************)
EXTENDS Naturals, Sequences

CONSTANT Models   \* the model documents callers pass

(* std::unordered_map::emplace keeps the element it already has: of two    *)
(* entities with one id the first in the file counts.                      *)
Parse(model) ==
  LET ids == {model.entities[i].id : i \in DOMAIN model.entities}
      First(e) == CHOOSE i \in DOMAIN model.entities :
                    /\ model.entities[i].id = e
                    /\ \A j \in 1..(i - 1) : model.entities[j].id # e
  IN  [e \in ids |-> model.entities[First(e)]]

(* The relations of an entity by name; a later one of the same name        *)
(* overwrites the field an earlier one wrote.                              *)
RelationNames(entity) == {entity.relations[i].name : i \in DOMAIN entity.relations}
RelationNamed(entity, name) ==
  LET last == CHOOSE i \in DOMAIN entity.relations :
                /\ entity.relations[i].name = name
                /\ \A j \in (i + 1)..Len(entity.relations) :
                     entity.relations[j].name # name
  IN  entity.relations[last].id
=============================================================================
