----------------------------- MODULE ObDocument -----------------------------
(***************************************************************************)
(* The reference for what a dump contains, stated on the application's     *)
(* objects and links and not on their keys: the records of the known       *)
(* entities, ascending by entity and object id.                            *)
(***************************************************************************)
EXTENDS ObStore, Schema

(* "entities" and the "relations" of an entity are arrays, and a relation  *)
(* has an id the key format has room for.                                  *)
IsArray(a) == a \in Seq({a[i] : i \in DOMAIN a})
IsModel(m) ==
  /\ IsArray(m.entities)
  /\ \A i \in DOMAIN m.entities :
       LET relations == m.entities[i].relations
       IN  IsArray(relations) /\ \A j \in DOMAIN relations : relations[j].id \in ShortIds

ASSUME ModelsAssumption == \A m \in Models : IsModel(m)

Before(o, p) ==
  \/ o.entity < p.entity
  \/ o.entity = p.entity /\ o.id < p.id

Described(d, known, o) ==
  LET Targets(r) == {l.target : l \in {m \in d.links : m.relation = r /\ m.source = o.id}}
  IN  [entity |-> o.entity, name |-> known[o.entity].name, id |-> o.id, body |-> o.body,
       rels |-> [n \in RelationNames(known[o.entity]) |->
                   Ascending(Targets(RelationNamed(known[o.entity], n)), <)]]

KnownObjects(d, m) == Ascending({o \in d.objects : o.entity \in DOMAIN Parse(m)}, Before)

Document ==
  [d \in Databases |-> [m \in Models |->
     LET objects == KnownObjects(d, m)
     IN  [i \in DOMAIN objects |-> Described(d, Parse(m), objects[i])]]]
=============================================================================
