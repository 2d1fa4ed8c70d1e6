----------------------------- MODULE MCCliJson ------------------------------
(* The command on small stores: none, one and several groups, a record that *)
(* fails in the middle, two entities of one name, an entity the model does  *)
(* not know.                                                                *)
EXTENDS CliJson

Obj(e, i, b) == [entity |-> e, id |-> i, body |-> b]

Empty == [objects |-> {}, links |-> {}]
Several ==
  [objects |-> {Obj(1, 1, "good"), Obj(1, 2, "good"), Obj(2, 1, "good"),
                Obj(3, 1, "good"), Obj(3, 256, "good"), Obj(4, 1, "corrupt")},
   links   |-> {[relation |-> 1, source |-> 2, target |-> 1]}]
Damaged ==
  [objects |-> {Obj(1, 1, "good"), Obj(2, 1, "badUtf8"), Obj(3, 1, "good")},
   links   |-> {}]
Last3 == [objects |-> {Obj(3, 1, "corrupt")}, links |-> {}]

Ent(i, n, rels) == [id |-> i, name |-> n, relations |-> rels]
Plain ==
  [ok |-> TRUE,
   entities |-> <<Ent(1, "Note", <<[id |-> 1, name |-> "tags"]>>), Ent(2, "Tag", <<>>),
                  Ent(3, "User", <<>>)>>]
(* Adjacent entities of one name; the third one's records are not known.   *)
Twins ==
  [ok |-> TRUE, entities |-> <<Ent(1, "Note", <<>>), Ent(2, "Note", <<>>)>>]
Malformed == [ok |-> FALSE, entities |-> <<>>]

MCDatabases  == {Empty, Several, Damaged, Last3}
MCModels     == {Plain, Twins, Malformed}
MCOperations == {"stream"}
MCKept       == [n \in {"Note", "Tag", "User"} |-> n]

ASSUME NamesAssumption == NamesTogether /\ NamesKept
=============================================================================
