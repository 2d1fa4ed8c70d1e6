------------------------------ MODULE MCDumper ------------------------------
(* A small store for TLC: two known entities, a third the model does not   *)
(* know, links of two relations, and object ids on both sides of a byte    *)
(* boundary.                                                               *)
EXTENDS Dumper

Obj(e, i, b) == [entity |-> e, id |-> i, body |-> b]
Link(r, s, t) == [relation |-> r, source |-> s, target |-> t]

Empty == [objects |-> {}, links |-> {}]
Full ==
  [objects |-> {Obj(1, 2, "good"), Obj(1, 256, "good"), Obj(2, 1, "good"),
                Obj(3, 1, "corrupt")},
   links   |-> {Link(1, 2, 1), Link(1, 2, 258), Link(1, 256, 1), Link(2, 2, 1),
                Link(2, 3, 2)}]
Moved ==
  [objects |-> {Obj(1, 2, "good"), Obj(2, 1, "good"), Obj(2, 65536, "good")},
   links   |-> {Link(1, 2, 65536), Link(2, 65536, 2)}]
Damaged ==
  [objects |-> {Obj(1, 2, "good"), Obj(2, 1, "corrupt"), Obj(2, 2, "good")},
   links   |-> {}]
Latin1 ==
  [objects |-> {Obj(1, 2, "badUtf8"), Obj(2, 1, "good")}, links |-> {}]
(* The first, a middle and the last entity, ids on both sides of each byte *)
(* boundary (TLC's integers end at 2^31 - 1).                              *)
Spread ==
  [objects |-> {Obj(1, i, "good") : i \in {255, 256, 65536, 16777216}}
                 \cup {Obj(2, 2147483647, "good"), Obj(63, 1, "good")},
   links   |-> {Link(1, 256, 65535)}]

Rel(i, n) == [id |-> i, name |-> n]
Ent(i, n, rels) == [id |-> i, name |-> n, relations |-> rels]

Plain ==
  [ok |-> TRUE,
   entities |-> <<Ent(2, "Tag", <<Rel(2, "notes")>>), Ent(1, "Note", <<Rel(1, "tags")>>)>>]
(* Entity 1 is declared twice, and its second relation repeats a name.     *)
Repeated ==
  [ok |-> TRUE,
   entities |-> <<Ent(1, "Note", <<Rel(1, "tags"), Rel(2, "tags")>>), Ent(1, "Gone", <<>>),
                  Ent(2, "Note", <<>>)>>]
Malformed == [ok |-> FALSE, entities |-> <<>>]

-----------------------------------------------------------------------------
MCDatabases  == {Full, Moved, Damaged, Latin1, Spread}
MCModels     == {Plain, Repeated, Malformed}
MCOperations == {"dump", "stream"}
=============================================================================
