--------------------------- MODULE MCReaderToolkit ---------------------------
(* Small stores for TLC: an entity id above 15, ids and sources on both    *)
(* sides of a byte boundary, links of two relations and of neighbouring    *)
(* sources, and a store without any.                                       *)
EXTENDS ReaderToolkit

Obj(e, i) == [entity |-> e, id |-> i, body |-> "good"]
Link(r, s, t) == [relation |-> r, source |-> s, target |-> t]

Linked ==
  [objects |-> {Obj(1, 2), Obj(1, 256), Obj(20, 1)},
   links   |-> {Link(1, 2, 1), Link(1, 2, 258), Link(1, 3, 2), Link(1, 256, 1),
                Link(2, 2, 1)}]
Relinked ==
  [objects |-> {Obj(1, 2), Obj(1, 512)},
   links   |-> {Link(1, 2, 512), Link(1, 256, 258), Link(1, 256, 3), Link(2, 512, 2)}]
Unlinked == [objects |-> {Obj(20, 256)}, links |-> {}]

MCDatabases == {Linked, Relinked, Unlinked}
MCApis      == {"dart", "python", "aio", "js"}
MCLookups   ==
  {[relation |-> 1, source |-> 2], [relation |-> 1, source |-> 256],
   [relation |-> 2, source |-> 512]}
=============================================================================
