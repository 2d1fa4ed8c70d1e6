---------------------------- MODULE MCLmdbPages ----------------------------
EXTENDS LmdbPages

(* The environment is new, or opens with the last commit of a behaviour of *)
(* Spec that TLC's simulation found under wider bounds: three transactions  *)
(* of six operations (Wide, Scattered), or five of four beside a reader of  *)
(* the first state, which kept every record (Backlog).  Their records hold *)
(* more page numbers than one overflow page lists.                         *)
Record(pgs, ov) == [len |-> Cardinality(pgs), pgs |-> pgs, ov |-> ov]
Runs(p, n) == With(<<>>, p, n)

Wide ==
    [main |-> [root |-> 5, leaves |-> {}, big |-> Runs(20, 2)],
     free |-> [root |-> 6,
               recs |-> [i \in {2, 3} |->
                            IF i = 2 THEN Record({2, 3, 4, 7, 9} \cup 11..15, Runs(17, 3))
                            ELSE Record({8, 10, 16}, Runs(22, 1))]],
     next |-> 23]

Backlog ==
    [main |-> [root |-> 25, leaves |-> {23, 24, 26}, big |-> <<>>],
     free |-> [root |-> 27,
               recs |-> <<Record({4}, <<>>), Record({2, 3, 5, 6}, Runs(13, 2)),
                          Record(7..12 \cup {15}, Runs(18, 2)), Record({16, 17}, Runs(22, 1)),
                          Record({20, 21}, Runs(28, 1))>>],
     next |-> 29]

Scattered ==
    [main |-> [root |-> 19, leaves |-> {17, 18}, big |-> <<>>],
     free |-> [root |-> 20,
               recs |-> [i \in {2, 3} |->
                            IF i = 2 THEN Record(2..7 \cup 9..10, Runs(14, 2))
                            ELSE Record({8, 11, 12, 13, 16}, Runs(21, 2))]],
     next |-> 23]

MCStarts == {[id |-> 0, snap |-> FirstSnap, last |-> 3, ops |-> 2],
             [id |-> 3, snap |-> Wide, last |-> 6, ops |-> 1],
             [id |-> 3, snap |-> Wide, last |-> 5, ops |-> 2],
             [id |-> 3, snap |-> Scattered, last |-> 4, ops |-> 5],
             [id |-> 5, snap |-> Backlog, last |-> 6, ops |-> 5]}
=============================================================================
