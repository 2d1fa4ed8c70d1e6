---------------------------- MODULE MCLmdbTree ----------------------------
(***************************************************************************)
(* Instances of LmdbTree.  In the first a page has room for two nodes of   *)
(* the largest size, so that a few keys make trees of three levels; the    *)
(* keys that are not touched keep the neighbouring pages filled, and keys  *)
(* and values of two sizes make separators grow and values outgrow pages.  *)
(* In the second sizes are in units of two bytes of a page of 4096: fifteen *)
(* nodes of 256 bytes and seventeen of 12, key 8 is not there yet.         *)
(***************************************************************************)
EXTENDS LmdbTree

MCKeys == 1..6
MCTouched == {1, 3, 4, 6}
MCKeySize == [k \in MCKeys |-> IF k \in {3, 5} THEN 0 ELSE 1]
MCDataSizes == [k \in MCKeys |-> IF k = 3 THEN {0, 1} ELSE {0}]
MCLoads == {<<>>, [i \in MCKeys |-> <<i, 0>>]}

\* A full page of 4096 bytes.
FullKeys == 1..33
FullTouched == {8}
FullKeySize == [k \in FullKeys |-> 1]
FullDataSizes == [k \in FullKeys |-> {IF k = 8 THEN 121 ELSE IF k <= 16 THEN 122 ELSE 0}]
FullLoads == {[i \in 1..32 |-> LET k == IF i < 8 THEN i ELSE i + 1
                              IN  <<k, IF k <= 16 THEN 122 ELSE 0>>]}
=============================================================================
