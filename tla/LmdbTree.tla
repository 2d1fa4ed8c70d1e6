------------------------------ MODULE LmdbTree ------------------------------
(***************************************************************************)
(* The B+tree of the bundled LMDB (mdb.c) inside one write transaction:    *)
(* one database without duplicates, one cursor of the application and the  *)
(* short-lived cursors the library makes.  Every operator below stands for *)
(* the C function of the same name, takes the state of the transaction     *)
(* and returns the state that function leaves.                             *)
(*                                                                         *)
(* Abstracted: bytes (a node has a size, keys are numbers in their order,  *)
(* a value is its size), copying a page before it is written (the page     *)
(* keeps its identity), overflow pages (no value exceeds the node limit),  *)
(* duplicates and sub-databases.                                           *)
(***************************************************************************)
EXTENDS Integers, Sequences, FiniteSets, SequencesExt, FiniteSetsExt

CONSTANTS Keys,         \* keys, positive numbers in the order of the comparison
          KeySize,      \* [Keys -> Nat], the size of a key
          DataSizes,    \* [Keys -> SUBSET Nat], the values a key is given
          Header,       \* size of a node without its key and its value
          Room,         \* space for nodes in a page
          KeyThresh,    \* page size / 128
          CursorStack,  \* highest level a cursor has
          MaxDrift,     \* bound on the index of a cursor left past the end
          Touched,      \* the keys that calls put and delete
          Loads         \* contents the transaction may start from

ASSUME KeysAssumption == Keys \subseteq Nat \ {0}

\* me_nodemax: a page has room for two nodes.
ASSUME NodeMaxAssumption ==
    \A k \in Keys : \A d \in DataSizes[k] : 2 * (Header + KeySize[k] + d) <= Room

NoPage == 0
NoKey == 0
Levels == 0..CursorStack

-----------------------------------------------------------------------------
\* Pages.  A page is [leaf, nodes]; a node is [key, ptr], where ptr is the
\* value in a leaf and the page below in a branch.  Indices start at 0, as
\* in the code.

Node(k, p) == [key |-> k, ptr |-> p]

NodeSize(leaf, nd) ==
    Header + (IF nd.key = NoKey THEN 0 ELSE KeySize[nd.key])
           + (IF leaf THEN nd.ptr ELSE 0)

SizesOf(leaf, nodes) == [i \in DOMAIN nodes |-> NodeSize(leaf, nodes[i])]
Total(sizes) == FoldSeq(LAMBDA x, y : x + y, 0, sizes)
Used(p) == Total(SizesOf(p.leaf, p.nodes))
SizeLeft(p) == Room - Used(p)
NumKeys(p) == Len(p.nodes)
NodeAt(p, i) == p.nodes[i + 1]

PageNew(s, p, leaf) ==
    [s EXCEPT !.pages = [q \in DOMAIN s.pages \cup {p} |->
                            IF q = p THEN [leaf |-> leaf, nodes |-> <<>>] ELSE s.pages[q]]]
PageFree(s, p) == [s EXCEPT !.pages = Restrict(s.pages, DOMAIN s.pages \ {p})]
NewPage(s) == CHOOSE p \in 1..Cardinality(DOMAIN s.pages) + 1 : p \notin DOMAIN s.pages

\* MDB_PAGE_FULL marks the transaction as broken; nothing runs in it after.
NodeAdd(s, p, i, nd) ==
    IF NodeSize(s.pages[p].leaf, nd) > SizeLeft(s.pages[p])
    THEN [s EXCEPT !.full = TRUE, !.rc = "page_full"]
    ELSE [s EXCEPT !.pages[p].nodes = InsertAt(@, i + 1, nd), !.rc = "ok"]
NodesAdd(s, p, nodes) ==
    IF Total(SizesOf(s.pages[p].leaf, nodes)) > SizeLeft(s.pages[p])
    THEN [s EXCEPT !.full = TRUE, !.rc = "page_full"]
    ELSE [s EXCEPT !.pages[p].nodes = @ \o nodes, !.rc = "ok"]
NodeDel(s, p, i) == [s EXCEPT !.pages[p].nodes = RemoveAt(@, i + 1)]

\* A function that failed with MDB_PAGE_FULL makes its callers return.
Then(s, F(_)) == IF s.full THEN s ELSE F(s)

\* One after another: what the first function left goes to the second.
On(s, F(_)) == F(s)

-----------------------------------------------------------------------------
\* Cursors.  A cursor is [pg, ki, snum, init, eof, del]: the pages and indices
\* of its path, their number, and the flags.

NewCursor == [pg |-> [l \in Levels |-> NoPage], ki |-> [l \in Levels |-> 0],
              snum |-> 0, init |-> FALSE, eof |-> FALSE, del |-> FALSE]

TopOf(m) == IF m.snum = 0 THEN 0 ELSE m.snum - 1
Top(s, c) == TopOf(s.cs[c])
TopPg(s, c) == s.cs[c].pg[Top(s, c)]
TopKi(s, c) == s.cs[c].ki[Top(s, c)]
TopPage(s, c) == s.pages[TopPg(s, c)]
SetKi(s, c, l, i) == [s EXCEPT !.cs[c].ki[l] = i]
SetTopKi(s, c, i) == SetKi(s, c, Top(s, c), i)

Rc(s, rc) == [s EXCEPT !.rc = rc]
Ok(s) == Rc(s, "ok")

\* The node a cursor stands on; past the end of the page lies no node.
Nothing == Node(NoKey, NoPage)
Here(s, c) == IF TopKi(s, c) < NumKeys(TopPage(s, c))
              THEN NodeAt(TopPage(s, c), TopKi(s, c)) ELSE Nothing
Answer(s, c) == [Ok(s) EXCEPT !.out = Here(s, c)]

WithCursor(s, c, m) ==
    [s EXCEPT !.cs = [n \in DOMAIN s.cs \cup {c} |-> IF n = c THEN m ELSE s.cs[n]]]
NewName(s) == CHOOSE n \in 1..Cardinality(DOMAIN s.cs) + 1 : n \notin DOMAIN s.cs
Track(s, c) == [s EXCEPT !.tracked = @ \cup {c}]
Untrack(s, c) == [s EXCEPT !.tracked = @ \ {c}]
Fix(s, names, F(_)) ==
    [s EXCEPT !.cs = [n \in DOMAIN s.cs |-> IF n \in names THEN F(s.cs[n]) ELSE s.cs[n]]]

CursorPop(s, c) ==
    LET m == s.cs[c]
    IN  IF m.snum = 0 THEN s
        ELSE [s EXCEPT !.cs[c] = [m EXCEPT !.snum = @ - 1, !.init = @ /\ m.snum > 1]]

CursorPush(s, c, p) ==
    LET l == s.cs[c].snum
    IN  [s EXCEPT !.cs[c].snum = l + 1, !.cs[c].pg[l] = p, !.cs[c].ki[l] = 0]

CursorCopy(s, src, dst) ==
    LET m == s.cs[src]
        d == IF dst \in DOMAIN s.cs THEN s.cs[dst] ELSE NewCursor
        Upto(f, g) == [l \in Levels |-> IF l < m.snum THEN f[l] ELSE g[l]]
    IN  WithCursor(s, dst, [m EXCEPT !.pg = Upto(m.pg, d.pg), !.ki = Upto(m.ki, d.ki)])

-----------------------------------------------------------------------------
\* Searching.

\* The index of the smallest key not below the sought one, and whether it is
\* the same.  Slot 0 of a branch has no key; a branch with nothing else
\* answers slot 0 and "same".
NodeSearch(p, key) ==
    LET low == IF p.leaf THEN 0 ELSE 1
        above == {i \in low..NumKeys(p) - 1 : key <= NodeAt(p, i).key}
    IN  IF low > NumKeys(p) - 1 THEN [i |-> 0, exact |-> NumKeys(p) > 0]
        ELSE IF above = {} THEN [i |-> NumKeys(p), exact |-> FALSE]
        ELSE [i |-> Min(above), exact |-> NodeAt(p, Min(above)).key = key]

RECURSIVE PageSearchRoot(_, _, _, _)
PageSearchRoot(s, c, key, how) ==
    LET p == TopPage(s, c)
        l == Top(s, c)
        Child(hit) == IF hit.i >= NumKeys(p) THEN NumKeys(p) - 1
                      ELSE IF hit.exact THEN hit.i ELSE hit.i - 1
        Descend(i) ==
            IF how = "last" /\ s.cs[c].init /\ s.cs[c].ki[l] = i   \* already there
            THEN PageSearchRoot([s EXCEPT !.cs[c].snum = @ + 1], c, key, how)
            ELSE PageSearchRoot(CursorPush(SetKi(s, c, l, i), c, NodeAt(p, i).ptr), c, key, how)
    IN  IF p.leaf THEN Ok([s EXCEPT !.cs[c].init = TRUE, !.cs[c].eof = FALSE])
        ELSE Descend(CASE how = "first" -> 0
                       [] how = "last" -> NumKeys(p) - 1
                       [] OTHER -> Child(NodeSearch(p, key)))

PageSearch(s, c, key, how) ==
    IF s.root = NoPage THEN Rc(s, "notfound")
    ELSE PageSearchRoot([s EXCEPT !.cs[c].pg[0] = s.root, !.cs[c].snum = 1], c, key, how)

\* mdb_page_search_lowest, for the key its callers are after.
RECURSIVE LowestKey(_, _)
LowestKey(s, p) ==
    IF s.pages[p].leaf THEN NodeAt(s.pages[p], 0).key
    ELSE LowestKey(s, NodeAt(s.pages[p], 0).ptr)

RECURSIVE CursorSibling(_, _, _)
CursorSibling(s, c, right) ==
    LET AtEnd(t) == IF right THEN TopKi(t, c) + 1 >= NumKeys(TopPage(t, c)) ELSE TopKi(t, c) = 0
        Step(t) == Ok(SetTopKi(t, c, IF right THEN TopKi(t, c) + 1 ELSE TopKi(t, c) - 1))
        Down(t) == CursorPush(t, c, Here(t, c).ptr)
        Enter(t) == IF right THEN t ELSE SetTopKi(t, c, NumKeys(TopPage(t, c)) - 1)
    IN  IF s.cs[c].snum < 2 THEN Rc(s, "notfound")
        ELSE On(On(CursorPop(s, c), LAMBDA t :
                    IF AtEnd(t) THEN CursorSibling(t, c, right) ELSE Step(t)), LAMBDA t :
                 IF t.rc # "ok" THEN [t EXCEPT !.cs[c].snum = @ + 1]   \* undo the pop
                 ELSE Enter(Down(t)))

-----------------------------------------------------------------------------
\* Moving a cursor.

\* On the first or the last leaf.
EndLeaf(s, c, how) ==
    IF ~s.cs[c].init \/ Top(s, c) > 0 THEN PageSearch(s, c, NoKey, how) ELSE Ok(s)

CursorFirst(s, c) ==
    On(EndLeaf(s, c, "first"), LAMBDA t :
        IF t.rc # "ok" THEN t
        ELSE Answer(SetTopKi([t EXCEPT !.cs[c].init = TRUE, !.cs[c].eof = FALSE], c, 0), c))

CursorLast(s, c) ==
    On(EndLeaf(s, c, "last"), LAMBDA t :
        IF t.rc # "ok" THEN t
        ELSE Answer(SetTopKi([t EXCEPT !.cs[c].init = TRUE, !.cs[c].eof = TRUE], c,
                             NumKeys(TopPage(t, c)) - 1), c))

\* Mutant: C_DEL is not looked at.
NextIgnoringDel(s, c) ==
    LET i == TopKi(s, c)
        n == NumKeys(TopPage(s, c))
        Right(t) == IF t.rc # "ok" THEN [t EXCEPT !.cs[c].eof = TRUE] ELSE Answer(t, c)
    IN  IF ~s.cs[c].init THEN CursorFirst(s, c)
        ELSE IF s.cs[c].eof /\ i >= n - 1 THEN Rc(s, "notfound")
        ELSE On([s EXCEPT !.cs[c].eof = FALSE], LAMBDA t :
                 IF i + 1 < n THEN Answer(SetTopKi(t, c, i + 1), c)
                 ELSE Right(CursorSibling(t, c, TRUE)))

\* After a deletion the cursor already stands on the next item (C_DEL).
CursorNext(s, c) ==
    LET i == TopKi(s, c)
        n == NumKeys(TopPage(s, c))
        Right(t) == IF t.rc # "ok" THEN [t EXCEPT !.cs[c].eof = TRUE] ELSE Answer(t, c)
    IN  IF ~s.cs[c].init THEN CursorFirst(s, c)
        ELSE IF s.cs[c].eof /\ i >= n - 1 THEN Rc(s, "notfound")
        ELSE IF s.cs[c].del THEN Answer([s EXCEPT !.cs[c].eof = FALSE, !.cs[c].del = FALSE], c)
        ELSE On([s EXCEPT !.cs[c].eof = FALSE], LAMBDA t :
                 IF i + 1 < n THEN Answer(SetTopKi(t, c, i + 1), c)
                 ELSE Right(CursorSibling(t, c, TRUE)))

CursorPrev(s, c) ==
    LET Left(t) == IF t.rc # "ok" THEN t
                   ELSE Answer(SetTopKi(t, c, NumKeys(TopPage(t, c)) - 1), c)
        Back(t) == IF TopKi(t, c) > 0 THEN Answer(SetTopKi(t, c, TopKi(t, c) - 1), c)
                   ELSE Left(CursorSibling(t, c, FALSE))
        Step(t) == Back([t EXCEPT !.cs[c].eof = FALSE, !.cs[c].del = FALSE])
    IN  IF s.cs[c].init THEN Step(Ok(s))
        ELSE On(CursorLast(s, c), LAMBDA t :
                 IF t.rc # "ok" THEN t ELSE Step(SetTopKi(t, c, TopKi(t, c) + 1)))

\* mdb_cursor_set from its label set1 on, and from set2 on.
Found(s, c) == Answer([s EXCEPT !.cs[c].init = TRUE, !.cs[c].eof = FALSE], c)
SearchLeaf(s, c, key, range) ==
    LET hit == NodeSearch(TopPage(s, c), key)
        Right(t) == IF t.rc # "ok" THEN [t EXCEPT !.cs[c].eof = TRUE] ELSE Found(t, c)
    IN  On(SetTopKi(s, c, hit.i), LAMBDA t :
            IF ~range /\ ~hit.exact THEN Rc(t, "notfound")
            ELSE IF hit.i < NumKeys(TopPage(t, c)) THEN Found(t, c)
            ELSE Right(CursorSibling(t, c, TRUE)))

\* The whole of mdb_cursor_set: a cursor already on the right page skips the
\* search from the root.
CursorSet(s, c, key, range) ==
    LET p == TopPage(s, c)
        m == s.cs[c]
        n == NumKeys(p)
        first == NodeAt(p, 0).key
        last == NodeAt(p, n - 1).key
        rightmost == \A l \in 0..Top(s, c) - 1 : m.ki[l] >= NumKeys(s.pages[m.pg[l]]) - 1
        FromRoot == On(PageSearch(s, c, key, "key"), LAMBDA t :
                       IF t.rc # "ok" THEN t ELSE SearchLeaf(t, c, key, range))
    IN  CASE ~m.init -> FromRoot
          [] m.init /\ n = 0 -> Rc(SetTopKi(s, c, 0), "notfound")
          [] m.init /\ n > 0 /\ key = first -> Found(SetTopKi(s, c, 0), c)
          [] m.init /\ n > 1 /\ key = last -> Found(SetTopKi(s, c, n - 1), c)
          [] m.init /\ n > 1 /\ first < key /\ key < last ->
                IF TopKi(s, c) < n /\ Here(s, c).key = key THEN Found(s, c)
                ELSE SearchLeaf([s EXCEPT !.cs[c].eof = FALSE], c, key, range)
          [] m.init /\ n > 0 /\ key > last /\ rightmost -> Rc(SetTopKi(s, c, n), "notfound")
          [] m.init /\ n > 0 /\ key < first /\ Top(s, c) = 0 ->
                IF range THEN Found(SetTopKi(s, c, 0), c)
                ELSE Rc(SetTopKi(s, c, 0), "notfound")
          [] OTHER -> FromRoot

GetCurrent(s, c) ==
    LET n == NumKeys(TopPage(s, c))
    IN  IF ~s.cs[c].init THEN Rc(s, "einval")
        ELSE IF TopKi(s, c) >= n THEN Rc(SetTopKi(s, c, n), "notfound")
        ELSE Answer(s, c)

CursorGet(s, c, op, key) ==
    On(CASE op = "current" -> GetCurrent(s, c)
         [] op = "first" -> CursorFirst(s, c)
         [] op = "last" -> CursorLast(s, c)
         [] op = "next" -> CursorNext(s, c)
         [] op = "prev" -> CursorPrev(s, c)
         [] op \in {"set", "range"} -> CursorSet(s, c, key, op = "range"),
       LAMBDA t : [t EXCEPT !.cs[c].del = FALSE])

-----------------------------------------------------------------------------
\* Splitting a page.

\* The index, among the nodes of the page with the new one in its place,
\* of the first that goes to the new right page.
SplitIndex(leaf, nodes, newindx) ==
    LET n == Len(nodes) - 1
        half == (n + 1) \div 2
        sz == SizesOf(leaf, nodes)
        Upto(i) == Total(SubSeq(sz, 1, i + 1))
        From(i) == Total(SubSeq(sz, i + 1, n + 1))
        k == IF newindx >= n THEN n ELSE half + 1 + (IF leaf THEN 1 ELSE 0)
    IN  IF ~(n < KeyThresh \/ sz[newindx + 1] > Room \div 16 \/ newindx >= n) THEN half
        ELSE IF newindx <= half \/ newindx >= n
        THEN Min({i \in 0..k - 1 : Upto(i) > Room} \cup {k - 1})
        ELSE Max({i \in half..n : From(i) > Room} \cup {half}) + 1

\* The first node of a branch needs no key.
Keyless(leaf, nodes) == IF leaf THEN nodes ELSE [nodes EXCEPT ![1].key = NoKey]

\* Where cursor c hands its upper levels over to what m has there.
PathFrom(m, lo, hi, src) ==
    [m EXCEPT !.pg = [l \in Levels |-> IF l \in lo..hi THEN src.pg[l] ELSE m.pg[l]],
              !.ki = [l \in Levels |-> IF l \in lo..hi THEN src.ki[l] ELSE m.ki[l]]]

\* A level more at the root.
Deeper(m, p, i) ==
    [m EXCEPT !.snum = @ + 1,
              !.pg = [l \in Levels |-> IF l = 0 THEN p ELSE m.pg[l - 1]],
              !.ki = [l \in Levels |-> IF l = 0 THEN i ELSE m.ki[l - 1]]]

\* The first part of mdb_page_split: the right sibling, and a new root above
\* the page when it has no parent.
GrowRoot(s, c) ==
    LET mp == TopPg(s, c)
        pp == NewPage(s)
        s1 == PageNew(s, pp, FALSE)
        s2 == [s1 EXCEPT !.cs[c] = Deeper(@, pp, 0), !.root = pp, !.depth = @ + 1]
    IN  IF Top(s, c) > 0 THEN s ELSE NodeAdd(s2, pp, 0, Node(NoKey, mp))

\* Whether the path's index at level l fell off its page because the page was
\* split, and mn knows the page it went to.
FellOff(s, c, mn, l) ==
    /\ s.cs[mn].pg[l] # s.cs[c].pg[l]
    /\ s.cs[c].ki[l] >= NumKeys(s.pages[s.cs[c].pg[l]])

\* The page left of the split one may have moved to the new parent too.
FollowLeft(s, c, mn, l) ==
    LET n == s.cs[mn]
        s1 == [s EXCEPT !.cs[c] = PathFrom(PathFrom(@, 0, l - 1, n), l, l,
                                           [n EXCEPT !.ki[l] = IF @ > 0 THEN @ - 1 ELSE 0])]
    IN  IF ~FellOff(s, c, mn, l) THEN s
        ELSE IF n.ki[l] > 0 THEN s1
        ELSE CursorSibling(s1, c, FALSE)

\* Mutant: a split leaves the other cursors where they were.
SplitFixForgotten(m, mp, rp, n, lv, newindx, replace, newRoot, didSplit, cm, mn) == m

\* What a split does to another cursor m of the database: lv is the level of
\* the split page mp, rp its right sibling, n the nodes left in mp.
SplitFix(m, mp, rp, n, lv, newindx, replace, newRoot, didSplit, cm, mn) ==
    LET m1 == IF newRoot THEN Deeper(m, cm.pg[0], IF m.ki[0] >= n THEN 1 ELSE 0) ELSE m
        m2 == IF m1.ki[lv] >= newindx /\ ~replace THEN [m1 EXCEPT !.ki[lv] = @ + 1] ELSE m1
        onPage == TopOf(m1) >= lv /\ m1.pg[lv] = mp
        later == /\ TopOf(m1) >= lv - 1
                 /\ m1.pg[lv - 1] = cm.pg[lv - 1]
                 /\ m1.ki[lv - 1] >= cm.ki[lv - 1]
    IN  IF ~m.init \/ (newRoot /\ m.pg[0] # mp) THEN m
        ELSE IF onPage /\ m2.ki[lv] >= n
        THEN [PathFrom(m2, 0, lv - 1, mn) EXCEPT !.pg[lv] = rp, !.ki[lv] = @ - n]
        ELSE IF onPage THEN m2
        ELSE IF ~didSplit /\ later THEN [m1 EXCEPT !.ki[lv - 1] = @ + 1]
        ELSE m1

RECURSIVE PageSplit(_, _, _, _, _)
PageSplit(s0, c, nd, append, replace) ==
    LET mp == TopPg(s0, c)
        newindx == TopKi(s0, c)
        leaf == s0.pages[mp].leaf
        rp == NewPage(s0)
        mn == NewName(s0)
        all == InsertAt(s0.pages[mp].nodes, newindx + 1, nd)
        split == IF append THEN newindx ELSE SplitIndex(leaf, all, newindx)
        sep == Node(all[split + 1].key, rp)
        goesLeft == newindx < split
        \* the copy mn of the cursor, on the right page
        CopyRight(s) ==
            LET lv == Top(s, c)
            IN  [CursorCopy(s, c, mn) EXCEPT !.cs[mn].pg[lv] = rp,
                                             !.cs[mn].ki[lv - 1] = @ + 1,
                                             !.cs[mn].ki[lv] = IF append THEN 0 ELSE @]
        \* the separator, into the parent or into a split parent
        Parent(s) == s.cs[mn].pg[Top(s, c) - 1]
        Overflows(s) == NodeSize(FALSE, sep) > SizeLeft(s.pages[Parent(s)])
        Separate(s) ==
            IF Overflows(s)
            THEN Then(Untrack(PageSplit(Track([s EXCEPT !.cs[mn].snum = @ - 1], mn),
                                        mn, sep, FALSE, FALSE), mn),
                      LAMBDA t : FollowLeft(t, c, mn,
                                   IF t.cs[c].snum > s.cs[c].snum THEN Top(s, c)
                                   ELSE Top(s, c) - 1))
            ELSE NodeAdd(s, Parent(s), s.cs[mn].ki[Top(s, c) - 1], sep)
        \* the nodes, into the two pages, and the cursor to the new one
        Append1(s) ==
            LET top == Top(s, c)
                path == [s.cs[mn] EXCEPT !.pg = s.cs[c].pg]
            IN  [NodeAdd(s, rp, 0, nd) EXCEPT
                    !.cs[c] = [PathFrom(@, 0, top - 1, path) EXCEPT !.pg[top] = rp, !.ki[top] = 0]]
        Distribute(s) ==
            Then(NodesAdd(s, rp, Keyless(leaf, SubSeq(all, split + 1, Len(all)))), LAMBDA t :
                NodesAdd([t EXCEPT !.pages[mp].nodes = <<>>], mp,
                         Keyless(leaf, SubSeq(all, 1, split))))
        GoLeft(s) == [s EXCEPT !.cs[c].pg[Top(s, c)] = mp, !.cs[c].ki[Top(s, c)] = newindx]
        GoRight(s) ==
            LET top == Top(s, c)
            IN  On([s EXCEPT !.cs[c].pg[top] = rp, !.cs[c].ki[top] = newindx - split,
                             !.cs[c].ki[top - 1] = @ + 1],
                   LAMBDA t : IF ~FellOff(t, c, mn, top - 1) THEN t
                              ELSE [t EXCEPT !.cs[c] = PathFrom(@, 0, top - 1, t.cs[mn])])
        Place(s) == IF append THEN Append1(s)
                    ELSE Then(Distribute(s), LAMBDA t : IF goesLeft THEN GoLeft(t) ELSE GoRight(t))
        FixOthers(s, didSplit) ==
            Fix(s, s.tracked \ {c}, LAMBDA m :
                SplitFix(m, mp, rp, NumKeys(s.pages[mp]), Top(s, c), newindx, replace,
                         Top(s0, c) = 0, didSplit, s.cs[c], s.cs[mn]))
    IN  On(CopyRight(GrowRoot(PageNew(s0, rp, leaf), c)), LAMBDA s :
            Then(Then(Separate(s), Place), LAMBDA t : FixOthers(t, Overflows(s))))

-----------------------------------------------------------------------------
\* Deleting: moving nodes and merging pages.

\* Mutant: the separator stays.
UpdateKeyForgotten(s, c, key) == Ok(s)

\* A larger separator may not fit: then its page is split.
UpdateKey(s, c, key) ==
    LET p == TopPg(s, c)
        i == TopKi(s, c)
        old == NodeAt(s.pages[p], i)
        delta == NodeSize(FALSE, Node(key, old.ptr)) - NodeSize(FALSE, old)
    IN  IF delta > 0 /\ SizeLeft(s.pages[p]) < delta
        THEN PageSplit(NodeDel(s, p, i), c, Node(key, old.ptr), FALSE, TRUE)
        ELSE Ok([s EXCEPT !.pages[p].nodes[i + 1].key = key])

\* The separator of cursor c's page, from its first node; a copy of the
\* cursor stands for it while the parent may be split.
UpdateSeparator(s, c) ==
    LET mn == NewName(s)
        l == Top(s, c)
        Copied == [CursorCopy(s, c, mn) EXCEPT !.cs[mn].snum = @ - 1]
        Updated == IF s.cs[c].ki[l - 1] = 0 THEN s
                   ELSE Untrack(UpdateKey(Track(Copied, mn), mn, NodeAt(TopPage(s, c), 0).key), mn)
    IN  IF s.cs[c].ki[l] # 0 THEN s
        ELSE Then(Updated, LAMBDA t :
                  IF TopPage(s, c).leaf THEN t
                  ELSE [t EXCEPT !.pages[TopPg(s, c)].nodes[1].key = NoKey])

\* What moving one node does to another cursor m.
MoveFix(m, isSrc, isDst, src, dst, l, fromleft) ==
    LET onDst == m.pg[l] = dst.pg[l]
        onSrc == m.pg[l] = src.pg[l] /\ ~isSrc
        Over(d) == [m EXCEPT !.pg[l] = dst.pg[l], !.ki[l] = dst.ki[l], !.ki[l - 1] = @ + d]
    IN  IF ~m.init \/ TopOf(m) < l THEN m
        ELSE IF fromleft
        THEN IF ~isDst /\ onDst /\ m.ki[l] >= dst.ki[l] THEN [m EXCEPT !.ki[l] = @ + 1]
             ELSE IF onSrc /\ m.ki[l] = src.ki[l] THEN Over(1)
             ELSE m
        ELSE IF onSrc /\ m.ki[l] = 0 THEN Over(-1)
        ELSE IF onSrc THEN [m EXCEPT !.ki[l] = @ - 1]
        ELSE m

NodeMove(s, csrc, cdst, fromleft) ==
    LET ps == TopPg(s, csrc)
        pd == TopPg(s, cdst)
        i == TopKi(s, csrc)
        l == Top(s, csrc)
        leaf == s.pages[ps].leaf
        nd == NodeAt(s.pages[ps], i)
        key == IF i = 0 /\ ~leaf THEN LowestKey(s, ps) ELSE nd.key
        mn == NewName(s)
        s1 == IF s.pages[pd].leaf \/ TopKi(s, cdst) # 0 THEN s
              ELSE UpdateKey(SetTopKi(CursorCopy(s, cdst, mn), mn, 0), mn, LowestKey(s, pd))
        Moved(t) == NodeAdd(t, pd, TopKi(t, cdst), Node(key, nd.ptr))
        FixOthers(t) ==
            [t EXCEPT !.cs = [n \in DOMAIN t.cs |->
                IF n \in t.tracked
                THEN MoveFix(t.cs[n], n = csrc, n = cdst, t.cs[csrc], t.cs[cdst], l, fromleft)
                ELSE t.cs[n]]]
    IN  Then(Then(s1, Moved), LAMBDA t :
            Then(UpdateSeparator(FixOthers(NodeDel(t, ps, i)), csrc), LAMBDA u :
                UpdateSeparator(u, cdst)))

\* What merging page src into dst, which had n nodes, does to another cursor.
MergeFix(m, src, dst, n, snum) ==
    LET l == snum - 1
    IN  IF m.snum < snum THEN m
        ELSE IF m.pg[l] = src.pg[l]
        THEN [m EXCEPT !.pg[l] = dst.pg[l], !.ki[l] = @ + n, !.ki[l - 1] = dst.ki[l - 1]]
        ELSE IF m.pg[l - 1] = src.pg[l - 1] /\ m.ki[l - 1] > src.ki[l - 1]
        THEN [m EXCEPT !.ki[l - 1] = @ - 1]
        ELSE m

RECURSIVE Rebalance(_, _)

PageMerge(s, csrc, cdst) ==
    LET ps == TopPg(s, csrc)
        pd == TopPg(s, cdst)
        n == NumKeys(s.pages[pd])
        src == s.cs[csrc]
        up == Top(s, csrc) - 1
        nodes == IF s.pages[ps].leaf THEN s.pages[ps].nodes
                 ELSE [s.pages[ps].nodes EXCEPT ![1].key = LowestKey(s, ps)]
        Unlinked(t) ==
            IF src.ki[up] # 0 THEN t ELSE [t EXCEPT !.pages[src.pg[up]].nodes[1].key = NoKey]
        Merged(t) ==
            Fix(PageFree(Unlinked(NodeDel(t, src.pg[up], src.ki[up])), ps), s.tracked \ {csrc},
                LAMBDA m : MergeFix(m, src, s.cs[cdst], n, src.snum))
    IN  Then(NodesAdd(s, pd, nodes), LAMBDA t :
            On(Rebalance(CursorPop(Merged(t), cdst), cdst), LAMBDA u :
                [u EXCEPT !.cs[cdst].snum = s.cs[cdst].snum + u.depth - s.depth]))

\* A root branch with one page below it gives way to that page.
Shallower(m) ==
    [m EXCEPT !.pg = [l \in Levels |-> IF l = CursorStack THEN 0 ELSE m.pg[l + 1]],
              !.ki = [l \in Levels |-> IF l = CursorStack THEN 0 ELSE m.ki[l + 1]]]
Forget(m) == [m EXCEPT !.snum = 0, !.init = FALSE]

\* Mutant: an emptied root goes, a root with one child stays.
RebalanceRootKeeps(s, c) ==
    LET p == s.cs[c].pg[0]
        empty == [PageFree(s, p) EXCEPT !.root = NoPage, !.depth = 0]
    IN  IF NumKeys(s.pages[p]) > 0 THEN s
        ELSE Fix(Fix(empty, {c}, Forget), s.tracked, LAMBDA m :
                 IF m.init /\ m.pg[0] = p THEN Forget(m) ELSE m)

RebalanceRoot(s, c) ==
    LET p == s.cs[c].pg[0]
        page == s.pages[p]
        empty == [PageFree(s, p) EXCEPT !.root = NoPage, !.depth = 0]
        below == NodeAt(page, 0).ptr
        lower == [PageFree(s, p) EXCEPT !.root = below, !.depth = @ - 1,
                                        !.cs[c] = [Shallower(@) EXCEPT !.pg[0] = below]]
    IN  IF NumKeys(page) = 0
        THEN Fix(Fix(empty, {c}, Forget), s.tracked, LAMBDA m :
                 IF m.init /\ m.pg[0] = p THEN Forget(m) ELSE m)
        ELSE IF ~page.leaf /\ NumKeys(page) = 1
        THEN Fix(lower, s.tracked \ {c}, LAMBDA m :
                 IF m.init /\ m.pg[0] = p THEN [Shallower(m) EXCEPT !.snum = @ - 1] ELSE m)
        ELSE s

Rebalance(s, c) ==
    LET page == TopPage(s, c)
        l == Top(s, c)
        up == l - 1
        parent == s.pages[s.cs[c].pg[up]]
        minkeys == IF page.leaf THEN 1 ELSE 2
        thresh == IF page.leaf THEN 250 ELSE 1      \* FILL_THRESHOLD
        Filled(p) == (1000 * Used(p)) \div Room >= thresh
        fromleft == s.cs[c].ki[up] > 0
        mn == NewName(s)
        next == NodeAt(parent, s.cs[c].ki[up] + (IF fromleft THEN -1 ELSE 1)).ptr
        neighbor == s.pages[next]
        Beside == [CursorCopy(s, c, mn) EXCEPT
                      !.cs[mn].ki[up] = @ + (IF fromleft THEN -1 ELSE 1),
                      !.cs[mn].pg[l] = next,
                      !.cs[mn].ki[l] = IF fromleft THEN NumKeys(neighbor) - 1 ELSE 0,
                      !.cs[c].ki[l] = IF fromleft THEN 0 ELSE NumKeys(page)]
        moves == Filled(neighbor) /\ NumKeys(neighbor) > minkeys
        shift == IF ~fromleft THEN 0 ELSE IF moves THEN 1 ELSE NumKeys(neighbor)
        MergeRight(t) == PageMerge(t, mn, c)
        MergeLeft(t) ==
            Then(Untrack(PageMerge(Track(SetKi(t, mn, l, NumKeys(neighbor)), mn), c, mn), mn),
                 LAMBDA u : CursorCopy(u, mn, c))
        Merge(t) == On(IF fromleft THEN MergeLeft(t) ELSE MergeRight(t),
                       LAMBDA u : [u EXCEPT !.cs[c].eof = FALSE])
    IN  IF Filled(page) /\ NumKeys(page) >= minkeys THEN Ok(s)
        ELSE IF s.cs[c].snum < 2 THEN Ok(RebalanceRoot(s, c))
        ELSE Then(On(Beside, LAMBDA t : IF moves THEN NodeMove(t, mn, c, fromleft) ELSE Merge(t)),
                  LAMBDA t : SetTopKi(t, c, s.cs[c].ki[l] + shift))

-----------------------------------------------------------------------------
\* Writing.

\* Where the item goes: "ok" on an item of this key, "notfound" where a new
\* one belongs, "noroot" in an empty tree.
Position(s, c, key, flag) ==
    LET PastLast(t) == IF key > t.out.key THEN Rc(SetTopKi(t, c, TopKi(t, c) + 1), "notfound")
                       ELSE Rc(t, "keyexist")
    IN  CASE flag = "replace" -> Rc(s, IF s.cs[c].init THEN "ok" ELSE "einval")
          [] flag # "replace" /\ s.root = NoPage -> Rc(Fix(s, {c}, Forget), "noroot")
          [] flag = "append" /\ s.root # NoPage -> PastLast(CursorLast(s, c))
          [] OTHER -> CursorSet(s, c, key, FALSE)

NewTree(s, c) ==
    LET p == NewPage(s)
        s1 == CursorPush(PageNew(s, p, TRUE), c, p)
    IN  [s1 EXCEPT !.root = p, !.depth = @ + 1, !.cs[c].init = TRUE]

\* An item inserted at index i of page p, at level l of cursor c's path.
InsertFix(m, p, l, i) ==
    IF m.snum > l /\ m.pg[l] = p /\ m.ki[l] >= i THEN [m EXCEPT !.ki[l] = @ + 1] ELSE m

\* The item, in the place of an old one or as a new one, on a page with room
\* for it or on one of two.
PutNode(s, c, nd, insert, append) ==
    LET p == TopPg(s, c)
        i == TopKi(s, c)
        others == IF insert THEN s.tracked \ {c} ELSE {}
    IN  On(IF insert THEN s ELSE NodeDel(s, p, i), LAMBDA t :
            IF SizeLeft(t.pages[p]) < NodeSize(TRUE, nd) THEN PageSplit(t, c, nd, append, ~insert)
            ELSE Fix(NodeAdd(t, p, i, nd), others, LAMBDA m : InsertFix(m, p, Top(t, c), i)))

\* A new item is counted and makes the cursor usable (lines 7072 to 7083 of
\* mdb.c); an old one of the same size is written over in its place.
CursorPut(s, c, key, data, flag) ==
    LET Insert(t) ==
            Then(PutNode(IF t.rc = "noroot" THEN NewTree(t, c) ELSE t, c, Node(key, data),
                         TRUE, flag = "append"),
                 LAMBDA u : Ok([u EXCEPT !.entries = @ + 1, !.cs[c].init = TRUE]))
        Overwrite(t) ==
            IF Here(t, c).ptr = data THEN Ok(t)      \* same size
            ELSE Then(PutNode(t, c, Node(key, data), FALSE, flag = "append"), Ok)
    IN  On(Position(s, c, key, flag), LAMBDA t :
            IF t.rc = "ok" /\ flag = "nooverwrite" THEN Rc(t, "keyexist")
            ELSE IF t.rc \notin {"ok", "notfound", "noroot"} THEN t
            ELSE On([t EXCEPT !.cs[c].del = FALSE], LAMBDA u :
                     IF u.rc = "ok" THEN Overwrite(u) ELSE Insert(u)))

\* Mutant: the cursor on the deleted item steps back with those behind it.
DeleteFixStepsBack(m, p, l, i) ==
    IF ~m.init \/ m.snum <= l \/ m.pg[l] # p THEN m
    ELSE IF m.ki[l] >= i THEN [m EXCEPT !.ki[l] = @ - 1, !.del = TRUE]
    ELSE m

\* An item gone from index i of page p, at level l.
DeleteFix(m, p, l, i) ==
    IF ~m.init \/ m.snum <= l \/ m.pg[l] # p THEN m
    ELSE IF m.ki[l] = i THEN [m EXCEPT !.del = TRUE]
    ELSE IF m.ki[l] > i THEN [m EXCEPT !.ki[l] = @ - 1]
    ELSE m

\* Cursor m past the end of the page goes to the next page, if there is one.
NextPage(s, m) ==
    LET t == CursorSibling(s, m, TRUE)
    IN  IF t.rc = "ok" THEN t ELSE [t EXCEPT !.cs[m].eof = TRUE]

CursorDel0(s, c) ==
    LET p == TopPg(s, c)
        i == TopKi(s, c)
        Removed == Fix([NodeDel(s, p, i) EXCEPT !.entries = @ - 1], s.tracked \ {c},
                       LAMBDA m : DeleteFix(m, p, Top(s, c), i))
        Past(t) ==
            LET l == Top(t, c)
            IN  {n \in t.tracked :
                    LET m == t.cs[n]
                    IN  /\ m.init /\ m.snum >= t.cs[c].snum /\ m.pg[l] = TopPg(t, c)
                        /\ m.ki[l] >= TopKi(t, c)
                        /\ m.ki[l] >= NumKeys(t.pages[m.pg[l]])}
    IN  Then(Rebalance(Removed, c), LAMBDA t :
            IF t.cs[c].snum = 0 THEN [t EXCEPT !.cs[c].eof = TRUE]
            ELSE Ok([FoldSet(LAMBDA m, u : NextPage(u, m), t, Past(t)) EXCEPT !.cs[c].del = TRUE]))

CursorDel(s, c) ==
    IF ~s.cs[c].init THEN Rc(s, "einval")
    ELSE IF TopKi(s, c) >= NumKeys(TopPage(s, c)) THEN Rc(s, "notfound")
    ELSE CursorDel0(s, c)

\* The calls without a cursor make one of their own.
MdbGet(s, key) ==
    LET c == NewName(s)
    IN  CursorSet(WithCursor(s, c, NewCursor), c, key, FALSE)

MdbPut(s, key, data, flag) ==
    LET c == NewName(s)
    IN  Untrack(CursorPut(Track(WithCursor(s, c, NewCursor), c), c, key, data, flag), c)

MdbDel(s, key) ==
    LET c == NewName(s)
    IN  On(MdbGet(s, key), LAMBDA t :
            IF t.rc # "ok" THEN t ELSE Untrack(CursorDel(Track(t, c), c), c))

-----------------------------------------------------------------------------
\* The state between two calls: pages numbered from the root on, the
\* application's cursor, nothing of the path beyond its levels.

RECURSIVE Reach(_, _)
Reach(s, p) ==
    IF s.pages[p].leaf THEN <<p>>
    ELSE FlattenSeq(<< <<p>> >> \o [i \in 1..NumKeys(s.pages[p]) |-> Reach(s, s.pages[p].nodes[i].ptr)])
Reachable(s) == IF s.root = NoPage THEN <<>> ELSE Reach(s, s.root)

App == 0      \* the name of the application's cursor

Settle(s) ==
    LET order == Reachable(s)
        lost == SetToSeq(DOMAIN s.pages \ ToSet(order))
        id == order \o lost
        Num(p) == IF p \notin ToSet(id) THEN NoPage ELSE CHOOSE n \in 1..Len(id) : id[n] = p
        Page(p) == IF p.leaf THEN p
                   ELSE [p EXCEPT !.nodes = [i \in DOMAIN @ |-> Node(@[i].key, Num(@[i].ptr))]]
        m == s.cs[App]
    IN  [s EXCEPT !.rc = "ok", !.out = Nothing,
                  !.pages = [n \in 1..Len(id) |-> Page(s.pages[id[n]])],
                  !.root = Num(@),
                  !.cs = (App :> [m EXCEPT
                            !.pg = [l \in Levels |-> IF l < m.snum THEN Num(m.pg[l]) ELSE NoPage],
                            !.ki = [l \in Levels |-> IF l < m.snum THEN m.ki[l] ELSE 0]])]

Empty == [pages |-> <<>>, root |-> NoPage, depth |-> 0, entries |-> 0,
          cs |-> App :> NewCursor, tracked |-> {App}, rc |-> "ok", out |-> Nothing,
          full |-> FALSE]

-----------------------------------------------------------------------------
\* The transaction: its tree, the answer of the last call, and what a reader
\* of the cursor knows (history): the key the cursor was last seen at and the
\* keys that have been there ever since.

VARIABLES
    tree,     \* the state above
    map,      \* what it holds
    ret,      \* [op, rc, key] of the last call
    last,     \* the cursor's key, Unset or Lost
    stable    \* keys present since the cursor moved

vars == <<tree, map, ret, last, stable>>

Unset == -1     \* before the first move
Lost == -2       \* after a failed search

\* The leaves in order, and the map they hold.
LeafNodes(s) ==
    LET leaves == SelectSeq(Reachable(s), LAMBDA p : s.pages[p].leaf)
    IN  FlattenSeq([i \in DOMAIN leaves |-> s.pages[leaves[i]].nodes])
MapOf(s) == LET nodes == LeafNodes(s)
            IN  [k \in {nodes[i].key : i \in DOMAIN nodes} |->
                    nodes[CHOOSE i \in DOMAIN nodes : nodes[i].key = k].ptr]

Load(kds) == FoldLeft(LAMBDA s, kd : Settle(MdbPut(s, kd[1], kd[2], "put")), Empty, kds)

Init ==
    /\ \E kds \in Loads : tree = Load(kds)
    /\ ret = [op |-> "none", rc |-> "ok", key |-> NoKey]
    /\ last = Unset
    /\ map = MapOf(tree)
    /\ stable = DOMAIN map

\* A call that left the state s.
Returns(op, key, s) ==
    /\ ~tree.full
    /\ tree' = IF s.full THEN [tree EXCEPT !.full = TRUE] ELSE Settle(s)
    /\ map' = MapOf(tree')
    /\ ret' = [op |-> op, rc |-> s.rc, key |-> key]

\* The cursor is at key now and has seen which keys are there; or it did not
\* move, and keys put meanwhile count as long as its own key is there.
At(key) == last' = key /\ stable' = DOMAIN map'
Astray == last' = Lost /\ stable' = {}
Exact == last = Unset \/ last \in stable \cap DOMAIN map'
Stays == UNCHANGED last /\ stable' = IF Exact THEN DOMAIN map' ELSE stable \cap DOMAIN map'

\* Calls that move the cursor or read at it.
Move(op, key) ==
    \E s \in {CursorGet(tree, App, op, key)} :
        /\ Returns(op, key, s)
        /\ IF s.rc = "ok" /\ ~(op = "current" /\ s.out.key = last) THEN At(s.out.key)
           ELSE IF op \in {"set", "range"} \/ (op # "current" /\ ~Exact) THEN Astray
           ELSE Stays

\* Writes through the cursor.
Standing == IF tree.cs[App].init THEN Here(tree, App).key ELSE NoKey
PutHere(key, data, flag) ==
    \E s \in {CursorPut(tree, App, key, data, flag)} :
        /\ Returns(flag, key, s)
        /\ IF flag = "replace" THEN Stays
           ELSE IF s.rc = "keyexist" THEN Astray
           ELSE At(key)

DelHere ==
    \E s \in {CursorDel(tree, App)} :
        /\ Returns("delhere", NoKey, s)
        /\ IF s.rc = "ok"
           THEN last' = Standing /\ stable' = stable \cap DOMAIN map'
           ELSE Stays

\* Writes past the cursor.
Put(key, data, flag) ==
    /\ \A l \in Levels : tree.cs[App].ki[l] <= MaxDrift
    /\ Returns(flag, key, MdbPut(tree, key, data, flag))
    /\ Stays
Del(key) == Returns("del", key, MdbDel(tree, key)) /\ Stays

Next ==
    \/ \E op \in {"first", "last"} : Move(op, NoKey)
    \/ \E op \in {"next", "prev", "current"} : last # Lost /\ Move(op, NoKey)
    \/ \E op \in {"set", "range"}, k \in Keys : Move(op, k)
    \/ \E k \in Touched : \E d \in DataSizes[k], flag \in {"put", "nooverwrite", "append"} :
          Put(k, d, flag) \/ PutHere(k, d, flag)
    \/ \E d \in UNION {DataSizes[k] : k \in Keys} : 
          last \in stable \cap Touched /\ d \in DataSizes[last] /\ PutHere(last, d, "replace")
    \/ \E k \in Touched : Del(k)
    \/ last # Lost /\ Standing \in Touched \cup {NoKey} /\ DelHere

Spec == Init /\ [][Next]_vars

-----------------------------------------------------------------------------
\* Properties.

Depth(s, p) ==
    LET Down[q \in DOMAIN s.pages] ==
            IF s.pages[q].leaf THEN 1 ELSE 1 + Down[NodeAt(s.pages[q], 0).ptr]
    IN  Down[p]

\* The state between two calls is well-formed: the cursor has no more levels
\* than the tree can have and no index below zero (an index is unsigned in
\* MDB_cursor, so one below zero would be 65535).
TreeTypeOK ==
    /\ tree.root \in DOMAIN tree.pages \cup {NoPage}
    /\ tree.tracked = {App} /\ tree.entries \in Nat
    /\ LET m == tree.cs[App]
       IN  m.snum \in 0..CursorStack + 1 /\ m.ki \in [Levels -> Nat]
    /\ last \in Keys \cup {Unset, Lost} /\ stable \subseteq Keys

\* The leaves hold the keys in order, as many as md_entries counts, and
\* mdb_get finds each key with the value put last and no other key: every
\* separator in a branch still directs the search to the right child after
\* any sequence of splits, merges and moves.
OrderedTree ==
    LET nodes == LeafNodes(tree)
    IN  /\ \A i \in 1..Len(nodes) - 1 : nodes[i].key < nodes[i + 1].key
        /\ tree.entries = Len(nodes)
        /\ \A k \in Keys : \A s \in {MdbGet(tree, k)} :
              IF k \in DOMAIN map THEN s.rc = "ok" /\ s.out = Node(k, map[k])
              ELSE s.rc = "notfound"

\* No page overflows, none is emptied and left in the tree, none is left out
\* of the tree without being freed, and all leaves are md_depth levels below
\* the root: mdb_rebalance and mdb_page_split never do half of their work.
BalancedTree ==
    /\ ToSet(Reachable(tree)) = DOMAIN tree.pages
    /\ \A p \in DOMAIN tree.pages :
          LET page == tree.pages[p]
          IN  /\ Used(page) <= Room
              /\ NumKeys(page) >= IF page.leaf THEN 1 ELSE 2
              /\ ~page.leaf => \A i \in 1..NumKeys(page) :
                    Depth(tree, page.nodes[i].ptr) = Depth(tree, p) - 1
    /\ tree.depth = IF tree.root = NoPage THEN 0 ELSE Depth(tree, tree.root)

\* What mdb_cursor_chk asserts in a debug build: the path of an initialized
\* cursor leads from the root to a leaf along the pointers of the branches,
\* whatever other cursors did to the pages; and the cursor stands on its item
\* as long as that item is in the map.
CursorOnPath ==
    LET m == tree.cs[App]
    IN  /\ m.init =>
              /\ m.snum = tree.depth /\ m.pg[0] = tree.root
              /\ \A l \in 0..m.snum - 2 :
                    /\ m.ki[l] < NumKeys(tree.pages[m.pg[l]])
                    /\ NodeAt(tree.pages[m.pg[l]], m.ki[l]).ptr = m.pg[l + 1]
        /\ last \in stable => m.init /\ Here(tree, App).key = last

\* Every call does what LmdbMap allows it to do to the map and to the cursor:
\* a walk shows each key that stays, once and in order, whatever is put and
\* deleted around it.
Promised == INSTANCE LmdbMap WITH ended <- tree.cs[App].eof
ImplementsMap == [][Promised!Step]_vars

\* The comment in mdb_node_add says that MDB_PAGE_FULL "should never happen
\* since all callers already calculate the page's free space before calling
\* this function".
NeverFull == ~tree.full

\* The answer of a call does not bear on the next one.
View == <<tree, last, stable>>
=============================================================================
