------------------------------ MODULE LmdbPages ------------------------------
(***************************************************************************)
(* Which pages a write transaction of the bundled LMDB (mdb.c) may write.  *)
(* A transaction never writes a page of a snapshot: it takes pages that    *)
(* older transactions freed, or new ones, and commits the numbers of those *)
(* it freed itself to the freeDB, a tree whose own pages are allocated in  *)
(* the same way while it is being written.                                 *)
(*                                                                         *)
(* The database of the application is a root and at most MaxLeaves leaves  *)
(* (how they are kept in order is LmdbTree) and values on overflow pages   *)
(* of their own.  The freeDB is one leaf page that never fills, and the    *)
(* overflow pages of its long records.  An operation on the application's  *)
(* database is one step: readers that come or go in the middle of one      *)
(* find the same snapshots as before it.  mdb_freelist_save is one step    *)
(* per record it writes or deletes.  One environment writes, without       *)
(* nested transactions and without MDB_WRITEMAP.                           *)
(***************************************************************************)
EXTENDS Integers, Sequences, FiniteSets, SequencesExt, FiniteSetsExt

CONSTANTS Readers,
          MaxPg,          \* me_maxpg: the pages of the map
          NodeMax,        \* page numbers of a record that stays in the leaf
          MaxFree1Pg,     \* page numbers of a record on one overflow page
          DirtyRoom,      \* MDB_IDL_UM_MAX: the dirty pages of a transaction
          SpillNeed,      \* what mdb_page_spill expects an operation to dirty
          SpillShare,     \* MDB_IDL_UM_MAX / 8: it spills no less than that
          BigPages,       \* overflow pages of a big value
          MaxLeaves, MaxBig,      \* bounds of the instance
          Starts          \* [id, snap, last, ops]: the commit an environment
                          \* opens with, the last transaction that begins, and
                          \* how many operations a transaction has

ASSUME PagesAssumption ==
    /\ {MaxPg, NodeMax, MaxFree1Pg, DirtyRoom, SpillNeed, SpillShare, BigPages} \subseteq Nat
    /\ NodeMax < MaxFree1Pg /\ SpillNeed < DirtyRoom /\ BigPages > 0

VARIABLES start,      \* the member of Starts, with its bounds
          newest,     \* id of the last committed transaction
          snaps,      \* the snapshots somebody refers to
          readers,    \* [Readers -> the transaction a reader reads or None]
          env,        \* [oldest, fatal]: me_pgoldest and MDB_FATAL_ERROR
          pc, w,      \* the write transaction and how far it is
          sv          \* local variables of mdb_freelist_save

vars == <<start, newest, snaps, readers, env, pc, w, sv>>

None == -1
NoPage == 0
FirstPage == 2      \* after the two meta pages

-----------------------------------------------------------------------------
(* Pages.  Overflow pages are a run of pages known by the first; a map from *)
(* first pages to lengths stands for a set of runs.  A record of the freeDB *)
(* is [len, pgs, ov]: the length it has room for, the page numbers in it,  *)
(* and its overflow pages.                                                 *)

Run(p, n) == p..(p + n - 1)
PagesOf(runs) == UNION {Run(p, runs[p]) : p \in DOMAIN runs}
With(runs, p, n) == [q \in DOMAIN runs \cup {p} |-> IF q = p THEN n ELSE runs[q]]
Without(runs, p) == [q \in DOMAIN runs \ {p} |-> runs[q]]

EmptyMain == [root |-> NoPage, leaves |-> {}, big |-> <<>>]
EmptyFree == [root |-> NoPage, recs |-> <<>>]

RootOf(db) == {db.root} \ {NoPage}
MainPages(t) == RootOf(t.main) \cup t.main.leaves \cup PagesOf(t.main.big)
FreePages(t) == RootOf(t.free) \cup UNION {PagesOf(t.free.recs[i].ov) : i \in DOMAIN t.free.recs}
UsedPages(t) == MainPages(t) \cup FreePages(t)

(* The places a snapshot has for pages, by kind and number: the root (1)    *)
(* and the leaves (2) of the database, the run of a big value (3), the page *)
(* of the freeDB (4), the overflow pages of a record (5) and the page       *)
(* numbers in it (6).                                                      *)
PagesAt(s, k, i) ==
    CASE k = 1 -> RootOf(s.main)
      [] k = 2 -> s.main.leaves
      [] k = 3 -> Run(i, s.main.big[i])
      [] k = 4 -> RootOf(s.free)
      [] k = 5 -> PagesOf(s.free.recs[i].ov)
      [] k = 6 -> s.free.recs[i].pgs

Places(s) == ({1, 2, 4} \X {0}) \cup ({3} \X DOMAIN s.main.big) \cup ({5, 6} \X DOMAIN s.free.recs)

IsRuns(r) == r \in [DOMAIN r -> Nat \ {0}] /\ DOMAIN r \subseteq Nat

IsRecord(r) ==
    /\ DOMAIN r = {"len", "pgs", "ov"}
    /\ r.len \in Nat /\ r.pgs \subseteq Nat /\ IsRuns(r.ov)
    /\ \A p, q \in DOMAIN r.ov : p = q

IsMain(m) ==
    /\ DOMAIN m = {"root", "leaves", "big"}
    /\ m.root \in Nat /\ m.leaves \subseteq Nat /\ IsRuns(m.big)
    /\ m.leaves # {} => m.root # NoPage

IsFree(f) ==
    /\ DOMAIN f = {"root", "recs"}
    /\ f.root \in Nat /\ DOMAIN f.recs \subseteq Nat \ {0}
    /\ \A i \in DOMAIN f.recs : IsRecord(f.recs[i])

(* An environment opens with the file an earlier commit has left, in a map  *)
(* no smaller than the one it was written in: each page is in one place,   *)
(* and the records are of transactions up to that commit.  Every commit     *)
(* leaves such a file (the theorem SnapshotsTidy).                         *)
ASSUME StartsAssumption ==
    \A s \in Starts :
        /\ s.id \in Nat /\ s.last \in Nat /\ s.id <= s.last
        /\ IsMain(s.snap.main) /\ IsFree(s.snap.free)
        /\ s.snap.next \in Nat /\ FirstPage <= s.snap.next /\ s.snap.next < MaxPg
        /\ DOMAIN s.snap.free.recs \subseteq 1..s.id
        /\ \A c, d \in Places(s.snap) :
              c = d \/ PagesAt(s.snap, c[1], c[2]) \cap PagesAt(s.snap, d[1], d[2]) = {}
        /\ UNION {PagesAt(s.snap, c[1], c[2]) : c \in Places(s.snap)} = FirstPage..(s.snap.next - 1)

(* Snapshots somebody may read: the newest, and those of running readers.  *)
Needed(n, rs) == {n} \cup ({rs[r] : r \in Readers} \ {None})
Referenced == Needed(newest, readers)

-----------------------------------------------------------------------------
(* The write transaction is a record t.  pglast and pghead are me_pglast    *)
(* and me_pghead: until mdb_txn_end they belong to the transaction, and the *)
(* list exists once a record has been fetched.  dirty and spill map the    *)
(* pages of the dirty and the spill list to their lengths; loose is the    *)
(* stack mt_loose_pgs; freed and nfreed are mt_free_pgs and its length.    *)
(* got is the page the last function returns, rc its return code, err is   *)
(* MDB_TXN_ERROR, written the pages that lie in the file as this            *)
(* transaction wants them, spilled or flushed and not taken back since,    *)
(* oldest the cached me_pgoldest.                                          *)

HasHead(t) == t.pglast # 0
Ok(t) == t.rc = "ok"
Then(t, F(_)) == IF Ok(t) THEN F(t) ELSE t
Refused(t) == [t EXCEPT !.rc = "full"]
Failed(t) == [t EXCEPT !.rc = "full", !.err = TRUE]

(* mdb_midl_append, mdb_midl_append_range                                  *)
Append_(t, P) == [t EXCEPT !.freed = @ \cup P, !.nfreed = @ + Cardinality(P)]

(* Mutant: the reader table is not looked at.                              *)
OldestIgnoringReaders(t) == t.id - 1

(* mdb_find_oldest: the oldest transaction a reader refers to.             *)
FindOldest(t) == Min({t.id - 1} \cup ({readers[r] : r \in Readers} \ {None}))

-----------------------------------------------------------------------------
(* mdb_page_alloc.  Records of the freeDB are fetched in the order of their *)
(* ids until the page numbers at hand hold a run of num pages; with the    *)
(* cached bound first, and with the real one when that has not sufficed.   *)

RunsIn(P, num) == {p \in P : Run(p, num) \subseteq P}
Merged(t, ids) == t.pghead \cup UNION {t.free.recs[i].pgs : i \in ids}

Fetched(t, num, oldest) ==
    LET ids == {i \in DOMAIN t.free.recs : t.pglast < i /\ i < oldest}
        suffices == {k \in {0} \cup ids :
                        RunsIn(Merged(t, {i \in ids : i <= k}), num) # {}}
    IN  IF suffices = {} THEN ids ELSE {i \in ids : i <= Min(suffices)}

Take(t, ids, oldest) ==
    [t EXCEPT !.pghead = Merged(t, ids), !.pglast = Max({@} \cup ids), !.oldest = oldest]

(* The bound is refreshed where a fetch has reached it.                    *)
Refresh(t, num) ==
    IF /\ RunsIn(t.pghead, num) = {}
       /\ t.oldest <= t.pglast + 1 \/ \E i \in DOMAIN t.free.recs : i > t.pglast
    THEN Take(t, Fetched(t, num, FindOldest(t)), FindOldest(t))
    ELSE t

Fetch(t, num) == Refresh(Take(t, Fetched(t, num, t.oldest), t.oldest), num)

(* mdb_page_dirty                                                          *)
PageDirty(t, p, num) ==
    [t EXCEPT !.dirty = With(@, p, num), !.room = @ - 1, !.got = p]

(* Mutant: only the first page of the run is looked at.                    *)
MapFullAtFirst(t, num) == t.next >= MaxPg

MapFull(t, num) == t.next + num >= MaxPg

(* The lowest run at hand, or new pages at the end of the file.            *)
TakeRun(t, num) ==
    LET runs == RunsIn(t.pghead, num)
    IN  IF runs # {}
        THEN PageDirty([t EXCEPT !.pghead = @ \ Run(Min(runs), num)], Min(runs), num)
        ELSE IF MapFull(t, num) THEN Failed(t)
        ELSE PageDirty([t EXCEPT !.next = @ + num], t.next, num)

PageAlloc(t, num) ==
    IF num = 1 /\ t.loose # <<>>
    THEN [t EXCEPT !.got = Head(t.loose), !.loose = Tail(@)]
    ELSE IF t.room = 0 THEN Failed(t)
    ELSE TakeRun(Fetch(t, num), num)

(* Mutant: the page leaves the spill list, and no list has it.             *)
UnspillUnlisted(t, p) ==
    [t EXCEPT !.spill = Without(@, p), !.written = @ \ Run(p, t.spill[p]), !.got = p]

(* mdb_page_unspill: a spilled page is dirty again, and has to be written  *)
(* once more.                                                              *)
Unspill(t, p) ==
    IF t.room = 0 THEN Refused(t)
    ELSE PageDirty([t EXCEPT !.spill = Without(@, p), !.written = @ \ Run(p, t.spill[p])],
                   p, t.spill[p])

(* mdb_page_touch: the page p, or the copy of it that may be written, which *)
(* takes its place in the tree.                                            *)
InPlaceOf(t, p, q) ==
    LET Sub(x) == IF x = p THEN q ELSE x
    IN  [t EXCEPT !.main.root = Sub(@), !.free.root = Sub(@),
                  !.main.leaves = {Sub(x) : x \in @}]

(* Mutant: the page that was copied is not put on the list.                *)
TouchForgetting(t, p) ==
    IF p \in DOMAIN t.dirty THEN [t EXCEPT !.got = p]
    ELSE Then(PageAlloc(t, 1), LAMBDA u : InPlaceOf(u, p, u.got))

PageTouch(t, p) ==
    IF p \in DOMAIN t.dirty THEN [t EXCEPT !.got = p]
    ELSE IF p \in DOMAIN t.spill
         THEN LET u == Unspill(t, p) IN IF Ok(u) THEN u ELSE Failed(u)
    ELSE Then(PageAlloc(t, 1), LAMBDA u : Append_(InPlaceOf(u, p, u.got), {p}))

(* mdb_page_loose: a page this transaction dirtied can be used again by it. *)
PageLoose(t, p) ==
    IF p \in DOMAIN t.dirty THEN [t EXCEPT !.loose = <<p>> \o @] ELSE Append_(t, {p})

(* mdb_ovpage_free: a run of this transaction is at hand again, and what    *)
(* has been written of it counts no longer.                                *)
OvpageFree(t, p, n) ==
    IF HasHead(t) /\ p \in DOMAIN t.dirty \cup DOMAIN t.spill
    THEN [t EXCEPT !.room = IF p \in DOMAIN t.dirty THEN @ + 1 ELSE @,
                   !.dirty = Without(@, p), !.spill = Without(@, p),
                   !.written = @ \ Run(p, n), !.pghead = @ \cup Run(p, n)]
    ELSE Append_(t, Run(p, n))

(* mdb_page_spill, with the part of mdb_page_flush it uses: the last dirty *)
(* pages go to the file, but no loose page, no root and no page of keep,   *)
(* those of the cursor.                                                    *)
PageSpill(t, keep) ==
    LET can == DOMAIN t.dirty \ (ToSet(t.loose) \cup RootOf(t.main) \cup RootOf(t.free) \cup keep)
        out == {p \in can : Cardinality({q \in can : q > p}) < Max({SpillNeed, SpillShare})}
        runs == [p \in out |-> t.dirty[p]]
    IN  IF t.room > SpillNeed THEN t
        ELSE [t EXCEPT !.dirty = [p \in DOMAIN @ \ out |-> @[p]],
                       !.spill = [p \in DOMAIN @ \cup out |-> IF p \in out THEN runs[p] ELSE @[p]],
                       !.room = @ + Cardinality(out), !.written = @ \cup PagesOf(runs)]

-----------------------------------------------------------------------------
(* Operations on the application's database.  A write goes to a leaf,       *)
(* which is the root in a tree of one page.                                *)

Leaves(t) == IF t.main.leaves = {} THEN RootOf(t.main) ELSE t.main.leaves

(* mdb_cursor_touch on the path to leaf l: l, or its copy, is got.         *)
CursorTouch(t, l) ==
    Then(PageSpill(t, {l}), LAMBDA a :
        Then(PageTouch(a, a.main.root), LAMBDA b :
            IF l = a.main.root THEN b ELSE PageTouch(b, l)))

(* The first key of a database.                                            *)
PutFirst(t) ==
    Then(PageSpill(t, {}), LAMBDA a :
        Then(PageAlloc(a, 1), LAMBDA b : [b EXCEPT !.main.root = b.got]))

PutSmall(t, l) == CursorTouch(t, l)

(* A put that splits the leaf: mdb_page_split takes the right sibling, then *)
(* a root above a leaf that was the root.                                  *)
PutSplit(t, l) ==
    Then(CursorTouch(t, l), LAMBDA a :
        Then(PageAlloc(a, 1), LAMBDA b :
            IF a.main.leaves # {} THEN [b EXCEPT !.main.leaves = @ \cup {b.got}]
            ELSE Then(PageAlloc(b, 1), LAMBDA c :
                     [c EXCEPT !.main.root = c.got, !.main.leaves = {a.got, b.got}])))

(* A value on overflow pages: new, overwritten, deleted.                   *)
AddBig(t) ==
    Then(PageAlloc(t, BigPages), LAMBDA a : [a EXCEPT !.main.big = With(@, a.got, BigPages)])
DropBig(t, b) == OvpageFree([t EXCEPT !.main.big = Without(@, b)], b, t.main.big[b])

PutBig(t, l) == Then(CursorTouch(t, l), AddBig)
OverwriteBig(t, l, b) ==
    Then(CursorTouch(t, l), LAMBDA a :
        IF b \in DOMAIN a.dirty THEN a
        ELSE IF b \in DOMAIN a.spill THEN Unspill(a, b)
        ELSE AddBig(DropBig(a, b)))
DelBig(t, l, b) == Then(CursorTouch(t, l), LAMBDA a : DropBig(a, b))

(* A deletion that empties l half: it is merged into its left neighbour m,  *)
(* or, as the first of the leaves, takes in its right one.  A root above a *)
(* single leaf goes.                                                       *)
Collapse(t) ==
    IF Cardinality(t.main.leaves) # 1 THEN t
    ELSE [Append_(t, {t.main.root}) EXCEPT !.main.root = Max(t.main.leaves), !.main.leaves = {}]

Unlinked(t, p) == Collapse(PageLoose([t EXCEPT !.main.leaves = @ \ {p}], p))

MergeLeft(t, l, m) ==
    Then(CursorTouch(t, l), LAMBDA a : Then(PageTouch(a, m), LAMBDA b : Unlinked(b, a.got)))
MergeRight(t, l, m) == Then(CursorTouch(t, l), LAMBDA a : Unlinked(a, m))

(* The last key is deleted.                                                *)
DelLast(t) ==
    Then(CursorTouch(t, t.main.root), LAMBDA a :
        [Append_(a, {a.main.root}) EXCEPT !.main.root = NoPage])

(* mdb_drop: every page of the database, as it stands.                     *)
Drop(t) == [Append_(t, MainPages(t)) EXCEPT !.main = EmptyMain]

LeafOperations(t, l) ==
    {PutSmall(t, l)}
    \cup (IF Cardinality(t.main.leaves) < MaxLeaves THEN {PutSplit(t, l)} ELSE {})
    \cup (IF Cardinality(DOMAIN t.main.big) < MaxBig THEN {PutBig(t, l)} ELSE {})
    \cup (UNION {{OverwriteBig(t, l, b), DelBig(t, l, b)} : b \in DOMAIN t.main.big})
    \cup (UNION {{MergeLeft(t, l, m), MergeRight(t, l, m)} : m \in t.main.leaves \ {l}})

Operations(t) ==
    {Drop(t)}
    \cup (IF t.main.root = NoPage THEN {PutFirst(t)} ELSE {})
    \cup (UNION {LeafOperations(t, l) : l \in Leaves(t)})
    \cup (IF t.main.root # NoPage /\ t.main.leaves = {} /\ t.main.big = <<>>
          THEN {DelLast(t)} ELSE {})

-----------------------------------------------------------------------------
(* The freeDB.  Lengths are counted in page numbers; a page has room for    *)
(* MaxFree1Pg + 3 of them, the header and the length of the list included. *)

OvPages(len) == (len + 2) \div (MaxFree1Pg + 3) + 1

SetRec(t, id, rec) == [t EXCEPT !.free.recs = With(@, id, rec)]

AddRec(t, id, len) ==
    IF len <= NodeMax THEN SetRec(t, id, [len |-> len, pgs |-> {}, ov |-> <<>>])
    ELSE Then(PageAlloc(t, OvPages(len)), LAMBDA a :
             SetRec(a, id, [len |-> len, pgs |-> {}, ov |-> With(<<>>, a.got, OvPages(len))]))

FreeOv(t, ov) == IF ov = <<>> THEN t ELSE LET p == CHOOSE q \in DOMAIN ov : TRUE
                                          IN  OvpageFree(t, p, ov[p])

(* The page of the freeDB, writable; a freeDB without a page gets one.      *)
TouchFree(t) ==
    IF t.free.root # NoPage THEN PageTouch(t, t.free.root)
    ELSE Then(PageAlloc(t, 1), LAMBDA a : [a EXCEPT !.free.root = a.got])

(* mdb_cursor_put of a record: overflow pages that are large enough and may *)
(* be written are used again.                                              *)
PutNode(t, id, len) ==
    IF id \notin DOMAIN t.free.recs THEN AddRec(t, id, len)
    ELSE LET old == t.free.recs[id]
             ov == DOMAIN old.ov
             wide == \A p \in ov : old.ov[p] >= OvPages(len)
             InPlace(a) == SetRec(a, id, [old EXCEPT !.len = len])
         IN  IF ov = {} /\ old.len = len THEN t
             ELSE IF ov # {} /\ wide /\ ov \subseteq DOMAIN t.dirty THEN InPlace(t)
             ELSE IF ov # {} /\ wide /\ ov \subseteq DOMAIN t.spill
                  THEN Then(Unspill(t, Min(ov)), InPlace)
             ELSE AddRec(FreeOv([t EXCEPT !.free.recs = Without(@, id)], old.ov), id, len)

RecPut(t, id, len) ==
    Then(PageSpill(t, {}), LAMBDA a : Then(TouchFree(a), LAMBDA b : PutNode(b, id, len)))

(* mdb_cursor_del of a record; the page of the last one goes to the list of *)
(* freed pages, although it is dirty.                                      *)
RecDel(t, id) ==
    Then(PageSpill(t, {}), LAMBDA a : Then(TouchFree(a), LAMBDA b :
        LET c == FreeOv([b EXCEPT !.free.recs = Without(@, id)], b.free.recs[id].ov)
        IN  IF c.free.recs # <<>> THEN c
            ELSE [Append_(c, {c.free.root}) EXCEPT !.free.root = NoPage]))

-----------------------------------------------------------------------------
(* Readers, and the write transaction from mdb_txn_begin to its end.        *)

NewTxn(id, snap, oldest) ==
    [id |-> id, main |-> snap.main, free |-> snap.free, next |-> snap.next, oldest |-> oldest,
     pglast |-> 0, pghead |-> {}, dirty |-> <<>>, spill |-> <<>>, loose |-> <<>>,
     freed |-> {}, nfreed |-> 0, room |-> DirtyRoom, written |-> {}, ops |-> 0,
     got |-> NoPage, rc |-> "ok", err |-> FALSE]

FirstSnap == [main |-> EmptyMain, free |-> EmptyFree, next |-> FirstPage]
NoTxn == NewTxn(0, FirstSnap, 0)

(* freecnt, pglast, head_id, head_room, total_room and more of              *)
(* mdb_freelist_save; left are the page numbers it has yet to fill in, at  *)
(* the last record it filled.  turn alternates: a round that changes       *)
(* nothing else is still a step.                                           *)
NewSave == [freecnt |-> 0, pglast |-> 0, headId |-> 0, headRoom |-> 0, total |-> 0,
            more |-> 1, left |-> {}, at |-> 0, turn |-> 0]

Init ==
    /\ start \in Starts
    /\ newest = start.id /\ snaps = [i \in {start.id} |-> start.snap]
    /\ env = [oldest |-> 0, fatal |-> FALSE]
    /\ readers = [r \in Readers |-> None]
    /\ pc = "idle" /\ w = NoTxn /\ sv = NewSave

Read(r, id) ==
    /\ readers' = [readers EXCEPT ![r] = id]
    /\ snaps' = [i \in Needed(newest, readers') |-> snaps[i]]
    /\ UNCHANGED <<start, newest, env, pc, w, sv>>

ReaderBegin(r) == readers[r] = None /\ Read(r, newest)
ReaderEnd(r) == readers[r] # None /\ Read(r, None)

Goto(p, t, s) == pc' = p /\ w' = t /\ sv' = s

BeginWrite ==
    /\ pc = "idle" /\ ~env.fatal /\ newest < start.last
    /\ Goto("ops", NewTxn(newest + 1, snaps[newest], env.oldest), NewSave)
    /\ UNCHANGED <<start, newest, snaps, readers, env>>

(* One operation.  After a failed one the transaction cannot go on when    *)
(* MDB_TXN_ERROR is set.                                                   *)
Operate ==
    /\ pc = "ops" /\ ~w.err /\ w.ops < start.ops
    /\ \E t \in Operations([w EXCEPT !.ops = @ + 1]) :
          Goto("ops", [t EXCEPT !.rc = "ok", !.got = NoPage], sv)
    /\ UNCHANGED <<start, newest, snaps, readers, env>>

(* mdb_txn_end                                                             *)
EndTxn == pc' = "idle" /\ w' = NoTxn /\ sv' = NewSave

Abort ==
    /\ pc \in {"ops", "failed"}
    /\ EndTxn
    /\ env' = [env EXCEPT !.oldest = w.oldest]
    /\ UNCHANGED <<start, newest, snaps, readers>>

(* A commit of nothing.                                                    *)
CommitNothing ==
    /\ pc = "ops" /\ ~w.err /\ w.ops = 0
    /\ EndTxn
    /\ env' = [env EXCEPT !.oldest = w.oldest]
    /\ UNCHANGED <<start, newest, snaps, readers>>

(* The writing process dies, or closes an environment that failed.         *)
Restart ==
    /\ pc # "idle" \/ env.fatal
    /\ EndTxn
    /\ env' = [oldest |-> 0, fatal |-> FALSE]
    /\ UNCHANGED <<start, newest, snaps, readers>>

-----------------------------------------------------------------------------
(* mdb_freelist_save                                                       *)

Step(p, t, s) ==
    /\ IF ~Ok(t) THEN Goto("failed", t, NewSave)
       ELSE Goto(p, t, IF p = "flush" THEN NewSave ELSE [s EXCEPT !.turn = 1 - sv.turn])
    /\ UNCHANGED <<start, newest, snaps, readers, env>>

(* The page of the freeDB is copied before the count of freed pages is     *)
(* taken; loose pages are freed, or go back to the list at hand later.     *)
WithoutLoose(t) ==
    [t EXCEPT !.dirty = [p \in DOMAIN @ \ ToSet(t.loose) |-> @[p]], !.loose = <<>>]

SaveBegin ==
    /\ pc = "ops" /\ ~w.err /\ w.ops > 0
    /\ Step("save",
            IF ~HasHead(w) THEN Append_(WithoutLoose(w), ToSet(w.loose))
            ELSE IF w.free.root # NoPage THEN PageTouch(w, w.free.root)
            ELSE w,
            NewSave)

Consumed == sv.pglast < w.pglast

(* A record whose pages were fetched, or one reserved before more were.    *)
SaveDelete ==
    /\ pc = "save" /\ Consumed
    /\ LET id == Min(DOMAIN w.free.recs)
       IN  Step("save", RecDel(w, id),
                [sv EXCEPT !.pglast = id, !.headId = id, !.headRoom = 0, !.total = 0])

(* The pages this transaction freed, in one record.  Writing it frees no    *)
(* more in a freeDB of one page, which is writable by then, so the inner   *)
(* loop runs once.                                                         *)
SaveOwn ==
    /\ pc = "save" /\ ~Consumed /\ sv.freecnt < w.nfreed
    /\ LET a == IF sv.freecnt = 0 /\ w.free.root # NoPage THEN PageTouch(w, w.free.root) ELSE w
           b == Then(a, LAMBDA t : RecPut(t, t.id, t.nfreed))
       IN  Step("save",
                IF Ok(b) THEN [b EXCEPT !.free.recs[b.id].pgs = b.freed] ELSE b,
                [sv EXCEPT !.freecnt = a.nfreed])

(* Mutant: the loose pages are forgotten.                                  *)
AtHandButLoose(t) == Cardinality(t.pghead)

AtHand(t) == Cardinality(t.pghead) + Len(t.loose)

(* Mutant: rounded down to whole pages.                                    *)
AmortizedDown(room, id) == (room \div id) - ((room \div id) % (MaxFree1Pg + 1))

(* The share of one of id records, rounded up to whole pages.              *)
Amortized(room, id) ==
    (room \div id) + MaxFree1Pg - ((room \div id) % (MaxFree1Pg + 1))

Settled == \/ sv.total = AtHand(w)
           \/ sv.total > AtHand(w) /\ sv.more = 0

(* Room for the pages at hand that were not used, under ids no reader      *)
(* needs.  Reserving it may use or free some of them.                      *)
Reserving == pc = "save" /\ ~Consumed /\ sv.freecnt = w.nfreed

SaveReserve ==
    /\ Reserving /\ ~Settled
    /\ LET full == sv.total < AtHand(w) /\ sv.headRoom >= MaxFree1Pg /\ sv.headId > 1
           id == IF full THEN sv.headId - 1 ELSE sv.headId
           others == IF full THEN sv.total ELSE sv.total - sv.headRoom
           lacking == AtHand(w) - others
           room == IF lacking > MaxFree1Pg /\ id > 1 THEN Amortized(lacking, id)
                   ELSE Max({0, lacking})
       IN  Step("save", RecPut(w, id, room),
                [sv EXCEPT !.headId = id, !.headRoom = room, !.total = others + room,
                           !.more = IF sv.total > AtHand(w) THEN @ - 1 ELSE @])

Save(p, t) == Step(p, t, [sv EXCEPT !.left = t.pghead])
SaveReserved ==
    /\ Reserving /\ Settled
    /\ LET t == [WithoutLoose(w) EXCEPT !.pghead = @ \cup ToSet(w.loose)]
       IN  Save(IF t.pghead = {} THEN "flush" ELSE "fill", t)

(* The next record takes the lowest of the pages that are left.            *)
Lowest(P, n) == {p \in P : Cardinality({q \in P : q < p}) < n}

SaveFill ==
    /\ pc = "fill"
    /\ LET ids == {i \in DOMAIN w.free.recs : i > sv.at}
           id == Min(ids)
           pgs == Lowest(sv.left, w.free.recs[id].len)
           t == RecPut(w, id, Cardinality(pgs))
       IN  IF ids = {} THEN Step("failed", w, NewSave)
           ELSE Step(IF pgs = sv.left THEN "flush" ELSE "fill",
                     IF Ok(t) THEN [t EXCEPT !.free.recs[id].pgs = pgs] ELSE t,
                     [sv EXCEPT !.left = @ \ pgs, !.at = id])

SaveStep == SaveDelete \/ SaveOwn \/ SaveReserve \/ SaveReserved \/ SaveFill

-----------------------------------------------------------------------------
(* mdb_page_flush, mdb_env_sync and mdb_env_write_meta                     *)

Flush ==
    /\ pc = "flush"
    /\ \/ Step("meta", [w EXCEPT !.written = @ \cup PagesOf(w.dirty), !.dirty = <<>>], NewSave)
       \/ Step("failed", w, NewSave)

Snapshot(t) == [main |-> t.main, free |-> t.free, next |-> t.next]

WriteMeta ==
    /\ pc = "meta"
    /\ newest' = w.id
    /\ snaps' = [i \in Needed(w.id, readers) |-> IF i = w.id THEN Snapshot(w) ELSE snaps[i]]
    /\ EndTxn
    /\ env' = [env EXCEPT !.oldest = w.oldest]
    /\ UNCHANGED <<start, readers>>

WriteMetaFails ==
    /\ pc = "meta"
    /\ EndTxn
    /\ env' = [oldest |-> w.oldest, fatal |-> TRUE]
    /\ UNCHANGED <<start, newest, snaps, readers>>

Next ==
    \/ \E r \in Readers : ReaderBegin(r) \/ ReaderEnd(r)
    \/ BeginWrite \/ Operate \/ Abort \/ CommitNothing \/ Restart
    \/ SaveBegin \/ SaveStep
    \/ Flush \/ WriteMeta \/ WriteMetaFails

(* A writer that saves its list goes on.  This is WF_vars(SaveStep) with    *)
(* Saving in the place of ENABLED <<SaveStep>>_vars, which is the same and *)
(* takes TLC too long: a step of it is there in every such state, and      *)
(* changes turn at least.                                                  *)
Saving == pc \in {"save", "fill"}
SaveGoesOn == []<>~Saving \/ []<><<SaveStep>>_vars

Spec == Init /\ [][Next]_vars /\ SaveGoesOn

-----------------------------------------------------------------------------
PagesTypeOK ==
    /\ newest \in 0..start.last
    /\ readers \in [Readers -> {None} \cup 0..newest]
    /\ DOMAIN snaps = Referenced
    /\ env.oldest <= newest
    /\ pc \in {"idle", "ops", "save", "fill", "flush", "meta", "failed"}
    /\ pc # "idle" => w.id = newest + 1
    /\ w.next < MaxPg
    /\ w.room \in 0..DirtyRoom /\ w.room + Cardinality(DOMAIN w.dirty) <= DirtyRoom
    /\ sv.more \in {0, 1} /\ sv.freecnt <= w.nfreed

(* No page of a snapshot that somebody may read, or start from after a     *)
(* crash, is in the way of the writer (the rule behind me_pgoldest).       *)
SnapshotsSpared ==
    \A i \in Referenced :
        UsedPages(snaps[i]) \cap (PagesOf(w.dirty) \cup w.written) = {}

(* The comment on MDB_page: each page below the last is used exactly once. *)
(* In the transaction it is in use, or freed, at hand, loose, or in a      *)
(* record that has not been fetched.                                       *)
Disjoint(Ss) ==
    \A i, j \in DOMAIN Ss : i = j \/ Ss[i] \cap Ss[j] = {}

Records(f, last, id) == UNION {f.recs[i].pgs : i \in {j \in DOMAIN f.recs : last < j /\ j < id}}

Shares(t) ==
    <<MainPages(t), FreePages(t), t.freed, t.pghead, ToSet(t.loose),
      Records(t.free, t.pglast, t.id)>>

EveryPageOnce ==
    pc \in {"ops", "save", "fill", "flush"} /\ ~w.err =>
        /\ Disjoint(Shares(w))
        /\ UNION ToSet(Shares(w)) = FirstPage..(w.next - 1)
        /\ w.nfreed = Cardinality(w.freed)

(* And in a committed snapshot it is in use or in one record (mdb_audit).  *)
PgsByRecord(f) == [i \in DOMAIN f.recs |-> f.recs[i].pgs]

SnapshotAudit ==
    \A i \in Referenced :
        LET s == snaps[i]
            listed == UNION {PgsByRecord(s.free)[j] : j \in DOMAIN s.free.recs}
        IN  /\ Disjoint(PgsByRecord(s.free))
            /\ listed \cap UsedPages(s) = {}
            /\ listed \cup UsedPages(s) = FirstPage..(s.next - 1)

(* A commit has written every page that its snapshot does not share with    *)
(* the one before; what was spilled, then taken back as dirty or released, *)
(* is to be written once more.                                             *)
CommitWritten ==
    [][newest' # newest =>
           UsedPages(snaps'[newest']) \ UsedPages(snaps[newest]) \subseteq w.written]_vars

(* Saving the list of free pages, which changes that list, comes to an end *)
(* (the comment on mdb_freelist_save: "Keep trying until it stabilizes").   *)
SaveEnds == Saving ~> ~Saving
=============================================================================
