--------------------------- MODULE LmdbPagesLemmas ---------------------------
(***************************************************************************)
(* The pages of a write transaction, for every map size and every capacity *)
(* of the lists.  Lives says where a page is, and Good what holds of a     *)
(* transaction between two calls: every page in one place, none claimed    *)
(* that a reader may need.  In the order of the code come the pages a      *)
(* transaction takes and gives back (mdb_page_alloc, mdb_page_spill,       *)
(* mdb_page_touch, mdb_page_loose, mdb_ovpage_free), then the operations   *)
(* on the main tree that are made of them.                                 *)
(***************************************************************************)
EXTENDS LmdbPages, OrderLemmas

-----------------------------------------------------------------------------
(* Runs of pages. *)

LEMMA NoRuns ==
  /\ IsRuns(<<>>) /\ DOMAIN <<>> = {} /\ PagesOf(<<>>) = {}
  BY SMT DEF IsRuns, PagesOf

LEMMA RunMembers ==
  ASSUME NEW p \in Nat, NEW n \in Nat
  PROVE  /\ \A x : x \in Run(p, n) <=> x \in Nat /\ p <= x /\ x < p + n
         /\ n # 0 => p \in Run(p, n)
         /\ Run(p, 1) = {p}
  BY SMT DEF Run

LEMMA PagesOfMembers ==
  ASSUME NEW r, NEW x
  PROVE  x \in PagesOf(r) <=> \E p \in DOMAIN r : x \in Run(p, r[p])
  BY DEF PagesOf

LEMMA FirstInRun ==
  ASSUME NEW r, IsRuns(r), NEW p \in DOMAIN r
  PROVE  p \in Nat /\ r[p] \in Nat \ {0} /\ p \in Run(p, r[p]) /\ p \in PagesOf(r)
         /\ \A x \in Run(p, r[p]) : x \in Nat /\ x \in PagesOf(r)
  BY RunMembers, PagesOfMembers DEF IsRuns

LEMMA WithOthers ==
  ASSUME NEW r, NEW p, NEW n
  PROVE  \A q \in DOMAIN r : q # p => With(r, p, n)[q] = r[q]
  BY DEF With

LEMMA WithMembers ==
  ASSUME NEW r, IsRuns(r), NEW p \in Nat, NEW n \in Nat \ {0}
  PROVE  /\ IsRuns(With(r, p, n))
         /\ DOMAIN With(r, p, n) = DOMAIN r \cup {p}
         /\ With(r, p, n)[p] = n
         /\ \A q \in DOMAIN r : q # p => With(r, p, n)[q] = r[q]
         /\ PagesOf(With(r, p, n)) \subseteq PagesOf(r) \cup Run(p, n)
         /\ Run(p, n) \subseteq PagesOf(With(r, p, n))
         /\ p \notin DOMAIN r => PagesOf(r) \subseteq PagesOf(With(r, p, n))
  <1>1. /\ IsRuns(With(r, p, n))
        /\ DOMAIN With(r, p, n) = DOMAIN r \cup {p}
        /\ With(r, p, n)[p] = n
        /\ \A q \in DOMAIN r : q # p => With(r, p, n)[q] = r[q]
    BY SMT DEF IsRuns, With
  <1> QED BY <1>1, PagesOfMembers

LEMMA WithoutMembers ==
  ASSUME NEW r, IsRuns(r), NEW p
  PROVE  /\ IsRuns(Without(r, p))
         /\ DOMAIN Without(r, p) = DOMAIN r \ {p}
         /\ \A q \in DOMAIN r : q # p => Without(r, p)[q] = r[q]
         /\ PagesOf(Without(r, p)) \subseteq PagesOf(r)
         /\ p \in DOMAIN r => PagesOf(r) \subseteq PagesOf(Without(r, p)) \cup Run(p, r[p])
         /\ p \notin DOMAIN r => Without(r, p) = r
  <1>1. /\ IsRuns(Without(r, p))
        /\ DOMAIN Without(r, p) = DOMAIN r \ {p}
        /\ \A q \in DOMAIN r : q # p => Without(r, p)[q] = r[q]
        /\ p \notin DOMAIN r => Without(r, p) = r
    BY SMT DEF IsRuns, Without
  <1> QED BY <1>1, PagesOfMembers

(* The members of a stack. *)
LEMMA PushMembers ==
  ASSUME NEW s \in Seq(Nat), NEW p \in Nat
  PROVE  /\ <<p>> \o s \in Seq(Nat)
         /\ Len(<<p>> \o s) = Len(s) + 1
         /\ \A i \in DOMAIN (<<p>> \o s) : (<<p>> \o s)[i] = IF i = 1 THEN p ELSE s[i - 1]
         /\ ToSet(s) \subseteq Nat
         /\ ToSet(<<p>> \o s) = ToSet(s) \cup {p}
  <1> DEFINE q == <<p>> \o s
             n == Len(s)
  <1>1. q \in Seq(Nat) /\ Len(q) = n + 1 /\ n \in Nat
    BY SMT
  <1>2. \A i \in 1..(n + 1) : q[i] = IF i = 1 THEN p ELSE s[i - 1]
    BY SMT
  <1>3. /\ DOMAIN s = 1..n /\ \A x : x \in ToSet(s) <=> \E i \in DOMAIN s : x = s[i]
    BY SMT DEF ToSet
  <1>4. DOMAIN q = 1..(n + 1) /\ \A x : x \in ToSet(q) <=> \E i \in DOMAIN q : x = q[i]
    BY SMT DEF ToSet
  <1>5. \A i \in 1..n : s[i] \in Nat
    BY SMT
  <1> HIDE DEF q, n
  <1>6. ASSUME NEW x PROVE x \in ToSet(q) <=> x \in ToSet(s) \cup {p}
    <2>1. CASE x \in ToSet(q)
      <3>1. PICK i \in 1..(n + 1) : x = IF i = 1 THEN p ELSE s[i - 1]
        BY <1>2, <1>4, <2>1
      <3>2. CASE i # 1
        <4>1. i - 1 \in 1..n
          BY <1>1, <3>1, <3>2
        <4> QED BY <2>1, <1>3, <3>1, <3>2, <4>1
      <3> QED BY <2>1, <3>1, <3>2
    <2>2. CASE x \in ToSet(s)
      <3>1. PICK i \in 1..n : x = s[i]
        BY <1>3, <2>2
      <3>2. i + 1 \in 1..(n + 1) /\ i + 1 # 1 /\ (i + 1) - 1 = i
        BY <1>1, <3>1
      <3> QED BY <2>2, <1>2, <1>4, <3>1, <3>2
    <2>3. CASE x = p
      <3>1. 1 \in 1..(n + 1)
        BY <1>1
      <3> QED BY <1>2, <1>4, <2>3, <3>1
    <2> QED BY <2>1, <2>2, <2>3
  <1>7. ToSet(s) \subseteq Nat
    BY <1>3, <1>5
  <1>8. ToSet(q) = ToSet(s) \cup {p}
    BY <1>6
  <1> QED BY <1>1, <1>2, <1>4, <1>7, <1>8 DEF q, n

LEMMA PopMembers ==
  ASSUME NEW s \in Seq(Nat), s # <<>>
  PROVE  /\ Head(s) \in Nat /\ Tail(s) \in Seq(Nat)
         /\ Head(s) = s[1] /\ 1 \in DOMAIN s
         /\ \A i \in DOMAIN Tail(s) : Tail(s)[i] = s[i + 1] /\ i + 1 \in DOMAIN s /\ i \in Nat /\ i >= 1
         /\ ToSet(s) = ToSet(Tail(s)) \cup {Head(s)}
  <1> DEFINE q == Tail(s)
             h == Head(s)
             n == Len(s)
  <1>1. /\ h \in Nat /\ q \in Seq(Nat) /\ h = s[1] /\ n \in Nat \ {0} /\ DOMAIN s = 1..n
    BY SMT
  <1>2. DOMAIN q = 1..(n - 1) /\ \A i \in 1..(n - 1) : q[i] = s[i + 1]
    BY SMT
  <1>3. \A x : x \in ToSet(s) <=> \E i \in DOMAIN s : x = s[i]
    BY DEF ToSet
  <1>4. \A x : x \in ToSet(q) <=> \E i \in DOMAIN q : x = q[i]
    BY DEF ToSet
  <1> HIDE DEF q, h, n
  <1>5. ASSUME NEW x PROVE x \in ToSet(s) <=> x \in ToSet(q) \cup {h}
    <2>1. CASE x \in ToSet(s)
      <3>1. PICK i \in 1..n : x = s[i]
        BY <1>1, <1>3, <2>1
      <3>2. CASE i # 1
        <4>1. i - 1 \in 1..(n - 1) /\ (i - 1) + 1 = i
          BY <1>1, <3>1, <3>2
        <4> QED BY <2>1, <1>2, <1>4, <3>1, <4>1
      <3> QED BY <2>1, <1>1, <3>1, <3>2
    <2>2. CASE x \in ToSet(q)
      <3>1. PICK i \in 1..(n - 1) : x = s[i + 1]
        BY <1>2, <1>4, <2>2
      <3>2. i + 1 \in 1..n
        BY <1>1, <3>1
      <3> QED BY <2>2, <1>1, <1>3, <3>1, <3>2
    <2>3. CASE x = h
      <3>1. 1 \in 1..n
        BY <1>1
      <3> QED BY <1>1, <1>3, <2>3, <3>1
    <2> QED BY <2>1, <2>2, <2>3
  <1>6. ToSet(s) = ToSet(q) \cup {h}
    BY <1>5
  <1>7. 1 \in DOMAIN s
    BY <1>1
  <1>8. \A i \in DOMAIN q : i + 1 \in DOMAIN s /\ i \in Nat /\ i >= 1
    <2> SUFFICES ASSUME NEW i \in 1..(n - 1) PROVE i + 1 \in 1..n /\ i \in Nat /\ i >= 1
      BY <1>1, <1>2
    <2>1. n \in Nat
      BY <1>1
    <2> HIDE DEF n
    <2> QED BY <2>1
  <1> QED BY <1>1, <1>2, <1>6, <1>7, <1>8 DEF q, h
-----------------------------------------------------------------------------
(* The transaction. *)

TxnFields == {"id", "main", "free", "next", "oldest", "pglast", "pghead", "dirty", "spill",
              "loose", "freed", "nfreed", "room", "written", "ops", "got", "rc", "err"}

IsTxn(t) ==
  /\ DOMAIN t = TxnFields /\ IsMain(t.main) /\ IsFree(t.free)
  /\ t.id \in Nat /\ t.next \in Nat /\ t.oldest \in Nat /\ t.pglast \in Nat
  /\ t.nfreed \in Nat /\ t.room \in Nat /\ t.got \in Nat
  /\ t.pghead \subseteq Nat /\ t.freed \subseteq Nat /\ t.written \subseteq Nat
  /\ IsRuns(t.dirty) /\ IsRuns(t.spill) /\ t.loose \in Seq(Nat)

(* Page x is in place i of kind k: in use as a root, a leaf, part of a big  *)
(* value, the page of the freeDB or an overflow page of a record (1..5), in *)
(* limbo between two uses (6, the runs L), or free (7..10): freed, at hand, *)
(* loose, or in a record that has not been fetched.                        *)
Lives(t, L, k, i, x) ==
  \/ k = 1 /\ i = 0 /\ x \in RootOf(t.main)
  \/ k = 2 /\ i = 0 /\ x \in t.main.leaves
  \/ k = 3 /\ i \in DOMAIN t.main.big /\ x \in Run(i, t.main.big[i])
  \/ k = 4 /\ i = 0 /\ x \in RootOf(t.free)
  \/ k = 5 /\ i \in DOMAIN t.free.recs /\ x \in PagesOf(t.free.recs[i].ov)
  \/ k = 6 /\ i \in DOMAIN L /\ x \in Run(i, L[i])
  \/ k = 7 /\ i = 0 /\ x \in t.freed
  \/ k = 8 /\ i = 0 /\ x \in t.pghead
  \/ k = 9 /\ i = 0 /\ x \in ToSet(t.loose)
  \/ k = 10 /\ i \in DOMAIN t.free.recs /\ t.pglast < i /\ i < t.id /\ x \in t.free.recs[i].pgs

(* No page is in two places.                                               *)
Once(t, L) ==
  \A x, k, i, l, j : Lives(t, L, k, i, x) /\ Lives(t, L, l, j, x) => k = l /\ i = j

(* Every page below the end of the file is in one.                         *)
Cover(t, L) ==
  \A x : (\E k, i : Lives(t, L, k, i, x)) <=> x \in FirstPage..(t.next - 1)

(* n pages that one list element stands for begin at p.                    *)
Block(t, L, p, n) ==
  \/ n = 1 /\ p \in RootOf(t.main) \cup t.main.leaves \cup RootOf(t.free) \cup ToSet(t.loose)
  \/ p \in DOMAIN t.main.big /\ n = t.main.big[p]
  \/ \E i \in DOMAIN t.free.recs : p \in DOMAIN t.free.recs[i].ov /\ n = t.free.recs[i].ov[p]
  \/ p \in DOMAIN L /\ n = L[p]
  \/ p \in t.freed

(* The dirty and the spilled list have every page with its size.           *)
Sized(t, L) ==
  /\ \A p \in DOMAIN t.dirty : Block(t, L, p, t.dirty[p])
  /\ \A p \in DOMAIN t.spill : Block(t, L, p, t.spill[p])
  /\ DOMAIN t.dirty \cap DOMAIN t.spill = {}
  /\ ToSet(t.loose) \subseteq DOMAIN t.dirty

(* The pages the transaction writes, has written, or may use next.         *)
Mine(t) == t.pghead \cup ToSet(t.loose) \cup t.written \cup PagesOf(t.dirty) \cup PagesOf(t.spill)

(* None of them is of a snapshot somebody may read, and the records that    *)
(* may still be fetched have none either.                                  *)
Spared(t) ==
  \A j \in Referenced :
     /\ t.oldest <= j
     /\ \A x \in UsedPages(snaps[j]) :
          /\ x < t.next /\ x \notin Mine(t)
          /\ \A k \in DOMAIN t.free.recs : k <= j => x \notin t.free.recs[k].pgs

(* A page in use that the newest commit does not share is still to be       *)
(* written, or has been.                                                   *)
Kept(t, L) ==
  \A x, k, i : Lives(t, L, k, i, x) /\ k <= 6 =>
     x \in UsedPages(snaps[newest]) \/ x \in PagesOf(t.dirty) \/ x \in t.written

(* The lists agree with their counters, and keep within their capacity.    *)
Counted(t) ==
  /\ IsFiniteSet(t.freed) /\ t.nfreed = Cardinality(t.freed)
  /\ IsFiniteSet(DOMAIN t.dirty) /\ t.room + Cardinality(DOMAIN t.dirty) <= DirtyRoom
  /\ \A i, j \in DOMAIN t.loose : t.loose[i] = t.loose[j] => i = j
  /\ FirstPage <= t.next /\ t.next < MaxPg /\ t.id = newest + 1 /\ t.pglast < t.id
  /\ t.pglast = 0 => t.pghead = {}

(* What holds of a transaction between two calls.                          *)
Good(t, L) ==
  /\ IsTxn(t) /\ IsRuns(L) /\ Once(t, L) /\ Cover(t, L)
  /\ Sized(t, L) /\ Spared(t) /\ Kept(t, L) /\ Counted(t)

-----------------------------------------------------------------------------
(* What moves. *)

Moved(t, L, u, M, X, d, e) ==
  \A x, k, i : Lives(u, M, k, i, x) <=> IF x \in X THEN k = d /\ i = e ELSE Lives(t, L, k, i, x)

LEMMA MovedOnce ==
  ASSUME NEW t, NEW L, NEW u, NEW M, NEW X, NEW d, NEW e, Once(t, L), Cover(t, L),
         Moved(t, L, u, M, X, d, e), u.next = t.next, \A x \in X : \E k, i : Lives(t, L, k, i, x)
  PROVE  Once(u, M) /\ Cover(u, M)
  <1>1. Once(u, M)
    BY SMT DEF Moved, Once
  <1>2. ASSUME NEW x PROVE (\E k, i : Lives(u, M, k, i, x)) <=> \E k, i : Lives(t, L, k, i, x)
    BY SMT DEF Moved
  <1> QED BY <1>1, <1>2 DEF Cover

LEMMA MovedKept ==
  ASSUME NEW t, NEW L, NEW u, NEW M, NEW X, NEW d, NEW e, Kept(t, L), Moved(t, L, u, M, X, d, e),
         d <= 6 => \A x \in X : \/ x \in PagesOf(u.dirty) \/ x \in u.written
                                \/ \E k, i : Lives(t, L, k, i, x) /\ k <= 6,
         \A x : /\ x \in PagesOf(t.dirty) \/ x \in t.written
                /\ d <= 6 \/ x \notin X
                => x \in PagesOf(u.dirty) \/ x \in u.written
  PROVE  Kept(u, M)
  BY SMT DEF Moved, Kept

Numbers ==
  /\ Referenced \subseteq Nat /\ newest \in Referenced
  /\ \A j \in Referenced : j <= newest /\ UsedPages(snaps[j]) \subseteq Nat

(* What the writer may claim: pages it had, new ones, and those of records  *)
(* that no referenced snapshot is as old as.                               *)
Claims(t, u) ==
  /\ \A x \in Mine(u) : \/ x \in Mine(t) \/ t.next <= x
                        \/ \E k \in DOMAIN t.free.recs :
                              x \in t.free.recs[k].pgs /\ \A j \in Referenced : k <= j
  /\ t.next \in Nat /\ u.next \in Nat /\ t.next <= u.next /\ u.oldest \in Nat
  /\ \A j \in Referenced : u.oldest <= j
  /\ \A k \in DOMAIN u.free.recs :
        \/ u.free.recs[k].pgs \subseteq Mine(t)
        \/ k \in DOMAIN t.free.recs /\ u.free.recs[k].pgs = t.free.recs[k].pgs

LEMMA SparedBy ==
  ASSUME NEW t, NEW u, Spared(t), Numbers, Claims(t, u)
  PROVE  Spared(u)
  BY SMT DEF Spared, Numbers, Claims
-----------------------------------------------------------------------------
(* Links. *)

Rest(t, u) ==
  /\ u.id = t.id /\ u.next = t.next /\ u.oldest = t.oldest /\ u.pglast = t.pglast
  /\ u.nfreed = t.nfreed /\ u.room = t.room /\ u.pghead = t.pghead /\ u.freed = t.freed
  /\ u.written = t.written /\ u.dirty = t.dirty /\ u.spill = t.spill /\ u.loose = t.loose

SameUse(t, L, u, M) ==
  /\ \A x : (\E k, i : k <= 6 /\ Lives(u, M, k, i, x)) <=> (\E k, i : k <= 6 /\ Lives(t, L, k, i, x))
  /\ \A x, k, i, l, j : k <= 6 /\ l <= 6 /\ Lives(u, M, k, i, x) /\ Lives(u, M, l, j, x) => k = l /\ i = j
  /\ \A p, n : Block(t, L, p, n) => Block(u, M, p, n)

SameRecords(t, u) ==
  /\ \A k \in DOMAIN u.free.recs :
        \/ \A j \in Referenced : k <= j => u.free.recs[k].pgs \cap UsedPages(snaps[j]) = {}
        \/ k \in DOMAIN t.free.recs /\ u.free.recs[k].pgs = t.free.recs[k].pgs
  /\ \A k : t.pglast < k /\ k < t.id =>
        /\ k \in DOMAIN u.free.recs <=> k \in DOMAIN t.free.recs
        /\ k \in DOMAIN t.free.recs => u.free.recs[k].pgs = t.free.recs[k].pgs

LEMMA LivesElsewhere ==
  ASSUME NEW t, NEW L, NEW k, NEW i, NEW x, Lives(t, L, k, i, x)
  PROVE  k \in 1..10
  BY SMT DEF Lives

LEMMA Relink ==
  ASSUME NEW t, NEW L, NEW u, NEW M, Good(t, L), IsTxn(u), IsRuns(M), Rest(t, u),
         SameUse(t, L, u, M), SameRecords(t, u)
  PROVE  Good(u, M)
  <1>1. ASSUME NEW x, NEW k, NEW i, k \in 7..10
        PROVE  Lives(u, M, k, i, x) => Lives(t, L, k, i, x)
    BY <1>1, SMT DEF Lives, Rest, SameRecords
  <1>2. ASSUME NEW x, NEW k, NEW i, k \in 7..10
        PROVE  Lives(t, L, k, i, x) => Lives(u, M, k, i, x)
    BY <1>2, SMT DEF Lives, Rest, SameRecords
  <1>3. \A x, k, i : Lives(u, M, k, i, x) => k \in 1..10
    BY LivesElsewhere
  <1>4. \A x, k, i : Lives(t, L, k, i, x) => k \in 1..10
    BY LivesElsewhere
  <1>5. Once(u, M)
    <2> SUFFICES ASSUME NEW x, NEW k, NEW i, NEW l, NEW j,
                        Lives(u, M, k, i, x), Lives(u, M, l, j, x)
                 PROVE  k = l /\ i = j
      BY DEF Once
    <2>1. k \in 1..10 /\ l \in 1..10
      BY <1>3
    <2>2. CASE k <= 6 /\ l <= 6
      BY <2>2 DEF SameUse
    <2>3. CASE k \in 7..10 /\ l \in 7..10
      BY <1>1, <2>3 DEF Good, Once
    <2>4. CASE k <= 6 /\ l \in 7..10
      <3>1. PICK a, b : a <= 6 /\ Lives(t, L, a, b, x)
        BY <2>4 DEF SameUse
      <3>2. Lives(t, L, l, j, x)
        BY <1>1, <2>4
      <3> QED BY <2>4, <3>1, <3>2, SMT DEF Good, Once
    <2>5. CASE k \in 7..10 /\ l <= 6
      <3>1. PICK a, b : a <= 6 /\ Lives(t, L, a, b, x)
        BY <2>5 DEF SameUse
      <3>2. Lives(t, L, k, i, x)
        BY <1>1, <2>5
      <3> QED BY <2>5, <3>1, <3>2, SMT DEF Good, Once
    <2> QED BY <2>1, <2>2, <2>3, <2>4, <2>5
  <1>6. Cover(u, M)
    <2>1. ASSUME NEW x PROVE (\E k, i : Lives(u, M, k, i, x)) => \E k, i : Lives(t, L, k, i, x)
      <3> SUFFICES ASSUME NEW k, NEW i, Lives(u, M, k, i, x) PROVE \E l, j : Lives(t, L, l, j, x)
        OBVIOUS
      <3>1. k \in 7..10 \/ k <= 6
        BY <1>3
      <3> QED BY <1>1, <3>1 DEF SameUse
    <2>2. ASSUME NEW x PROVE (\E k, i : Lives(t, L, k, i, x)) => \E k, i : Lives(u, M, k, i, x)
      <3> SUFFICES ASSUME NEW k, NEW i, Lives(t, L, k, i, x) PROVE \E l, j : Lives(u, M, l, j, x)
        OBVIOUS
      <3>1. k \in 7..10 \/ k <= 6
        BY <1>4
      <3> QED BY <1>2, <3>1 DEF SameUse
    <2>3. u.next = t.next /\ Cover(t, L)
      BY DEF Rest, Good
    <2>4. ASSUME NEW x PROVE (\E k, i : Lives(u, M, k, i, x)) <=> x \in FirstPage..(u.next - 1)
      <3>1. (\E k, i : Lives(t, L, k, i, x)) <=> x \in FirstPage..(t.next - 1)
        BY <2>3 DEF Cover
      <3> QED BY <2>1, <2>2, <2>3, <3>1
    <2> QED BY <2>4 DEF Cover
  <1>7. Sized(u, M)
    BY DEF Good, Sized, SameUse, Rest
  <1>8. Spared(u)
    BY DEF Good, Spared, Rest, SameRecords, Mine
  <1>9. Kept(u, M)
    <2> SUFFICES ASSUME NEW x, NEW k, NEW i, Lives(u, M, k, i, x), k <= 6
                 PROVE  x \in UsedPages(snaps[newest]) \/ x \in PagesOf(u.dirty) \/ x \in u.written
      BY DEF Kept
    <2>1. PICK a, b : a <= 6 /\ Lives(t, L, a, b, x)
      BY DEF SameUse
    <2> QED BY <2>1 DEF Good, Kept, Rest
  <1>10. Counted(u)
    BY DEF Good, Counted, Rest
  <1> QED BY <1>5, <1>6, <1>7, <1>8, <1>9, <1>10 DEF Good
Nil == <<>>
One(p, n) == With(Nil, p, n)

LEMMA NilMembers ==
  IsRuns(Nil) /\ DOMAIN Nil = {} /\ PagesOf(Nil) = {} /\ \A t, i, x : ~Lives(t, Nil, 6, i, x)
  BY NoRuns, SMT DEF Nil, Lives

LEMMA OneMembers ==
  ASSUME NEW p \in Nat, NEW n \in Nat \ {0}
  PROVE  /\ IsRuns(One(p, n)) /\ DOMAIN One(p, n) = {p} /\ One(p, n)[p] = n
         /\ PagesOf(One(p, n)) = Run(p, n)
  <1>1. IsRuns(One(p, n)) /\ DOMAIN One(p, n) = {p} /\ One(p, n)[p] = n
    BY NilMembers, SMT DEF One, With, IsRuns
  <1>2. \A x : x \in PagesOf(One(p, n)) <=> x \in Run(p, n)
    BY <1>1, PagesOfMembers
  <1> QED BY <1>1, <1>2

LEMMA OnePage ==
  ASSUME NEW q \in Nat
  PROVE  /\ IsRuns(One(q, 1)) /\ DOMAIN One(q, 1) = {q} /\ One(q, 1)[q] = 1 /\ Run(q, 1) = {q}
         /\ \A t, i, x : Lives(t, One(q, 1), 6, i, x) <=> i = q /\ x = q
  <1>1. IsRuns(One(q, 1)) /\ DOMAIN One(q, 1) = {q} /\ One(q, 1)[q] = 1
    <2>1. 1 \in Nat \ {0}
      OBVIOUS
    <2> QED BY <2>1, OneMembers
  <1>2. Run(q, 1) = {q}
    BY RunMembers
  <1> QED BY <1>1, <1>2, SMT DEF Lives

(* Pages that change their use, each to the place D and E give it. *)
MovedUse(t, L, u, M, X, D, E) ==
  /\ \A x \in X : D[x] <= 6 /\ \E k, i : k <= 6 /\ Lives(t, L, k, i, x)
  /\ \A x, k, i : k <= 6 => (Lives(u, M, k, i, x) <=>
                              IF x \in X THEN k = D[x] /\ i = E[x] ELSE Lives(t, L, k, i, x))

LEMMA MovedSameUse ==
  ASSUME NEW t, NEW L, NEW u, NEW M, NEW X, NEW D, NEW E, Once(t, L), MovedUse(t, L, u, M, X, D, E),
         \A p, n : Block(t, L, p, n) => Block(u, M, p, n)
  PROVE  SameUse(t, L, u, M)
  <1>1. ASSUME NEW x PROVE (\E k, i : k <= 6 /\ Lives(u, M, k, i, x)) <=> (\E k, i : k <= 6 /\ Lives(t, L, k, i, x))
    <2>1. CASE x \in X
      BY <2>1 DEF MovedUse
    <2>2. CASE x \notin X
      BY <2>2 DEF MovedUse
    <2> QED BY <2>1, <2>2
  <1>2. \A x, k, i, l, j : k <= 6 /\ l <= 6 /\ Lives(u, M, k, i, x) /\ Lives(u, M, l, j, x) => k = l /\ i = j
    BY SMT DEF MovedUse, Once
  <1> QED BY <1>1, <1>2 DEF SameUse

LEMMA LinkLeaf ==
  ASSUME NEW t, NEW q \in Nat, Good(t, One(q, 1)), t.main.root # NoPage
  PROVE  Good([t EXCEPT !.main.leaves = @ \cup {q}], Nil)
  <1> DEFINE u == [t EXCEPT !.main.leaves = @ \cup {q}]
  <1>1. IsTxn(t) /\ Once(t, One(q, 1))
    BY DEF Good
  <1>2. /\ u.main.root = t.main.root /\ u.main.leaves = t.main.leaves \cup {q} /\ u.main.big = t.main.big
        /\ u.free = t.free /\ Rest(t, u)
        /\ DOMAIN u = TxnFields /\ DOMAIN u.main = {"root", "leaves", "big"} /\ u.got = t.got
    BY <1>1, SMT DEF IsTxn, IsMain, TxnFields, Rest
  <1> HIDE DEF u
  <1>3. IsTxn(u)
    BY <1>1, <1>2, SMT DEF IsTxn, IsMain, Rest
  <1>4. SameRecords(t, u)
    BY <1>2 DEF SameRecords
  <1>5. MovedUse(t, One(q, 1), u, Nil, {q}, [x \in {q} |-> 2], [x \in {q} |-> 0])
    <2>1. Lives(t, One(q, 1), 6, q, q)
      BY OnePage
    <2>2. ASSUME NEW k, NEW i PROVE Lives(t, One(q, 1), k, i, q) => k = 6
      BY <1>1, <2>1 DEF Once
    <2>3. ASSUME NEW x, NEW k, NEW i, k <= 6
          PROVE  Lives(u, Nil, k, i, x) <=> IF x = q THEN k = 2 /\ i = 0 ELSE Lives(t, One(q, 1), k, i, x)
      <3>1. CASE k = 6
        <4>1. ~Lives(u, Nil, 6, i, x) /\ (Lives(t, One(q, 1), 6, i, x) <=> i = q /\ x = q)
          BY NilMembers, OnePage
        <4> QED BY <3>1, <4>1, SMT
      <3>2. CASE k # 6
        <4>1. x = q => ~Lives(t, One(q, 1), k, i, x)
          BY <2>2, <3>2
        <4> QED BY <1>2, <2>3, <3>2, <4>1, SMT DEF Lives, RootOf
      <3> QED BY <3>1, <3>2
    <2> QED BY <2>1, <2>3 DEF MovedUse
  <1>6. ASSUME NEW p, NEW n PROVE Block(t, One(q, 1), p, n) => Block(u, Nil, p, n)
    <2>1. DOMAIN One(q, 1) = {q} /\ One(q, 1)[q] = 1
      BY OnePage
    <2> QED BY <1>2, <2>1, SMT DEF Block, Rest, RootOf
  <1>7. SameUse(t, One(q, 1), u, Nil)
    BY <1>1, <1>5, <1>6, MovedSameUse
  <1> QED BY <1>2, <1>3, <1>4, <1>7, NilMembers, Relink DEF u
LEMMA LimboPage ==
  ASSUME NEW t, NEW L, Good(t, L), NEW p \in DOMAIN L
  PROVE  /\ p \in Nat /\ p # NoPage /\ L[p] \in Nat \ {0}
         /\ Lives(t, L, 6, p, p)
         /\ \A x \in Run(p, L[p]) : \A k, i : Lives(t, L, k, i, x) <=> k = 6 /\ i = p
         /\ p \notin t.main.leaves /\ p # t.main.root /\ p # t.free.root /\ p \notin DOMAIN t.main.big
         /\ p \notin ToSet(t.loose) /\ p \notin t.pghead /\ p \notin t.freed
         /\ \A i \in DOMAIN t.free.recs : p \notin DOMAIN t.free.recs[i].ov
  <1>1. IsRuns(L) /\ Once(t, L) /\ Cover(t, L) /\ IsTxn(t)
    BY DEF Good
  <1>2. p \in Nat /\ L[p] \in Nat \ {0} /\ p \in Run(p, L[p])
    BY <1>1, FirstInRun
  <1>3. \A x \in Run(p, L[p]) : Lives(t, L, 6, p, x)
    BY DEF Lives
  <1>4. \A x \in Run(p, L[p]) : \A k, i : Lives(t, L, k, i, x) <=> k = 6 /\ i = p
    BY <1>1, <1>3 DEF Once
  <1>5. p \in FirstPage..(t.next - 1)
    BY <1>1, <1>2, <1>3 DEF Cover
  <1>6. p # NoPage
    BY <1>2, <1>5, SMT DEF FirstPage, NoPage
  <1>7. \A k, i : Lives(t, L, k, i, p) => k = 6
    BY <1>2, <1>4
  <1>8. /\ p \notin t.main.leaves /\ p # t.main.root /\ p # t.free.root
        /\ p \notin ToSet(t.loose) /\ p \notin t.pghead /\ p \notin t.freed
    BY <1>6, <1>7, SMT DEF Lives, RootOf
  <1>9. p \notin DOMAIN t.main.big
    <2>1. p \in DOMAIN t.main.big => p \in Run(p, t.main.big[p])
      BY <1>1, FirstInRun DEF IsTxn, IsMain
    <2> QED BY <1>7, <2>1, SMT DEF Lives
  <1>10. ASSUME NEW i \in DOMAIN t.free.recs PROVE p \notin DOMAIN t.free.recs[i].ov
    <2>1. IsRuns(t.free.recs[i].ov)
      BY <1>1 DEF IsTxn, IsFree, IsRecord
    <2>2. p \in DOMAIN t.free.recs[i].ov => p \in PagesOf(t.free.recs[i].ov)
      BY <2>1, FirstInRun
    <2> QED BY <1>7, <2>2, SMT DEF Lives
  <1> QED BY <1>2, <1>3, <1>4, <1>6, <1>8, <1>9, <1>10

LEMMA LinkRoot ==
  ASSUME NEW t, NEW q \in Nat, Good(t, One(q, 1)), t.main.root = NoPage
  PROVE  Good([t EXCEPT !.main.root = q], Nil)
  <1> DEFINE u == [t EXCEPT !.main.root = q]
  <1>1. IsTxn(t) /\ Once(t, One(q, 1))
    BY DEF Good
  <1>2. /\ u.main.root = q /\ u.main.leaves = t.main.leaves /\ u.main.big = t.main.big
        /\ u.free = t.free /\ Rest(t, u)
        /\ DOMAIN u = TxnFields /\ DOMAIN u.main = {"root", "leaves", "big"} /\ u.got = t.got
    BY <1>1, SMT DEF IsTxn, IsMain, TxnFields, Rest
  <1> HIDE DEF u
  <1>3. DOMAIN One(q, 1) = {q} /\ One(q, 1)[q] = 1 /\ Run(q, 1) = {q}
    BY OnePage
  <1>4. q # NoPage /\ Lives(t, One(q, 1), 6, q, q) /\ \A k, i : Lives(t, One(q, 1), k, i, q) <=> k = 6 /\ i = q
    BY <1>3, LimboPage
  <1>5. IsTxn(u)
    <2>1. IsMain(u.main)
      BY <1>1, <1>2, <1>4 DEF IsTxn, IsMain
    <2>2. IsTxn(t) /\ Rest(t, u) /\ DOMAIN u = TxnFields /\ u.free = t.free /\ u.got = t.got
      BY <1>1, <1>2
    <2> QED BY <2>1, <2>2 DEF IsTxn, Rest
  <1>6. SameRecords(t, u)
    BY <1>2 DEF SameRecords
  <1>7. MovedUse(t, One(q, 1), u, Nil, {q}, [x \in {q} |-> 1], [x \in {q} |-> 0])
    <2>1. ASSUME NEW x, NEW k, NEW i, k <= 6
          PROVE  Lives(u, Nil, k, i, x) <=> IF x = q THEN k = 1 /\ i = 0 ELSE Lives(t, One(q, 1), k, i, x)
      <3>1. CASE k = 6
        <4>1. ~Lives(u, Nil, 6, i, x) /\ (Lives(t, One(q, 1), 6, i, x) <=> i = q /\ x = q)
          BY NilMembers, OnePage
        <4> QED BY <3>1, <4>1, SMT
      <3>2. CASE k # 6
        <4>1. x = q => ~Lives(t, One(q, 1), k, i, x)
          BY <1>4, <3>2
        <4> QED BY <1>2, <1>4, <2>1, <3>2, <4>1, SMT DEF Lives, RootOf
      <3> QED BY <3>1, <3>2
    <2> QED BY <1>4, <2>1 DEF MovedUse
  <1>8. ASSUME NEW p, NEW n PROVE Block(t, One(q, 1), p, n) => Block(u, Nil, p, n)
    BY <1>2, <1>3, <1>4, SMT DEF Block, Rest, RootOf
  <1>9. SameUse(t, One(q, 1), u, Nil)
    BY <1>1, <1>7, <1>8, MovedSameUse
  <1> QED BY <1>2, <1>5, <1>6, <1>9, NilMembers, Relink DEF u

LEMMA LinkFreeRoot ==
  ASSUME NEW t, NEW q \in Nat, Good(t, One(q, 1)), t.free.root = NoPage
  PROVE  Good([t EXCEPT !.free.root = q], Nil)
  <1> DEFINE u == [t EXCEPT !.free.root = q]
  <1>1. IsTxn(t) /\ Once(t, One(q, 1))
    BY DEF Good
  <1>2. /\ u.free.root = q /\ u.free.recs = t.free.recs
        /\ u.main = t.main /\ Rest(t, u)
        /\ DOMAIN u = TxnFields /\ DOMAIN u.free = {"root", "recs"} /\ u.got = t.got
    BY <1>1, SMT DEF IsTxn, IsFree, TxnFields, Rest
  <1> HIDE DEF u
  <1>3. DOMAIN One(q, 1) = {q} /\ One(q, 1)[q] = 1 /\ Run(q, 1) = {q}
    BY OnePage
  <1>4. q # NoPage /\ Lives(t, One(q, 1), 6, q, q) /\ \A k, i : Lives(t, One(q, 1), k, i, q) <=> k = 6 /\ i = q
    BY <1>3, LimboPage
  <1>5. IsTxn(u)
    BY <1>1, <1>2, <1>4, SMT DEF IsTxn, IsFree, Rest
  <1>6. SameRecords(t, u)
    BY <1>2 DEF SameRecords
  <1>7. MovedUse(t, One(q, 1), u, Nil, {q}, [x \in {q} |-> 4], [x \in {q} |-> 0])
    <2>1. ASSUME NEW x, NEW k, NEW i, k <= 6
          PROVE  Lives(u, Nil, k, i, x) <=> IF x = q THEN k = 4 /\ i = 0 ELSE Lives(t, One(q, 1), k, i, x)
      <3>1. CASE k = 6
        <4>1. ~Lives(u, Nil, 6, i, x) /\ (Lives(t, One(q, 1), 6, i, x) <=> i = q /\ x = q)
          BY NilMembers, OnePage
        <4> QED BY <3>1, <4>1, SMT
      <3>2. CASE k # 6
        <4>1. x = q => ~Lives(t, One(q, 1), k, i, x)
          BY <1>4, <3>2
        <4> QED BY <1>2, <1>4, <2>1, <3>2, <4>1, SMT DEF Lives, RootOf
      <3> QED BY <3>1, <3>2
    <2> QED BY <1>4, <2>1 DEF MovedUse
  <1>8. ASSUME NEW p, NEW n PROVE Block(t, One(q, 1), p, n) => Block(u, Nil, p, n)
    BY <1>2, <1>3, <1>4, SMT DEF Block, Rest, RootOf
  <1>9. SameUse(t, One(q, 1), u, Nil)
    BY <1>1, <1>7, <1>8, MovedSameUse
  <1> QED BY <1>2, <1>5, <1>6, <1>9, NilMembers, Relink DEF u
LEMMA LinkBig ==
  ASSUME NEW t, NEW q \in Nat, NEW n \in Nat \ {0}, Good(t, One(q, n))
  PROVE  Good([t EXCEPT !.main.big = With(@, q, n)], Nil)
  <1> DEFINE u == [t EXCEPT !.main.big = With(@, q, n)]
  <1>1. IsTxn(t) /\ Once(t, One(q, n))
    BY DEF Good
  <1>2. /\ u.main.root = t.main.root /\ u.main.leaves = t.main.leaves
        /\ u.main.big = With(t.main.big, q, n)
        /\ u.free = t.free /\ Rest(t, u)
        /\ DOMAIN u = TxnFields /\ DOMAIN u.main = {"root", "leaves", "big"} /\ u.got = t.got
    BY <1>1, SMT DEF IsTxn, IsMain, TxnFields, Rest
  <1> HIDE DEF u
  <1>3. DOMAIN One(q, n) = {q} /\ One(q, n)[q] = n
    BY OneMembers
  <1>4. /\ q \notin DOMAIN t.main.big
        /\ \A x \in Run(q, n) : \A k, i : Lives(t, One(q, n), k, i, x) <=> k = 6 /\ i = q
    BY <1>3, LimboPage
  <1>5. /\ IsRuns(u.main.big) /\ DOMAIN u.main.big = DOMAIN t.main.big \cup {q} /\ u.main.big[q] = n
        /\ \A p \in DOMAIN t.main.big : u.main.big[p] = t.main.big[p]
    <2>1. IsRuns(t.main.big)
      BY <1>1 DEF IsTxn, IsMain
    <2> DEFINE B == With(t.main.big, q, n)
    <2>2. /\ IsRuns(B) /\ DOMAIN B = DOMAIN t.main.big \cup {q} /\ B[q] = n
          /\ \A p \in DOMAIN t.main.big : p # q => B[p] = t.main.big[p]
      <3>1. q \in Nat /\ n \in Nat \ {0}
        OBVIOUS
      <3>2. IsRuns(B) /\ DOMAIN B = DOMAIN t.main.big \cup {q}
        BY <2>1, <3>1, WithMembers
      <3>4. B[q] = n
        BY DEF With
      <3>3. \A p \in DOMAIN t.main.big : p # q => B[p] = t.main.big[p]
        BY WithOthers
      <3> QED BY <3>2, <3>3, <3>4
    <2>3. u.main.big = B /\ q \notin DOMAIN t.main.big
      BY <1>2, <1>4
    <2> HIDE DEF B
    <2>4. \A p \in DOMAIN t.main.big : p # q
      BY <2>3
    <2> QED BY <2>2, <2>3, <2>4
  <1>6. IsTxn(u)
    <2>1. IsMain(u.main)
      BY <1>1, <1>2, <1>5 DEF IsTxn, IsMain
    <2>2. IsTxn(t) /\ Rest(t, u) /\ DOMAIN u = TxnFields /\ u.free = t.free /\ u.got = t.got
      BY <1>1, <1>2
    <2> QED BY <2>1, <2>2 DEF IsTxn, Rest
  <1>7. SameRecords(t, u)
    BY <1>2 DEF SameRecords
  <1>8. MovedUse(t, One(q, n), u, Nil, Run(q, n), [x \in Run(q, n) |-> 3], [x \in Run(q, n) |-> q])
    <2>1. ASSUME NEW x, NEW k, NEW i, k <= 6
          PROVE  Lives(u, Nil, k, i, x) <=>
                 IF x \in Run(q, n) THEN k = 3 /\ i = q ELSE Lives(t, One(q, n), k, i, x)
      <3>1. CASE k = 6
        <4>1. ~Lives(u, Nil, 6, i, x)
          BY NilMembers
        <4>2. Lives(t, One(q, n), 6, i, x) => x \in Run(q, n)
          BY <1>3, SMT DEF Lives
        <4> QED BY <3>1, <4>1, <4>2, SMT
      <3>2. CASE k = 3
        <4>1. x \in Run(q, n) => ~Lives(t, One(q, n), k, i, x)
          BY <1>4, <3>2
        <4> QED BY <1>5, <3>2, <4>1, SMT DEF Lives
      <3>3. CASE k # 6 /\ k # 3
        <4>1. x \in Run(q, n) => ~Lives(t, One(q, n), k, i, x)
          BY <1>4, <3>3
        <4> QED BY <1>2, <2>1, <3>3, <4>1, SMT DEF Lives, RootOf
      <3> QED BY <3>1, <3>2, <3>3
    <2> QED BY <1>4, <2>1 DEF MovedUse
  <1>9. ASSUME NEW p, NEW m PROVE Block(t, One(q, n), p, m) => Block(u, Nil, p, m)
    BY <1>2, <1>3, <1>5, SMT DEF Block, Rest, RootOf
  <1>10. SameUse(t, One(q, n), u, Nil)
    BY <1>1, <1>8, <1>9, MovedSameUse
  <1> QED BY <1>2, <1>6, <1>7, <1>10, NilMembers, Relink DEF u

LEMMA UnlinkBig ==
  ASSUME NEW t, Good(t, Nil), NEW b \in DOMAIN t.main.big
  PROVE  Good([t EXCEPT !.main.big = Without(@, b)], One(b, t.main.big[b]))
  <1> DEFINE u == [t EXCEPT !.main.big = Without(@, b)]
             n == t.main.big[b]
  <1>1. IsTxn(t) /\ Once(t, Nil)
    BY DEF Good
  <1>2. /\ u.main.root = t.main.root /\ u.main.leaves = t.main.leaves
        /\ u.main.big = Without(t.main.big, b)
        /\ u.free = t.free /\ Rest(t, u)
        /\ DOMAIN u = TxnFields /\ DOMAIN u.main = {"root", "leaves", "big"} /\ u.got = t.got
    BY <1>1, SMT DEF IsTxn, IsMain, TxnFields, Rest
  <1>3. b \in Nat /\ n \in Nat \ {0}
    BY <1>1, FirstInRun DEF IsTxn, IsMain
  <1>4. /\ IsRuns(u.main.big) /\ DOMAIN u.main.big = DOMAIN t.main.big \ {b}
        /\ \A p \in DOMAIN t.main.big : p # b => u.main.big[p] = t.main.big[p]
    <2>1. IsRuns(t.main.big)
      BY <1>1 DEF IsTxn, IsMain
    <2> DEFINE B == Without(t.main.big, b)
    <2>2. /\ IsRuns(B) /\ DOMAIN B = DOMAIN t.main.big \ {b}
          /\ \A p \in DOMAIN t.main.big : p # b => B[p] = t.main.big[p]
      BY <2>1, WithoutMembers
    <2>3. u.main.big = B
      BY <1>2
    <2> HIDE DEF B
    <2> QED BY <2>2, <2>3
  <1>5. \A x \in Run(b, n) : Lives(t, Nil, 3, b, x)
    BY DEF Lives
  <1> HIDE DEF u, n
  <1>6. \A x \in Run(b, n) : \A k, i : Lives(t, Nil, k, i, x) <=> k = 3 /\ i = b
    BY <1>1, <1>5 DEF Once
  <1>7. IsRuns(One(b, n)) /\ DOMAIN One(b, n) = {b} /\ One(b, n)[b] = n
    BY <1>3, OneMembers
  <1>8. IsTxn(u)
    BY <1>1, <1>2, <1>4, SMT DEF IsTxn, IsMain, Rest
  <1>9. SameRecords(t, u)
    BY <1>2 DEF SameRecords
  <1>10. MovedUse(t, Nil, u, One(b, n), Run(b, n), [x \in Run(b, n) |-> 6], [x \in Run(b, n) |-> b])
    <2>1. ASSUME NEW x, NEW k, NEW i, k <= 6
          PROVE  Lives(u, One(b, n), k, i, x) <=>
                 IF x \in Run(b, n) THEN k = 6 /\ i = b ELSE Lives(t, Nil, k, i, x)
      <3>1. CASE k = 6
        <4>1. ~Lives(t, Nil, 6, i, x)
          BY NilMembers
        <4>2. Lives(u, One(b, n), 6, i, x) <=> i = b /\ x \in Run(b, n)
          BY <1>7, SMT DEF Lives
        <4> QED BY <3>1, <4>1, <4>2, SMT
      <3>2. CASE k = 3
        <4>1. x \in Run(b, n) /\ Lives(t, Nil, k, i, x) => i = b
          BY <1>6
        <4>2. n = t.main.big[b]
          BY DEF n
        <4> QED BY <1>4, <3>2, <4>1, <4>2, SMT DEF Lives
      <3>3. CASE k # 6 /\ k # 3
        <4>1. x \in Run(b, n) => ~Lives(t, Nil, k, i, x)
          BY <1>6, <3>3
        <4> QED BY <1>2, <2>1, <3>3, <4>1, SMT DEF Lives, RootOf
      <3> QED BY <3>1, <3>2, <3>3
    <2>2. \A x \in Run(b, n) : \E k, i : k <= 6 /\ Lives(t, Nil, k, i, x)
      BY <1>5
    <2> QED BY <2>1, <2>2 DEF MovedUse
  <1>11. ASSUME NEW p, NEW m PROVE Block(t, Nil, p, m) => Block(u, One(b, n), p, m)
    <2>1. n = t.main.big[b] /\ DOMAIN Nil = {}
      BY NilMembers DEF n
    <2> QED BY <1>2, <1>4, <1>7, <2>1, SMT DEF Block, Rest, RootOf
  <1>12. SameUse(t, Nil, u, One(b, n))
    BY <1>1, <1>10, <1>11, MovedSameUse
  <1> QED BY <1>2, <1>7, <1>8, <1>9, <1>12, Relink DEF u, n

LEMMA UnlinkLeaf ==
  ASSUME NEW t, Good(t, Nil), NEW q \in t.main.leaves
  PROVE  Good([t EXCEPT !.main.leaves = @ \ {q}], One(q, 1))
  <1> DEFINE u == [t EXCEPT !.main.leaves = @ \ {q}]
  <1>1. IsTxn(t) /\ Once(t, Nil)
    BY DEF Good
  <1>2. /\ u.main.root = t.main.root /\ u.main.leaves = t.main.leaves \ {q} /\ u.main.big = t.main.big
        /\ u.free = t.free /\ Rest(t, u)
        /\ DOMAIN u = TxnFields /\ DOMAIN u.main = {"root", "leaves", "big"} /\ u.got = t.got
    BY <1>1, SMT DEF IsTxn, IsMain, TxnFields, Rest
  <1> HIDE DEF u
  <1>3. q \in Nat
    BY <1>1 DEF IsTxn, IsMain
  <1>4. IsRuns(One(q, 1)) /\ DOMAIN One(q, 1) = {q} /\ One(q, 1)[q] = 1
    BY <1>3, OnePage
  <1>5. \A k, i : Lives(t, Nil, k, i, q) <=> k = 2 /\ i = 0
    <2>1. Lives(t, Nil, 2, 0, q)
      BY DEF Lives
    <2> QED BY <1>1, <2>1 DEF Once
  <1>6. IsTxn(u)
    BY <1>1, <1>2, SMT DEF IsTxn, IsMain, Rest
  <1>7. SameRecords(t, u)
    BY <1>2 DEF SameRecords
  <1>8. MovedUse(t, Nil, u, One(q, 1), {q}, [x \in {q} |-> 6], [x \in {q} |-> q])
    <2>1. ASSUME NEW x, NEW k, NEW i, k <= 6
          PROVE  Lives(u, One(q, 1), k, i, x) <=> IF x = q THEN k = 6 /\ i = q ELSE Lives(t, Nil, k, i, x)
      <3>1. CASE k = 6
        <4>1. ~Lives(t, Nil, 6, i, x) /\ (Lives(u, One(q, 1), 6, i, x) <=> i = q /\ x = q)
          BY <1>3, NilMembers, OnePage
        <4> QED BY <3>1, <4>1, SMT
      <3>2. CASE k # 6
        <4>1. x = q /\ Lives(t, Nil, k, i, x) => k = 2
          BY <1>5, <3>2
        <4> QED BY <1>2, <2>1, <3>2, <4>1, SMT DEF Lives, RootOf
      <3> QED BY <3>1, <3>2
    <2>2. \E k, i : k <= 6 /\ Lives(t, Nil, k, i, q)
      BY <1>5
    <2> QED BY <2>1, <2>2 DEF MovedUse
  <1>9. ASSUME NEW p, NEW n PROVE Block(t, Nil, p, n) => Block(u, One(q, 1), p, n)
    <2>1. DOMAIN Nil = {}
      BY NilMembers
    <2> QED BY <1>2, <1>4, <2>1, SMT DEF Block, Rest, RootOf
  <1>10. SameUse(t, Nil, u, One(q, 1))
    BY <1>1, <1>8, <1>9, MovedSameUse
  <1> QED BY <1>2, <1>4, <1>6, <1>7, <1>10, Relink DEF u
-----------------------------------------------------------------------------
(* Allocation. *)

LEMMA MinOf ==
  ASSUME NEW S, S \subseteq Nat, S # {}
  PROVE  Min(S) \in S /\ \A x \in S : Min(S) <= x
  <1>1. \E i \in S : \A j \in S : i <= j
    BY LeastMember
  <1> QED BY <1>1 DEF Min

LEMMA GreatestMember ==
  ASSUME NEW S, S \subseteq Nat, S # {}, NEW n \in Nat, \A x \in S : x <= n
  PROVE  \E m \in S : \A x \in S : x <= m
  <1> DEFINE B == {b \in Nat : \A x \in S : x <= b}
  <1>1. PICK b \in B : \A c \in B : b <= c
    <2>1. n \in B /\ B \subseteq Nat
      OBVIOUS
    <2> HIDE DEF B
    <2> QED BY <2>1, LeastMember
  <1>2. CASE b \in S
    BY <1>1, <1>2
  <1>3. CASE b \notin S
    <2>1. PICK x \in S : TRUE
      OBVIOUS
    <2>2. x < b /\ b \in Nat
      BY <1>1, <1>3, <2>1
    <2>3. b - 1 \in B
      <3>1. \A y \in S : y <= b /\ y # b
        BY <1>1, <1>3
      <3> QED BY <2>2, <3>1
    <2>4. b <= b - 1
      BY <1>1, <2>3
    <2> QED BY <2>2, <2>4
  <1> QED BY <1>2, <1>3

LEMMA MaxOf ==
  ASSUME NEW S, S \subseteq Nat, NEW m \in S, \A x \in S : x <= m
  PROVE  Max(S) = m
  <1>1. \A x \in S : m >= x
    OBVIOUS
  <1>2. Max(S) \in S /\ \A y \in S : Max(S) >= y
    BY <1>1 DEF Max
  <1>3. Max(S) >= m /\ m >= Max(S) /\ Max(S) \in Nat /\ m \in Nat
    BY <1>1, <1>2
  <1> QED BY <1>3

LEMMA LivePage ==
  ASSUME NEW t, NEW L, Good(t, L), NEW k, NEW i, NEW x, Lives(t, L, k, i, x)
  PROVE  x \in Nat /\ FirstPage <= x /\ x < t.next
  <1>1. x \in FirstPage..(t.next - 1)
    BY DEF Good, Cover
  <1> QED BY <1>1, SMT DEF Good, IsTxn, FirstPage

LEMMA BlockLives ==
  ASSUME NEW t, NEW L, Good(t, L), NEW p, NEW n, Block(t, L, p, n)
  PROVE  \E k, i : k \in (1..7) \cup {9} /\ Lives(t, L, k, i, p)
  <1>1. IsTxn(t) /\ IsRuns(L)
    BY DEF Good
  <1>2. CASE p \in RootOf(t.main)
    BY <1>2, Lives(t, L, 1, 0, p), SMT DEF Lives
  <1>3. CASE p \in t.main.leaves
    BY <1>3, Lives(t, L, 2, 0, p), SMT DEF Lives
  <1>4. CASE p \in RootOf(t.free)
    BY <1>4, Lives(t, L, 4, 0, p), SMT DEF Lives
  <1>5. CASE p \in ToSet(t.loose)
    BY <1>5, Lives(t, L, 9, 0, p), SMT DEF Lives
  <1>6. CASE p \in t.freed
    BY <1>6, Lives(t, L, 7, 0, p), SMT DEF Lives
  <1>7. CASE p \in DOMAIN t.main.big
    <2>1. p \in Run(p, t.main.big[p])
      BY <1>1, <1>7, FirstInRun DEF IsTxn, IsMain
    <2>2. Lives(t, L, 3, p, p)
      BY <1>7, <2>1 DEF Lives
    <2> QED BY <2>2
  <1>8. CASE \E i \in DOMAIN t.free.recs : p \in DOMAIN t.free.recs[i].ov
    <2>1. PICK i \in DOMAIN t.free.recs : p \in DOMAIN t.free.recs[i].ov
      BY <1>8
    <2>2. IsRuns(t.free.recs[i].ov)
      BY <1>1, <2>1 DEF IsTxn, IsFree, IsRecord
    <2>3. p \in PagesOf(t.free.recs[i].ov)
      BY <2>1, <2>2, FirstInRun
    <2>4. Lives(t, L, 5, i, p)
      BY <2>1, <2>3 DEF Lives
    <2> QED BY <2>4
  <1>9. CASE p \in DOMAIN L
    <2>1. p \in Run(p, L[p])
      BY <1>1, <1>9, FirstInRun
    <2>2. Lives(t, L, 6, p, p)
      BY <1>9, <2>1 DEF Lives
    <2> QED BY <2>2
  <1> QED BY <1>2, <1>3, <1>4, <1>5, <1>6, <1>7, <1>8, <1>9 DEF Block

LEMMA TakeMoves ==
  ASSUME NEW t, NEW L, Good(t, L), Numbers, NEW ids, ids \subseteq DOMAIN t.free.recs, NEW o \in Nat,
         \A i \in ids : t.pglast < i /\ i < o, \A j \in Referenced : o <= j,
         NEW m, m \in ids \cup {t.pglast}, \A i \in ids : i <= m,
         \A i \in DOMAIN t.free.recs : t.pglast < i /\ i <= m => i \in ids,
         NEW u, u = [t EXCEPT !.pghead = Merged(t, ids), !.pglast = m, !.oldest = o]
  PROVE  Good(u, L)
  <1> DEFINE X == UNION {t.free.recs[i].pgs : i \in ids}
  <1>1. IsTxn(t) /\ Once(t, L) /\ Cover(t, L) /\ Counted(t)
    BY DEF Good
  <1>2. /\ DOMAIN u = TxnFields /\ u.pghead = t.pghead \cup X /\ u.pglast = m /\ u.oldest = o
        /\ u.main = t.main /\ u.free = t.free /\ u.id = t.id /\ u.next = t.next /\ u.nfreed = t.nfreed
        /\ u.room = t.room /\ u.got = t.got /\ u.freed = t.freed /\ u.written = t.written
        /\ u.dirty = t.dirty /\ u.spill = t.spill /\ u.loose = t.loose
    BY <1>1, SMT DEF IsTxn, TxnFields, Merged
  <1>3. \A i \in DOMAIN t.free.recs : i \in Nat \ {0} /\ t.free.recs[i].pgs \subseteq Nat
    BY <1>1 DEF IsTxn, IsFree, IsRecord
  <1>4. X \subseteq Nat /\ m \in Nat
    BY <1>1, <1>3 DEF IsTxn
  <1>5. t.pglast <= m /\ m < t.id /\ t.pglast \in Nat /\ t.id \in Nat /\ (ids # {} => m # 0)
    <2>1. /\ t.pglast \in Nat /\ t.id \in Nat /\ t.pglast < t.id /\ t.id = newest + 1 /\ newest \in Nat
          /\ newest \in Referenced
      BY <1>1 DEF IsTxn, Counted, Numbers
    <2>2. o <= newest
      BY <2>1
    <2> QED BY <1>3, <2>1, <2>2
  <1>6. \A x : x \in X <=> \E i \in ids : x \in t.free.recs[i].pgs
    OBVIOUS
  <1> HIDE DEF X
  <1>7. ASSUME NEW i, NEW x, i \in ids, x \in t.free.recs[i].pgs
        PROVE  Lives(t, L, 10, i, x)
    <2>1. i < t.id /\ t.pglast < i
      BY <1>3, <1>5, <1>7
    <2> QED BY <1>7, <2>1 DEF Lives
  <1>8. Moved(t, L, u, L, X, 8, 0)
    <2> SUFFICES ASSUME NEW x, NEW k, NEW i
                 PROVE  Lives(u, L, k, i, x) <=> IF x \in X THEN k = 8 /\ i = 0 ELSE Lives(t, L, k, i, x)
      BY DEF Moved
    <2>1. CASE x \in X
      <3>1. PICK a \in ids : x \in t.free.recs[a].pgs
        BY <1>6, <2>1
      <3>2. Lives(t, L, 10, a, x)
        BY <1>7, <3>1
      <3>3. \A l, j : Lives(t, L, l, j, x) => l = 10 /\ j = a
        BY <1>1, <3>2 DEF Once
      <3>4. Lives(u, L, 8, 0, x)
        BY <1>2, <2>1, SMT DEF Lives
      <3>5. ~Lives(u, L, 10, i, x)
        <4>1. Lives(u, L, 10, i, x) => Lives(t, L, 10, i, x)
          BY <1>2, <1>3, <1>4, <1>5, SMT DEF Lives
        <4>2. Lives(u, L, 10, a, x) => FALSE
          BY <1>2, <1>3, <1>4, <3>1, SMT DEF Lives
        <4> QED BY <3>3, <4>1, <4>2
      <3>6. k # 8 /\ k # 10 => ~Lives(u, L, k, i, x)
        <4>1. k # 8 /\ k # 10 /\ Lives(u, L, k, i, x) => Lives(t, L, k, i, x)
          BY <1>2, SMT DEF Lives
        <4> QED BY <3>3, <4>1
      <3>7. Lives(u, L, 8, i, x) => i = 0
        BY SMT DEF Lives
      <3> QED BY <2>1, <3>4, <3>5, <3>6, <3>7
    <2>2. CASE x \notin X
      <3>1. CASE k = 10
        <4>1. i \in DOMAIN t.free.recs /\ x \in t.free.recs[i].pgs => i \notin ids
          BY <1>6, <2>2
        <4>2. Lives(u, L, 10, i, x) <=> i \in DOMAIN t.free.recs /\ m < i /\ i < t.id /\ x \in t.free.recs[i].pgs
          BY <1>2, SMT DEF Lives
        <4>3. Lives(t, L, 10, i, x) <=> i \in DOMAIN t.free.recs /\ t.pglast < i /\ i < t.id /\ x \in t.free.recs[i].pgs
          BY SMT DEF Lives
        <4>4. i \in DOMAIN t.free.recs /\ i \notin ids => (m < i <=> t.pglast < i)
          BY <1>3, <1>4, <1>5
        <4> QED BY <2>2, <3>1, <4>1, <4>2, <4>3, <4>4
      <3>2. CASE k # 10
        BY <1>2, <2>2, <3>2, SMT DEF Lives
      <3> QED BY <3>1, <3>2
    <2> QED BY <2>1, <2>2
  <1>9. \A x \in X : \E k, i : Lives(t, L, k, i, x)
    BY <1>6, <1>7
  <1>10. Once(u, L) /\ Cover(u, L)
    BY <1>1, <1>2, <1>8, <1>9, MovedOnce
  <1>11. IsTxn(u)
    BY <1>1, <1>2, <1>4, SMT DEF IsTxn
  <1>12. Sized(u, L)
    BY <1>2 DEF Good, Sized, Block
  <1>13. Kept(u, L)
    <2>1. ~(8 <= 6)
      OBVIOUS
    <2> QED BY <1>2, <1>8, <2>1, MovedKept DEF Good
  <1>14. Spared(u)
    <2>1. \A x \in Mine(u) : x \in Mine(t) \/ x \in X
      BY <1>2 DEF Mine
    <2>2. \A x \in X : \E k \in DOMAIN t.free.recs : x \in t.free.recs[k].pgs /\ \A j \in Referenced : k <= j
      <3> SUFFICES ASSUME NEW x \in X
                   PROVE  \E k \in DOMAIN t.free.recs : x \in t.free.recs[k].pgs /\ \A j \in Referenced : k <= j
        OBVIOUS
      <3>1. PICK a \in ids : x \in t.free.recs[a].pgs
        BY <1>6
      <3>2. a \in Nat /\ a < o /\ \A j \in Referenced : o <= j /\ j \in Nat
        BY <1>3, <3>1 DEF Numbers
      <3>3. \A j \in Referenced : a <= j
        BY <3>2
      <3> QED BY <3>1, <3>3
    <2>3. Claims(t, u)
      BY <1>1, <1>2, <2>1, <2>2, SMT DEF Claims, IsTxn
    <2> QED BY <2>3, SparedBy DEF Good
  <1>15. Counted(u)
    BY <1>1, <1>2, <1>4, <1>5, <1>6, SMT DEF Counted
  <1> QED BY <1>10, <1>11, <1>12, <1>13, <1>14, <1>15 DEF Good

LEMMA FetchedIds ==
  ASSUME NEW t, IsTxn(t), NEW num, NEW o \in Nat
  PROVE  /\ Fetched(t, num, o) \subseteq DOMAIN t.free.recs
         /\ \A i \in Fetched(t, num, o) : t.pglast < i /\ i < o
         /\ \E m \in Fetched(t, num, o) \cup {t.pglast} :
               /\ \A i \in Fetched(t, num, o) : i <= m
               /\ \A i \in DOMAIN t.free.recs : t.pglast < i /\ i <= m => i \in Fetched(t, num, o)
  <1> DEFINE ids == {i \in DOMAIN t.free.recs : t.pglast < i /\ i < o}
             suffices == {k \in {0} \cup ids : RunsIn(Merged(t, {i \in ids : i <= k}), num) # {}}
             F == Fetched(t, num, o)
  <1>1. F = IF suffices = {} THEN ids ELSE {i \in ids : i <= Min(suffices)}
    BY DEF Fetched
  <1>2. DOMAIN t.free.recs \subseteq Nat /\ t.pglast \in Nat
    BY DEF IsTxn, IsFree
  <1>3. suffices \subseteq Nat /\ ids \subseteq Nat
    BY <1>2
  <1>4. suffices # {} => Min(suffices) \in Nat
    <2> HIDE DEF suffices
    <2> QED BY <1>3, MinOf
  <1> HIDE DEF suffices
  <1>5. F \subseteq ids
    BY <1>1
  <1>6. \A i \in ids : \A m \in F : i <= m => i \in F
    BY <1>1, <1>3, <1>4
  <1> HIDE DEF F
  <1>7. CASE F = {}
    BY <1>2, <1>5, <1>7 DEF F
  <1>8. CASE F # {}
    <2>1. F \subseteq Nat /\ \A x \in F : x <= o
      BY <1>2, <1>5
    <2>2. PICK m \in F : \A x \in F : x <= m
      BY <1>8, <2>1, GreatestMember
    <2>3. \A i \in DOMAIN t.free.recs : t.pglast < i /\ i <= m => i \in F
      BY <1>2, <1>5, <1>6, <2>2
    <2> QED BY <1>5, <2>2, <2>3 DEF F
  <1> QED BY <1>7, <1>8

(* What a fetch leaves as it was. *)
Fetching(t, u) ==
  /\ DOMAIN u = TxnFields
  /\ u.id = t.id /\ u.main = t.main /\ u.free = t.free /\ u.next = t.next /\ u.dirty = t.dirty
  /\ u.spill = t.spill /\ u.loose = t.loose /\ u.freed = t.freed /\ u.nfreed = t.nfreed
  /\ u.room = t.room /\ u.written = t.written /\ u.ops = t.ops /\ u.got = t.got
  /\ u.rc = t.rc /\ u.err = t.err
  /\ u.pglast \in {t.pglast} \cup DOMAIN t.free.recs /\ t.pglast <= u.pglast

LEMMA TakeFetched ==
  ASSUME NEW t, NEW L, Good(t, L), Numbers, NEW num, NEW o \in Nat, \A j \in Referenced : o <= j
  PROVE  /\ Good(Take(t, Fetched(t, num, o), o), L)
         /\ Fetching(t, Take(t, Fetched(t, num, o), o))
  <1> DEFINE F == Fetched(t, num, o)
             u == Take(t, F, o)
  <1>1. IsTxn(t)
    BY DEF Good
  <1>2. /\ F \subseteq DOMAIN t.free.recs
        /\ \A i \in F : t.pglast < i /\ i < o
    BY <1>1, FetchedIds
  <1>3. PICK m \in F \cup {t.pglast} :
               /\ \A i \in F : i <= m
               /\ \A i \in DOMAIN t.free.recs : t.pglast < i /\ i <= m => i \in F
    BY <1>1, FetchedIds
  <1> HIDE DEF F
  <1>4. DOMAIN t.free.recs \subseteq Nat /\ t.pglast \in Nat
    BY <1>1 DEF IsTxn, IsFree
  <1>5. t.pglast <= m /\ m \in {t.pglast} \cup DOMAIN t.free.recs
    BY <1>2, <1>3, <1>4
  <1>6. Max({t.pglast} \cup F) = m
    <2>1. {t.pglast} \cup F \subseteq Nat /\ m \in {t.pglast} \cup F /\ \A x \in {t.pglast} \cup F : x <= m
      BY <1>2, <1>3, <1>4, <1>5
    <2> QED BY <2>1, MaxOf
  <1>7. u = [t EXCEPT !.pghead = Merged(t, F), !.pglast = m, !.oldest = o]
    <2>1. Max({t["pglast"]} \cup F) = m
      BY <1>6
    <2> QED BY <2>1 DEF Take
  <1>8. Good(u, L)
    <2> HIDE DEF u
    <2> QED BY Zenon, <1>2, <1>3, <1>7, TakeMoves
  <1>9. Fetching(t, u)
    <2> HIDE DEF u
    <2> QED BY <1>1, <1>5, <1>7, SMT DEF Fetching, IsTxn, TxnFields
  <1> QED BY <1>8, <1>9 DEF F

LEMMA OldestReferenced ==
  ASSUME NEW t, t.id = newest + 1, Numbers
  PROVE  FindOldest(t) \in Nat /\ \A j \in Referenced : FindOldest(t) <= j
  <1>1. {t.id - 1} \cup ({readers[r] : r \in Readers} \ {None}) = Referenced
    <2>1. t.id - 1 = newest
      BY DEF Numbers
    <2> QED BY <2>1 DEF Referenced, Needed
  <1>2. FindOldest(t) = Min(Referenced)
    BY <1>1 DEF FindOldest
  <1>3. Referenced \subseteq Nat /\ Referenced # {}
    BY DEF Numbers
  <1> QED BY <1>2, <1>3, MinOf

LEMMA FetchingTwice ==
  ASSUME NEW t, NEW u, NEW v, IsTxn(t), Fetching(t, u), Fetching(u, v)
  PROVE  Fetching(t, v)
  <1>1. DOMAIN t.free.recs \subseteq Nat /\ t.pglast \in Nat
    BY DEF IsTxn, IsFree
  <1> QED BY <1>1, SMT DEF Fetching

LEMMA FetchGood ==
  ASSUME NEW t, NEW L, Good(t, L), Numbers, NEW num
  PROVE  Good(Fetch(t, num), L) /\ Fetching(t, Fetch(t, num))
  <1> DEFINE a == Take(t, Fetched(t, num, t.oldest), t.oldest)
             o == FindOldest(a)
             b == Take(a, Fetched(a, num, o), o)
  <1>1. t.oldest \in Nat /\ \A j \in Referenced : t.oldest <= j
    BY DEF Good, IsTxn, Spared
  <1>2. Good(a, L) /\ Fetching(t, a)
    BY <1>1, TakeFetched
  <1> HIDE DEF a
  <1>3. o \in Nat /\ \A j \in Referenced : o <= j
    BY <1>2, OldestReferenced DEF Good, Counted
  <1> HIDE DEF o
  <1>4. Good(b, L) /\ Fetching(a, b)
    BY <1>2, <1>3, TakeFetched
  <1> HIDE DEF b
  <1>5. Fetching(t, b)
    BY <1>2, <1>4, FetchingTwice DEF Good
  <1>6. Fetch(t, num) \in {a, b}
    BY DEF Fetch, Refresh, a, b, o
  <1> QED BY <1>2, <1>4, <1>5, <1>6

(* The pages that are taken. *)
Dirtied(t, u, p, n) ==
  /\ IsRuns(u.dirty) /\ DOMAIN u.dirty = DOMAIN t.dirty \cup {p} /\ u.dirty[p] = n
  /\ \A q \in DOMAIN t.dirty : q # p => u.dirty[q] = t.dirty[q]
  /\ PagesOf(u.dirty) \subseteq PagesOf(t.dirty) \cup Run(p, n)
  /\ Run(p, n) \subseteq PagesOf(u.dirty)
  /\ p \notin DOMAIN t.dirty => PagesOf(t.dirty) \subseteq PagesOf(u.dirty)
  /\ u.room \in Nat /\ IsFiniteSet(DOMAIN u.dirty)
  /\ u.room + Cardinality(DOMAIN u.dirty) <= DirtyRoom

LEMMA OneMoreDirty ==
  ASSUME NEW t, NEW L, Good(t, L), t.room # 0, NEW p \in Nat, NEW n \in Nat \ {0}, NEW u,
         u.dirty = With(t.dirty, p, n), u.room = t.room - 1
  PROVE  Dirtied(t, u, p, n)
  <1>1. IsRuns(t.dirty) /\ t.room \in Nat /\ IsFiniteSet(DOMAIN t.dirty)
        /\ t.room + Cardinality(DOMAIN t.dirty) <= DirtyRoom
    BY DEF Good, IsTxn, Counted
  <1>2. /\ IsRuns(u.dirty) /\ DOMAIN u.dirty = DOMAIN t.dirty \cup {p} /\ u.dirty[p] = n
        /\ \A q \in DOMAIN t.dirty : q # p => u.dirty[q] = t.dirty[q]
        /\ PagesOf(u.dirty) \subseteq PagesOf(t.dirty) \cup Run(p, n)
        /\ Run(p, n) \subseteq PagesOf(u.dirty)
        /\ p \notin DOMAIN t.dirty => PagesOf(t.dirty) \subseteq PagesOf(u.dirty)
    <2> DEFINE B == With(t.dirty, p, n)
    <2>0. p \in Nat /\ n \in Nat \ {0}
      OBVIOUS
    <2>1. IsRuns(B) /\ DOMAIN B = DOMAIN t.dirty \cup {p}
      BY <1>1, <2>0, SMT DEF With, IsRuns
    <2>5. \A q \in DOMAIN t.dirty : q # p => B[q] = t.dirty[q]
      BY WithOthers
    <2>2. /\ PagesOf(B) \subseteq PagesOf(t.dirty) \cup Run(p, n)
          /\ Run(p, n) \subseteq PagesOf(B)
          /\ p \notin DOMAIN t.dirty => PagesOf(t.dirty) \subseteq PagesOf(B)
      BY <1>1, WithMembers
    <2>3. B[p] = n
      BY DEF With
    <2>4. u.dirty = B
      OBVIOUS
    <2> HIDE DEF B
    <2> QED BY <2>1, <2>2, <2>3, <2>4, <2>5
  <1>3. IsFiniteSet(DOMAIN u.dirty) /\ Cardinality(DOMAIN u.dirty) <= Cardinality(DOMAIN t.dirty) + 1
    <2> DEFINE S == DOMAIN t.dirty
    <2>1. /\ IsFiniteSet(S \cup {p})
          /\ Cardinality(S \cup {p}) = IF p \in S THEN Cardinality(S) ELSE Cardinality(S) + 1
      BY <1>1, FS_AddElement
    <2>2. Cardinality(S) \in Nat
      BY <1>1, FS_CardinalityType
    <2> HIDE DEF S
    <2>3. DOMAIN u.dirty = S \cup {p}
      BY <1>2 DEF S
    <2>4. IsFiniteSet(DOMAIN u.dirty) /\ Cardinality(DOMAIN u.dirty) <= Cardinality(S) + 1
      BY <2>1, <2>2, <2>3
    <2> QED BY <2>4 DEF S
  <1>4. u.room \in Nat /\ u.room + Cardinality(DOMAIN u.dirty) <= DirtyRoom
    <2>1. Cardinality(DOMAIN t.dirty) \in Nat /\ Cardinality(DOMAIN u.dirty) \in Nat
      BY <1>1, <1>3, FS_CardinalityType
    <2>2. DirtyRoom \in Nat
      BY PagesAssumption
    <2> QED BY <1>1, <1>3, <2>1, <2>2
  <1> QED BY <1>2, <1>3, <1>4 DEF Dirtied

LEMMA PageSize ==
  ASSUME NEW t, NEW L, Good(t, L), NEW p, NEW k \in {1, 2, 4, 9}, Lives(t, L, k, 0, p),
         NEW m, Block(t, L, p, m)
  PROVE  m = 1
  <1>1. IsTxn(t) /\ IsRuns(L) /\ Once(t, L)
    BY DEF Good
  <1>2. \A l, j : Lives(t, L, l, j, p) => l \in {1, 2, 4, 9}
    BY <1>1 DEF Once
  <1>3. p \notin DOMAIN t.main.big
    <2>1. ASSUME p \in DOMAIN t.main.big PROVE FALSE
      <3>1. p \in Run(p, t.main.big[p])
        BY <1>1, <2>1, FirstInRun DEF IsTxn, IsMain
      <3>2. Lives(t, L, 3, p, p)
        BY <2>1, <3>1 DEF Lives
      <3> QED BY <1>2, <3>2
    <2> QED BY <2>1
  <1>4. \A i \in DOMAIN t.free.recs : p \notin DOMAIN t.free.recs[i].ov
    <2>1. ASSUME NEW i \in DOMAIN t.free.recs, p \in DOMAIN t.free.recs[i].ov PROVE FALSE
      <3>1. IsRuns(t.free.recs[i].ov)
        BY <1>1 DEF IsTxn, IsFree, IsRecord
      <3>2. p \in PagesOf(t.free.recs[i].ov)
        BY <2>1, <3>1, FirstInRun
      <3>3. Lives(t, L, 5, i, p)
        BY <3>2 DEF Lives
      <3> QED BY <1>2, <3>3
    <2> QED BY <2>1
  <1>5. p \notin DOMAIN L
    <2>1. ASSUME p \in DOMAIN L PROVE FALSE
      <3>1. p \in Run(p, L[p])
        BY <1>1, <2>1, FirstInRun
      <3>2. Lives(t, L, 6, p, p)
        BY <2>1, <3>1 DEF Lives
      <3> QED BY <1>2, <3>2
    <2> QED BY <2>1
  <1>6. p \notin t.freed
    <2>1. ASSUME p \in t.freed PROVE FALSE
      <3>1. Lives(t, L, 7, 0, p)
        BY <2>1 DEF Lives
      <3> QED BY <1>2, <3>1
    <2> QED BY <2>1
  <1> QED BY <1>3, <1>4, <1>5, <1>6 DEF Block

LEMMA LimboSize ==
  ASSUME NEW t, NEW L, Good(t, L), NEW p \in DOMAIN L, NEW m, Block(t, L, p, m)
  PROVE  m = L[p]
  BY LimboPage, SMT DEF Block, RootOf

(* A page or a run that is dirtied goes to limbo. *)
LEMMA LimboBlocks ==
  ASSUME NEW t, NEW L, NEW u, Good(t, L), NEW p \in Nat, NEW n \in Nat \ {0}, p \notin DOMAIN L,
         u.main = t.main, u.free = t.free, u.freed = t.freed, ToSet(t.loose) \subseteq ToSet(u.loose) \cup {p},
         p \in ToSet(t.loose) => n = 1, \A k, i : Lives(t, L, k, i, p) => k > 7
  PROVE  \A q, m : Block(t, L, q, m) => Block(u, With(L, p, n), q, m)
  <1> DEFINE M == With(L, p, n)
  <1>1. IsRuns(L) /\ p \in Nat /\ n \in Nat \ {0}
    BY DEF Good
  <1>2. DOMAIN M = DOMAIN L \cup {p}
    BY DEF With
  <1>3. \A q \in DOMAIN L : q # p => M[q] = L[q]
    BY DEF With
  <1>4. M[p] = n
    BY DEF With
  <1> HIDE DEF M
  <1> SUFFICES ASSUME NEW q, NEW m, Block(t, L, q, m) PROVE Block(u, M, q, m)
    BY DEF M
  <1>5. CASE q = p
    <2>1. PICK k, i : k \in (1..7) \cup {9} /\ Lives(t, L, k, i, p)
      BY <1>5, BlockLives
    <2>2. k = 9
      BY <2>1
    <2>3. Lives(t, L, 9, 0, p) /\ p \in ToSet(t.loose)
      BY <2>1, <2>2, SMT DEF Lives
    <2>4. m = 1
      BY <1>5, <2>3, PageSize
    <2> QED BY <1>2, <1>4, <1>5, <2>3, <2>4 DEF Block
  <1>6. CASE q # p
    BY <1>2, <1>3, <1>6, SMT DEF Block
  <1> QED BY <1>5, <1>6

(* One operator for the three ways to take a run: what changes is where    *)
(* the run lived, the dirty list, and the end of the file.                 *)
Taken(t, u, p, n) ==
  /\ DOMAIN u = TxnFields /\ u.got = p
  /\ u.id = t.id /\ u.main = t.main /\ u.free = t.free /\ u.oldest = t.oldest /\ u.pglast = t.pglast
  /\ u.spill = t.spill /\ u.freed = t.freed /\ u.nfreed = t.nfreed /\ u.written = t.written
  /\ u.ops = t.ops /\ u.rc = t.rc /\ u.err = t.err
  /\ t.next \in Nat /\ u.next \in Nat /\ t.next <= u.next /\ u.next < MaxPg
  /\ u.loose \in Seq(Nat) /\ \A i, j \in DOMAIN u.loose : u.loose[i] = u.loose[j] => i = j
  /\ ToSet(u.loose) \subseteq ToSet(t.loose) \ {p}
  /\ ToSet(t.loose) \subseteq ToSet(u.loose) \cup {p}
  /\ u.pghead \subseteq t.pghead /\ (t.pglast = 0 => u.pghead = {})
  /\ \/ t.room # 0 /\ u.dirty = With(t.dirty, p, n) /\ u.room = t.room - 1
     \/ u.dirty = t.dirty /\ u.room = t.room /\ p \in DOMAIN t.dirty /\ t.dirty[p] = n

LEMMA TakenGood ==
  ASSUME NEW t, NEW L, Good(t, L), Numbers, NEW p \in Nat, NEW n \in Nat \ {0}, NEW u, Taken(t, u, p, n),
         \A x \in Run(p, n) : \A k, i : Lives(t, L, k, i, x) => k \in {8, 9},
         p \in ToSet(t.loose) => n = 1,
         Moved(t, L, u, With(L, p, n), Run(p, n), 6, p), Cover(u, With(L, p, n)),
         \A x \in Run(p, n) : x \in Mine(t) \/ t.next <= x
  PROVE  Good(u, With(L, p, n))
  <1> DEFINE M == With(L, p, n)
  <1>1. IsTxn(t) /\ IsRuns(L) /\ Once(t, L) /\ Counted(t) /\ p \in Nat /\ n \in Nat \ {0}
    BY DEF Good
  <1>2. p \in Run(p, n)
    BY RunMembers
  <1>3. \A k, i : Lives(t, L, k, i, p) => k \in {8, 9}
    BY <1>2
  <1>4. p \notin DOMAIN L
    <2>1. p \in DOMAIN L => Lives(t, L, 6, p, p)
      BY LimboPage
    <2> QED BY <1>3, <2>1
  <1>5. IsRuns(M)
    BY <1>1, SMT DEF With, IsRuns
  <1>6. /\ IsRuns(u.dirty) /\ DOMAIN u.dirty = DOMAIN t.dirty \cup {p} /\ u.dirty[p] = n
        /\ \A q \in DOMAIN t.dirty : q # p => u.dirty[q] = t.dirty[q]
        /\ PagesOf(u.dirty) \subseteq PagesOf(t.dirty) \cup Run(p, n)
        /\ Run(p, n) \subseteq PagesOf(u.dirty)
        /\ u.room \in Nat /\ IsFiniteSet(DOMAIN u.dirty)
        /\ u.room + Cardinality(DOMAIN u.dirty) <= DirtyRoom
    <2>1. CASE t.room # 0 /\ u.dirty = With(t.dirty, p, n) /\ u.room = t.room - 1
      BY <2>1, OneMoreDirty DEF Dirtied
    <2>2. CASE u.dirty = t.dirty /\ u.room = t.room /\ p \in DOMAIN t.dirty /\ t.dirty[p] = n
      <3>1. IsRuns(t.dirty) /\ \A x \in Run(p, t.dirty[p]) : x \in PagesOf(t.dirty)
        BY <1>1, <2>2, FirstInRun DEF IsTxn
      <3>2. DOMAIN u.dirty = DOMAIN t.dirty \cup {p}
        BY <2>2
      <3> QED BY <1>1, <2>2, <3>1, <3>2 DEF IsTxn, Counted
    <2> QED BY <2>1, <2>2 DEF Taken
  <1>7. PagesOf(t.dirty) \subseteq PagesOf(u.dirty)
    <2>1. CASE u.dirty = t.dirty
      BY <2>1
    <2>2. CASE t.room # 0 /\ u.dirty = With(t.dirty, p, n) /\ u.room = t.room - 1 /\ p \notin DOMAIN t.dirty
      BY <2>2, OneMoreDirty DEF Dirtied
    <2>3. CASE p \in DOMAIN t.dirty
      <3>1. Block(t, L, p, t.dirty[p])
        BY <2>3 DEF Good, Sized
      <3>2. PICK k, i : k \in (1..7) \cup {9} /\ Lives(t, L, k, i, p)
        BY <3>1, BlockLives
      <3>3. k = 9
        BY <1>3, <3>2
      <3>4. Lives(t, L, 9, 0, p) /\ p \in ToSet(t.loose)
        BY <3>2, <3>3, SMT DEF Lives
      <3>5. t.dirty[p] = 1 /\ n = 1
        BY <3>1, <3>4, PageSize
      <3>6. \A q \in DOMAIN t.dirty : q \in DOMAIN u.dirty /\ u.dirty[q] = t.dirty[q]
        BY <1>6, <3>5
      <3> QED BY <3>6, PagesOfMembers
    <2> QED BY <2>1, <2>2, <2>3 DEF Taken
  <1>8. IsTxn(u)
    <2>1. /\ DOMAIN u = TxnFields /\ u.got = p /\ u.room \in Nat /\ IsRuns(u.dirty)
          /\ u.id = t.id /\ u.main = t.main /\ u.free = t.free /\ u.oldest = t.oldest /\ u.pglast = t.pglast
          /\ u.spill = t.spill /\ u.freed = t.freed /\ u.nfreed = t.nfreed /\ u.written = t.written
          /\ u.next \in Nat /\ u.loose \in Seq(Nat) /\ u.pghead \subseteq t.pghead
      BY <1>6 DEF Taken
    <2> QED BY <1>1, <2>1 DEF IsTxn
  <1>9. Once(u, M)
    BY <1>1, SMT DEF Moved, Once
  <1>10. Sized(u, M)
    <2>1. u.main = t.main /\ u.free = t.free /\ u.freed = t.freed /\ ToSet(t.loose) \subseteq ToSet(u.loose) \cup {p}
      BY DEF Taken
    <2>2. \A q, m : Block(t, L, q, m) => Block(u, M, q, m)
      <3>1. \A k, i : Lives(t, L, k, i, p) => k > 7
        BY <1>3
      <3> QED BY <1>4, <2>1, <3>1, LimboBlocks
    <2>3. Block(u, M, p, n)
      <3>1. DOMAIN M = DOMAIN L \cup {p} /\ M[p] = n
        BY DEF With
      <3> HIDE DEF M
      <3> QED BY <3>1 DEF Block
    <2>4. \A q \in DOMAIN u.dirty : Block(u, M, q, u.dirty[q])
      <3> SUFFICES ASSUME NEW q \in DOMAIN u.dirty PROVE Block(u, M, q, u.dirty[q])
        OBVIOUS
      <3>1. CASE q = p
        BY <1>6, <2>3, <3>1
      <3>2. CASE q # p
        <4>1. q \in DOMAIN t.dirty /\ u.dirty[q] = t.dirty[q]
          BY <1>6, <3>2
        <4>2. Block(t, L, q, t.dirty[q])
          BY <4>1 DEF Good, Sized
        <4> QED BY <2>2, <4>1, <4>2
      <3> QED BY <3>1, <3>2
    <2>5. \A q \in DOMAIN u.spill : Block(u, M, q, u.spill[q])
      BY <2>2 DEF Good, Sized, Taken
    <2>6. p \notin DOMAIN t.spill
      <3>1. ASSUME p \in DOMAIN t.spill PROVE FALSE
        <4>1. Block(t, L, p, t.spill[p]) /\ p \notin DOMAIN t.dirty
          BY <3>1 DEF Good, Sized
        <4>2. PICK k, i : k \in (1..7) \cup {9} /\ Lives(t, L, k, i, p)
          BY <4>1, BlockLives
        <4>3. k = 9
          BY <1>3, <4>2
        <4>4. p \in ToSet(t.loose)
          BY <4>2, <4>3, SMT DEF Lives
        <4> QED BY <4>1, <4>4 DEF Good, Sized
      <3> QED BY <3>1
    <2>7. DOMAIN u.dirty \cap DOMAIN u.spill = {} /\ ToSet(u.loose) \subseteq DOMAIN u.dirty
      BY <1>6, <2>6 DEF Good, Sized, Taken
    <2> QED BY <2>4, <2>5, <2>7 DEF Sized
  <1>11. Kept(u, M)
    <2>1. \A x \in Run(p, n) : x \in PagesOf(u.dirty)
      BY <1>6
    <2>2. \A x : x \in PagesOf(t.dirty) \/ x \in t.written => x \in PagesOf(u.dirty) \/ x \in u.written
      BY <1>7 DEF Taken
    <2> HIDE DEF M
    <2>3. Kept(t, L) /\ Moved(t, L, u, M, Run(p, n), 6, p)
      BY DEF Good, M
    <2> QED BY <2>1, <2>2, <2>3, MovedKept
  <1>12. Spared(u)
    <2>1. Mine(u) \subseteq Mine(t) \cup Run(p, n)
      BY <1>6, SMT DEF Mine, Taken
    <2>2. Claims(t, u)
      <3>1. \A j \in Referenced : t.oldest <= j
        BY DEF Good, Spared
      <3> QED BY <1>1, <2>1, <3>1, SMT DEF Claims, Taken, IsTxn
    <2> QED BY <2>2, SparedBy DEF Good
  <1>13. Counted(u)
    <2>1. FirstPage <= u.next
      BY <1>1 DEF Counted, Taken, FirstPage
    <2> QED BY <1>1, <1>6, <2>1 DEF Counted, Taken
  <1> QED BY <1>5, <1>8, <1>9, <1>10, <1>11, <1>12, <1>13 DEF Good

LEMMA LimboMoved ==
  ASSUME NEW t, NEW L, NEW u, NEW p \in Nat, NEW n \in Nat \ {0}, p \notin DOMAIN L,
         u.main = t.main, u.free = t.free, u.freed = t.freed, u.pglast = t.pglast, u.id = t.id,
         \A x \in Run(p, n) : \A k, i : Lives(t, L, k, i, x) => k \in {8, 9},
         \A x : x \in u.pghead <=> x \in t.pghead /\ x \notin Run(p, n),
         \A x : x \in ToSet(u.loose) <=> x \in ToSet(t.loose) /\ x \notin Run(p, n)
  PROVE  Moved(t, L, u, With(L, p, n), Run(p, n), 6, p)
  <1> DEFINE M == With(L, p, n)
  <1>1. DOMAIN M = DOMAIN L \cup {p} /\ \A q \in DOMAIN L : M[q] = L[q]
    BY DEF With
  <1>2. M[p] = n
    BY DEF With
  <1> HIDE DEF M
  <1>3. ASSUME NEW x, NEW k, NEW i
        PROVE  Lives(u, M, k, i, x) <=> IF x \in Run(p, n) THEN k = 6 /\ i = p ELSE Lives(t, L, k, i, x)
    <2>1. CASE k = 6
      <3>1. Lives(u, M, 6, i, x) <=> i \in DOMAIN M /\ x \in Run(i, M[i])
        BY SMT DEF Lives
      <3>2. Lives(t, L, 6, i, x) <=> i \in DOMAIN L /\ x \in Run(i, L[i])
        BY SMT DEF Lives
      <3>3. x \in Run(p, n) => ~Lives(t, L, 6, i, x)
        OBVIOUS
      <3> QED BY <1>1, <1>2, <2>1, <3>1, <3>2, <3>3
    <2>2. CASE k # 6
      <3>1. x \in Run(p, n) /\ Lives(t, L, k, i, x) => k \in {8, 9}
        OBVIOUS
      <3> QED BY <2>2, <3>1, SMT DEF Lives
    <2> QED BY <2>1, <2>2
  <1> QED BY <1>3 DEF Moved, M

LEMMA TakeHead ==
  ASSUME NEW t, NEW L, Good(t, L), Numbers, t.room # 0, NEW n \in Nat \ {0}, NEW p \in RunsIn(t.pghead, n),
         NEW u, u = PageDirty([t EXCEPT !.pghead = @ \ Run(p, n)], p, n)
  PROVE  Good(u, With(L, p, n)) /\ Taken(t, u, p, n) /\ p \notin DOMAIN L
  <1>1. IsTxn(t) /\ Once(t, L) /\ Cover(t, L) /\ Counted(t)
    BY DEF Good
  <1>2. p \in t.pghead /\ Run(p, n) \subseteq t.pghead /\ p \in Nat
    BY <1>1 DEF RunsIn, IsTxn
  <1>3. /\ DOMAIN u = TxnFields /\ u.got = p /\ u.pghead = t.pghead \ Run(p, n)
        /\ u.id = t.id /\ u.main = t.main /\ u.free = t.free /\ u.oldest = t.oldest /\ u.pglast = t.pglast
        /\ u.spill = t.spill /\ u.freed = t.freed /\ u.nfreed = t.nfreed /\ u.written = t.written
        /\ u.ops = t.ops /\ u.rc = t.rc /\ u.err = t.err /\ u.next = t.next /\ u.loose = t.loose
        /\ u.dirty = With(t.dirty, p, n) /\ u.room = t.room - 1
    BY <1>1, SMT DEF IsTxn, TxnFields, PageDirty
  <1>4. \A x \in Run(p, n) : \A k, i : Lives(t, L, k, i, x) <=> k = 8 /\ i = 0
    <2> SUFFICES ASSUME NEW x \in Run(p, n) PROVE \A k, i : Lives(t, L, k, i, x) <=> k = 8 /\ i = 0
      OBVIOUS
    <2>1. Lives(t, L, 8, 0, x)
      BY <1>2 DEF Lives
    <2> QED BY <1>1, <2>1 DEF Once
  <1>5. p \notin ToSet(t.loose) /\ p \notin DOMAIN L
    <2>1. p \in Run(p, n)
      BY <1>2, RunMembers
    <2>2. p \in ToSet(t.loose) => Lives(t, L, 9, 0, p)
      BY DEF Lives
    <2>3. p \in DOMAIN L => Lives(t, L, 6, p, p)
      BY LimboPage
    <2> QED BY <1>4, <2>1, <2>2, <2>3
  <1>6. Taken(t, u, p, n)
    <2>1. t.next \in Nat /\ t.next < MaxPg /\ t.loose \in Seq(Nat) /\ (t.pglast = 0 => t.pghead = {})
          /\ \A i, j \in DOMAIN t.loose : t.loose[i] = t.loose[j] => i = j
      BY <1>1 DEF IsTxn, Counted
    <2>2. u.pghead \subseteq t.pghead /\ (t.pglast = 0 => u.pghead = {})
      BY <1>3, <2>1
    <2>3. t.next <= u.next
      BY <1>3, <2>1
    <2>4. /\ u.loose \in Seq(Nat) /\ \A i, j \in DOMAIN u.loose : u.loose[i] = u.loose[j] => i = j
          /\ ToSet(u.loose) \subseteq ToSet(t.loose) \ {p}
          /\ ToSet(t.loose) \subseteq ToSet(u.loose) \cup {p}
      <3>1. u.loose = t.loose
        BY <1>3
      <3> QED BY <1>5, <2>1, <3>1
    <2>5. u.next \in Nat /\ u.next < MaxPg
      BY <1>3, <2>1
    <2> QED BY <1>3, <2>1, <2>2, <2>3, <2>4, <2>5 DEF Taken
  <1>7. Moved(t, L, u, With(L, p, n), Run(p, n), 6, p)
    <2>1. \A x \in Run(p, n) : x \notin ToSet(t.loose)
      <3>1. \A x : x \in ToSet(t.loose) => Lives(t, L, 9, 0, x)
        BY DEF Lives
      <3> QED BY <1>4, <3>1
    <2>2. \A x \in Run(p, n) : \A k, i : Lives(t, L, k, i, x) => k \in {8, 9}
      BY <1>4
    <2>3. /\ \A x : x \in u.pghead <=> x \in t.pghead /\ x \notin Run(p, n)
          /\ \A x : x \in ToSet(u.loose) <=> x \in ToSet(t.loose) /\ x \notin Run(p, n)
      BY <1>3, <2>1
    <2> QED BY <1>2, <1>3, <1>5, <2>2, <2>3, LimboMoved
  <1>8. Cover(u, With(L, p, n))
    <2>1. \A x \in Run(p, n) : \E k, i : Lives(t, L, k, i, x)
      BY <1>4
    <2> QED BY <1>1, <1>3, <1>7, <2>1, MovedOnce
  <1>9. \A x \in Run(p, n) : x \in Mine(t)
    BY <1>2 DEF Mine
  <1>10. \A x \in Run(p, n) : \A k, i : Lives(t, L, k, i, x) => k \in {8, 9}
    BY <1>4
  <1>11. n \in Nat \ {0} /\ p \in Nat
    BY <1>2
  <1>12. Good(u, With(L, p, n))
    BY <1>5, <1>6, <1>7, <1>8, <1>9, <1>10, <1>11, TakenGood
  <1> QED BY <1>5, <1>6, <1>12

LEMMA TakeNew ==
  ASSUME NEW t, NEW L, Good(t, L), Numbers, t.room # 0, NEW n \in Nat \ {0}, ~MapFull(t, n),
         NEW u, u = PageDirty([t EXCEPT !.next = @ + n], t.next, n)
  PROVE  Good(u, With(L, t.next, n)) /\ Taken(t, u, t.next, n) /\ t.next \notin DOMAIN L
  <1> DEFINE p == t.next
  <1>1. IsTxn(t) /\ Once(t, L) /\ Cover(t, L) /\ Counted(t) /\ n \in Nat \ {0}
    BY DEF Good
  <1>2. p \in Nat /\ p + n < MaxPg /\ p + n \in Nat
    <2>1. t.next \in Nat /\ n \in Nat \ {0} /\ MaxPg \in Nat
      BY <1>1, PagesAssumption DEF IsTxn
    <2>2. ~(t.next + n >= MaxPg)
      BY DEF MapFull
    <2> QED BY <2>1, <2>2
  <1>3. /\ DOMAIN u = TxnFields /\ u.got = p /\ u.pghead = t.pghead
        /\ u.id = t.id /\ u.main = t.main /\ u.free = t.free /\ u.oldest = t.oldest /\ u.pglast = t.pglast
        /\ u.spill = t.spill /\ u.freed = t.freed /\ u.nfreed = t.nfreed /\ u.written = t.written
        /\ u.ops = t.ops /\ u.rc = t.rc /\ u.err = t.err /\ u.next = p + n /\ u.loose = t.loose
        /\ u.dirty = With(t.dirty, p, n) /\ u.room = t.room - 1
    BY <1>1, SMT DEF IsTxn, TxnFields, PageDirty
  <1>4. \A x \in Run(p, n) : \A k, i : ~Lives(t, L, k, i, x)
    <2> SUFFICES ASSUME NEW x \in Run(p, n), NEW k, NEW i, Lives(t, L, k, i, x) PROVE FALSE
      OBVIOUS
    <2>1. x \in Nat /\ x < p
      BY LivePage
    <2>2. x \in Nat /\ p <= x
      BY <1>1, <1>2, RunMembers
    <2> QED BY <1>2, <2>1, <2>2
  <1>5. p \notin ToSet(t.loose) /\ p \notin DOMAIN L
    <2>1. p \in Run(p, n)
      BY <1>1, <1>2, RunMembers
    <2>2. p \in ToSet(t.loose) => Lives(t, L, 9, 0, p)
      BY DEF Lives
    <2>3. p \in DOMAIN L => Lives(t, L, 6, p, p)
      BY LimboPage
    <2> QED BY <1>4, <2>1, <2>2, <2>3
  <1>6. Taken(t, u, p, n)
    <2>1. t.next \in Nat /\ t.loose \in Seq(Nat) /\ (t.pglast = 0 => t.pghead = {})
          /\ \A i, j \in DOMAIN t.loose : t.loose[i] = t.loose[j] => i = j
      BY <1>1 DEF IsTxn, Counted
    <2>2. t.next <= u.next /\ u.next \in Nat /\ u.next < MaxPg
      BY <1>1, <1>2, <1>3
    <2>3. /\ u.loose \in Seq(Nat) /\ \A i, j \in DOMAIN u.loose : u.loose[i] = u.loose[j] => i = j
          /\ ToSet(u.loose) \subseteq ToSet(t.loose) \ {p}
          /\ ToSet(t.loose) \subseteq ToSet(u.loose) \cup {p}
      <3>1. u.loose = t.loose
        BY <1>3
      <3> QED BY <1>5, <2>1, <3>1
    <2>4. u.pghead \subseteq t.pghead /\ (t.pglast = 0 => u.pghead = {})
      BY <1>3, <2>1
    <2> QED BY <1>3, <2>1, <2>2, <2>3, <2>4 DEF Taken
  <1>7. Moved(t, L, u, With(L, p, n), Run(p, n), 6, p)
    <2> HIDE DEF p
    <2>1. \A x \in Run(p, n) : \A k, i : Lives(t, L, k, i, x) => k \in {8, 9}
      BY <1>4
    <2>2. \A x \in Run(p, n) : x \notin ToSet(t.loose) /\ x \notin t.pghead
      <3>1. \A x : /\ x \in ToSet(t.loose) => Lives(t, L, 9, 0, x)
                   /\ x \in t.pghead => Lives(t, L, 8, 0, x)
        BY SMT DEF Lives
      <3> QED BY <1>4, <3>1
    <2>3. /\ \A x : x \in u.pghead <=> x \in t.pghead /\ x \notin Run(p, n)
          /\ \A x : x \in ToSet(u.loose) <=> x \in ToSet(t.loose) /\ x \notin Run(p, n)
      BY <1>3, <2>2
    <2> QED BY <1>2, <1>3, <1>5, <2>1, <2>3, LimboMoved
  <1>8. Cover(u, With(L, p, n))
    <2> SUFFICES ASSUME NEW x
                 PROVE  (\E k, i : Lives(u, With(L, p, n), k, i, x)) <=> x \in FirstPage..(u.next - 1)
      BY DEF Cover
    <2>1. (\E k, i : Lives(t, L, k, i, x)) <=> x \in FirstPage..(p - 1)
      BY <1>1 DEF Cover
    <2>2. x \in Run(p, n) <=> x \in Nat /\ p <= x /\ x < p + n
      BY <1>1, <1>2, RunMembers
    <2>3. FirstPage <= p
      BY <1>1 DEF Counted
    <2>4. (\E k, i : Lives(u, With(L, p, n), k, i, x)) <=> x \in Run(p, n) \/ \E k, i : Lives(t, L, k, i, x)
      BY <1>7 DEF Moved
    <2>5. x \in FirstPage..(u.next - 1) <=> x \in Run(p, n) \/ x \in FirstPage..(p - 1)
      BY <1>1, <1>2, <1>3, <2>2, <2>3, SMT DEF FirstPage
    <2> QED BY <2>1, <2>4, <2>5
  <1>9. \A x \in Run(p, n) : t.next <= x
    BY <1>1, <1>2, RunMembers
  <1>10. \A x \in Run(p, n) : \A k, i : Lives(t, L, k, i, x) => k \in {8, 9}
    BY <1>4
  <1>11. n \in Nat \ {0} /\ p \in Nat
    BY <1>2
  <1>12. Good(u, With(L, p, n))
    BY <1>5, <1>6, <1>7, <1>8, <1>9, <1>10, <1>11, TakenGood
  <1> QED BY <1>5, <1>6, <1>12

LEMMA TakeLoose ==
  ASSUME NEW t, NEW L, Good(t, L), Numbers, t.loose # <<>>,
         NEW u, u = [t EXCEPT !.got = Head(t.loose), !.loose = Tail(@)]
  PROVE  Good(u, With(L, u.got, 1)) /\ Taken(t, u, u.got, 1) /\ u.got \in Nat /\ u.got \notin DOMAIN L
  <1> DEFINE p == Head(t.loose)
  <1>1. IsTxn(t) /\ Once(t, L) /\ Cover(t, L) /\ Counted(t) /\ Sized(t, L)
    BY DEF Good
  <1>2. /\ p \in Nat /\ Tail(t.loose) \in Seq(Nat) /\ p = t.loose[1] /\ 1 \in DOMAIN t.loose
        /\ \A i \in DOMAIN Tail(t.loose) : /\ Tail(t.loose)[i] = t.loose[i + 1] /\ i + 1 \in DOMAIN t.loose
                                           /\ i \in Nat /\ i >= 1
        /\ ToSet(t.loose) = ToSet(Tail(t.loose)) \cup {p}
    BY <1>1, PopMembers DEF IsTxn
  <1>3. /\ DOMAIN u = TxnFields /\ u.got = p /\ u.loose = Tail(t.loose) /\ u.pghead = t.pghead
        /\ u.id = t.id /\ u.main = t.main /\ u.free = t.free /\ u.oldest = t.oldest /\ u.pglast = t.pglast
        /\ u.spill = t.spill /\ u.freed = t.freed /\ u.nfreed = t.nfreed /\ u.written = t.written
        /\ u.ops = t.ops /\ u.rc = t.rc /\ u.err = t.err /\ u.next = t.next
        /\ u.dirty = t.dirty /\ u.room = t.room
    BY <1>1, SMT DEF IsTxn, TxnFields
  <1> DEFINE q == Tail(t.loose)
  <1>4. \A i \in DOMAIN q : q[i] = t.loose[i + 1] /\ i + 1 \in DOMAIN t.loose /\ i \in Nat /\ i >= 1
    BY <1>2
  <1>5. \A x : x \in ToSet(q) <=> \E i \in DOMAIN q : x = q[i]
    BY DEF ToSet
  <1>6. ToSet(t.loose) = ToSet(q) \cup {p} /\ p = t.loose[1] /\ 1 \in DOMAIN t.loose /\ p \in Nat /\ q \in Seq(Nat)
    BY <1>2
  <1>7. u.loose = q /\ u.got = p
    BY <1>3
  <1> HIDE DEF p, q
  <1>8. p \notin ToSet(q)
    <2>1. ASSUME NEW i \in DOMAIN q, q[i] = p PROVE FALSE
      <3>1. t.loose[i + 1] = t.loose[1] /\ i + 1 \in DOMAIN t.loose /\ i \in Nat /\ i >= 1
        BY <1>4, <1>6, <2>1
      <3>2. i + 1 = 1
        BY <1>1, <1>6, <3>1 DEF Counted
      <3> QED BY <3>1, <3>2
    <2> QED BY <1>5, <2>1
  <1>9. \A i, j \in DOMAIN q : q[i] = q[j] => i = j
    <2> SUFFICES ASSUME NEW i \in DOMAIN q, NEW j \in DOMAIN q, q[i] = q[j] PROVE i = j
      OBVIOUS
    <2>1. i + 1 = j + 1
      BY <1>1, <1>4 DEF Counted
    <2> QED BY <1>4, <2>1
  <1>10. p \in ToSet(t.loose) /\ p \in DOMAIN t.dirty /\ t.dirty[p] = 1
    <2>1. p \in ToSet(t.loose)
      BY <1>6
    <2>2. p \in DOMAIN t.dirty /\ Block(t, L, p, t.dirty[p])
      BY <1>1, <2>1 DEF Sized
    <2>3. Lives(t, L, 9, 0, p)
      BY <2>1 DEF Lives
    <2>4. t.dirty[p] = 1
      BY <2>2, <2>3, PageSize
    <2> QED BY <2>1, <2>2, <2>4
  <1>11. Run(p, 1) = {p} /\ 1 \in Nat \ {0}
    BY <1>6, RunMembers
  <1>12. \A k, i : Lives(t, L, k, i, p) <=> k = 9 /\ i = 0
    <2>1. Lives(t, L, 9, 0, p)
      BY <1>10 DEF Lives
    <2> QED BY <1>1, <2>1 DEF Once
  <1>13. p \notin DOMAIN L
    <2>1. p \in DOMAIN L => Lives(t, L, 6, p, p)
      BY LimboPage
    <2> QED BY <1>12, <2>1
  <1>14. Taken(t, u, p, 1)
    <2>1. t.next \in Nat /\ t.next < MaxPg /\ (t.pglast = 0 => t.pghead = {})
      BY <1>1 DEF IsTxn, Counted
    <2>2. u.pghead \subseteq t.pghead /\ (t.pglast = 0 => u.pghead = {}) /\ t.next <= u.next
          /\ u.next \in Nat /\ u.next < MaxPg
      BY <1>3, <2>1
    <2>3. /\ u.loose \in Seq(Nat) /\ \A i, j \in DOMAIN u.loose : u.loose[i] = u.loose[j] => i = j
          /\ ToSet(u.loose) \subseteq ToSet(t.loose) \ {p}
          /\ ToSet(t.loose) \subseteq ToSet(u.loose) \cup {p}
      BY <1>6, <1>7, <1>8, <1>9
    <2>4. u.dirty = t.dirty /\ u.room = t.room /\ p \in DOMAIN t.dirty /\ t.dirty[p] = 1
      BY <1>3, <1>10
    <2> QED BY <1>3, <1>7, <2>1, <2>2, <2>3, <2>4 DEF Taken
  <1>15. Moved(t, L, u, With(L, p, 1), Run(p, 1), 6, p)
    <2>1. p \notin t.pghead
      <3>1. p \in t.pghead => Lives(t, L, 8, 0, p)
        BY DEF Lives
      <3> QED BY <1>12, <3>1
    <2>2. \A x \in Run(p, 1) : \A k, i : Lives(t, L, k, i, x) => k \in {8, 9}
      BY <1>11, <1>12
    <2>3. /\ \A x : x \in u.pghead <=> x \in t.pghead /\ x \notin Run(p, 1)
          /\ \A x : x \in ToSet(u.loose) <=> x \in ToSet(t.loose) /\ x \notin Run(p, 1)
      BY <1>3, <1>6, <1>7, <1>8, <1>11, <2>1
    <2> QED BY <1>3, <1>6, <1>11, <1>13, <2>2, <2>3, LimboMoved
  <1>16. Cover(u, With(L, p, 1))
    <2>1. \A x \in Run(p, 1) : \E k, i : Lives(t, L, k, i, x)
      BY <1>11, <1>12
    <2> QED BY <1>1, <1>3, <1>15, <2>1, MovedOnce
  <1>17. \A x \in Run(p, 1) : x \in Mine(t)
    BY <1>10, <1>11 DEF Mine
  <1>18. \A x \in Run(p, 1) : \A k, i : Lives(t, L, k, i, x) => k \in {8, 9}
    BY <1>11, <1>12
  <1>19. Good(u, With(L, p, 1))
    BY <1>6, <1>11, <1>14, <1>15, <1>16, <1>17, <1>18, TakenGood
  <1> QED BY <1>6, <1>7, <1>13, <1>14, <1>19

-----------------------------------------------------------------------------
(* A transaction that lost an operation is only looked at for what it did. *)

Bare(t) ==
  /\ DOMAIN t = TxnFields /\ t.id = newest + 1 /\ t.next < MaxPg /\ t.nfreed \in Nat /\ t.oldest \in Nat
  /\ t.room \in Nat /\ IsFiniteSet(DOMAIN t.dirty)
  /\ t.room + Cardinality(DOMAIN t.dirty) <= DirtyRoom
  /\ \A j \in Referenced :
        /\ t.oldest <= j
        /\ \A x \in UsedPages(snaps[j]) : x \notin t.written /\ x \notin PagesOf(t.dirty)

Lost(t) == Bare(t) /\ t.err /\ ~Ok(t)

LEMMA GoodBare ==
  ASSUME NEW t, NEW L, Good(t, L)
  PROVE  Bare(t)
  BY DEF Good, Bare, IsTxn, Counted, Spared, Mine

LEMMA FailedLost ==
  ASSUME NEW t, NEW L, Good(t, L)
  PROVE  Lost(Failed(t))
  <1> DEFINE u == Failed(t)
  <1>1. IsTxn(t)
    BY DEF Good
  <1>2. /\ DOMAIN u = TxnFields
        /\ u.id = t.id /\ u.next = t.next /\ u.nfreed = t.nfreed /\ u.oldest = t.oldest /\ u.room = t.room
        /\ u.dirty = t.dirty /\ u.written = t.written /\ u.rc = "full" /\ u.err = TRUE
    BY <1>1, SMT DEF IsTxn, TxnFields, Failed
  <1> HIDE DEF u
  <1>3. Bare(t)
    BY GoodBare
  <1>4. Bare(u)
    BY <1>2, <1>3 DEF Bare
  <1> QED BY <1>2, <1>4 DEF Lost, Ok, u

(* What an allocation leaves as it was. *)
Allocated(t, u) ==
  /\ DOMAIN u = TxnFields /\ u.id = t.id /\ u.main = t.main /\ u.free = t.free /\ u.spill = t.spill
  /\ u.freed = t.freed /\ u.nfreed = t.nfreed /\ u.rc = t.rc /\ u.err = t.err /\ u.ops = t.ops
  /\ DOMAIN t.dirty \subseteq DOMAIN u.dirty /\ u.got \in DOMAIN u.dirty
  /\ ToSet(u.loose) \subseteq ToSet(t.loose)
  /\ u.pglast \in {t.pglast} \cup DOMAIN t.free.recs /\ t.pglast <= u.pglast

LEMMA TakenAllocated ==
  ASSUME NEW t, NEW a, NEW u, NEW p, NEW n, IsTxn(t), Fetching(t, a), Taken(a, u, p, n)
  PROVE  Allocated(t, u)
  <1>1. DOMAIN a.dirty \subseteq DOMAIN u.dirty /\ p \in DOMAIN u.dirty
    BY DEF Taken, With
  <1>2. u.pglast \in {t.pglast} \cup DOMAIN t.free.recs /\ t.pglast <= u.pglast
    BY DEF Taken, Fetching
  <1> QED BY <1>1, <1>2 DEF Taken, Fetching, Allocated

LEMMA AllocGood ==
  ASSUME NEW t, NEW L, Good(t, L), Numbers, NEW n \in Nat \ {0}
  PROVE  \/ Lost(PageAlloc(t, n))
         \/ /\ Good(PageAlloc(t, n), With(L, PageAlloc(t, n).got, n)) /\ Allocated(t, PageAlloc(t, n))
            /\ PageAlloc(t, n).got \in Nat /\ PageAlloc(t, n).got \notin DOMAIN L
  <1> DEFINE u == PageAlloc(t, n)
             a == Fetch(t, n)
             R == RunsIn(a.pghead, n)
  <1>1. IsTxn(t)
    BY DEF Good
  <1>2. Good(a, L) /\ Fetching(t, a)
    BY FetchGood
  <1>3. IsTxn(a) /\ a.room = t.room /\ a.pghead \subseteq Nat
    BY <1>2 DEF Fetching, Good, IsTxn
  <1>4. Fetching(t, t)
    BY <1>1 DEF Fetching, IsTxn
  <1>5. ASSUME NEW b, NEW p \in Nat, Fetching(t, b), Good(b, L), Taken(b, u, p, n), Good(u, With(L, p, n)),
               p \notin DOMAIN L
        PROVE  /\ Good(u, With(L, u.got, n)) /\ Allocated(t, u)
               /\ u.got \in Nat /\ u.got \notin DOMAIN L
    <2>1. u.got = p
      BY <1>5 DEF Taken
    <2>2. Allocated(t, u)
      BY <1>1, <1>5, TakenAllocated
    <2> QED BY <1>5, <2>1, <2>2
  <1>6. CASE n = 1 /\ t.loose # <<>>
    <2>1. u = [t EXCEPT !.got = Head(t.loose), !.loose = Tail(@)]
      BY <1>6 DEF PageAlloc
    <2> HIDE DEF u
    <2>2. Good(u, With(L, u.got, 1)) /\ Taken(t, u, u.got, 1) /\ u.got \in Nat /\ u.got \notin DOMAIN L
      BY Zenon, <1>6, <2>1, TakeLoose
    <2> QED BY <1>4, <1>5, <1>6, <2>2 DEF u
  <1>7. CASE ~(n = 1 /\ t.loose # <<>>) /\ t.room = 0
    <2>1. u = Failed(t)
      BY <1>7 DEF PageAlloc
    <2> QED BY <2>1, FailedLost
  <1>8. CASE ~(n = 1 /\ t.loose # <<>>) /\ t.room # 0 /\ R # {}
    <2>1. Min(R) \in R
      <3>1. R \subseteq Nat
        BY <1>3 DEF RunsIn
      <3> QED BY <1>8, <3>1, MinOf
    <2>2. u = PageDirty([a EXCEPT !.pghead = @ \ Run(Min(R), n)], Min(R), n)
      BY <1>8 DEF PageAlloc, TakeRun
    <2>3. Min(R) \in Nat
      BY <1>3, <2>1 DEF RunsIn
    <2> DEFINE p == Min(R)
    <2> HIDE DEF u, a, p
    <2>4. p \in RunsIn(a.pghead, n)
      BY <2>1 DEF p
    <2>5. u = PageDirty([a EXCEPT !.pghead = @ \ Run(p, n)], p, n)
      BY <2>2 DEF p
    <2>6. Good(u, With(L, p, n)) /\ Taken(a, u, p, n) /\ p \notin DOMAIN L
      BY <1>2, <1>3, <1>8, <2>4, <2>5, TakeHead
    <2>7. p \in Nat
      BY <2>3 DEF p
    <2> QED BY <1>2, <1>5, <2>6, <2>7 DEF u
  <1>9. CASE ~(n = 1 /\ t.loose # <<>>) /\ t.room # 0 /\ R = {} /\ MapFull(a, n)
    <2>1. u = Failed(a)
      BY <1>9 DEF PageAlloc, TakeRun
    <2> QED BY <1>2, <2>1, FailedLost
  <1>10. CASE ~(n = 1 /\ t.loose # <<>>) /\ t.room # 0 /\ R = {} /\ ~MapFull(a, n)
    <2>1. u = PageDirty([a EXCEPT !.next = @ + n], a.next, n)
      BY <1>10 DEF PageAlloc, TakeRun
    <2> HIDE DEF u, a
    <2>2. Good(u, With(L, a.next, n)) /\ Taken(a, u, a.next, n) /\ a.next \notin DOMAIN L
      BY <1>2, <1>3, <1>10, <2>1, TakeNew
    <2>3. a.next \in Nat
      BY <1>3 DEF IsTxn
    <2> QED BY <1>2, <1>5, <2>2, <2>3 DEF u
  <1> QED BY <1>6, <1>7, <1>8, <1>9, <1>10

-----------------------------------------------------------------------------
(* Spilling. *)

(* Pages that go from one list of written pages to the other. *)
Listing(t, u) ==
  /\ DOMAIN u = TxnFields
  /\ u.id = t.id /\ u.main = t.main /\ u.free = t.free /\ u.next = t.next /\ u.oldest = t.oldest
  /\ u.pglast = t.pglast /\ u.pghead = t.pghead /\ u.loose = t.loose /\ u.freed = t.freed
  /\ u.nfreed = t.nfreed /\ u.rc = t.rc /\ u.err = t.err /\ u.ops = t.ops
  /\ DOMAIN u.dirty \cup DOMAIN u.spill = DOMAIN t.dirty \cup DOMAIN t.spill

LEMMA ListingGood ==
  ASSUME NEW t, NEW L, Good(t, L), NEW u, IsTxn(u), Listing(t, u),
         \A p \in DOMAIN u.dirty : \/ p \in DOMAIN t.dirty /\ u.dirty[p] = t.dirty[p]
                                   \/ p \in DOMAIN t.spill /\ u.dirty[p] = t.spill[p],
         \A p \in DOMAIN u.spill : \/ p \in DOMAIN t.dirty /\ u.spill[p] = t.dirty[p]
                                   \/ p \in DOMAIN t.spill /\ u.spill[p] = t.spill[p],
         DOMAIN u.dirty \cap DOMAIN u.spill = {}, ToSet(t.loose) \subseteq DOMAIN u.dirty,
         PagesOf(t.dirty) \cup t.written \subseteq PagesOf(u.dirty) \cup u.written,
         u.written \subseteq Mine(t),
         IsFiniteSet(DOMAIN u.dirty), u.room + Cardinality(DOMAIN u.dirty) <= DirtyRoom
  PROVE  Good(u, L)
  <1>1. \A k, i, x : Lives(u, L, k, i, x) <=> Lives(t, L, k, i, x)
    BY SMT DEF Lives, Listing
  <1>2. Once(u, L) /\ Cover(u, L)
    BY <1>1 DEF Good, Once, Cover, Listing
  <1>3. \A p, n : Block(t, L, p, n) => Block(u, L, p, n)
    BY DEF Block, Listing
  <1>4. Sized(u, L)
    BY <1>3 DEF Good, Sized, Listing
  <1>5. PagesOf(u.dirty) \cup PagesOf(u.spill) \subseteq PagesOf(t.dirty) \cup PagesOf(t.spill)
    BY PagesOfMembers
  <1>6. Mine(u) \subseteq Mine(t)
    BY <1>5 DEF Mine, Listing
  <1>7. Spared(u)
    BY <1>6 DEF Good, Spared, Listing
  <1>8. Kept(u, L)
    BY <1>1 DEF Good, Kept
  <1>9. Counted(u)
    BY DEF Good, Counted, Listing
  <1> QED BY <1>2, <1>4, <1>7, <1>8, <1>9 DEF Good

LEMMA UnspillGood ==
  ASSUME NEW t, NEW L, Good(t, L), NEW p \in DOMAIN t.spill, t.room # 0
  PROVE  /\ Good(Unspill(t, p), L) /\ Listing(t, Unspill(t, p)) /\ Unspill(t, p).got = p
         /\ p \in DOMAIN Unspill(t, p).dirty /\ DOMAIN t.dirty \subseteq DOMAIN Unspill(t, p).dirty
  <1> DEFINE u == Unspill(t, p)
             n == t.spill[p]
  <1>1. IsTxn(t) /\ IsRuns(t.spill) /\ IsRuns(t.dirty) /\ Sized(t, L)
    BY DEF Good, IsTxn
  <1>2. p \in Nat /\ n \in Nat \ {0}
    BY <1>1, FirstInRun
  <1>3. \A x \in Run(p, n) : x \in PagesOf(t.spill)
    BY <1>1, FirstInRun
  <1>4. u = PageDirty([t EXCEPT !.spill = Without(@, p), !.written = @ \ Run(p, n)], p, n)
    BY DEF Unspill
  <1> HIDE DEF u, n
  <1>5. /\ DOMAIN u = TxnFields
        /\ u.id = t.id /\ u.main = t.main /\ u.free = t.free /\ u.next = t.next /\ u.oldest = t.oldest
        /\ u.pglast = t.pglast /\ u.pghead = t.pghead /\ u.loose = t.loose /\ u.freed = t.freed
        /\ u.nfreed = t.nfreed /\ u.rc = t.rc /\ u.err = t.err /\ u.ops = t.ops
        /\ u.got = p /\ u.spill = Without(t.spill, p) /\ u.written = t.written \ Run(p, n)
        /\ u.dirty = With(t.dirty, p, n) /\ u.room = t.room - 1
    BY <1>1, <1>4, SMT DEF IsTxn, TxnFields, PageDirty
  <1>6. /\ IsRuns(u.dirty) /\ DOMAIN u.dirty = DOMAIN t.dirty \cup {p} /\ u.dirty[p] = n
        /\ \A q \in DOMAIN t.dirty : q # p => u.dirty[q] = t.dirty[q]
        /\ PagesOf(u.dirty) \subseteq PagesOf(t.dirty) \cup Run(p, n)
        /\ Run(p, n) \subseteq PagesOf(u.dirty)
        /\ p \notin DOMAIN t.dirty => PagesOf(t.dirty) \subseteq PagesOf(u.dirty)
        /\ u.room \in Nat /\ IsFiniteSet(DOMAIN u.dirty)
        /\ u.room + Cardinality(DOMAIN u.dirty) <= DirtyRoom
    <2>1. u.dirty = With(t.dirty, p, n) /\ u.room = t.room - 1 /\ p \in Nat /\ n \in Nat \ {0}
      BY <1>2, <1>5
    <2>2. Dirtied(t, u, p, n)
      BY <2>1, OneMoreDirty
    <2> QED BY <2>2 DEF Dirtied
  <1>7. /\ IsRuns(u.spill) /\ DOMAIN u.spill = DOMAIN t.spill \ {p}
        /\ \A q \in DOMAIN t.spill : q # p => u.spill[q] = t.spill[q]
    <2> DEFINE B == Without(t.spill, p)
    <2>1. IsRuns(B) /\ DOMAIN B = DOMAIN t.spill \ {p}
      BY <1>1, SMT DEF Without, IsRuns
    <2>2. \A q \in DOMAIN t.spill : q # p => B[q] = t.spill[q]
      BY DEF Without
    <2>3. u.spill = B
      BY <1>5
    <2> HIDE DEF B
    <2> QED BY <2>1, <2>2, <2>3
  <1>8. p \notin DOMAIN t.dirty
    BY <1>1 DEF Sized
  <1>9. IsTxn(u)
    BY <1>1, <1>2, <1>5, <1>6, <1>7, SMT DEF IsTxn
  <1>10. DOMAIN u.dirty \cup DOMAIN u.spill = DOMAIN t.dirty \cup DOMAIN t.spill
    BY <1>6, <1>7
  <1>11. Listing(t, u)
    BY <1>5, <1>10 DEF Listing
  <1>12. DOMAIN u.dirty \cap DOMAIN u.spill = {} /\ ToSet(t.loose) \subseteq DOMAIN u.dirty
    BY <1>1, <1>6, <1>7 DEF Sized
  <1>13. PagesOf(t.dirty) \cup t.written \subseteq PagesOf(u.dirty) \cup u.written
    BY <1>5, <1>6, <1>8
  <1>14. u.written \subseteq Mine(t)
    BY <1>5 DEF Mine
  <1>15. \A q \in DOMAIN u.dirty : \/ q \in DOMAIN t.dirty /\ u.dirty[q] = t.dirty[q]
                                   \/ q \in DOMAIN t.spill /\ u.dirty[q] = t.spill[q]
    BY <1>6 DEF n
  <1>16. \A q \in DOMAIN u.spill : \/ q \in DOMAIN t.dirty /\ u.spill[q] = t.dirty[q]
                                   \/ q \in DOMAIN t.spill /\ u.spill[q] = t.spill[q]
    BY <1>7
  <1>17. Good(u, L)
    BY <1>6, <1>9, <1>11, <1>12, <1>13, <1>14, <1>15, <1>16, ListingGood
  <1> QED BY <1>5, <1>6, <1>11, <1>17 DEF u

LEMMA SpillGood ==
  ASSUME NEW t, NEW L, Good(t, L), NEW keep
  PROVE  Good(PageSpill(t, keep), L) /\ Listing(t, PageSpill(t, keep))
  <1> DEFINE can == DOMAIN t.dirty \ (ToSet(t.loose) \cup RootOf(t.main) \cup RootOf(t.free) \cup keep)
             out == {p \in can : Cardinality({q \in can : q > p}) < Max({SpillNeed, SpillShare})}
             runs == [p \in out |-> t.dirty[p]]
             u == [t EXCEPT !.dirty = [p \in DOMAIN @ \ out |-> @[p]],
                            !.spill = [p \in DOMAIN @ \cup out |-> IF p \in out THEN runs[p] ELSE @[p]],
                            !.room = @ + Cardinality(out), !.written = @ \cup PagesOf(runs)]
  <1>1. IsTxn(t) /\ IsRuns(t.spill) /\ IsRuns(t.dirty) /\ Sized(t, L) /\ Counted(t)
    BY DEF Good, IsTxn
  <1>2. PageSpill(t, keep) \in {t, u}
    BY DEF PageSpill
  <1>3. out \subseteq DOMAIN t.dirty /\ out \cap ToSet(t.loose) = {}
    OBVIOUS
  <1> HIDE DEF out
  <1> DEFINE d == [p \in DOMAIN t.dirty \ out |-> t.dirty[p]]
             s == [p \in DOMAIN t.spill \cup out |-> IF p \in out THEN t.dirty[p] ELSE t.spill[p]]
  <1>4. /\ DOMAIN u = TxnFields
        /\ u.id = t.id /\ u.main = t.main /\ u.free = t.free /\ u.next = t.next /\ u.oldest = t.oldest
        /\ u.pglast = t.pglast /\ u.pghead = t.pghead /\ u.loose = t.loose /\ u.freed = t.freed
        /\ u.nfreed = t.nfreed /\ u.rc = t.rc /\ u.err = t.err /\ u.ops = t.ops /\ u.got = t.got
        /\ u.dirty = d /\ u.spill = s /\ u.room = t.room + Cardinality(out)
        /\ u.written = t.written \cup PagesOf(runs)
    BY <1>1, SMT DEF IsTxn, TxnFields
  <1>5. /\ DOMAIN runs = out /\ IsRuns(runs) /\ \A p \in out : runs[p] = t.dirty[p]
        /\ IsRuns(d) /\ DOMAIN d = DOMAIN t.dirty \ out /\ \A p \in DOMAIN d : d[p] = t.dirty[p]
        /\ IsRuns(s) /\ DOMAIN s = DOMAIN t.spill \cup out
        /\ \A p \in DOMAIN s : s[p] = IF p \in out THEN t.dirty[p] ELSE t.spill[p]
    BY <1>1, <1>3, SMT DEF IsRuns
  <1> HIDE DEF u, d, s, runs
  <1>6. PagesOf(runs) \subseteq PagesOf(t.dirty) /\ PagesOf(t.dirty) \subseteq PagesOf(d) \cup PagesOf(runs)
    <2>1. ASSUME NEW x, x \in PagesOf(t.dirty) PROVE x \in PagesOf(d) \cup PagesOf(runs)
      <3>1. PICK p \in DOMAIN t.dirty : x \in Run(p, t.dirty[p])
        BY <2>1, PagesOfMembers
      <3>2. CASE p \in out
        <4>1. x \in Run(p, runs[p]) /\ p \in DOMAIN runs
          BY <1>5, <3>1, <3>2
        <4> QED BY <4>1, PagesOfMembers
      <3>3. CASE p \notin out
        <4>1. x \in Run(p, d[p]) /\ p \in DOMAIN d
          BY <1>5, <3>1, <3>3
        <4> QED BY <4>1, PagesOfMembers
      <3> QED BY <3>2, <3>3
    <2>2. ASSUME NEW x, x \in PagesOf(runs) PROVE x \in PagesOf(t.dirty)
      <3>1. PICK p \in DOMAIN runs : x \in Run(p, runs[p])
        BY <2>2, PagesOfMembers
      <3>2. x \in Run(p, t.dirty[p]) /\ p \in DOMAIN t.dirty
        BY <1>3, <1>5, <3>1
      <3> QED BY <3>2, PagesOfMembers
    <2> QED BY <2>1, <2>2
  <1>7. PagesOf(t.dirty) \subseteq Nat
    <2> SUFFICES ASSUME NEW x, x \in PagesOf(t.dirty) PROVE x \in Nat
      OBVIOUS
    <2>1. PICK p \in DOMAIN t.dirty : x \in Run(p, t.dirty[p])
      BY PagesOfMembers
    <2> QED BY <1>1, <2>1, FirstInRun
  <1>8. /\ IsFiniteSet(DOMAIN d) /\ Cardinality(out) \in Nat
        /\ t.room + Cardinality(out) + Cardinality(DOMAIN d) <= DirtyRoom
    <2> DEFINE D == DOMAIN t.dirty
    <2>1. IsFiniteSet(D) /\ t.room + Cardinality(D) <= DirtyRoom /\ t.room \in Nat /\ DirtyRoom \in Nat
      BY <1>1, PagesAssumption DEF Counted, IsTxn
    <2>2. IsFiniteSet(out)
      BY <1>3, <2>1, FS_Subset
    <2> HIDE DEF D
    <2>3. /\ IsFiniteSet(D \ out) /\ Cardinality(D \ out) = Cardinality(D) - Cardinality(D \cap out)
      BY <2>1, FS_Difference
    <2>4. D \cap out = out /\ DOMAIN d = D \ out
      BY <1>3, <1>5 DEF D
    <2>5. Cardinality(out) \in Nat /\ Cardinality(D) \in Nat
      BY <2>1, <2>2, FS_CardinalityType
    <2>6. Cardinality(D \ out) = Cardinality(D) - Cardinality(out)
      BY <2>3, <2>4
    <2>7. t.room + Cardinality(out) + (Cardinality(D) - Cardinality(out)) <= DirtyRoom
      BY <2>1, <2>5
    <2> QED BY <2>3, <2>4, <2>5, <2>6, <2>7
  <1>9. IsTxn(u)
    BY <1>1, <1>4, <1>5, <1>6, <1>7, <1>8, SMT DEF IsTxn
  <1>10. DOMAIN u.dirty \cup DOMAIN u.spill = DOMAIN t.dirty \cup DOMAIN t.spill
    BY <1>3, <1>4, <1>5
  <1>11. Listing(t, u)
    BY <1>4, <1>10 DEF Listing
  <1>12. DOMAIN u.dirty \cap DOMAIN u.spill = {} /\ ToSet(t.loose) \subseteq DOMAIN u.dirty
    BY <1>1, <1>3, <1>4, <1>5 DEF Sized
  <1>13. PagesOf(t.dirty) \cup t.written \subseteq PagesOf(u.dirty) \cup u.written
    BY <1>4, <1>6
  <1>14. u.written \subseteq Mine(t)
    BY <1>4, <1>6 DEF Mine
  <1>15. \A q \in DOMAIN u.dirty : q \in DOMAIN t.dirty /\ u.dirty[q] = t.dirty[q]
    BY <1>4, <1>5
  <1>16. \A q \in DOMAIN u.spill : \/ q \in DOMAIN t.dirty /\ u.spill[q] = t.dirty[q]
                                   \/ q \in DOMAIN t.spill /\ u.spill[q] = t.spill[q]
    BY <1>3, <1>4, <1>5
  <1>17. IsFiniteSet(DOMAIN u.dirty) /\ u.room + Cardinality(DOMAIN u.dirty) <= DirtyRoom
    BY <1>4, <1>8
  <1>18. Good(u, L)
    BY <1>9, <1>11, <1>12, <1>13, <1>14, <1>15, <1>16, <1>17, ListingGood
  <1>19. Listing(t, t)
    BY <1>1 DEF Listing, IsTxn
  <1> QED BY <1>2, <1>11, <1>18, <1>19

-----------------------------------------------------------------------------
(* Pages that are freed. *)

LEMMA RunFinite ==
  ASSUME NEW p \in Nat, NEW n \in Nat
  PROVE  IsFiniteSet(Run(p, n))
  <1>1. p \in Int /\ p + n - 1 \in Int
    OBVIOUS
  <1> QED BY <1>1, FS_Interval DEF Run

LEMMA MoreFreed ==
  ASSUME NEW S, IsFiniteSet(S), NEW P, IsFiniteSet(P), S \cap P = {}
  PROVE  /\ IsFiniteSet(S \cup P) /\ Cardinality(S \cup P) = Cardinality(S) + Cardinality(P)
         /\ Cardinality(P) \in Nat /\ Cardinality(S) \in Nat
  <1>1. /\ IsFiniteSet(S \cup P)
        /\ Cardinality(S \cup P) = Cardinality(S) + Cardinality(P) - Cardinality(S \cap P)
    BY FS_Union
  <1>2. Cardinality(S) \in Nat /\ Cardinality(P) \in Nat
    BY FS_CardinalityType
  <1>3. Cardinality(S \cap P) = 0
    BY FS_EmptySet
  <1>4. Cardinality(S \cup P) = Cardinality(S) + Cardinality(P)
    BY <1>1, <1>2, <1>3
  <1> QED BY <1>1, <1>2, <1>4

(* Everything but where free pages are. *)
Freeing(t, u) ==
  /\ DOMAIN u = TxnFields /\ u.got \in Nat
  /\ u.id = t.id /\ u.next = t.next /\ u.oldest = t.oldest /\ u.pglast = t.pglast

(* What the lists of written pages lose. *)
Sheds(t, u, X) ==
  /\ \A p \in DOMAIN u.dirty : p \in DOMAIN t.dirty /\ u.dirty[p] = t.dirty[p]
  /\ \A p \in DOMAIN u.spill : p \in DOMAIN t.spill /\ u.spill[p] = t.spill[p]
  /\ \A p \in DOMAIN t.dirty : p \notin DOMAIN u.dirty => Run(p, t.dirty[p]) \subseteq X
  /\ t.written \ X \subseteq u.written
  /\ ToSet(u.loose) \subseteq DOMAIN u.dirty
  /\ Mine(u) \subseteq Mine(t)
  /\ \A k \in DOMAIN u.free.recs : k \in DOMAIN t.free.recs /\ u.free.recs[k].pgs = t.free.recs[k].pgs

Placed(t, L, u, M) ==
  \A p, n : /\ Block(t, L, p, n)
            /\ p \in DOMAIN u.dirty \cup DOMAIN u.spill
            => Block(u, M, p, n)

(* Pages that become free, in the list of freed pages, at hand or loose.   *)
LEMMA FreedGood ==
  ASSUME NEW t, NEW L, Good(t, L), Numbers, NEW M, IsRuns(M), NEW u, Freeing(t, u), IsTxn(u),
         NEW X, NEW d \in 7..9, Moved(t, L, u, M, X, d, 0),
         \A x \in X : \E k, i : Lives(t, L, k, i, x),
         Sheds(t, u, X), Placed(t, L, u, M), Counted(u)
  PROVE  Good(u, M)
  <1>1. Once(u, M) /\ Cover(u, M)
    BY MovedOnce DEF Good, Freeing
  <1>2. Sized(u, M)
    BY DEF Good, Sized, Sheds, Placed
  <1>3. Spared(u)
    <2>1. Claims(t, u)
      <3>1. IsTxn(t) /\ \A j \in Referenced : t.oldest <= j
        BY DEF Good, Spared
      <3> QED BY <3>1, SMT DEF Claims, Freeing, IsTxn, Sheds
    <2> QED BY <2>1, SparedBy DEF Good
  <1>4. Kept(u, M)
    <2>1. ~(d <= 6)
      OBVIOUS
    <2>2. ASSUME NEW x, x \in PagesOf(t.dirty) \/ x \in t.written, x \notin X
          PROVE  x \in PagesOf(u.dirty) \/ x \in u.written
      <3>1. CASE x \in t.written
        BY <2>2, <3>1 DEF Sheds
      <3>2. CASE x \in PagesOf(t.dirty)
        <4>1. PICK p \in DOMAIN t.dirty : x \in Run(p, t.dirty[p])
          BY <3>2, PagesOfMembers
        <4>2. p \in DOMAIN u.dirty /\ u.dirty[p] = t.dirty[p]
          BY <2>2, <4>1 DEF Sheds
        <4>3. x \in PagesOf(u.dirty)
          BY <4>1, <4>2, PagesOfMembers
        <4> QED BY <4>3
      <3> QED BY <2>2, <3>1, <3>2
    <2>3. Kept(t, L)
      BY DEF Good
    <2> QED BY <2>1, <2>2, <2>3, MovedKept
  <1> QED BY <1>1, <1>2, <1>3, <1>4 DEF Good

(* mdb_midl_append, whatever else becomes of the pages. *)
Appends(t, u, P) ==
  /\ Freeing(t, u)
  /\ u.pghead = t.pghead /\ u.loose = t.loose /\ u.room = t.room /\ u.written = t.written
  /\ u.dirty = t.dirty /\ u.spill = t.spill /\ u.freed = t.freed \cup P
  /\ u.nfreed = t.nfreed + Cardinality(P)

LEMMA AppendGood ==
  ASSUME NEW t, NEW L, Good(t, L), Numbers, NEW M, IsRuns(M), NEW u, NEW P, Appends(t, u, P),
         IsFiniteSet(P), P \subseteq Nat, IsMain(u.main), IsFree(u.free),
         Moved(t, L, u, M, P, 7, 0), \A x \in P : \E k, i : k <= 6 /\ Lives(t, L, k, i, x),
         Placed(t, L, u, M),
         \A k \in DOMAIN u.free.recs : k \in DOMAIN t.free.recs /\ u.free.recs[k].pgs = t.free.recs[k].pgs
  PROVE  Good(u, M)
  <1>1. IsTxn(t) /\ Counted(t) /\ Once(t, L) /\ Sized(t, L)
    BY DEF Good
  <1>2. t.freed \cap P = {}
    <2>1. \A x \in t.freed : Lives(t, L, 7, 0, x)
      BY DEF Lives
    <2>2. ASSUME NEW x \in P, x \in t.freed PROVE FALSE
      <3>1. PICK k, i : k <= 6 /\ Lives(t, L, k, i, x)
        OBVIOUS
      <3>2. k = 7
        BY <1>1, <2>1, <2>2, <3>1 DEF Once
      <3> QED BY <3>1, <3>2
    <2> QED BY <2>2
  <1>3. /\ IsFiniteSet(u.freed) /\ u.nfreed = Cardinality(u.freed) /\ u.nfreed \in Nat
    <2>1. IsFiniteSet(t.freed) /\ t.nfreed = Cardinality(t.freed) /\ t.nfreed \in Nat
      BY <1>1 DEF Counted, IsTxn
    <2>2. /\ IsFiniteSet(t.freed \cup P) /\ Cardinality(t.freed \cup P) = Cardinality(t.freed) + Cardinality(P)
          /\ Cardinality(P) \in Nat
      BY <1>2, <2>1, MoreFreed
    <2>3. u.freed = t.freed \cup P /\ u.nfreed = t.nfreed + Cardinality(P)
      BY DEF Appends
    <2> QED BY <2>1, <2>2, <2>3
  <1>4. IsTxn(u)
    <2>1. u.freed \subseteq Nat
      BY <1>1 DEF IsTxn, Appends
    <2> QED BY <1>1, <1>3, <2>1 DEF IsTxn, Appends, Freeing
  <1>5. Sheds(t, u, P)
    <2>1. Mine(u) = Mine(t)
      BY DEF Mine, Appends, Freeing
    <2> QED BY <1>1, <2>1 DEF Sheds, Appends, Sized
  <1>6. Counted(u)
    BY <1>1, <1>3 DEF Counted, Appends, Freeing
  <1>7. \A x \in P : \E k, i : Lives(t, L, k, i, x)
    OBVIOUS
  <1>8. 7 \in 7..9 /\ Freeing(t, u)
    BY DEF Appends
  <1> QED BY <1>4, <1>5, <1>6, <1>7, <1>8, FreedGood

LEMMA FreeLimbo ==
  ASSUME NEW t, NEW p \in Nat, NEW n \in Nat \ {0}, Good(t, One(p, n)), Numbers,
         NEW u, Appends(t, u, Run(p, n)), u.main = t.main, u.free = t.free
  PROVE  Good(u, Nil)
  <1>1. IsTxn(t) /\ p \in Nat /\ n \in Nat \ {0}
    BY DEF Good
  <1>2. DOMAIN One(p, n) = {p} /\ One(p, n)[p] = n
    BY <1>1, OneMembers
  <1>3. \A x \in Run(p, n) : \A k, i : Lives(t, One(p, n), k, i, x) <=> k = 6 /\ i = p
    BY <1>2, LimboPage
  <1>4. ASSUME NEW x, NEW k, NEW i
        PROVE  Lives(u, Nil, k, i, x) <=> IF x \in Run(p, n) THEN k = 7 /\ i = 0 ELSE Lives(t, One(p, n), k, i, x)
    <2>1. ~Lives(u, Nil, 6, i, x)
      BY NilMembers
    <2>2. Lives(t, One(p, n), 6, i, x) => x \in Run(p, n)
      BY <1>2, SMT DEF Lives
    <2>3. CASE k = 6
      BY <2>1, <2>2, <2>3
    <2>4. CASE k = 7
      BY <1>3, <2>4, SMT DEF Lives, Appends
    <2>5. CASE k # 6 /\ k # 7
      <3>1. x \in Run(p, n) => ~Lives(t, One(p, n), k, i, x)
        BY <1>3, <2>5
      <3> QED BY <2>5, <3>1, SMT DEF Lives, Appends, Freeing
    <2> QED BY <2>3, <2>4, <2>5
  <1>5. Moved(t, One(p, n), u, Nil, Run(p, n), 7, 0)
    BY <1>4 DEF Moved
  <1>6. IsFiniteSet(Run(p, n)) /\ Run(p, n) \subseteq Nat
    BY <1>1, RunFinite, RunMembers
  <1>7. Placed(t, One(p, n), u, Nil)
    <2>1. p \in Run(p, n)
      BY <1>1, RunMembers
    <2> QED BY <1>2, <2>1, SMT DEF Placed, Block, Appends
  <1>8. IsMain(u.main) /\ IsFree(u.free)
    BY <1>1 DEF IsTxn
  <1>9. \A x \in Run(p, n) : \E k, i : k <= 6 /\ Lives(t, One(p, n), k, i, x)
    <2> SUFFICES ASSUME NEW x \in Run(p, n) PROVE \E k, i : k <= 6 /\ Lives(t, One(p, n), k, i, x)
      OBVIOUS
    <2>1. Lives(t, One(p, n), 6, p, x) /\ 6 <= 6
      BY <1>3
    <2> QED BY <2>1
  <1>10. \A k \in DOMAIN u.free.recs : k \in DOMAIN t.free.recs /\ u.free.recs[k].pgs = t.free.recs[k].pgs
    OBVIOUS
  <1> QED BY <1>5, <1>6, <1>7, <1>8, <1>9, <1>10, NilMembers, AppendGood

NoTwice(s) == \A i, j \in DOMAIN s : s[i] = s[j] => i = j

LEMMA PushNoTwice ==
  ASSUME NEW s \in Seq(Nat), NoTwice(s), NEW p \in Nat, p \notin ToSet(s)
  PROVE  NoTwice(<<p>> \o s)
  <1> DEFINE q == <<p>> \o s
             n == Len(s)
  <1>1. Len(q) = n + 1 /\ \A i \in DOMAIN q : q[i] = IF i = 1 THEN p ELSE s[i - 1]
    BY PushMembers
  <1>2. q \in Seq(Nat)
    BY PushMembers
  <1>3. DOMAIN s = 1..n /\ n \in Nat
    OBVIOUS
  <1> HIDE DEF q, n
  <1>4. DOMAIN q = 1..(n + 1)
    BY <1>1, <1>2
  <1>5. \A l \in DOMAIN q : l # 1 => l - 1 \in DOMAIN s /\ q[l] = s[l - 1] /\ l \in Nat
    BY <1>1, <1>3, <1>4
  <1>6. \A l \in DOMAIN s : s[l] # p
    BY DEF ToSet
  <1>7. \A l \in DOMAIN q : l = 1 => q[l] = p
    BY <1>1
  <1>8. ASSUME NEW i \in DOMAIN q, NEW j \in DOMAIN q, q[i] = q[j] PROVE i = j
    <2>1. CASE i = 1 \/ j = 1
      BY <1>5, <1>6, <1>7, <1>8, <2>1
    <2>2. CASE i # 1 /\ j # 1
      <3>1. i - 1 = j - 1
        BY <1>5, <1>8, <2>2 DEF NoTwice
      <3> QED BY <1>5, <2>2, <3>1
    <2> QED BY <2>1, <2>2
  <1> QED BY <1>8 DEF NoTwice, q

LEMMA LooseGood ==
  ASSUME NEW t, NEW p \in Nat, Good(t, One(p, 1)), Numbers, p \in DOMAIN t.dirty,
         NEW q \in Seq(Nat), NoTwice(q), ToSet(q) = ToSet(t.loose) \cup {p},
         NEW u, u = [t EXCEPT !.loose = q]
  PROVE  Good(u, Nil)
  <1>1. IsTxn(t) /\ Sized(t, One(p, 1)) /\ Counted(t)
    BY DEF Good
  <1>2. /\ DOMAIN u = TxnFields /\ u.got = t.got /\ u.pghead = t.pghead /\ u.loose = q
        /\ u.id = t.id /\ u.main = t.main /\ u.free = t.free /\ u.oldest = t.oldest /\ u.pglast = t.pglast
        /\ u.spill = t.spill /\ u.freed = t.freed /\ u.nfreed = t.nfreed /\ u.written = t.written
        /\ u.next = t.next /\ u.dirty = t.dirty /\ u.room = t.room
    BY <1>1, SMT DEF IsTxn, TxnFields
  <1>3. ToSet(u.loose) = ToSet(t.loose) \cup {p}
    BY <1>2
  <1>4. DOMAIN One(p, 1) = {p} /\ One(p, 1)[p] = 1
    BY OnePage
  <1>5. Run(p, One(p, 1)[p]) = {p}
    BY <1>4, RunMembers
  <1>6. \A k, i : Lives(t, One(p, 1), k, i, p) <=> k = 6 /\ i = p
    <2>1. p \in DOMAIN One(p, 1)
      BY <1>4
    <2>2. \A x \in Run(p, One(p, 1)[p]) : \A k, i : Lives(t, One(p, 1), k, i, x) <=> k = 6 /\ i = p
      BY <2>1, LimboPage
    <2> QED BY <1>5, <2>2
  <1>7. Moved(t, One(p, 1), u, Nil, {p}, 9, 0)
    <2> SUFFICES ASSUME NEW x, NEW k, NEW i
                 PROVE  Lives(u, Nil, k, i, x) <=> IF x \in {p} THEN k = 9 /\ i = 0 ELSE Lives(t, One(p, 1), k, i, x)
      BY DEF Moved
    <2>1. CASE k = 6
      <3>1. ~Lives(u, Nil, 6, i, x) /\ (Lives(t, One(p, 1), 6, i, x) <=> i = p /\ x = p)
        BY NilMembers, OnePage
      <3> QED BY <2>1, <3>1
    <2>2. CASE k = 9
      <3>1. Lives(u, Nil, 9, i, x) <=> i = 0 /\ x \in ToSet(u.loose)
        BY SMT DEF Lives
      <3>2. Lives(t, One(p, 1), 9, i, x) <=> i = 0 /\ x \in ToSet(t.loose)
        BY SMT DEF Lives
      <3> QED BY <1>3, <1>6, <2>2, <3>1, <3>2
    <2>3. CASE k # 6 /\ k # 9
      <3>1. x = p => ~Lives(t, One(p, 1), k, i, x)
        BY <1>6, <2>3
      <3> QED BY <1>2, <2>3, <3>1, SMT DEF Lives
    <2> QED BY <2>1, <2>2, <2>3
  <1>8. IsTxn(u)
    BY <1>1, <1>2 DEF IsTxn
  <1>9. Freeing(t, u)
    BY <1>1, <1>2 DEF Freeing, IsTxn
  <1>10. Sheds(t, u, {p})
    <2>1. ToSet(u.loose) \subseteq DOMAIN u.dirty
      BY <1>1, <1>2, <1>3 DEF Sized
    <2>2. p \in PagesOf(t.dirty)
      BY <1>1, FirstInRun DEF IsTxn
    <2>3. Mine(u) \subseteq Mine(t)
      BY <1>2, <1>3, <2>2 DEF Mine
    <2> QED BY <1>2, <2>1, <2>3 DEF Sheds
  <1>11. Placed(t, One(p, 1), u, Nil)
    <2> SUFFICES ASSUME NEW x, NEW n, Block(t, One(p, 1), x, n) PROVE Block(u, Nil, x, n)
      BY DEF Placed
    <2>1. CASE x = p
      <3>1. n = 1 /\ p \in ToSet(u.loose)
        BY <1>3, <1>4, <2>1, LimboSize
      <3> QED BY <2>1, <3>1 DEF Block
    <2>2. CASE x # p
      BY <1>2, <1>3, <1>4, <2>2 DEF Block
    <2> QED BY <2>1, <2>2
  <1>12. Counted(u)
    BY <1>1, <1>2 DEF Counted, NoTwice
  <1>13. \A x \in {p} : \E k, i : Lives(t, One(p, 1), k, i, x)
    BY <1>6
  <1>14. 9 \in 7..9
    OBVIOUS
  <1> QED BY <1>7, <1>8, <1>9, <1>10, <1>11, <1>12, <1>13, <1>14, NilMembers, FreedGood

LEMMA AppendFields ==
  ASSUME NEW t, IsTxn(t), NEW P
  PROVE  LET u == Append_(t, P)
         IN  /\ Appends(t, u, P) /\ u.main = t.main /\ u.free = t.free
             /\ u.rc = t.rc /\ u.err = t.err /\ u.ops = t.ops /\ u.got = t.got
  BY SMT DEF Append_, Appends, Freeing, IsTxn, TxnFields

(* What freeing leaves as it was. *)
Freed(t, u) ==
  /\ DOMAIN u = TxnFields /\ u.id = t.id /\ u.main = t.main /\ u.free = t.free /\ u.pglast = t.pglast
  /\ u.rc = t.rc /\ u.err = t.err /\ u.ops = t.ops /\ u.got = t.got
  /\ t.freed \subseteq u.freed
  /\ t.pglast = 0 => u.loose = t.loose

LEMMA OvpageFreeGood ==
  ASSUME NEW t, NEW p \in Nat, NEW n \in Nat \ {0}, Good(t, One(p, n)), Numbers
  PROVE  /\ Good(OvpageFree(t, p, n), Nil) /\ Freed(t, OvpageFree(t, p, n))
         /\ OvpageFree(t, p, n).loose = t.loose
         /\ DOMAIN t.dirty \cup DOMAIN t.spill \subseteq
               DOMAIN OvpageFree(t, p, n).dirty \cup DOMAIN OvpageFree(t, p, n).spill \cup {p}
  <1> DEFINE L == One(p, n)
             u == [t EXCEPT !.room = IF p \in DOMAIN t.dirty THEN @ + 1 ELSE @,
                            !.dirty = Without(@, p), !.spill = Without(@, p),
                            !.written = @ \ Run(p, n), !.pghead = @ \cup Run(p, n)]
  <1>1. IsTxn(t) /\ Sized(t, L) /\ Counted(t) /\ Once(t, L) /\ IsRuns(t.dirty) /\ IsRuns(t.spill)
    BY DEF Good, IsTxn
  <1>2. p \in Nat /\ n \in Nat \ {0} /\ DOMAIN L = {p} /\ L[p] = n
    BY OneMembers
  <1>3. \A x \in Run(p, n) : \A k, i : Lives(t, L, k, i, x) <=> k = 6 /\ i = p
    BY <1>2, LimboPage
  <1>4. \A m : Block(t, L, p, m) => m = n
    BY <1>2, LimboSize
  <1> HIDE DEF L
  <1>5. p \in Run(p, n) /\ Run(p, n) \subseteq Nat
    BY <1>2, RunMembers
  <1>6. CASE HasHead(t) /\ p \in DOMAIN t.dirty \cup DOMAIN t.spill
    <2>1. OvpageFree(t, p, n) = u
      BY <1>6 DEF OvpageFree
    <2> DEFINE d == Without(t.dirty, p)
               s == Without(t.spill, p)
    <2>2. /\ DOMAIN u = TxnFields /\ u.got = t.got /\ u.pghead = t.pghead \cup Run(p, n) /\ u.loose = t.loose
          /\ u.id = t.id /\ u.main = t.main /\ u.free = t.free /\ u.oldest = t.oldest /\ u.pglast = t.pglast
          /\ u.spill = s /\ u.freed = t.freed /\ u.nfreed = t.nfreed
          /\ u.written = t.written \ Run(p, n)
          /\ u.next = t.next /\ u.dirty = d /\ u.rc = t.rc /\ u.err = t.err /\ u.ops = t.ops
          /\ u.room = IF p \in DOMAIN t.dirty THEN t.room + 1 ELSE t.room
      BY <1>1, SMT DEF IsTxn, TxnFields
    <2>3. /\ IsRuns(d) /\ DOMAIN d = DOMAIN t.dirty \ {p} /\ \A q \in DOMAIN d : d[q] = t.dirty[q]
          /\ IsRuns(s) /\ DOMAIN s = DOMAIN t.spill \ {p} /\ \A q \in DOMAIN s : s[q] = t.spill[q]
      BY <1>1, SMT DEF IsRuns, Without
    <2> HIDE DEF u, d, s
    <2>4. p \notin ToSet(t.loose)
      <3>1. p \in ToSet(t.loose) => Lives(t, L, 9, 0, p)
        BY DEF Lives
      <3> QED BY <1>3, <1>5, <3>1
    <2>5. Run(p, n) \subseteq PagesOf(t.dirty) \cup PagesOf(t.spill)
      <3>1. CASE p \in DOMAIN t.dirty
        <4>1. Block(t, L, p, t.dirty[p])
          BY <1>1, <3>1 DEF Sized
        <4>2. t.dirty[p] = n
          BY <1>4, <4>1
        <4>3. \A x \in Run(p, t.dirty[p]) : x \in PagesOf(t.dirty)
          BY <1>1, <3>1, FirstInRun
        <4> QED BY <4>2, <4>3
      <3>2. CASE p \in DOMAIN t.spill
        <4>1. Block(t, L, p, t.spill[p])
          BY <1>1, <3>2 DEF Sized
        <4>2. t.spill[p] = n
          BY <1>4, <4>1
        <4>3. \A x \in Run(p, t.spill[p]) : x \in PagesOf(t.spill)
          BY <1>1, <3>2, FirstInRun
        <4> QED BY <4>2, <4>3
      <3> QED BY <1>6, <3>1, <3>2
    <2>6. PagesOf(d) \subseteq PagesOf(t.dirty) /\ PagesOf(s) \subseteq PagesOf(t.spill)
      BY <2>3, PagesOfMembers
    <2>7. Mine(u) \subseteq Mine(t)
      BY <2>2, <2>5, <2>6 DEF Mine
    <2>8. Moved(t, L, u, Nil, Run(p, n), 8, 0)
      <3> SUFFICES ASSUME NEW x, NEW k, NEW i
                   PROVE  Lives(u, Nil, k, i, x) <=> IF x \in Run(p, n) THEN k = 8 /\ i = 0 ELSE Lives(t, L, k, i, x)
        BY DEF Moved
      <3>1. CASE k = 6
        <4>1. ~Lives(u, Nil, 6, i, x)
          BY NilMembers
        <4>2. Lives(t, L, 6, i, x) => x \in Run(p, n)
          BY <1>2, SMT DEF Lives
        <4> QED BY <3>1, <4>1, <4>2
      <3>2. CASE k = 8
        <4>1. x \in Run(p, n) => ~Lives(t, L, 8, i, x)
          BY <1>3
        <4> QED BY <2>2, <3>2, <4>1, SMT DEF Lives
      <3>3. CASE k # 6 /\ k # 8
        <4>1. x \in Run(p, n) => ~Lives(t, L, k, i, x)
          BY <1>3, <3>3
        <4> QED BY <2>2, <3>3, <4>1, SMT DEF Lives
      <3> QED BY <3>1, <3>2, <3>3
    <2>9. IsFiniteSet(DOMAIN d) /\ u.room \in Nat /\ u.room + Cardinality(DOMAIN d) <= DirtyRoom
      <3> DEFINE D == DOMAIN t.dirty
      <3>1. IsFiniteSet(D) /\ t.room + Cardinality(D) <= DirtyRoom /\ t.room \in Nat /\ DirtyRoom \in Nat
        BY <1>1, PagesAssumption DEF Counted, IsTxn
      <3> HIDE DEF D
      <3>2. /\ IsFiniteSet(D \ {p})
            /\ Cardinality(D \ {p}) = IF p \in D THEN Cardinality(D) - 1 ELSE Cardinality(D)
        BY <3>1, FS_RemoveElement
      <3>3. Cardinality(D) \in Nat
        BY <3>1, FS_CardinalityType
      <3>4. DOMAIN d = D \ {p} /\ u.room = IF p \in D THEN t.room + 1 ELSE t.room
        BY <2>2, <2>3 DEF D
      <3> QED BY <3>1, <3>2, <3>3, <3>4
    <2>10. IsTxn(u)
      <3>1. u.pghead \subseteq Nat
        BY <1>1, <1>5, <2>2 DEF IsTxn
      <3> QED BY <1>1, <2>2, <2>3, <2>9, <3>1 DEF IsTxn
    <2>11. Freeing(t, u)
      BY <1>1, <2>2 DEF Freeing, IsTxn
    <2>12. Sheds(t, u, Run(p, n))
      <3>1. ToSet(u.loose) \subseteq DOMAIN u.dirty
        BY <1>1, <2>2, <2>3, <2>4 DEF Sized
      <3>2. \A q \in DOMAIN t.dirty : q \notin DOMAIN u.dirty => Run(q, t.dirty[q]) \subseteq Run(p, n)
        <4>1. \A q \in DOMAIN t.dirty : q \notin DOMAIN u.dirty => q = p
          BY <2>2, <2>3
        <4>2. p \in DOMAIN t.dirty => t.dirty[p] = n
          BY <1>1, <1>4 DEF Sized
        <4> QED BY <4>1, <4>2
      <3> QED BY <2>2, <2>3, <2>7, <3>1, <3>2 DEF Sheds
    <2>13. Placed(t, L, u, Nil)
      <3> SUFFICES ASSUME NEW q, NEW m, Block(t, L, q, m), q \in DOMAIN u.dirty \cup DOMAIN u.spill
                   PROVE  Block(u, Nil, q, m)
        BY DEF Placed
      <3>1. q # p
        BY <2>2, <2>3
      <3> QED BY <1>2, <2>2, <3>1, SMT DEF Block
    <2>14. Counted(u)
      <3>1. t.pglast # 0
        BY <1>6 DEF HasHead
      <3> QED BY <1>1, <2>2, <2>9, <3>1 DEF Counted
    <2>15. \A x \in Run(p, n) : \E k, i : Lives(t, L, k, i, x)
      BY <1>3
    <2>16. 8 \in 7..9
      OBVIOUS
    <2>17. Good(u, Nil)
      <3>1. Good(t, L)
        BY DEF L
      <3> QED BY <2>8, <2>10, <2>11, <2>12, <2>13, <2>14, <2>15, <2>16, <3>1, NilMembers, FreedGood
    <2>18. Freed(t, u)
      BY <2>2 DEF Freed
    <2>19. DOMAIN t.dirty \cup DOMAIN t.spill \subseteq DOMAIN u.dirty \cup DOMAIN u.spill \cup {p}
      BY <2>2, <2>3
    <2> QED BY <2>1, <2>2, <2>17, <2>18, <2>19
  <1>7. CASE ~(HasHead(t) /\ p \in DOMAIN t.dirty \cup DOMAIN t.spill)
    <2> DEFINE v == Append_(t, Run(p, n))
    <2>1. OvpageFree(t, p, n) = v
      BY <1>7 DEF OvpageFree
    <2>2. /\ Appends(t, v, Run(p, n)) /\ v.main = t.main /\ v.free = t.free
          /\ v.rc = t.rc /\ v.err = t.err /\ v.ops = t.ops /\ v.got = t.got
      BY <1>1, AppendFields
    <2> HIDE DEF v
    <2>3. Good(v, Nil)
      BY <2>2, FreeLimbo
    <2>4. Freed(t, v)
      BY <2>2 DEF Freed, Appends, Freeing
    <2> QED BY <2>1, <2>2, <2>3, <2>4 DEF Appends
  <1> QED BY <1>6, <1>7

LEMMA PageLooseGood ==
  ASSUME NEW t, NEW p \in Nat, Good(t, One(p, 1)), Numbers
  PROVE  /\ Good(PageLoose(t, p), Nil) /\ DOMAIN PageLoose(t, p) = TxnFields
         /\ PageLoose(t, p).main = t.main /\ PageLoose(t, p).free = t.free /\ PageLoose(t, p).id = t.id
         /\ PageLoose(t, p).pglast = t.pglast /\ PageLoose(t, p).ops = t.ops
         /\ PageLoose(t, p).rc = t.rc /\ PageLoose(t, p).err = t.err
  <1>1. IsTxn(t) /\ Counted(t) /\ t.loose \in Seq(Nat)
    BY DEF Good, IsTxn
  <1>2. CASE p \in DOMAIN t.dirty
    <2> DEFINE q == <<p>> \o t.loose
               u == [t EXCEPT !.loose = q]
    <2>1. p \notin ToSet(t.loose)
      <3>1. DOMAIN One(p, 1) = {p}
        BY OnePage
      <3> QED BY <3>1, LimboPage
    <2>2. q \in Seq(Nat) /\ ToSet(q) = ToSet(t.loose) \cup {p}
      BY <1>1, PushMembers
    <2>3. NoTwice(q)
      BY <1>1, <2>1, PushNoTwice DEF Counted, NoTwice
    <2>4. PageLoose(t, p) = u
      BY <1>2 DEF PageLoose
    <2> HIDE DEF q
    <2>5. Good(u, Nil)
      BY <1>2, <2>2, <2>3, LooseGood
    <2>6. /\ DOMAIN u = TxnFields /\ u.main = t.main /\ u.free = t.free /\ u.id = t.id /\ u.ops = t.ops
          /\ u.pglast = t.pglast /\ u.rc = t.rc /\ u.err = t.err
      BY <1>1, SMT DEF IsTxn, TxnFields
    <2> HIDE DEF u
    <2> QED BY <2>4, <2>5, <2>6
  <1>3. CASE p \notin DOMAIN t.dirty
    <2> DEFINE u == Append_(t, {p})
    <2>1. /\ Appends(t, u, {p}) /\ u.main = t.main /\ u.free = t.free
          /\ u.rc = t.rc /\ u.err = t.err /\ u.ops = t.ops
      BY <1>1, AppendFields
    <2>2. PageLoose(t, p) = u
      BY <1>3 DEF PageLoose
    <2> HIDE DEF u
    <2>3. Run(p, 1) = {p} /\ 1 \in Nat \ {0}
      BY RunMembers
    <2>4. Good(u, Nil)
      BY <2>1, <2>3, FreeLimbo
    <2> QED BY <2>1, <2>2, <2>4 DEF Appends, Freeing
  <1> QED BY <1>2, <1>3

(* A page that gives its place in the tree to its copy. *)
Sub(p, q, x) == IF x = p THEN q ELSE x

LEMMA InPlaceGood ==
  ASSUME NEW t, NEW q \in Nat, Good(t, One(q, 1)), NEW p, NEW k \in {1, 2, 4}, Lives(t, One(q, 1), k, 0, p)
  PROVE  LET u == InPlaceOf(t, p, q)
         IN  /\ Good(u, One(p, 1)) /\ Rest(t, u) /\ DOMAIN u = TxnFields
             /\ u.main.root = Sub(p, q, t.main.root) /\ u.main.leaves = {Sub(p, q, x) : x \in t.main.leaves}
             /\ u.main.big = t.main.big /\ u.free.recs = t.free.recs /\ u.free.root = Sub(p, q, t.free.root)
             /\ u.rc = t.rc /\ u.err = t.err /\ u.ops = t.ops /\ u.got = t.got /\ p # q
  <1> DEFINE u == InPlaceOf(t, p, q)
  <1>1. IsTxn(t) /\ Once(t, One(q, 1)) /\ q \in Nat
    BY DEF Good
  <1>2. /\ u.main.root = Sub(p, q, t.main.root) /\ u.main.leaves = {Sub(p, q, x) : x \in t.main.leaves}
        /\ u.main.big = t.main.big /\ u.free.recs = t.free.recs /\ u.free.root = Sub(p, q, t.free.root)
        /\ Rest(t, u) /\ DOMAIN u = TxnFields /\ DOMAIN u.main = {"root", "leaves", "big"}
        /\ DOMAIN u.free = {"root", "recs"} /\ u.rc = t.rc /\ u.err = t.err /\ u.ops = t.ops /\ u.got = t.got
    <2> DEFINE a == Sub(p, q, t.main.root)
               b == Sub(p, q, t.free.root)
               c == {Sub(p, q, x) : x \in t.main.leaves}
    <2>1. u = [t EXCEPT !.main.root = a, !.free.root = b, !.main.leaves = c]
      BY DEF InPlaceOf, Sub
    <2> HIDE DEF u, a, b, c
    <2> DEFINE g == [t EXCEPT !.main.root = a]
               h == [g EXCEPT !.free.root = b]
    <2>3. u = [h EXCEPT !.main.leaves = c]
      BY <2>1
    <2>4. /\ g.main.root = a /\ g.main.leaves = t.main.leaves
          /\ g.main.big = t.main.big /\ g.free = t.free
          /\ Rest(t, g) /\ DOMAIN g = TxnFields /\ DOMAIN g.main = {"root", "leaves", "big"}
          /\ g.rc = t.rc /\ g.err = t.err /\ g.ops = t.ops /\ g.got = t.got
      BY <1>1, SMT DEF IsTxn, IsMain, TxnFields, Rest
    <2> HIDE DEF g
    <2>5. /\ h.main = g.main /\ h.free.recs = t.free.recs /\ h.free.root = b
          /\ Rest(t, h) /\ DOMAIN h = TxnFields /\ DOMAIN h.free = {"root", "recs"}
          /\ h.rc = t.rc /\ h.err = t.err /\ h.ops = t.ops /\ h.got = t.got
      BY <1>1, <2>4, SMT DEF IsTxn, IsFree, TxnFields, Rest
    <2> HIDE DEF h
    <2>2. /\ u.main.root = a /\ u.main.leaves = c
          /\ u.main.big = t.main.big /\ u.free.recs = t.free.recs /\ u.free.root = b
          /\ Rest(t, u) /\ DOMAIN u = TxnFields /\ DOMAIN u.main = {"root", "leaves", "big"}
          /\ DOMAIN u.free = {"root", "recs"} /\ u.rc = t.rc /\ u.err = t.err /\ u.ops = t.ops /\ u.got = t.got
      BY <2>3, <2>4, <2>5, SMT DEF TxnFields, Rest
    <2> QED BY <2>2 DEF a, b, c
  <1> HIDE DEF u
  <1>3. p \in Nat /\ p # NoPage
    BY <1>1, LivePage, SMT DEF FirstPage, NoPage
  <1>4. DOMAIN One(q, 1) = {q} /\ One(q, 1)[q] = 1 /\ IsRuns(One(p, 1)) /\ DOMAIN One(p, 1) = {p} /\ One(p, 1)[p] = 1
    BY <1>1, <1>3, OnePage
  <1>5. /\ q # NoPage /\ q \notin t.main.leaves /\ q # t.main.root /\ q # t.free.root
        /\ \A l, i : Lives(t, One(q, 1), l, i, q) <=> l = 6 /\ i = q
    <2>1. q \in DOMAIN One(q, 1) /\ q \in Run(q, One(q, 1)[q])
      BY <1>1, <1>4, RunMembers
    <2> QED BY <2>1, LimboPage
  <1>6. \A l, i : Lives(t, One(q, 1), l, i, p) <=> l = k /\ i = 0
    BY <1>1 DEF Once
  <1>7. p # q
    BY <1>5, <1>6
  <1>8. /\ (p = t.main.root) = (k = 1) /\ (p \in t.main.leaves) = (k = 2) /\ (p = t.free.root) = (k = 4)
    <2>1. /\ Lives(t, One(q, 1), 1, 0, p) <=> p = t.main.root
          /\ Lives(t, One(q, 1), 2, 0, p) <=> p \in t.main.leaves
          /\ Lives(t, One(q, 1), 4, 0, p) <=> p = t.free.root
      BY <1>3, SMT DEF Lives, RootOf
    <2> QED BY <1>6, <2>1
  <1>9. \A x : x \in u.main.leaves <=> \/ x = q /\ p \in t.main.leaves
                                       \/ x # p /\ x \in t.main.leaves
    BY <1>2 DEF Sub
  <1>10. /\ \A x : x # p /\ x # q => (x \in RootOf(u.main) <=> x \in RootOf(t.main))
         /\ p \notin RootOf(u.main) /\ (q \in RootOf(u.main) <=> k = 1)
         /\ \A x : x # p /\ x # q => (x \in RootOf(u.free) <=> x \in RootOf(t.free))
         /\ p \notin RootOf(u.free) /\ (q \in RootOf(u.free) <=> k = 4)
    BY <1>2, <1>5, <1>7, <1>8 DEF RootOf, Sub
  <1>11. IsTxn(u)
    <2>1. IsMain(u.main)
      <3>1. u.main.leaves \subseteq Nat
        BY <1>1, <1>9 DEF IsTxn, IsMain
      <3>2. u.main.root \in Nat /\ (u.main.leaves # {} => u.main.root # NoPage)
        BY <1>1, <1>2, <1>5, <1>9 DEF IsTxn, IsMain, Sub
      <3> QED BY <1>1, <1>2, <3>1, <3>2 DEF IsTxn, IsMain
    <2>2. IsFree(u.free)
      BY <1>1, <1>2 DEF IsTxn, IsFree, Sub
    <2> QED BY <1>1, <1>2, <2>1, <2>2 DEF IsTxn, Rest
  <1>12. SameRecords(t, u)
    BY <1>2 DEF SameRecords
  <1> DEFINE D == [x \in {p, q} |-> IF x = p THEN 6 ELSE k]
             E == [x \in {p, q} |-> IF x = p THEN p ELSE 0]
  <1>13. ASSUME NEW x, NEW l, NEW i, l <= 6
         PROVE  Lives(u, One(p, 1), l, i, x) <=>
                IF x = p THEN l = 6 /\ i = p ELSE IF x = q THEN l = k /\ i = 0 ELSE Lives(t, One(q, 1), l, i, x)
    <2>1. CASE l = 6
      <3>1. (Lives(u, One(p, 1), 6, i, x) <=> i = p /\ x = p) /\ (Lives(t, One(q, 1), 6, i, x) <=> i = q /\ x = q)
        BY <1>1, <1>3, OnePage
      <3> QED BY <1>7, <2>1, <3>1
    <2>2. CASE l = 1
      <3>1. /\ Lives(u, One(p, 1), 1, i, x) <=> i = 0 /\ x \in RootOf(u.main)
            /\ Lives(t, One(q, 1), 1, i, x) <=> i = 0 /\ x \in RootOf(t.main)
        BY SMT DEF Lives
      <3> QED BY <1>7, <1>10, <2>2, <3>1
    <2>3. CASE l = 4
      <3>1. /\ Lives(u, One(p, 1), 4, i, x) <=> i = 0 /\ x \in RootOf(u.free)
            /\ Lives(t, One(q, 1), 4, i, x) <=> i = 0 /\ x \in RootOf(t.free)
        BY SMT DEF Lives
      <3> QED BY <1>7, <1>10, <2>3, <3>1
    <2>4. CASE l = 2
      <3>1. /\ Lives(u, One(p, 1), 2, i, x) <=> i = 0 /\ x \in u.main.leaves
            /\ Lives(t, One(q, 1), 2, i, x) <=> i = 0 /\ x \in t.main.leaves
        BY SMT DEF Lives
      <3> QED BY <1>5, <1>7, <1>8, <1>9, <2>4, <3>1
    <2>5. CASE l # 6 /\ l # 1 /\ l # 2 /\ l # 4
      <3>1. Lives(u, One(p, 1), l, i, x) <=> Lives(t, One(q, 1), l, i, x)
        BY <1>2, <1>13, <2>5, SMT DEF Lives
      <3> QED BY <1>5, <1>6, <1>7, <2>5, <3>1
    <2> QED BY <2>1, <2>2, <2>3, <2>4, <2>5
  <1>14. MovedUse(t, One(q, 1), u, One(p, 1), {p, q}, D, E)
    <2>1. \A x \in {p, q} : D[x] <= 6 /\ \E l, i : l <= 6 /\ Lives(t, One(q, 1), l, i, x)
      BY <1>5, <1>6
    <2> QED BY <1>7, <1>13, <2>1 DEF MovedUse
  <1>15. ASSUME NEW x, NEW n PROVE Block(t, One(q, 1), x, n) => Block(u, One(p, 1), x, n)
    <2>1. CASE x = p
      <3>1. Block(t, One(q, 1), p, n) => n = 1
        BY PageSize
      <3> QED BY <1>4, <2>1, <3>1 DEF Block
    <2>2. CASE x = q
      <3>1. Block(t, One(q, 1), q, n) => n = 1
        BY <1>4, LimboSize
      <3>2. q \in RootOf(u.main) \cup u.main.leaves \cup RootOf(u.free)
        BY <1>8, <1>9, <1>10
      <3> QED BY <2>2, <3>1, <3>2 DEF Block
    <2>3. CASE x # p /\ x # q
      BY <1>2, <1>4, <1>9, <1>10, <2>3 DEF Block, Rest
    <2> QED BY <2>1, <2>2, <2>3
  <1>16. SameUse(t, One(q, 1), u, One(p, 1))
    BY <1>1, <1>14, <1>15, MovedSameUse
  <1>17. Good(u, One(p, 1))
    BY <1>2, <1>4, <1>11, <1>12, <1>16, Relink
  <1> QED BY <1>2, <1>7, <1>17 DEF u

(* What is returned is no part of it. *)
LEMMA Relabelled ==
  ASSUME NEW t, NEW L, Good(t, L), NEW u, DOMAIN u = TxnFields, Rest(t, u), u.main = t.main, u.free = t.free,
         u.got \in Nat
  PROVE  Good(u, L)
  <1>1. IsTxn(u)
    BY DEF Good, IsTxn, Rest
  <1>2. \A k, i, x : Lives(u, L, k, i, x) <=> Lives(t, L, k, i, x)
    BY SMT DEF Lives, Rest
  <1>3. Once(u, L) /\ Cover(u, L)
    BY <1>2 DEF Good, Once, Cover, Rest
  <1>4. \A p, n : Block(t, L, p, n) => Block(u, L, p, n)
    BY DEF Block, Rest
  <1>5. Sized(u, L)
    BY <1>4 DEF Good, Sized, Rest
  <1>6. Mine(u) = Mine(t)
    BY DEF Mine, Rest
  <1>7. Spared(u)
    BY <1>6 DEF Good, Spared, Rest
  <1>8. Kept(u, L)
    BY <1>2 DEF Good, Kept, Rest
  <1>9. Counted(u)
    BY DEF Good, Counted, Rest
  <1> QED BY <1>1, <1>3, <1>5, <1>7, <1>8, <1>9 DEF Good

(* What copying a page changes, where it may be written already nothing.   *)
Touched(t, u, p) ==
  /\ DOMAIN u = TxnFields /\ u.id = t.id /\ u.rc = t.rc /\ u.err = t.err /\ u.ops = t.ops
  /\ u.got \in DOMAIN u.dirty /\ (u.got = p \/ u.got \notin t.main.leaves)
  /\ u.main.root = Sub(p, u.got, t.main.root) /\ u.main.leaves = {Sub(p, u.got, x) : x \in t.main.leaves}
  /\ u.main.big = t.main.big /\ u.free.recs = t.free.recs /\ u.free.root = Sub(p, u.got, t.free.root)
  /\ t.freed \subseteq u.freed /\ ToSet(u.loose) \subseteq ToSet(t.loose)
  /\ u.pglast \in {t.pglast} \cup DOMAIN t.free.recs /\ t.pglast <= u.pglast
  /\ DOMAIN t.dirty \cup DOMAIN t.spill \subseteq DOMAIN u.dirty \cup DOMAIN u.spill
  /\ p \in DOMAIN t.dirty \cup DOMAIN t.spill =>
        /\ u.got = p /\ u.pglast = t.pglast /\ u.pghead = t.pghead /\ u.freed = t.freed /\ u.nfreed = t.nfreed
        /\ u.loose = t.loose

LEMMA Unchanged ==
  ASSUME NEW p, NEW t, IsTxn(t)
  PROVE  /\ Sub(p, p, t.main.root) = t.main.root /\ {Sub(p, p, x) : x \in t.main.leaves} = t.main.leaves
         /\ Sub(p, p, t.free.root) = t.free.root
  BY DEF Sub

LEMMA TouchGood ==
  ASSUME NEW t, Good(t, Nil), Numbers, Ok(t), NEW p, NEW k \in {1, 2, 4}, Lives(t, Nil, k, 0, p)
  PROVE  \/ Lost(PageTouch(t, p))
         \/ Good(PageTouch(t, p), Nil) /\ Touched(t, PageTouch(t, p), p)
  <1> DEFINE u == PageTouch(t, p)
  <1>1. IsTxn(t) /\ Sized(t, Nil) /\ p \in Nat
    BY LivePage DEF Good
  <1>2. CASE p \in DOMAIN t.dirty
    <2>1. u = [t EXCEPT !.got = p]
      BY <1>2 DEF PageTouch
    <2>2. /\ DOMAIN u = TxnFields /\ Rest(t, u) /\ u.main = t.main /\ u.free = t.free /\ u.got = p
          /\ u.rc = t.rc /\ u.err = t.err /\ u.ops = t.ops
      BY <1>1, <2>1, SMT DEF IsTxn, TxnFields, Rest
    <2> HIDE DEF u
    <2>3. Good(u, Nil)
      BY <1>1, <2>2, Relabelled
    <2>4. t.pglast \in Nat
      BY <1>1 DEF IsTxn
    <2>5. /\ u.main.root = Sub(p, u.got, t.main.root) /\ u.main.leaves = {Sub(p, u.got, x) : x \in t.main.leaves}
          /\ u.free.root = Sub(p, u.got, t.free.root)
      BY <1>1, <2>2, Unchanged
    <2>6. u.loose = t.loose
      BY <2>2 DEF Rest
    <2>7. ToSet(u.loose) \subseteq ToSet(t.loose)
      BY <2>6
    <2>8. Touched(t, u, p)
      <3>1. u.dirty = t.dirty /\ u.spill = t.spill /\ u.id = t.id /\ u.freed = t.freed /\ u.pglast = t.pglast
            /\ u.pghead = t.pghead /\ u.nfreed = t.nfreed
        BY <2>2 DEF Rest
      <3>2. u.main.big = t.main.big /\ u.free.recs = t.free.recs
        BY <2>2
      <3>3. t.pglast <= u.pglast /\ u.pglast \in {t.pglast} \cup DOMAIN t.free.recs
        BY <2>4, <3>1
      <3>4. DOMAIN t.dirty \cup DOMAIN t.spill \subseteq DOMAIN u.dirty \cup DOMAIN u.spill
            /\ t.freed \subseteq u.freed /\ u.got \in DOMAIN u.dirty
        BY <1>2, <2>2, <3>1
      <3> QED BY <2>2, <2>5, <2>6, <2>7, <3>1, <3>2, <3>3, <3>4, Zenon DEF Touched
    <2> QED BY <2>3, <2>8 DEF u
  <1>3. CASE p \notin DOMAIN t.dirty /\ p \in DOMAIN t.spill
    <2> DEFINE v == Unspill(t, p)
    <2>1. u = IF Ok(v) THEN v ELSE Failed(v)
      BY <1>3 DEF PageTouch
    <2>2. CASE t.room = 0
      <3>1. v = Refused(t)
        BY <2>2 DEF Unspill
      <3>2. /\ DOMAIN v = TxnFields /\ Rest(t, v) /\ v.main = t.main /\ v.free = t.free /\ v.got = t.got /\ v.rc = "full"
        BY <1>1, <3>1, SMT DEF IsTxn, TxnFields, Rest, Refused
      <3> HIDE DEF v
      <3>3. Good(v, Nil)
        BY <1>1, <3>2, Relabelled DEF IsTxn
      <3>4. u = Failed(v)
        BY <2>1, <3>2 DEF Ok
      <3>5. Lost(Failed(v))
        BY <3>3, FailedLost
      <3>6. Lost(u)
        BY <3>4, <3>5
      <3> QED BY <3>6
    <2>3. CASE t.room # 0
      <3>1. /\ Good(v, Nil) /\ Listing(t, v) /\ v.got = p
            /\ p \in DOMAIN v.dirty /\ DOMAIN t.dirty \subseteq DOMAIN v.dirty
        BY <1>3, <2>3, UnspillGood
      <3>2. Ok(v)
        BY <3>1 DEF Ok, Listing
      <3>3. t.pglast \in Nat
        BY <1>1 DEF IsTxn
      <3> HIDE DEF v
      <3>4. Touched(t, v, p)
        BY <1>1, <3>1, <3>3, Unchanged DEF Touched, Listing
      <3> QED BY <2>1, <3>1, <3>2, <3>4
    <2> QED BY <2>2, <2>3
  <1>4. CASE p \notin DOMAIN t.dirty /\ p \notin DOMAIN t.spill
    <2> DEFINE a == PageAlloc(t, 1)
               v == InPlaceOf(a, p, a.got)
               c == Append_(v, {p})
    <2>1. u = IF Ok(a) THEN c ELSE a
      BY <1>4 DEF PageTouch, Then
    <2>2. Lost(a) \/ (Good(a, With(Nil, a.got, 1)) /\ Allocated(t, a) /\ a.got \in Nat)
      <3>1. 1 \in Nat \ {0}
        OBVIOUS
      <3> HIDE DEF a
      <3> QED BY <3>1, AllocGood DEF a
    <2> HIDE DEF a
    <2>3. CASE Lost(a)
      <3>1. ~Ok(a)
        BY <2>3 DEF Lost
      <3>2. Lost(u)
        BY <2>1, <2>3, <3>1
      <3> QED BY <3>2
    <2>4. CASE Good(a, One(a.got, 1)) /\ Allocated(t, a) /\ a.got \in Nat
      <3>1. Ok(a)
        BY <2>4 DEF Ok, Allocated
      <3>2. Lives(a, One(a.got, 1), k, 0, p)
        BY <2>4, SMT DEF Lives, Allocated
      <3>3. /\ Good(v, One(p, 1)) /\ Rest(a, v) /\ DOMAIN v = TxnFields
            /\ v.main.root = Sub(p, a.got, a.main.root) /\ v.main.leaves = {Sub(p, a.got, x) : x \in a.main.leaves}
            /\ v.main.big = a.main.big /\ v.free.recs = a.free.recs /\ v.free.root = Sub(p, a.got, a.free.root)
            /\ v.rc = a.rc /\ v.err = a.err /\ v.ops = a.ops /\ v.got = a.got
        BY <2>4, <3>2, InPlaceGood
      <3> HIDE DEF v
      <3>4. IsTxn(v)
        BY <3>3 DEF Good
      <3>5. /\ Appends(v, c, {p}) /\ c.main = v.main /\ c.free = v.free
            /\ c.rc = v.rc /\ c.err = v.err /\ c.ops = v.ops /\ c.got = v.got
        BY <3>4, AppendFields
      <3> HIDE DEF c
      <3>6. Run(p, 1) = {p} /\ 1 \in Nat \ {0}
        BY <1>1, RunMembers
      <3>7. Good(c, Nil)
        <4>1. Appends(v, c, Run(p, 1))
          BY <3>5, <3>6
        <4>2. p \in Nat /\ 1 \in Nat \ {0} /\ Good(v, One(p, 1))
          BY <1>1, <3>3, <3>6
        <4> HIDE <3>6, <3>3
        <4> QED BY <3>5, <4>1, <4>2, FreeLimbo
      <3>8. c.main.root = Sub(p, c.got, t.main.root) /\ c.main.leaves = {Sub(p, c.got, x) : x \in t.main.leaves}
            /\ c.main.big = t.main.big /\ c.free.recs = t.free.recs /\ c.free.root = Sub(p, c.got, t.free.root)
            /\ c.rc = t.rc /\ c.err = t.err /\ c.ops = t.ops /\ c.got = a.got
        BY <2>4, <3>3, <3>5 DEF Allocated
      <3>9. DOMAIN c = TxnFields /\ c.id = t.id /\ c.got \in DOMAIN c.dirty
            /\ t.freed \subseteq c.freed /\ ToSet(c.loose) \subseteq ToSet(t.loose)
            /\ c.pglast \in {t.pglast} \cup DOMAIN t.free.recs /\ t.pglast <= c.pglast
            /\ DOMAIN t.dirty \cup DOMAIN t.spill \subseteq DOMAIN c.dirty \cup DOMAIN c.spill
        BY <2>4, <3>3, <3>5 DEF Allocated, Appends, Freeing, Rest
      <3>11. c.got \notin t.main.leaves
        <4>1. a.got \in DOMAIN One(a.got, 1)
          BY <2>4, OnePage
        <4>2. a.got \notin a.main.leaves
          BY <2>4, <4>1, LimboPage
        <4> QED BY <2>4, <3>8, <4>2 DEF Allocated
      <3>10. Touched(t, c, p)
        BY <1>4, <3>8, <3>9, <3>11 DEF Touched
      <3> QED BY <2>1, <3>1, <3>7, <3>10
    <2> QED BY <2>2, <2>3, <2>4 DEF One
  <1> QED BY <1>2, <1>3, <1>4

LEMMA NoBlock ==
  ASSUME NEW t, NEW L, Good(t, L)
  PROVE  \A n : ~Block(t, L, NoPage, n)
  <1> SUFFICES ASSUME NEW n, Block(t, L, NoPage, n) PROVE FALSE
    OBVIOUS
  <1>1. \E k, i : Lives(t, L, k, i, NoPage)
    BY BlockLives
  <1>2. FirstPage <= NoPage
    BY <1>1, LivePage
  <1> QED BY <1>2 DEF FirstPage, NoPage

LEMMA RootNoLeaf ==
  ASSUME NEW t, NEW L, Good(t, L), t.main.root # NoPage
  PROVE  t.main.root \notin t.main.leaves
  <1>1. Lives(t, L, 1, 0, t.main.root)
    BY SMT DEF Lives, RootOf
  <1>2. t.main.root \in t.main.leaves => Lives(t, L, 2, 0, t.main.root)
    BY SMT DEF Lives
  <1> QED BY <1>1, <1>2 DEF Good, Once

-----------------------------------------------------------------------------
(* What no operation on the application's database changes.                *)
Frame(t, u) ==
  /\ DOMAIN u = TxnFields /\ u.id = t.id /\ u.ops = t.ops /\ u.free.recs = t.free.recs
  /\ u.pglast \in {t.pglast} \cup DOMAIN t.free.recs /\ t.pglast <= u.pglast

Done(t, u) == Bare(u) /\ (~u.err => Good(u, Nil) /\ Frame(t, u))

LEMMA Framed ==
  ASSUME NEW t, IsTxn(t)
  PROVE  /\ \A u : Allocated(t, u) => Frame(t, u)
         /\ \A u : Listing(t, u) => Frame(t, u)
         /\ \A u, p : Touched(t, u, p) => Frame(t, u)
         /\ \A u : Freed(t, u) => Frame(t, u)
         /\ \A u : Fetching(t, u) => Frame(t, u)
  <1>1. t.pglast \in Nat /\ t.pglast <= t.pglast
    BY DEF IsTxn
  <1>2. ASSUME NEW u, Allocated(t, u) PROVE Frame(t, u)
    BY <1>2 DEF Allocated, Frame
  <1>3. ASSUME NEW u, Listing(t, u) PROVE Frame(t, u)
    BY <1>1, <1>3 DEF Listing, Frame
  <1>4. ASSUME NEW u, NEW p, Touched(t, u, p) PROVE Frame(t, u)
    BY <1>4, Zenon DEF Touched, Frame
  <1>5. ASSUME NEW u, Freed(t, u) PROVE Frame(t, u)
    BY <1>1, <1>5 DEF Freed, Frame
  <1>6. ASSUME NEW u, Fetching(t, u) PROVE Frame(t, u)
    BY <1>6 DEF Fetching, Frame
  <1> QED BY <1>2, <1>3, <1>4, <1>5, <1>6, Zenon

LEMMA FrameTwice ==
  ASSUME NEW t, NEW u, NEW v, IsTxn(t), IsTxn(u), IsTxn(v), Frame(t, u), Frame(u, v)
  PROVE  Frame(t, v)
  <1>1. t.pglast \in Nat /\ u.pglast \in Nat /\ v.pglast \in Nat
    BY DEF IsTxn
  <1> QED BY <1>1 DEF Frame

(* A leaf that has been touched, with the root above it.                    *)
OnPath(t, u, l) ==
  /\ Frame(t, u) /\ u.rc = t.rc /\ u.err = t.err /\ u.main.big = t.main.big /\ u.main.root # NoPage
  /\ IF t.main.leaves = {} THEN u.main.leaves = {} /\ u.got = u.main.root
     ELSE u.main.leaves = {Sub(l, u.got, x) : x \in t.main.leaves} /\ (u.got = l \/ u.got \notin t.main.leaves)

LEMMA CursorGood ==
  ASSUME NEW t, Good(t, Nil), Numbers, Ok(t), NEW l \in Leaves(t)
  PROVE  \/ Lost(CursorTouch(t, l))
         \/ Good(CursorTouch(t, l), Nil) /\ OnPath(t, CursorTouch(t, l), l)
  <1> DEFINE a == PageSpill(t, {l})
             b == PageTouch(a, a.main.root)
             u == CursorTouch(t, l)
  <1>1. IsTxn(t)
    BY DEF Good
  <1>2. Good(a, Nil) /\ Listing(t, a)
    BY SpillGood
  <1>3. Ok(a) /\ a.main = t.main /\ a.rc = t.rc /\ a.err = t.err
    BY <1>2 DEF Ok, Listing
  <1>4. u = IF Ok(b) THEN IF l = a.main.root THEN b ELSE PageTouch(b, l) ELSE b
    BY <1>3 DEF CursorTouch, Then
  <1>5. t.main.root # NoPage /\ (t.main.leaves = {} => l = t.main.root) /\ (t.main.leaves # {} => l \in t.main.leaves)
    BY <1>1 DEF Leaves, RootOf, IsTxn, IsMain
  <1>6. Frame(t, a) /\ IsTxn(a) /\ Once(a, Nil)
    BY <1>1, <1>2, Framed DEF Good
  <1> HIDE DEF a
  <1>7. Lives(a, Nil, 1, 0, a.main.root)
    BY <1>3, <1>5, SMT DEF Lives, RootOf
  <1>8. \/ Lost(b)
        \/ Good(b, Nil) /\ Touched(a, b, a.main.root)
    <2>1. 1 \in {1, 2, 4}
      OBVIOUS
    <2> QED BY <1>2, <1>3, <1>7, <2>1, TouchGood
  <1> HIDE DEF b, u
  <1>9. CASE Lost(b)
    <2>1. u = b
      BY <1>4, <1>9 DEF Lost
    <2>2. Lost(u)
      BY <1>9, <2>1
    <2> QED BY <2>2 DEF u
  <1>10. CASE Good(b, Nil) /\ Touched(a, b, a.main.root)
    <2>1. /\ Ok(b) /\ b.rc = t.rc /\ b.err = t.err /\ b.main.root = b.got /\ b.main.big = t.main.big
          /\ b.main.leaves = {Sub(t.main.root, b.got, x) : x \in t.main.leaves}
      BY <1>3, <1>10 DEF Touched, Ok, Sub
    <2>2. Frame(t, b) /\ IsTxn(b) /\ b.got # NoPage
      <3>1. IsTxn(b) /\ Frame(a, b)
        BY <1>6, <1>10, Framed DEF Good
      <3>2. b.got # NoPage
        <4>1. b.got \in DOMAIN b.dirty /\ Sized(b, Nil)
          BY <1>10 DEF Touched, Good
        <4>2. \E n : Block(b, Nil, b.got, n)
          BY <4>1 DEF Sized
        <4>3. \A n : ~Block(b, Nil, NoPage, n)
          BY <1>10, NoBlock
        <4> QED BY <4>2, <4>3
      <3> QED BY <1>1, <1>6, <3>1, <3>2, FrameTwice
    <2>3. CASE t.main.leaves = {}
      <3>1. u = b
        BY <1>3, <1>4, <1>5, <2>1, <2>3
      <3>2. b.main.leaves = {}
        BY <2>1, <2>3
      <3>3. Good(u, Nil) /\ OnPath(t, u, l)
        BY <1>10, <2>1, <2>2, <2>3, <3>1, <3>2 DEF OnPath
      <3> QED BY <3>3 DEF u
    <2>4. CASE t.main.leaves # {}
      <3>1. t.main.root \notin t.main.leaves
        <4>1. \A x \in t.main.leaves : Lives(a, Nil, 2, 0, x)
          BY <1>3, SMT DEF Lives
        <4> QED BY <1>3, <1>6, <1>7, <4>1 DEF Once
      <3>2. b.main.leaves = t.main.leaves
        BY <2>1, <3>1 DEF Sub
      <3>3. u = PageTouch(b, l)
        BY <1>3, <1>4, <1>5, <2>1, <2>4, <3>1
      <3>4. Lives(b, Nil, 2, 0, l)
        BY <1>5, <2>4, <3>2, SMT DEF Lives
      <3>5. \/ Lost(PageTouch(b, l))
            \/ Good(PageTouch(b, l), Nil) /\ Touched(b, PageTouch(b, l), l)
        <4>1. 2 \in {1, 2, 4}
          OBVIOUS
        <4> QED BY <1>10, <2>1, <3>4, <4>1, TouchGood
      <3>6. CASE Lost(u)
        BY <3>6 DEF u
      <3>7. CASE Good(u, Nil) /\ Touched(b, u, l)
        <4>1. Frame(t, u)
          <5>1. IsTxn(u) /\ Frame(b, u)
            BY <2>2, <3>7, Framed DEF Good
          <5> QED BY <1>1, <2>2, <5>1, FrameTwice
        <4>2. l # b.main.root
          <5>1. b.main.root \notin b.main.leaves
            BY <1>10, <2>1, <2>2, RootNoLeaf
          <5> QED BY <1>5, <2>4, <3>2, <5>1
        <4>3. /\ u.rc = t.rc /\ u.err = t.err /\ u.main.big = t.main.big /\ u.main.root # NoPage
              /\ u.main.leaves = {Sub(l, u.got, x) : x \in t.main.leaves} /\ (u.got = l \/ u.got \notin t.main.leaves)
          BY <2>1, <2>2, <3>2, <3>7, <4>2, Zenon DEF Touched, Sub
        <4>4. OnPath(t, u, l)
          BY <2>4, <4>1, <4>3, Zenon DEF OnPath
        <4> QED BY <3>7, <4>4 DEF u
      <3> QED BY <3>3, <3>5, <3>6, <3>7
    <2> QED BY <2>3, <2>4
  <1> QED BY <1>8, <1>9, <1>10

-----------------------------------------------------------------------------
(* The operations. *)
Fine(t, u) ==
  \/ Lost(u)
  \/ Good(u, Nil) /\ Frame(t, u) /\ u.rc = t.rc /\ u.err = t.err

LEMMA FineDone ==
  ASSUME NEW t, NEW u, Fine(t, u)
  PROVE  Done(t, u)
  BY GoodBare DEF Fine, Done, Lost

LEMMA FineTwice ==
  ASSUME NEW t, NEW u, NEW v, Good(t, Nil), Good(u, Nil), Frame(t, u), u.rc = t.rc, u.err = t.err, Fine(u, v)
  PROVE  Fine(t, v)
  <1>1. IsTxn(t) /\ IsTxn(u)
    BY DEF Good
  <1>2. CASE Lost(v)
    BY <1>2 DEF Fine
  <1>3. CASE Good(v, Nil) /\ Frame(u, v) /\ v.rc = u.rc /\ v.err = u.err
    <2>1. Frame(t, v)
      BY <1>1, <1>3, FrameTwice DEF Good
    <2> QED BY <1>3, <2>1 DEF Fine
  <1> QED BY <1>2, <1>3 DEF Fine

LEMMA SmallAlloc ==
  ASSUME NEW t, Good(t, Nil), Numbers
  PROVE  \/ Lost(PageAlloc(t, 1))
         \/ /\ Good(PageAlloc(t, 1), One(PageAlloc(t, 1).got, 1)) /\ Allocated(t, PageAlloc(t, 1))
            /\ PageAlloc(t, 1).got \in Nat
  <1>1. 1 \in Nat \ {0}
    OBVIOUS
  <1> QED BY <1>1, AllocGood DEF One

LEMMA PutFirstGood ==
  ASSUME NEW t, Good(t, Nil), Numbers, Ok(t), t.main.root = NoPage
  PROVE  Fine(t, PutFirst(t))
  <1> DEFINE a == PageSpill(t, {})
             b == PageAlloc(a, 1)
             u == [b EXCEPT !.main.root = b.got]
  <1>1. Good(a, Nil) /\ Listing(t, a)
    BY SpillGood
  <1>2. Ok(a) /\ a.main = t.main /\ a.rc = t.rc /\ a.err = t.err
    BY <1>1 DEF Ok, Listing
  <1>3. PutFirst(t) = IF Ok(b) THEN u ELSE b
    BY <1>2 DEF PutFirst, Then
  <1>4. Frame(t, a) /\ IsTxn(t) /\ IsTxn(a)
    BY <1>1, Framed DEF Good
  <1> HIDE DEF a
  <1>5. \/ Lost(b)
        \/ Good(b, One(b.got, 1)) /\ Allocated(a, b) /\ b.got \in Nat
    BY <1>1, SmallAlloc
  <1> HIDE DEF b
  <1>6. CASE Lost(b)
    <2>1. PutFirst(t) = b
      BY <1>3, <1>6 DEF Lost
    <2> QED BY <1>6, <2>1 DEF Fine
  <1>7. CASE Good(b, One(b.got, 1)) /\ Allocated(a, b) /\ b.got \in Nat
    <2>1. Ok(b) /\ b.main = t.main /\ b.rc = t.rc /\ b.err = t.err /\ IsTxn(b) /\ Frame(a, b)
      BY <1>2, <1>4, <1>7, Framed DEF Ok, Allocated, Good
    <2>2. Good(u, Nil)
      BY <1>7, <2>1, LinkRoot
    <2>3. Frame(b, u) /\ u.rc = b.rc /\ u.err = b.err
      BY <2>1, SMT DEF IsTxn, TxnFields, Frame
    <2> HIDE DEF u
    <2>4. Frame(t, u)
      <3>1. Frame(a, u)
        BY <1>4, <2>1, <2>2, <2>3, FrameTwice DEF Good
      <3> QED BY <1>4, <2>2, <3>1, FrameTwice DEF Good
    <2> QED BY <1>3, <2>1, <2>2, <2>3, <2>4 DEF Fine
  <1> QED BY <1>5, <1>6, <1>7

LEMMA AddBigGood ==
  ASSUME NEW t, Good(t, Nil), Numbers, Ok(t)
  PROVE  Fine(t, AddBig(t))
  <1> DEFINE b == PageAlloc(t, BigPages)
             u == [b EXCEPT !.main.big = With(@, b.got, BigPages)]
  <1>1. BigPages \in Nat \ {0}
    BY PagesAssumption
  <1>2. AddBig(t) = IF Ok(b) THEN u ELSE b
    BY DEF AddBig, Then
  <1>3. \/ Lost(b)
        \/ Good(b, One(b.got, BigPages)) /\ Allocated(t, b) /\ b.got \in Nat
    BY <1>1, AllocGood DEF One
  <1> HIDE DEF b
  <1>4. CASE Lost(b)
    <2>1. AddBig(t) = b
      BY <1>2, <1>4 DEF Lost
    <2> QED BY <1>4, <2>1 DEF Fine
  <1>5. CASE Good(b, One(b.got, BigPages)) /\ Allocated(t, b) /\ b.got \in Nat
    <2>1. Ok(b) /\ b.rc = t.rc /\ b.err = t.err /\ IsTxn(b) /\ Frame(t, b) /\ IsTxn(t)
      BY <1>5, Framed DEF Ok, Allocated, Good
    <2>2. Good(u, Nil)
      BY <1>1, <1>5, LinkBig
    <2>3. Frame(b, u) /\ u.rc = b.rc /\ u.err = b.err
      BY <2>1, SMT DEF IsTxn, TxnFields, Frame
    <2> HIDE DEF u
    <2>4. Frame(t, u)
      BY <2>1, <2>2, <2>3, FrameTwice DEF Good
    <2> QED BY <1>2, <2>1, <2>2, <2>3, <2>4 DEF Fine
  <1> QED BY <1>3, <1>4, <1>5

LEMMA DropBigGood ==
  ASSUME NEW t, Good(t, Nil), Numbers, NEW b \in DOMAIN t.main.big
  PROVE  Good(DropBig(t, b), Nil) /\ Frame(t, DropBig(t, b)) /\ DropBig(t, b).rc = t.rc /\ DropBig(t, b).err = t.err
  <1> DEFINE n == t.main.big[b]
             v == [t EXCEPT !.main.big = Without(@, b)]
             u == OvpageFree(v, b, n)
  <1>1. IsTxn(t)
    BY DEF Good
  <1>2. b \in Nat /\ n \in Nat \ {0}
    BY <1>1 DEF IsTxn, IsMain, IsRuns
  <1>3. Good(v, One(b, n))
    BY UnlinkBig
  <1>4. Frame(t, v) /\ v.rc = t.rc /\ v.err = t.err
    BY <1>1, SMT DEF IsTxn, TxnFields, Frame
  <1>5. DropBig(t, b) = u
    BY DEF DropBig
  <1> HIDE DEF n, v
  <1>6. Good(u, Nil) /\ Freed(v, u)
    BY <1>2, <1>3, OvpageFreeGood
  <1>7. IsTxn(v) /\ IsTxn(u)
    BY <1>3, <1>6 DEF Good
  <1>8. Frame(v, u) /\ u.rc = v.rc /\ u.err = v.err
    BY <1>6, <1>7, Framed DEF Freed
  <1> HIDE DEF u
  <1>9. Frame(t, u)
    BY <1>1, <1>4, <1>7, <1>8, FrameTwice
  <1> QED BY <1>4, <1>5, <1>6, <1>8, <1>9

LEMMA OnPathFine ==
  ASSUME NEW t, NEW u, NEW l, Good(u, Nil), OnPath(t, u, l)
  PROVE  Fine(t, u) /\ Frame(t, u) /\ u.rc = t.rc /\ u.err = t.err /\ u.main.big = t.main.big
  BY DEF Fine, OnPath

(* The operations on values, which begin by touching a leaf. *)
LEMMA ValueGood ==
  ASSUME NEW t, Good(t, Nil), Numbers, Ok(t), NEW l \in Leaves(t)
  PROVE  /\ Done(t, PutSmall(t, l)) /\ Done(t, PutBig(t, l))
         /\ \A b \in DOMAIN t.main.big : Done(t, OverwriteBig(t, l, b)) /\ Done(t, DelBig(t, l, b))
  <1> DEFINE a == CursorTouch(t, l)
  <1>1. \/ Lost(a)
        \/ Good(a, Nil) /\ OnPath(t, a, l)
    BY CursorGood
  <1>2. /\ PutSmall(t, l) = a /\ PutBig(t, l) = IF Ok(a) THEN AddBig(a) ELSE a
        /\ \A b : DelBig(t, l, b) = IF Ok(a) THEN DropBig(a, b) ELSE a
        /\ \A b : OverwriteBig(t, l, b) =
                    IF Ok(a) THEN IF b \in DOMAIN a.dirty THEN a
                                  ELSE IF b \in DOMAIN a.spill THEN Unspill(a, b)
                                  ELSE AddBig(DropBig(a, b))
                    ELSE a
    BY DEF PutSmall, PutBig, DelBig, OverwriteBig, Then
  <1> HIDE DEF a
  <1>3. CASE Lost(a)
    <2>1. Done(t, a) /\ ~Ok(a)
      BY <1>3, FineDone DEF Lost, Fine
    <2>2. /\ PutSmall(t, l) = a /\ PutBig(t, l) = a
          /\ \A b : DelBig(t, l, b) = a /\ OverwriteBig(t, l, b) = a
      BY <1>2, <2>1, Zenon
    <2> QED BY <2>1, <2>2, Zenon
  <1>4. CASE Good(a, Nil) /\ OnPath(t, a, l)
    <2>1. /\ Fine(t, a) /\ Frame(t, a) /\ a.rc = t.rc /\ a.err = t.err /\ a.main.big = t.main.big /\ Ok(a)
      BY <1>4, OnPathFine DEF Ok
    <2>2. ASSUME NEW v, Fine(a, v) PROVE Done(t, v)
      <3>1. Fine(t, v)
        BY <1>4, <2>1, <2>2, FineTwice
      <3> QED BY <3>1, FineDone
    <2>3. PutSmall(t, l) = a /\ PutBig(t, l) = AddBig(a)
      BY <1>2, <2>1, Zenon
    <2>4. Done(t, PutSmall(t, l)) /\ Done(t, PutBig(t, l))
      <3>1. Done(t, a)
        BY <2>1, FineDone
      <3>2. Fine(a, AddBig(a))
        BY <1>4, <2>1, AddBigGood
      <3>3. Done(t, AddBig(a))
        BY <2>2, <3>2
      <3> QED BY <2>3, <3>1, <3>3
    <2>5. ASSUME NEW b \in DOMAIN t.main.big PROVE Done(t, OverwriteBig(t, l, b)) /\ Done(t, DelBig(t, l, b))
      <3> DEFINE d == DropBig(a, b)
      <3>1. Good(d, Nil) /\ Frame(a, d) /\ d.rc = a.rc /\ d.err = a.err
        BY <1>4, <2>1, DropBigGood
      <3>2. DelBig(t, l, b) = d
        BY <1>2, <2>1, Zenon
      <3>3. \/ OverwriteBig(t, l, b) = a
            \/ OverwriteBig(t, l, b) = AddBig(d)
            \/ b \in DOMAIN a.spill /\ OverwriteBig(t, l, b) = Unspill(a, b)
        <4>1. OverwriteBig(t, l, b) = IF b \in DOMAIN a.dirty THEN a
                                      ELSE IF b \in DOMAIN a.spill THEN Unspill(a, b)
                                      ELSE AddBig(d)
          BY <1>2, <2>1, Zenon
        <4> HIDE DEF d
        <4> QED BY <4>1
      <3> HIDE DEF d
      <3>4. Fine(a, d)
        BY <3>1 DEF Fine
      <3>5. Done(t, DelBig(t, l, b))
        BY <2>2, <3>2, <3>4
      <3>6. CASE OverwriteBig(t, l, b) = a
        BY <2>1, <3>5, <3>6, FineDone
      <3>7. CASE OverwriteBig(t, l, b) = AddBig(d)
        <4>1. Fine(d, AddBig(d))
          BY <2>1, <3>1, AddBigGood DEF Ok
        <4>2. Fine(a, AddBig(d))
          BY <1>4, <3>1, <4>1, FineTwice
        <4>3. Done(t, AddBig(d))
          BY <2>2, <4>2
        <4> QED BY <3>5, <3>7, <4>3
      <3>8. CASE b \in DOMAIN a.spill /\ OverwriteBig(t, l, b) = Unspill(a, b)
        <4> DEFINE v == Unspill(a, b)
        <4>1. CASE a.room = 0
          <5>1. v = Refused(a)
            BY <4>1 DEF Unspill
          <5>2. IsTxn(a)
            BY <1>4 DEF Good
          <5>3. /\ DOMAIN v = TxnFields /\ Rest(a, v) /\ v.main = a.main /\ v.free = a.free /\ v.got = a.got
                /\ v.err = a.err /\ v.ops = a.ops
            BY <5>1, <5>2, SMT DEF IsTxn, TxnFields, Rest, Refused
          <5> HIDE DEF v
          <5>4. Good(v, Nil)
            BY <1>4, <5>2, <5>3, Relabelled DEF IsTxn
          <5>5. Frame(a, v)
            <6>1. v.id = a.id /\ v.pglast = a.pglast /\ a.pglast \in Nat
              BY <5>2, <5>3 DEF Rest, IsTxn
            <6> QED BY <5>3, <6>1 DEF Frame
          <5>6. Frame(t, v)
            BY <1>4, <2>1, <5>2, <5>4, <5>5, FrameTwice DEF Good
          <5>7. Done(t, v)
            BY <5>4, <5>6, GoodBare DEF Done
          <5> QED BY <3>5, <3>8, <5>7 DEF v
        <4>2. CASE a.room # 0
          <5>1. Good(v, Nil) /\ Listing(a, v)
            BY <1>4, <3>8, <4>2, UnspillGood
          <5> HIDE DEF v
          <5>2. Fine(a, v)
            <6>1. IsTxn(a)
              BY <1>4 DEF Good
            <6> QED BY <5>1, <6>1, Framed DEF Fine, Listing
          <5>3. Done(t, v)
            BY <2>2, <5>2
          <5> QED BY <3>5, <3>8, <5>3 DEF v
        <4> QED BY <4>1, <4>2
      <3> QED BY <3>3, <3>5, <3>6, <3>7, <3>8
    <2> QED BY <2>4, <2>5
  <1> QED BY <1>1, <1>3, <1>4

-----------------------------------------------------------------------------
LEMMA LeavesSet ==
  ASSUME NEW g, DOMAIN g = TxnFields, DOMAIN g.main = {"root", "leaves", "big"},
         NEW z, NEW u, u = [g EXCEPT !.main.leaves = z]
  PROVE  /\ u.main.root = g.main.root /\ u.main.leaves = z /\ u.main.big = g.main.big
         /\ DOMAIN u.main = {"root", "leaves", "big"} /\ Rest(g, u) /\ DOMAIN u = TxnFields /\ u.free = g.free
         /\ u.got = g.got /\ u.rc = g.rc /\ u.err = g.err /\ u.ops = g.ops
  <1>1. u.main = [g.main EXCEPT !.leaves = z]
    BY SMT DEF TxnFields
  <1>2. Rest(g, u) /\ DOMAIN u = TxnFields /\ u.free = g.free
        /\ u.got = g.got /\ u.rc = g.rc /\ u.err = g.err /\ u.ops = g.ops
    BY SMT DEF TxnFields, Rest
  <1> QED BY <1>1, <1>2

Rooted(t, r, z) == [t EXCEPT !.main.root = r, !.main.leaves = z]

RootedMain(m, r, z) == [m EXCEPT !.root = r, !.leaves = z]

LEMMA MainSet ==
  ASSUME NEW t, IsTxn(t), NEW r, NEW z, NEW u, u = Rooted(t, r, z)
  PROVE  /\ u.main.root = r /\ u.main.leaves = z /\ u.main.big = t.main.big
         /\ DOMAIN u.main = {"root", "leaves", "big"} /\ Rest(t, u) /\ DOMAIN u = TxnFields /\ u.free = t.free
         /\ u.got = t.got /\ u.rc = t.rc /\ u.err = t.err /\ u.ops = t.ops
         /\ u.main = RootedMain(t.main, r, z)
  <1> DEFINE g == [t EXCEPT !.main.root = r]
             v == [g EXCEPT !.main.leaves = z]
  <1>1. u = v
    BY DEF Rooted
  <1>2. /\ g.main.root = r /\ g.main.big = t.main.big
        /\ g.free = t.free /\ Rest(t, g) /\ DOMAIN g = TxnFields /\ DOMAIN g.main = {"root", "leaves", "big"}
        /\ g.got = t.got /\ g.rc = t.rc /\ g.err = t.err /\ g.ops = t.ops
    BY SMT DEF IsTxn, IsMain, TxnFields, Rest
  <1> HIDE DEF g
  <1>3. v = [g EXCEPT !.main.leaves = z]
    OBVIOUS
  <1> HIDE DEF v
  <1>4. /\ v.main.root = g.main.root /\ v.main.leaves = z /\ v.main.big = g.main.big
        /\ DOMAIN v.main = {"root", "leaves", "big"} /\ Rest(g, v) /\ DOMAIN v = TxnFields /\ v.free = g.free
        /\ v.got = g.got /\ v.rc = g.rc /\ v.err = g.err /\ v.ops = g.ops
    BY <1>2, <1>3, LeavesSet
  <1>5. Rest(t, v)
    BY <1>2, <1>4 DEF Rest
  <1>6. v.main = RootedMain(t.main, r, z)
    BY SMT DEF v, g, RootedMain, IsTxn, TxnFields
  <1> QED BY <1>1, <1>2, <1>4, <1>5, <1>6

(* A root above a leaf that was the root. *)
LEMMA SplitRoot ==
  ASSUME NEW t, NEW b \in Nat, NEW c \in Nat, c \notin DOMAIN One(b, 1), Good(t, With(One(b, 1), c, 1)),
         t.main.leaves = {}, t.main.root # NoPage,
         NEW u, u = Rooted(t, c, {t.main.root, b})
  PROVE  Good(u, Nil) /\ Frame(t, u) /\ u.rc = t.rc /\ u.err = t.err
  <1> DEFINE L == With(One(b, 1), c, 1)
             r == t.main.root
  <1>1. IsTxn(t) /\ Once(t, L)
    BY DEF Good
  <1>2. DOMAIN L = {b, c} /\ L[b] = 1 /\ L[c] = 1 /\ b # c
    <2>1. DOMAIN One(b, 1) = {b} /\ One(b, 1)[b] = 1
      BY OnePage
    <2> QED BY <2>1 DEF With
  <1> HIDE DEF L
  <1>3. Good(t, L)
    BY DEF L
  <1>4. /\ u.main.root = c /\ u.main.leaves = {r, b} /\ u.main.big = t.main.big
        /\ u.free = t.free /\ Rest(t, u) /\ DOMAIN u = TxnFields /\ DOMAIN u.main = {"root", "leaves", "big"}
        /\ u.got = t.got /\ u.rc = t.rc /\ u.err = t.err /\ u.ops = t.ops
    BY <1>1, MainSet
  <1>5. /\ b # NoPage /\ c # NoPage /\ b # r /\ c # r /\ b # t.free.root /\ c # t.free.root
        /\ \A k, i : Lives(t, L, k, i, b) <=> k = 6 /\ i = b
        /\ \A k, i : Lives(t, L, k, i, c) <=> k = 6 /\ i = c
    <2>1. Run(b, 1) = {b} /\ Run(c, 1) = {c}
      BY RunMembers
    <2>2. b \in DOMAIN L /\ c \in DOMAIN L
      BY <1>2
    <2>3. b \in Run(b, L[b]) /\ c \in Run(c, L[c])
      BY <1>2, <2>1
    <2>4. b # NoPage /\ b # r /\ b # t.free.root /\ \A k, i : Lives(t, L, k, i, b) <=> k = 6 /\ i = b
      BY <1>3, <2>2, <2>3, LimboPage
    <2>5. c # NoPage /\ c # r /\ c # t.free.root /\ \A k, i : Lives(t, L, k, i, c) <=> k = 6 /\ i = c
      BY <1>3, <2>2, <2>3, LimboPage
    <2> QED BY <2>4, <2>5
  <1>6. r \in Nat /\ \A k, i : Lives(t, L, k, i, r) <=> k = 1 /\ i = 0
    <2>1. Lives(t, L, 1, 0, r)
      BY SMT DEF Lives, RootOf
    <2> QED BY <1>1, <2>1 DEF Once, IsTxn, IsMain
  <1>7. IsTxn(u)
    <2>1. {r, b} \subseteq Nat
      BY <1>6
    <2>2. IsMain(u.main)
      BY <1>1, <1>4, <1>5, <2>1 DEF IsTxn, IsMain
    <2> QED BY <1>1, <1>4, <2>2 DEF IsTxn, Rest
  <1>8. SameRecords(t, u)
    BY <1>4 DEF SameRecords
  <1> DEFINE D == [x \in {b, c, r} |-> IF x = c THEN 1 ELSE 2]
             E == [x \in {b, c, r} |-> 0]
  <1>9. ASSUME NEW x, NEW k, NEW i, k <= 6
        PROVE  Lives(u, Nil, k, i, x) <=>
               IF x = c THEN k = 1 /\ i = 0 ELSE IF x = b \/ x = r THEN k = 2 /\ i = 0 ELSE Lives(t, L, k, i, x)
    <2> HIDE DEF r
    <2>1. CASE k = 6
      <3>1. ~Lives(u, Nil, 6, i, x)
        BY NilMembers
      <3>2. Lives(t, L, 6, i, x) => x = b \/ x = c
        <4>1. Run(b, 1) = {b} /\ Run(c, 1) = {c}
          BY RunMembers
        <4>2. Lives(t, L, 6, i, x) => i \in DOMAIN L /\ x \in Run(i, L[i])
          BY SMT DEF Lives
        <4> QED BY <1>2, <4>1, <4>2
      <3> QED BY <2>1, <3>1, <3>2
    <2>2. CASE k = 1
      <3>1. Lives(u, Nil, 1, i, x) <=> i = 0 /\ x = c
        BY <1>4, <1>5, SMT DEF Lives, RootOf
      <3>2. Lives(t, L, 1, i, x) <=> i = 0 /\ x \in RootOf(t.main)
        BY SMT DEF Lives
      <3>3. x \in RootOf(t.main) => x = r
        BY DEF RootOf, r
      <3> QED BY <1>2, <1>5, <2>2, <3>1, <3>2, <3>3
    <2>3. CASE k = 2
      <3>1. Lives(u, Nil, 2, i, x) <=> i = 0 /\ (x = r \/ x = b)
        BY <1>4, SMT DEF Lives
      <3>2. ~Lives(t, L, 2, i, x)
        BY SMT DEF Lives
      <3> QED BY <1>2, <1>5, <2>3, <3>1, <3>2
    <2>4. CASE k # 6 /\ k # 1 /\ k # 2
      <3>1. Lives(u, Nil, k, i, x) <=> Lives(t, L, k, i, x)
        BY <1>4, <1>9, <2>4, SMT DEF Lives
      <3>2. x \in {b, c, r} => ~Lives(t, L, k, i, x)
        BY <1>5, <1>6, <2>4
      <3> QED BY <2>4, <3>1, <3>2
    <2> QED BY <2>1, <2>2, <2>3, <2>4
  <1>10. MovedUse(t, L, u, Nil, {b, c, r}, D, E)
    <2>1. \A x \in {b, c, r} : D[x] <= 6 /\ \E k, i : k <= 6 /\ Lives(t, L, k, i, x)
      BY <1>5, <1>6
    <2> QED BY <1>2, <1>5, <1>9, <2>1 DEF MovedUse
  <1>11. ASSUME NEW x, NEW n PROVE Block(t, L, x, n) => Block(u, Nil, x, n)
    <2>1. CASE x = b \/ x = c
      <3>1. Block(t, L, x, n) => n = 1
        BY <1>2, <1>3, <2>1, LimboSize
      <3>2. x \in RootOf(u.main) \cup u.main.leaves
        BY Zenon, <1>4, <1>5, <2>1 DEF RootOf
      <3> QED BY <3>1, <3>2 DEF Block
    <2>2. CASE x = r
      <3>1. Block(t, L, r, n) => n = 1
        <4>1. 1 \in {1, 2, 4, 9} /\ Lives(t, L, 1, 0, r)
          BY <1>6
        <4> QED BY <1>3, <4>1, PageSize
      <3>2. r \in u.main.leaves
        BY <1>4
      <3> QED BY Zenon, <2>2, <3>1, <3>2 DEF Block
    <2>3. CASE x \notin {b, c, r}
      <3>1. x \notin RootOf(t.main)
        BY <2>3 DEF RootOf
      <3>2. x \notin DOMAIN L
        BY <1>2, <2>3
      <3> HIDE DEF r
      <3> QED BY <1>4, <3>1, <3>2 DEF Block, Rest
    <2> QED BY <2>1, <2>2, <2>3
  <1>12. SameUse(t, L, u, Nil)
    BY <1>1, <1>10, <1>11, MovedSameUse
  <1>13. Good(u, Nil)
    BY <1>3, <1>4, <1>7, <1>8, <1>12, NilMembers, Relink
  <1>14. Frame(t, u)
    <2>1. u.id = t.id /\ u.pglast = t.pglast /\ t.pglast \in Nat
      BY <1>1, <1>4 DEF Rest, IsTxn
    <2> QED BY <1>4, <2>1 DEF Frame
  <1> QED BY <1>4, <1>13, <1>14

(* A root above a single leaf goes, its page in limbo.                      *)
LEMMA RootUnlinked ==
  ASSUME NEW t, Good(t, Nil), NEW m, t.main.leaves = {m} \/ (t.main.leaves = {} /\ m = NoPage), t.main.root # NoPage,
         NEW u, u = Rooted(t, m, {})
  PROVE  /\ Good(u, One(t.main.root, 1)) /\ Frame(t, u) /\ u.rc = t.rc /\ u.err = t.err
         /\ u.main.root = m /\ u.main.leaves = {} /\ u.main.big = t.main.big /\ u.free = t.free /\ Rest(t, u) /\ u.got = t.got
  <1> DEFINE r == t.main.root
             L == One(r, 1)
  <1>1. IsTxn(t) /\ Once(t, Nil) /\ r \in Nat
    BY DEF Good, IsTxn, IsMain
  <1>2. m \in Nat /\ m # r
    <2>1. CASE t.main.leaves = {m}
      <3>1. r \notin t.main.leaves
        BY RootNoLeaf
      <3> QED BY <1>1, <2>1, <3>1 DEF IsTxn, IsMain
    <2>2. CASE m = NoPage
      BY <2>2 DEF NoPage
    <2> QED BY <2>1, <2>2
  <1>3. /\ u.main.root = m /\ u.main.leaves = {} /\ u.main.big = t.main.big
        /\ u.free = t.free /\ Rest(t, u) /\ DOMAIN u = TxnFields /\ DOMAIN u.main = {"root", "leaves", "big"}
        /\ u.got = t.got /\ u.rc = t.rc /\ u.err = t.err /\ u.ops = t.ops
    BY <1>1, MainSet
  <1>4. IsRuns(L) /\ DOMAIN L = {r} /\ L[r] = 1 /\ \A i, x : Lives(u, L, 6, i, x) <=> i = r /\ x = r
    <2> HIDE DEF r
    <2>1. /\ IsRuns(L) /\ DOMAIN L = {r} /\ L[r] = 1
          /\ \A v, i, x : Lives(v, L, 6, i, x) <=> i = r /\ x = r
      BY <1>1, OnePage
    <2> HIDE DEF L
    <2> QED BY <2>1
  <1> HIDE DEF L
  <1>5. \A k, i : Lives(t, Nil, k, i, r) <=> k = 1 /\ i = 0
    <2>1. Lives(t, Nil, 1, 0, r)
      BY SMT DEF Lives, RootOf
    <2> QED BY <1>1, <2>1 DEF Once
  <1>6. \A i, x : Lives(t, Nil, 2, i, x) <=> i = 0 /\ x = m /\ m # NoPage
    <2>1. \A i, x : Lives(t, Nil, 2, i, x) <=> i = 0 /\ x \in t.main.leaves
      BY SMT DEF Lives
    <2>2. m \in t.main.leaves => m # NoPage
      <3>1. m \in t.main.leaves => Lives(t, Nil, 2, 0, m)
        BY <2>1
      <3> QED BY <3>1, LivePage DEF FirstPage, NoPage
    <2> QED BY <2>1, <2>2
  <1>7. m # NoPage => \A k, i : Lives(t, Nil, k, i, m) <=> k = 2 /\ i = 0
    BY <1>1, <1>6 DEF Once
  <1>8. IsTxn(u)
    <2>1. IsMain(u.main)
      BY <1>1, <1>2, <1>3 DEF IsTxn, IsMain
    <2> QED BY <1>1, <1>3, <2>1 DEF IsTxn, Rest
  <1>9. SameRecords(t, u)
    BY <1>3 DEF SameRecords
  <1> DEFINE X == {r} \cup ({m} \ {NoPage})
             D == [x \in X |-> IF x = r THEN 6 ELSE 1]
             E == [x \in X |-> IF x = r THEN r ELSE 0]
  <1>10. ASSUME NEW x, NEW k, NEW i, k <= 6
         PROVE  Lives(u, L, k, i, x) <=>
                IF x = r THEN k = 6 /\ i = r
                ELSE IF x = m /\ m # NoPage THEN k = 1 /\ i = 0 ELSE Lives(t, Nil, k, i, x)
    <2> HIDE DEF r
    <2>1. CASE k = 6
      <3>1. ~Lives(t, Nil, 6, i, x)
        BY NilMembers
      <3> QED BY <1>2, <1>4, <2>1, <3>1
    <2>2. CASE k = 1
      <3>1. Lives(u, L, 1, i, x) <=> i = 0 /\ x = m /\ m # NoPage
        BY <1>3, SMT DEF Lives, RootOf
      <3>2. Lives(t, Nil, 1, i, x) => x = r
        BY SMT DEF Lives, RootOf, r
      <3> QED BY <1>2, <2>2, <3>1, <3>2
    <2>3. CASE k = 2
      <3>1. ~Lives(u, L, 2, i, x)
        BY <1>3, SMT DEF Lives
      <3> QED BY <1>2, <1>6, <2>3, <3>1
    <2>4. CASE k # 6 /\ k # 1 /\ k # 2
      <3>1. Lives(u, L, k, i, x) <=> Lives(t, Nil, k, i, x)
        BY <1>3, <1>10, <2>4, SMT DEF Lives
      <3> QED BY <1>5, <1>7, <2>4, <3>1
    <2> QED BY <2>1, <2>2, <2>3, <2>4
  <1>11. MovedUse(t, Nil, u, L, X, D, E)
    <2>1. \A x \in X : D[x] <= 6 /\ \E k, i : k <= 6 /\ Lives(t, Nil, k, i, x)
      BY <1>5, <1>7
    <2> QED BY <1>2, <1>10, <2>1 DEF MovedUse
  <1>12. ASSUME NEW x, NEW n PROVE Block(t, Nil, x, n) => Block(u, L, x, n)
    <2>1. CASE x = r
      <3>1. Block(t, Nil, r, n) => n = 1
        <4>1. 1 \in {1, 2, 4, 9} /\ Lives(t, Nil, 1, 0, r)
          BY <1>5
        <4> QED BY <4>1, PageSize
      <3> QED BY <1>4, <2>1, <3>1 DEF Block
    <2>2. CASE x = m /\ m # NoPage
      <3>1. Block(t, Nil, m, n) => n = 1
        <4>1. 2 \in {1, 2, 4, 9} /\ Lives(t, Nil, 2, 0, m)
          BY <1>7, <2>2
        <4> QED BY <4>1, PageSize
      <3>2. m \in RootOf(u.main)
        BY <1>3, <2>2 DEF RootOf
      <3> QED BY <2>2, <3>1, <3>2 DEF Block
    <2>3. CASE x # r /\ ~(x = m /\ m # NoPage)
      <3>1. x \notin RootOf(t.main) /\ x \notin t.main.leaves
        <4>1. x \in t.main.leaves => Lives(t, Nil, 2, 0, x)
          BY SMT DEF Lives
        <4> QED BY <1>6, <2>3, <4>1 DEF RootOf
      <3>2. DOMAIN Nil = {}
        BY NilMembers
      <3> HIDE DEF r
      <3> QED BY <1>3, <3>1, <3>2 DEF Block, Rest
    <2> QED BY <2>1, <2>2, <2>3
  <1>13. SameUse(t, Nil, u, L)
    BY <1>1, <1>11, <1>12, MovedSameUse
  <1>14. Good(u, L)
    BY <1>3, <1>4, <1>8, <1>9, <1>13, Relink
  <1>15. Frame(t, u)
    <2>1. u.id = t.id /\ u.pglast = t.pglast /\ t.pglast \in Nat
      BY <1>1, <1>3 DEF Rest, IsTxn
    <2> QED BY <1>3, <2>1 DEF Frame
  <1> QED BY <1>3, <1>14, <1>15 DEF L

LEMMA FrameSelf ==
  ASSUME NEW t, IsTxn(t)
  PROVE  Frame(t, t)
  BY DEF Frame, IsTxn

LEMMA FinitePages ==
  ASSUME NEW t, NEW L, Good(t, L), NEW S, \A x \in S : \E k, i : Lives(t, L, k, i, x)
  PROVE  IsFiniteSet(S) /\ S \subseteq Nat
  <1>1. t.next \in Nat
    BY DEF Good, IsTxn
  <1>2. S \subseteq FirstPage..(t.next - 1)
    BY DEF Good, Cover
  <1>3. IsFiniteSet(FirstPage..(t.next - 1))
    BY <1>1, FS_Interval DEF FirstPage
  <1>4. IsFiniteSet(S)
    BY <1>2, <1>3, FS_Subset
  <1>5. FirstPage..(t.next - 1) \subseteq Nat
    BY <1>1 DEF FirstPage
  <1> QED BY <1>2, <1>4, <1>5

LEMMA CollapseGood ==
  ASSUME NEW t, Good(t, Nil), Numbers
  PROVE  Good(Collapse(t), Nil) /\ Frame(t, Collapse(t)) /\ Collapse(t).rc = t.rc /\ Collapse(t).err = t.err
  <1>1. IsTxn(t)
    BY DEF Good
  <1>2. CASE Cardinality(t.main.leaves) # 1
    <2>1. Collapse(t) = t
      BY <1>2 DEF Collapse
    <2> QED BY <1>1, <2>1, FrameSelf
  <1>3. CASE Cardinality(t.main.leaves) = 1
    <2>1. IsFiniteSet(t.main.leaves)
      <3>1. \A x \in t.main.leaves : Lives(t, Nil, 2, 0, x)
        BY SMT DEF Lives
      <3> QED BY <3>1, FinitePages
    <2>2. PICK m : t.main.leaves = {m}
      BY <1>3, <2>1, FS_Singleton
    <2>3. m \in Nat /\ t.main.root # NoPage /\ t.main.root \in Nat
      BY <1>1, <2>2 DEF IsTxn, IsMain
    <2>4. Max(t.main.leaves) = m
      <3>1. {m} \subseteq Nat /\ m \in {m} /\ \A x \in {m} : x <= m
        BY <2>3
      <3>2. Max({m}) = m
        BY <3>1, MaxOf
      <3> QED BY <2>2, <3>2
    <2> DEFINE r == t.main.root
               a == Append_(t, {r})
               u == Rooted(a, m, {})
               v == Rooted(t, m, {})
    <2>5. Collapse(t) = u
      BY <1>3, <2>4 DEF Collapse, Rooted
    <2>6. Good(v, One(r, 1)) /\ Frame(t, v) /\ v.rc = t.rc /\ v.err = t.err /\ Rest(t, v) /\ v.free = t.free /\ v.got = t.got
          /\ IsTxn(v)
      <3>1. v = Rooted(t, m, {})
        OBVIOUS
      <3> HIDE DEF v
      <3> QED BY <2>2, <2>3, <3>1, RootUnlinked DEF Good
    <2>7. /\ Appends(t, a, {r}) /\ a.main = t.main /\ a.free = t.free
          /\ a.rc = t.rc /\ a.err = t.err /\ a.ops = t.ops
      BY <1>1, AppendFields
    <2> HIDE DEF a
    <2>8. IsTxn(a)
      <3>1. Cardinality({r}) = 1
        BY FS_Singleton
      <3>2. a.nfreed \in Nat /\ a.freed \subseteq Nat
        BY <1>1, <2>3, <2>7, <3>1 DEF IsTxn, Appends
      <3> QED BY <1>1, <2>7, <3>2 DEF IsTxn, Appends, Freeing
    <2>9. /\ Rest(a, u) /\ DOMAIN u = TxnFields /\ u.free = a.free /\ u.main = RootedMain(a.main, m, {})
          /\ u.got = a.got /\ u.rc = a.rc /\ u.err = a.err /\ u.ops = a.ops
      <3>1. u = Rooted(a, m, {})
        OBVIOUS
      <3> HIDE DEF u
      <3> QED BY <2>8, <3>1, MainSet
    <2>10. v.main = RootedMain(t.main, m, {})
      <3>1. v = Rooted(t, m, {})
        OBVIOUS
      <3> HIDE DEF v
      <3> QED BY <1>1, <3>1, MainSet
    <2> HIDE DEF u, v, r
    <2>11. Appends(v, u, {r}) /\ u.main = v.main /\ u.free = v.free
      <3>1. Rest(t, v) /\ Rest(a, u) /\ Appends(t, a, {r})
        BY <2>6, <2>7, <2>9
      <3>2. u.got \in Nat
        BY <2>8, <2>9 DEF IsTxn
      <3>3. Freeing(v, u)
        BY <2>9, <3>1, <3>2 DEF Rest, Freeing, Appends
      <3>4. Appends(v, u, {r})
        BY <3>1, <3>3 DEF Rest, Appends
      <3> QED BY <2>6, <2>7, <2>9, <2>10, <3>4
    <2>12. Good(u, Nil)
      <3>1. Run(r, 1) = {r} /\ r \in Nat /\ 1 \in Nat \ {0}
        BY <2>3, RunMembers DEF r
      <3>2. Appends(v, u, Run(r, 1))
        BY <2>11, <3>1
      <3> QED BY <2>6, <2>11, <3>1, <3>2, FreeLimbo
    <2>13. Frame(t, u)
      <3>1. u.id = t.id /\ u.pglast = t.pglast /\ t.pglast \in Nat
        BY <1>1, <2>7, <2>9 DEF Rest, Appends, Freeing, IsTxn
      <3> QED BY <2>7, <2>9, <3>1 DEF Frame
    <2> QED BY <2>5, <2>7, <2>9, <2>12, <2>13
  <1> QED BY <1>2, <1>3

LEMMA UnlinkedGood ==
  ASSUME NEW t, Good(t, Nil), Numbers, NEW p \in t.main.leaves
  PROVE  Fine(t, Unlinked(t, p))
  <1> DEFINE v == [t EXCEPT !.main.leaves = @ \ {p}]
             u == PageLoose(v, p)
             z == Collapse(u)
  <1>1. IsTxn(t) /\ p \in Nat
    BY DEF Good, IsTxn, IsMain
  <1>2. Good(v, One(p, 1))
    BY UnlinkLeaf
  <1>3. Frame(t, v) /\ v.rc = t.rc /\ v.err = t.err
    BY <1>1, SMT DEF IsTxn, TxnFields, Frame
  <1>4. Unlinked(t, p) = z
    BY DEF Unlinked
  <1> HIDE DEF v
  <1>5. /\ Good(u, Nil) /\ DOMAIN u = TxnFields /\ u.main = v.main /\ u.free = v.free /\ u.id = v.id
        /\ u.pglast = v.pglast /\ u.ops = v.ops /\ u.rc = v.rc /\ u.err = v.err
    BY <1>1, <1>2, PageLooseGood
  <1> HIDE DEF u
  <1>6. IsTxn(v) /\ IsTxn(u)
    BY <1>2, <1>5 DEF Good
  <1>7. Frame(v, u)
    <2>1. v.pglast <= u.pglast
      BY <1>5, <1>6 DEF IsTxn
    <2> QED BY <1>5, <2>1 DEF Frame
  <1>8. Frame(t, u)
    BY <1>1, <1>3, <1>6, <1>7, FrameTwice
  <1>9. Good(z, Nil) /\ Frame(u, z) /\ z.rc = u.rc /\ z.err = u.err
    BY <1>5, CollapseGood
  <1> HIDE DEF z
  <1>10. Frame(t, z)
    BY <1>1, <1>6, <1>8, <1>9, FrameTwice DEF Good
  <1> QED BY <1>3, <1>4, <1>5, <1>9, <1>10 DEF Fine

-----------------------------------------------------------------------------
(* Then an operation that goes on where another ended. *)
LEMMA AddLeafGood ==
  ASSUME NEW t, Good(t, Nil), Numbers, Ok(t), t.main.root # NoPage, t.main.leaves # {} \/ t.got = t.main.root,
         NEW u, u = Then(PageAlloc(t, 1), LAMBDA b :
                       IF t.main.leaves # {} THEN [b EXCEPT !.main.leaves = @ \cup {b.got}]
                       ELSE Then(PageAlloc(b, 1), LAMBDA c :
                                [c EXCEPT !.main.root = c.got, !.main.leaves = {t.got, b.got}]))
  PROVE  Fine(t, u)
  <1> DEFINE b == PageAlloc(t, 1)
             v == [b EXCEPT !.main.leaves = @ \cup {b.got}]
             c == PageAlloc(b, 1)
             z == Rooted(c, c.got, {t.got, b.got})
  <1>1. IsTxn(t) /\ 1 \in Nat \ {0}
    BY DEF Good
  <1>2. u = IF Ok(b) THEN IF t.main.leaves # {} THEN v ELSE IF Ok(c) THEN z ELSE c ELSE b
    BY DEF Then, Rooted
  <1>3. \/ Lost(b)
        \/ Good(b, One(b.got, 1)) /\ Allocated(t, b) /\ b.got \in Nat
    BY SmallAlloc
  <1> HIDE DEF b
  <1>4. CASE Lost(b)
    <2>1. u = b
      BY <1>2, <1>4 DEF Lost
    <2> QED BY <1>4, <2>1 DEF Fine
  <1>5. CASE Good(b, One(b.got, 1)) /\ Allocated(t, b) /\ b.got \in Nat
    <2>1. Ok(b) /\ b.main = t.main /\ b.rc = t.rc /\ b.err = t.err /\ IsTxn(b) /\ Frame(t, b)
      BY <1>1, <1>5, Framed DEF Ok, Allocated, Good
    <2>2. CASE t.main.leaves # {}
      <3>1. Good(v, Nil)
        BY <1>5, <2>1, LinkLeaf
      <3>2. Frame(b, v) /\ v.rc = b.rc /\ v.err = b.err
        BY <2>1, SMT DEF IsTxn, TxnFields, Frame
      <3> HIDE DEF v
      <3>3. Frame(t, v)
        BY <1>1, <2>1, <3>1, <3>2, FrameTwice DEF Good
      <3> QED BY <1>2, <2>1, <2>2, <3>1, <3>2, <3>3 DEF Fine
    <2>3. CASE t.main.leaves = {}
      <3>1. \/ Lost(c)
            \/ /\ Good(c, With(One(b.got, 1), c.got, 1)) /\ Allocated(b, c)
               /\ c.got \in Nat /\ c.got \notin DOMAIN One(b.got, 1)
        BY <1>1, <1>5, AllocGood
      <3> HIDE DEF c
      <3>2. CASE Lost(c)
        <4>1. u = c
          BY <1>2, <2>1, <2>3, <3>2 DEF Lost
        <4> QED BY <3>2, <4>1 DEF Fine
      <3>3. CASE /\ Good(c, With(One(b.got, 1), c.got, 1)) /\ Allocated(b, c)
                 /\ c.got \in Nat /\ c.got \notin DOMAIN One(b.got, 1)
        <4>1. Ok(c) /\ c.main = t.main /\ c.rc = t.rc /\ c.err = t.err /\ IsTxn(c) /\ Frame(b, c)
          BY <2>1, <3>3, Framed DEF Ok, Allocated, Good
        <4>2. c.main.leaves = {} /\ c.main.root # NoPage /\ t.got = c.main.root
          BY <2>3, <4>1
        <4>3. z = Rooted(c, c.got, {c.main.root, b.got})
          BY <4>2
        <4> HIDE DEF z
        <4>4. Good(z, Nil) /\ Frame(c, z) /\ z.rc = c.rc /\ z.err = c.err
          BY <1>5, <3>3, <4>2, <4>3, SplitRoot
        <4>5. Frame(t, z)
          <5>1. Frame(t, c)
            BY <1>1, <2>1, <4>1, FrameTwice
          <5> QED BY <1>1, <4>1, <4>4, <5>1, FrameTwice DEF Good
        <4> QED BY <1>2, <2>1, <2>3, <4>1, <4>4, <4>5 DEF Fine
      <3> QED BY <3>1, <3>2, <3>3
    <2> QED BY <2>2, <2>3
  <1> QED BY <1>3, <1>4, <1>5

LEMMA SplitGood ==
  ASSUME NEW t, Good(t, Nil), Numbers, Ok(t), NEW l \in Leaves(t)
  PROVE  Fine(t, PutSplit(t, l))
  <1> DEFINE a == CursorTouch(t, l)
             u == Then(PageAlloc(a, 1), LAMBDA b :
                       IF a.main.leaves # {} THEN [b EXCEPT !.main.leaves = @ \cup {b.got}]
                       ELSE Then(PageAlloc(b, 1), LAMBDA c :
                                [c EXCEPT !.main.root = c.got, !.main.leaves = {a.got, b.got}]))
  <1>1. \/ Lost(a)
        \/ Good(a, Nil) /\ OnPath(t, a, l)
    BY CursorGood
  <1>2. PutSplit(t, l) = IF Ok(a) THEN u ELSE a
    BY DEF PutSplit, Then
  <1> HIDE DEF a
  <1>3. CASE Lost(a)
    <2>1. PutSplit(t, l) = a
      BY <1>2, <1>3 DEF Lost
    <2> QED BY <1>3, <2>1 DEF Fine
  <1>4. CASE Good(a, Nil) /\ OnPath(t, a, l)
    <2>1. Frame(t, a) /\ a.rc = t.rc /\ a.err = t.err /\ Ok(a) /\ a.main.root # NoPage
      BY <1>4 DEF OnPath, Ok
    <2>2. a.main.leaves # {} \/ a.got = a.main.root
      BY <1>4 DEF OnPath
    <2>3. PutSplit(t, l) = u
      BY <1>2, <2>1
    <2>4. u = Then(PageAlloc(a, 1), LAMBDA b :
                       IF a.main.leaves # {} THEN [b EXCEPT !.main.leaves = @ \cup {b.got}]
                       ELSE Then(PageAlloc(b, 1), LAMBDA c :
                                [c EXCEPT !.main.root = c.got, !.main.leaves = {a.got, b.got}]))
      OBVIOUS
    <2> HIDE DEF u
    <2>5. Fine(a, u)
      BY Zenon, <1>4, <2>1, <2>2, <2>4, AddLeafGood
    <2>6. Fine(t, u)
      BY <1>4, <2>1, <2>5, FineTwice
    <2> QED BY <2>3, <2>6
  <1> QED BY <1>1, <1>3, <1>4

LEMMA MergeGood ==
  ASSUME NEW t, Good(t, Nil), Numbers, Ok(t), NEW l \in t.main.leaves, NEW m \in t.main.leaves \ {l}
  PROVE  Fine(t, MergeLeft(t, l, m)) /\ Fine(t, MergeRight(t, l, m))
  <1> DEFINE a == CursorTouch(t, l)
             b == PageTouch(a, m)
             p == Unlinked(b, a.got)
             q == Unlinked(a, m)
  <1>1. l \in Leaves(t)
    BY DEF Leaves
  <1>2. \/ Lost(a)
        \/ Good(a, Nil) /\ OnPath(t, a, l)
    BY <1>1, CursorGood
  <1>3. /\ MergeLeft(t, l, m) = IF Ok(a) THEN IF Ok(b) THEN p ELSE b ELSE a
        /\ MergeRight(t, l, m) = IF Ok(a) THEN q ELSE a
    BY DEF MergeLeft, MergeRight, Then
  <1> HIDE DEF a
  <1>4. CASE Lost(a)
    <2>1. MergeLeft(t, l, m) = a /\ MergeRight(t, l, m) = a
      BY <1>3, <1>4 DEF Lost
    <2> QED BY <1>4, <2>1 DEF Fine
  <1>5. CASE Good(a, Nil) /\ OnPath(t, a, l)
    <2>1. Frame(t, a) /\ a.rc = t.rc /\ a.err = t.err /\ Ok(a)
          /\ a.main.leaves = {Sub(l, a.got, x) : x \in t.main.leaves} /\ (a.got = l \/ a.got \notin t.main.leaves)
      BY <1>5 DEF OnPath, Ok
    <2>2. m \in a.main.leaves /\ a.got \in a.main.leaves /\ m # a.got
      BY <2>1 DEF Sub
    <2>3. Fine(t, q)
      <3>1. Fine(a, q)
        BY <1>5, <2>2, UnlinkedGood
      <3> QED BY <1>5, <2>1, <3>1, FineTwice
    <2>4. Lives(a, Nil, 2, 0, m) /\ 2 \in {1, 2, 4}
      BY <2>2, SMT DEF Lives
    <2>5. \/ Lost(b)
          \/ Good(b, Nil) /\ Touched(a, b, m)
      BY <1>5, <2>1, <2>4, TouchGood
    <2> HIDE DEF b, q
    <2>6. CASE Lost(b)
      <3>1. MergeLeft(t, l, m) = b /\ MergeRight(t, l, m) = q
        BY <1>3, <2>1, <2>6 DEF Lost
      <3> QED BY <2>3, <2>6, <3>1 DEF Fine
    <2>7. CASE Good(b, Nil) /\ Touched(a, b, m)
      <3>1. Frame(a, b) /\ b.rc = a.rc /\ b.err = a.err
        BY <1>5, <2>7, Framed DEF Touched, Good
      <3>2. Ok(b)
        BY <2>1, <3>1 DEF Ok
      <3>3. a.got \in b.main.leaves
        BY <2>2, <2>7 DEF Touched, Sub
      <3>4. Fine(b, p)
        BY <2>7, <3>3, UnlinkedGood
      <3> HIDE DEF p
      <3>5. Fine(a, p)
        BY <1>5, <2>7, <3>1, <3>4, FineTwice
      <3>6. Fine(t, p)
        BY <1>5, <2>1, <3>5, FineTwice
      <3> QED BY <1>3, <2>1, <2>3, <3>2, <3>6
    <2> QED BY <2>5, <2>6, <2>7
  <1> QED BY <1>2, <1>4, <1>5

(* Every page of the database is freed. *)
LEMMA AbandonGood ==
  ASSUME NEW t, Good(t, Nil), Numbers, NEW u, Appends(t, u, MainPages(t)), u.free = t.free,
         IsMain(u.main), u.main.root = NoPage, u.main.leaves = {}, DOMAIN u.main.big = {}
  PROVE  Good(u, Nil)
  <1> DEFINE P == MainPages(t)
  <1>1. IsTxn(t) /\ Once(t, Nil) /\ IsRuns(t.main.big)
    BY DEF Good, IsTxn, IsMain
  <1>2. \A x : x \in P <=> x \in RootOf(t.main) \/ x \in t.main.leaves \/ x \in PagesOf(t.main.big)
    BY DEF MainPages
  <1>3. \A x : x \in PagesOf(t.main.big) <=> \E i \in DOMAIN t.main.big : x \in Run(i, t.main.big[i])
    BY DEF PagesOf
  <1>4. \A x : /\ x \in RootOf(t.main) <=> Lives(t, Nil, 1, 0, x)
               /\ x \in t.main.leaves <=> Lives(t, Nil, 2, 0, x)
               /\ \A i : Lives(t, Nil, 3, i, x) <=> i \in DOMAIN t.main.big /\ x \in Run(i, t.main.big[i])
    BY SMT DEF Lives
  <1> HIDE DEF P
  <1>5. \A x \in P : \E k, i : k <= 3 /\ Lives(t, Nil, k, i, x)
    <2> SUFFICES ASSUME NEW x \in P PROVE \E k, i : k <= 3 /\ Lives(t, Nil, k, i, x)
      OBVIOUS
    <2>1. CASE x \in RootOf(t.main)
      BY <1>4, <2>1
    <2>2. CASE x \in t.main.leaves
      BY <1>4, <2>2
    <2>3. CASE x \in PagesOf(t.main.big)
      <3>1. PICK i : Lives(t, Nil, 3, i, x)
        BY <1>3, <1>4, <2>3
      <3> QED BY <3>1
    <2> QED BY <1>2, <2>1, <2>2, <2>3
  <1>6. \A x, i : /\ Lives(t, Nil, 1, i, x) => x \in P
                  /\ Lives(t, Nil, 2, i, x) => x \in P
                  /\ Lives(t, Nil, 3, i, x) => x \in P
    <2>1. \A x, i : Lives(t, Nil, 1, i, x) \/ Lives(t, Nil, 2, i, x) => i = 0
      BY SMT DEF Lives
    <2> QED BY <1>2, <1>3, <1>4, <2>1
  <1>7. \A x \in P : \A k, i : Lives(t, Nil, k, i, x) => k <= 3
    BY <1>1, <1>5 DEF Once
  <1>8. Moved(t, Nil, u, Nil, P, 7, 0)
    <2> SUFFICES ASSUME NEW x, NEW k, NEW i
                 PROVE  Lives(u, Nil, k, i, x) <=> IF x \in P THEN k = 7 /\ i = 0 ELSE Lives(t, Nil, k, i, x)
      BY DEF Moved
    <2>1. CASE k \in {1, 2, 3}
      <3>1. ~Lives(u, Nil, k, i, x)
        BY <2>1, SMT DEF Lives, RootOf
      <3>2. Lives(t, Nil, k, i, x) => x \in P
        BY <1>6, <2>1
      <3> QED BY <2>1, <3>1, <3>2
    <2>2. CASE k = 7
      <3>1. Lives(u, Nil, 7, i, x) <=> i = 0 /\ x \in t.freed \cup P
        BY SMT DEF Lives, Appends, P
      <3>2. Lives(t, Nil, 7, i, x) <=> i = 0 /\ x \in t.freed
        BY SMT DEF Lives
      <3> QED BY <2>2, <3>1, <3>2
    <2>3. CASE k \notin {1, 2, 3, 7}
      <3>1. Lives(u, Nil, k, i, x) <=> Lives(t, Nil, k, i, x)
        BY <2>3, SMT DEF Lives, Appends, Freeing
      <3>2. x \in P => ~Lives(t, Nil, k, i, x)
        <4>1. Lives(t, Nil, k, i, x) => k \in {4, 5, 6, 8, 9, 10}
          BY <2>3, SMT DEF Lives
        <4>2. k \in {4, 5, 6, 8, 9, 10} => ~(k <= 3)
          OBVIOUS
        <4> QED BY <1>7, <4>1, <4>2
      <3> QED BY <2>3, <3>1, <3>2
    <2> QED BY <2>1, <2>2, <2>3
  <1>9. IsFiniteSet(P) /\ P \subseteq Nat
    BY <1>5, FinitePages
  <1>10. \A x \in P : \E k, i : k <= 6 /\ Lives(t, Nil, k, i, x)
    <2>1. \A k : k \in {1, 2, 3} => k <= 6
      OBVIOUS
    <2>2. \A x, k, i : Lives(t, Nil, k, i, x) => k \in 1..10
      BY SMT DEF Lives
    <2>3. \A k \in 1..10 : k <= 3 => k <= 6
      OBVIOUS
    <2> QED BY <1>5, <2>2, <2>3
  <1>11. Placed(t, Nil, u, Nil)
    <2> SUFFICES ASSUME NEW p, NEW n, Block(t, Nil, p, n) PROVE Block(u, Nil, p, n)
      BY DEF Placed
    <2>1. CASE p \in RootOf(t.main) \cup t.main.leaves \cup DOMAIN t.main.big
      <3>1. p \in P
        <4>1. p \in DOMAIN t.main.big => p \in Run(p, t.main.big[p])
          BY <1>1, FirstInRun
        <4> QED BY <1>2, <1>3, <2>1, <4>1
      <3>2. p \in u.freed
        BY <3>1 DEF Appends, P
      <3> QED BY <3>2 DEF Block
    <2>2. CASE p \notin RootOf(t.main) \cup t.main.leaves \cup DOMAIN t.main.big
      <3>1. DOMAIN Nil = {}
        BY NilMembers
      <3> QED BY <2>2, <3>1 DEF Block, Appends
    <2> QED BY <2>1, <2>2
  <1>12. IsFree(u.free) /\ \A k \in DOMAIN u.free.recs : k \in DOMAIN t.free.recs /\ u.free.recs[k].pgs = t.free.recs[k].pgs
    BY <1>1 DEF IsTxn
  <1>13. Appends(t, u, P)
    BY DEF P
  <1> QED BY <1>8, <1>9, <1>10, <1>11, <1>12, <1>13, NilMembers, AppendGood

LEMMA DropGood ==
  ASSUME NEW t, Good(t, Nil), Numbers
  PROVE  Fine(t, Drop(t))
  <1> DEFINE a == Append_(t, MainPages(t))
             u == [a EXCEPT !.main = EmptyMain]
  <1>1. IsTxn(t)
    BY DEF Good
  <1>2. Drop(t) = u
    BY DEF Drop
  <1>3. /\ Appends(t, a, MainPages(t)) /\ a.main = t.main /\ a.free = t.free
        /\ a.rc = t.rc /\ a.err = t.err /\ a.ops = t.ops
    BY <1>1, AppendFields
  <1> HIDE DEF a
  <1>4. DOMAIN a = TxnFields
    BY <1>3 DEF Appends, Freeing
  <1>5. /\ Rest(a, u) /\ DOMAIN u = TxnFields /\ u.main = EmptyMain /\ u.free = a.free
        /\ u.rc = a.rc /\ u.err = a.err /\ u.ops = a.ops /\ u.got = a.got
    BY <1>4, SMT DEF TxnFields, Rest
  <1> HIDE DEF u
  <1>6. Appends(t, u, MainPages(t))
    BY <1>3, <1>5 DEF Appends, Freeing, Rest
  <1>7. EmptyMain.root = NoPage /\ EmptyMain.leaves = {} /\ EmptyMain.big = <<>> /\ DOMAIN EmptyMain = {"root", "leaves", "big"}
    BY DEF EmptyMain
  <1>8. IsMain(u.main) /\ DOMAIN u.main.big = {} /\ u.main.root = NoPage /\ u.main.leaves = {}
    BY <1>5, <1>7, NilMembers DEF IsMain, NoPage, Nil
  <1>9. u.free = t.free
    BY <1>3, <1>5
  <1>10. Good(u, Nil)
    BY <1>6, <1>8, <1>9, AbandonGood
  <1>11. Frame(t, u)
    <2>1. u.id = t.id /\ u.pglast = t.pglast /\ t.pglast \in Nat
      BY <1>1, <1>6 DEF Appends, Freeing, IsTxn
    <2> QED BY <1>3, <1>5, <2>1 DEF Frame
  <1> QED BY <1>2, <1>3, <1>5, <1>10, <1>11 DEF Fine

LEMMA DelLastGood ==
  ASSUME NEW t, Good(t, Nil), Numbers, Ok(t), t.main.root # NoPage, t.main.leaves = {}, t.main.big = <<>>
  PROVE  Fine(t, DelLast(t))
  <1> DEFINE l == t.main.root
             a == CursorTouch(t, l)
             d == Append_(a, {a.main.root})
             u == [d EXCEPT !.main.root = NoPage]
  <1>1. l \in Leaves(t)
    BY DEF Leaves, RootOf
  <1>2. \/ Lost(a)
        \/ Good(a, Nil) /\ OnPath(t, a, l)
    BY <1>1, CursorGood
  <1>3. DelLast(t) = IF Ok(a) THEN u ELSE a
    BY DEF DelLast, Then
  <1> HIDE DEF a
  <1>4. CASE Lost(a)
    <2>1. DelLast(t) = a
      BY <1>3, <1>4 DEF Lost
    <2> QED BY <1>4, <2>1 DEF Fine
  <1>5. CASE Good(a, Nil) /\ OnPath(t, a, l)
    <2>1. Frame(t, a) /\ a.rc = t.rc /\ a.err = t.err /\ Ok(a) /\ a.main.root # NoPage
          /\ a.main.leaves = {} /\ a.main.big = <<>> /\ IsTxn(a) /\ IsTxn(t)
      BY <1>5 DEF OnPath, Ok, Good
    <2>2. MainPages(a) = {a.main.root}
      <3>1. PagesOf(<<>>) = {}
        BY NilMembers DEF Nil
      <3> QED BY <2>1, <3>1 DEF MainPages, RootOf
    <2>3. /\ Appends(a, d, MainPages(a)) /\ d.main = a.main /\ d.free = a.free
          /\ d.rc = a.rc /\ d.err = a.err /\ d.ops = a.ops
      BY <2>1, <2>2, AppendFields
    <2> HIDE DEF d
    <2>4. DOMAIN d = TxnFields /\ IsMain(d.main)
      BY <2>1, <2>3 DEF Appends, Freeing, IsTxn
    <2>5. /\ Rest(d, u) /\ DOMAIN u = TxnFields /\ u.free = d.free
          /\ u.rc = d.rc /\ u.err = d.err /\ u.ops = d.ops /\ u.got = d.got
          /\ u.main.root = NoPage /\ u.main.leaves = d.main.leaves /\ u.main.big = d.main.big
          /\ DOMAIN u.main = {"root", "leaves", "big"}
      BY <2>4, SMT DEF TxnFields, Rest, IsMain
    <2> HIDE DEF u
    <2>6. Appends(a, u, MainPages(a))
      BY <2>3, <2>5 DEF Appends, Freeing, Rest
    <2>7. IsMain(u.main) /\ DOMAIN u.main.big = {} /\ u.main.leaves = {} /\ u.free = a.free
      <3>1. u.main.big = Nil /\ u.main.leaves = {}
        BY <2>1, <2>3, <2>5 DEF Nil
      <3> QED BY <2>3, <2>5, <3>1, NilMembers DEF IsMain, NoPage
    <2>8. Good(u, Nil)
      BY <1>5, <2>5, <2>6, <2>7, AbandonGood
    <2>9. Frame(a, u)
      <3>1. u.id = a.id /\ u.pglast = a.pglast /\ a.pglast \in Nat
        BY <2>1, <2>6 DEF Appends, Freeing, IsTxn
      <3> QED BY <2>3, <2>5, <3>1 DEF Frame
    <2>10. Frame(t, u)
      BY <2>1, <2>8, <2>9, FrameTwice DEF Good
    <2> QED BY <1>3, <2>1, <2>3, <2>5, <2>8, <2>10 DEF Fine
  <1> QED BY <1>2, <1>4, <1>5

LEMMA OperationsGood ==
  ASSUME NEW t, Good(t, Nil), Numbers, Ok(t), NEW u \in Operations(t)
  PROVE  Done(t, u)
  <1>1. CASE u = Drop(t)
    BY <1>1, DropGood, FineDone
  <1>2. CASE t.main.root = NoPage /\ u = PutFirst(t)
    BY <1>2, PutFirstGood, FineDone
  <1>3. CASE /\ t.main.root # NoPage /\ t.main.leaves = {} /\ t.main.big = <<>> /\ u = DelLast(t)
    BY <1>3, DelLastGood, FineDone
  <1>4. ASSUME NEW l \in Leaves(t),
               \/ u \in {PutSmall(t, l), PutSplit(t, l), PutBig(t, l)}
               \/ \E b \in DOMAIN t.main.big : u \in {OverwriteBig(t, l, b), DelBig(t, l, b)}
               \/ \E m \in t.main.leaves \ {l} : u \in {MergeLeft(t, l, m), MergeRight(t, l, m)}
        PROVE  Done(t, u)
    <2>1. CASE u \in {PutSmall(t, l), PutBig(t, l)}
      BY <2>1, ValueGood
    <2>2. CASE u = PutSplit(t, l)
      BY <2>2, SplitGood, FineDone
    <2>3. ASSUME NEW b \in DOMAIN t.main.big, u \in {OverwriteBig(t, l, b), DelBig(t, l, b)} PROVE Done(t, u)
      BY <2>3, ValueGood
    <2>4. ASSUME NEW m \in t.main.leaves \ {l}, u \in {MergeLeft(t, l, m), MergeRight(t, l, m)} PROVE Done(t, u)
      <3>1. l \in t.main.leaves
        BY DEF Leaves
      <3>2. Fine(t, MergeLeft(t, l, m)) /\ Fine(t, MergeRight(t, l, m))
        BY <3>1, MergeGood
      <3> QED BY <2>4, <3>2, FineDone
    <2> QED BY <1>4, <2>1, <2>2, <2>3, <2>4
  <1>5. ASSUME NEW l \in Leaves(t), u \in LeafOperations(t, l) PROVE Done(t, u)
    <2>1. CASE u \in UNION {{OverwriteBig(t, l, b), DelBig(t, l, b)} : b \in DOMAIN t.main.big}
      <3>1. \E b \in DOMAIN t.main.big : u \in {OverwriteBig(t, l, b), DelBig(t, l, b)}
        BY <2>1
      <3> QED BY <1>4, <3>1
    <2>2. CASE u \in UNION {{MergeLeft(t, l, m), MergeRight(t, l, m)} : m \in t.main.leaves \ {l}}
      <3>1. \E m \in t.main.leaves \ {l} : u \in {MergeLeft(t, l, m), MergeRight(t, l, m)}
        BY <2>2
      <3> QED BY <1>4, <3>1
    <2>3. CASE u \in {PutSmall(t, l), PutSplit(t, l), PutBig(t, l)}
      BY <1>4, <2>3, Zenon
    <2> DEFINE B == UNION {{OverwriteBig(t, l, b), DelBig(t, l, b)} : b \in DOMAIN t.main.big}
               M == UNION {{MergeLeft(t, l, m), MergeRight(t, l, m)} : m \in t.main.leaves \ {l}}
    <2>4. u \in B \/ u \in M \/ u \in {PutSmall(t, l), PutSplit(t, l), PutBig(t, l)}
      BY <1>5 DEF LeafOperations
    <2> QED BY <2>1, <2>2, <2>3, <2>4
  <1>6. ASSUME u \in UNION {LeafOperations(t, l) : l \in Leaves(t)} PROVE Done(t, u)
    <2>1. PICK l \in Leaves(t) : u \in LeafOperations(t, l)
      BY <1>6
    <2> QED BY <1>5, <2>1
  <1> QED BY <1>1, <1>2, <1>3, <1>6 DEF Operations

=============================================================================
