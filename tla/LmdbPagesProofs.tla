--------------------------- MODULE LmdbPagesProofs ---------------------------
(***************************************************************************)
(* Theorems about the pages of a write transaction, for every map size,    *)
(* every capacity and every number of readers: each page below the end of  *)
(* the file is in one place at every moment, the writer never claims a     *)
(* page of a snapshot somebody may read, and what is committed is whole.   *)
(*                                                                         *)
(* Inv is what holds in every state.  Before it come the records of the    *)
(* freeDB, mdb_freelist_save with the room it reserves and fills, the      *)
(* snapshots, and after it the steps of Next.                              *)
(***************************************************************************)
EXTENDS LmdbPagesLemmas

-----------------------------------------------------------------------------
(* Records of the freeDB. *)
Recs(t, f) == [t EXCEPT !.free.recs = f]

LEMMA RecsSet ==
  ASSUME NEW t, IsTxn(t), NEW f, NEW u, u = Recs(t, f)
  PROVE  /\ u.free.recs = f /\ u.free.root = t.free.root /\ DOMAIN u.free = {"root", "recs"}
         /\ u.main = t.main /\ Rest(t, u) /\ DOMAIN u = TxnFields
         /\ u.got = t.got /\ u.rc = t.rc /\ u.err = t.err /\ u.ops = t.ops
  BY SMT DEF Recs, IsTxn, IsFree, TxnFields, Rest

(* The run of the overflow pages of a record. *)
LEMMA OneRun ==
  ASSUME NEW r, IsRuns(r), \A p, q \in DOMAIN r : p = q
  PROVE  \/ r = Nil /\ DOMAIN r = {}
         \/ \E p \in Nat, n \in Nat \ {0} : r = One(p, n) /\ DOMAIN r = {p} /\ r[p] = n
  <1>1. CASE DOMAIN r = {}
    <2>1. r = [q \in {} |-> 0] /\ Nil = [q \in {} |-> 0]
      BY <1>1, SMT DEF IsRuns, Nil
    <2> QED BY <1>1, <2>1
  <1>2. ASSUME NEW p \in DOMAIN r PROVE r = One(p, r[p]) /\ DOMAIN r = {p} /\ p \in Nat /\ r[p] \in Nat \ {0}
    <2>1. DOMAIN r = {p} /\ p \in Nat /\ r[p] \in Nat \ {0}
      BY DEF IsRuns
    <2>2. r = [q \in {p} |-> r[p]]
      BY <2>1 DEF IsRuns
    <2>3. DOMAIN Nil = {}
      BY NilMembers
    <2>4. One(p, r[p]) = [q \in {p} |-> r[p]]
      <3> DEFINE n == r[p]
      <3> HIDE DEF n
      <3>1. One(p, n) = [q \in DOMAIN Nil \cup {p} |-> IF q = p THEN n ELSE Nil[q]]
        BY DEF One, With
      <3>2. One(p, n) = [q \in {p} |-> n]
        BY <2>3, <3>1, SMT
      <3> QED BY <3>2 DEF n
    <2> QED BY <2>1, <2>2, <2>4
  <1> QED BY <1>1, <1>2

LEMMA RecordAdded ==
  ASSUME NEW t, NEW L, Good(t, L), NEW id \in Nat \ {0}, id \notin DOMAIN t.free.recs,
         id <= t.pglast \/ t.id <= id, NEW r, IsRecord(r), r.pgs = {}, r.ov = L,
         NEW u, u = SetRec(t, id, r)
  PROVE  /\ Good(u, Nil) /\ Rest(t, u) /\ DOMAIN u = TxnFields /\ u.main = t.main /\ u.free.root = t.free.root
         /\ DOMAIN u.free.recs = DOMAIN t.free.recs \cup {id} /\ u.free.recs[id] = r
         /\ \A k \in DOMAIN t.free.recs : k # id => u.free.recs[k] = t.free.recs[k]
         /\ u.got = t.got /\ u.rc = t.rc /\ u.err = t.err /\ u.ops = t.ops
  <1>1. IsTxn(t) /\ Once(t, L) /\ IsRuns(L) /\ t.pglast \in Nat /\ t.id \in Nat
    BY DEF Good, IsTxn
  <1>2. /\ u.free.recs = With(t.free.recs, id, r) /\ u.free.root = t.free.root /\ DOMAIN u.free = {"root", "recs"}
        /\ u.main = t.main /\ Rest(t, u) /\ DOMAIN u = TxnFields
        /\ u.got = t.got /\ u.rc = t.rc /\ u.err = t.err /\ u.ops = t.ops
    <2>1. u = Recs(t, With(t.free.recs, id, r))
      BY DEF SetRec, Recs
    <2> QED BY <1>1, <2>1, RecsSet
  <1>3. /\ DOMAIN u.free.recs = DOMAIN t.free.recs \cup {id} /\ u.free.recs[id] = r
        /\ \A k \in DOMAIN t.free.recs : k # id => u.free.recs[k] = t.free.recs[k]
    <2> DEFINE f == t.free.recs
               g == u.free.recs
    <2>1. g = With(f, id, r)
      BY <1>2
    <2> HIDE DEF f, g
    <2>2. DOMAIN g = DOMAIN f \cup {id} /\ g[id] = r
      BY <2>1 DEF With
    <2>3. \A k \in DOMAIN f : k # id => g[k] = f[k]
      BY <2>1 DEF With
    <2> QED BY <2>2, <2>3 DEF f, g
  <1>4. IsTxn(u)
    <2>1. IsFree(u.free)
      BY <1>1, <1>2, <1>3 DEF IsTxn, IsFree
    <2> QED BY <1>1, <1>2, <2>1 DEF IsTxn, Rest
  <1>5. SameRecords(t, u)
    <2>1. \A k \in DOMAIN u.free.recs :
            \/ \A j \in Referenced : k <= j => u.free.recs[k].pgs \cap UsedPages(snaps[j]) = {}
            \/ k \in DOMAIN t.free.recs /\ u.free.recs[k].pgs = t.free.recs[k].pgs
      BY <1>3
    <2>2. ASSUME NEW k, t.pglast < k, k < t.id
          PROVE  /\ k \in DOMAIN u.free.recs <=> k \in DOMAIN t.free.recs
                 /\ k \in DOMAIN t.free.recs => u.free.recs[k].pgs = t.free.recs[k].pgs
      <3>1. k # id
        BY <1>1, <2>2
      <3> QED BY <1>3, <3>1
    <2> QED BY <2>1, <2>2 DEF SameRecords
  <1> DEFINE D == [x \in PagesOf(L) |-> 5]
             E == [x \in PagesOf(L) |-> id]
  <1>6. ASSUME NEW x, NEW k, NEW i, k <= 6
        PROVE  Lives(u, Nil, k, i, x) <=> IF x \in PagesOf(L) THEN k = 5 /\ i = id ELSE Lives(t, L, k, i, x)
    <2>1. \A j : Lives(t, L, 6, j, x) <=> j \in DOMAIN L /\ x \in Run(j, L[j])
      BY SMT DEF Lives
    <2>2. x \in PagesOf(L) <=> \E j : Lives(t, L, 6, j, x)
      BY <2>1, PagesOfMembers
    <2>3. CASE k = 6
      <3>1. ~Lives(u, Nil, 6, i, x)
        BY NilMembers
      <3> QED BY <2>2, <2>3, <3>1
    <2>4. CASE k = 5
      <3>1. Lives(u, Nil, 5, i, x) <=> i \in DOMAIN u.free.recs /\ x \in PagesOf(u.free.recs[i].ov)
        BY SMT DEF Lives
      <3>2. Lives(t, L, 5, i, x) <=> i \in DOMAIN t.free.recs /\ x \in PagesOf(t.free.recs[i].ov)
        BY SMT DEF Lives
      <3>3. x \in PagesOf(L) => ~Lives(t, L, 5, i, x)
        BY <1>1, <2>2, SMT DEF Once
      <3>4. i = id => (Lives(u, Nil, 5, i, x) <=> x \in PagesOf(L))
        BY <1>3, <3>1
      <3>5. i = id => ~Lives(t, L, 5, i, x)
        BY <3>2
      <3>6. i # id => (Lives(u, Nil, 5, i, x) <=> Lives(t, L, 5, i, x))
        BY <1>3, <3>1, <3>2
      <3> QED BY <2>4, <3>3, <3>4, <3>5, <3>6
    <2>5. CASE k # 6 /\ k # 5
      <3>1. Lives(u, Nil, k, i, x) <=> Lives(t, L, k, i, x)
        BY <1>2, <1>6, <2>5, SMT DEF Lives, RootOf
      <3>2. x \in PagesOf(L) => ~Lives(t, L, k, i, x)
        BY <1>1, <2>2, <2>5 DEF Once
      <3> QED BY <2>5, <3>1, <3>2
    <2> QED BY <2>3, <2>4, <2>5
  <1>7. MovedUse(t, L, u, Nil, PagesOf(L), D, E)
    <2>1. \A x \in PagesOf(L) : D[x] <= 6 /\ \E k, i : k <= 6 /\ Lives(t, L, k, i, x)
      <3> SUFFICES ASSUME NEW x \in PagesOf(L) PROVE D[x] <= 6 /\ \E k, i : k <= 6 /\ Lives(t, L, k, i, x)
        OBVIOUS
      <3>1. PICK p \in DOMAIN L : x \in Run(p, L[p])
        BY PagesOfMembers
      <3>2. Lives(t, L, 6, p, x) /\ 6 <= 6
        BY <3>1, SMT DEF Lives
      <3> QED BY <3>2
    <2>2. \A x \in PagesOf(L) : D[x] = 5 /\ E[x] = id
      OBVIOUS
    <2> HIDE DEF D, E
    <2> QED BY <1>6, <2>1, <2>2 DEF MovedUse
  <1>8. ASSUME NEW p, NEW n PROVE Block(t, L, p, n) => Block(u, Nil, p, n)
    <2>1. CASE p \in DOMAIN L /\ n = L[p]
      <3>1. id \in DOMAIN u.free.recs /\ p \in DOMAIN u.free.recs[id].ov /\ n = u.free.recs[id].ov[p]
        BY <1>3, <2>1
      <3> QED BY <3>1 DEF Block
    <2>2. CASE \E k \in DOMAIN t.free.recs : p \in DOMAIN t.free.recs[k].ov /\ n = t.free.recs[k].ov[p]
      <3>1. PICK k \in DOMAIN t.free.recs : p \in DOMAIN t.free.recs[k].ov /\ n = t.free.recs[k].ov[p]
        BY <2>2
      <3>2. k \in DOMAIN u.free.recs /\ u.free.recs[k] = t.free.recs[k]
        BY <1>3, <3>1
      <3> QED BY <3>1, <3>2 DEF Block
    <2>3. CASE /\ ~(p \in DOMAIN L /\ n = L[p])
               /\ ~\E k \in DOMAIN t.free.recs : p \in DOMAIN t.free.recs[k].ov /\ n = t.free.recs[k].ov[p]
      <3>1. RootOf(u.free) = RootOf(t.free)
        BY <1>2 DEF RootOf
      <3> QED BY <1>2, <2>3, <3>1 DEF Block, Rest
    <2> QED BY <2>1, <2>2, <2>3
  <1>9. SameUse(t, L, u, Nil)
    BY <1>1, <1>7, <1>8, MovedSameUse
  <1>10. Good(u, Nil)
    BY <1>2, <1>4, <1>5, <1>9, NilMembers, Relink
  <1> QED BY <1>2, <1>3, <1>10

LEMMA RecordRemoved ==
  ASSUME NEW t, Good(t, Nil), NEW id \in DOMAIN t.free.recs, id <= t.pglast \/ t.id <= id,
         NEW u, u = Recs(t, Without(t.free.recs, id))
  PROVE  /\ Good(u, t.free.recs[id].ov) /\ Rest(t, u) /\ DOMAIN u = TxnFields /\ u.main = t.main /\ u.free.root = t.free.root
         /\ DOMAIN u.free.recs = DOMAIN t.free.recs \ {id}
         /\ \A k \in DOMAIN u.free.recs : u.free.recs[k] = t.free.recs[k]
         /\ u.got = t.got /\ u.rc = t.rc /\ u.err = t.err /\ u.ops = t.ops
  <1> DEFINE M == t.free.recs[id].ov
  <1>1. IsTxn(t) /\ Once(t, Nil) /\ t.pglast \in Nat /\ t.id \in Nat /\ id \in Nat
    BY DEF Good, IsTxn, IsFree
  <1>2. /\ u.free.recs = Without(t.free.recs, id) /\ u.free.root = t.free.root /\ DOMAIN u.free = {"root", "recs"}
        /\ u.main = t.main /\ Rest(t, u) /\ DOMAIN u = TxnFields
        /\ u.got = t.got /\ u.rc = t.rc /\ u.err = t.err /\ u.ops = t.ops
    BY <1>1, RecsSet
  <1>3. /\ DOMAIN u.free.recs = DOMAIN t.free.recs \ {id}
        /\ \A k \in DOMAIN u.free.recs : u.free.recs[k] = t.free.recs[k]
    <2> DEFINE f == t.free.recs
               g == u.free.recs
    <2>1. g = Without(f, id)
      BY <1>2
    <2> HIDE DEF f, g
    <2>2. DOMAIN g = DOMAIN f \ {id} /\ \A k \in DOMAIN g : g[k] = f[k]
      BY <2>1 DEF Without
    <2> QED BY <2>2 DEF f, g
  <1>4. IsTxn(u)
    <2>1. IsFree(u.free)
      BY <1>1, <1>2, <1>3 DEF IsTxn, IsFree
    <2> QED BY <1>1, <1>2, <2>1 DEF IsTxn, Rest
  <1>5. SameRecords(t, u)
    <2>1. \A k : t.pglast < k /\ k < t.id => k # id
      BY <1>1
    <2> QED BY <1>3, <2>1 DEF SameRecords
  <1>6. IsRuns(M) /\ \A p, q \in DOMAIN M : p = q
    BY <1>1 DEF IsTxn, IsFree, IsRecord
  <1>7. \A x : x \in PagesOf(M) <=> Lives(t, Nil, 5, id, x)
    BY SMT DEF Lives
  <1> HIDE DEF M
  <1> DEFINE X == PagesOf(M)
             D == [x \in X |-> 6]
             E == [x \in X |-> CHOOSE p \in DOMAIN M : TRUE]
  <1>8. \A i, x : Lives(u, M, 6, i, x) <=> i \in DOMAIN M /\ x \in Run(i, M[i])
    BY SMT DEF Lives
  <1>9. ASSUME NEW x \in X PROVE \A i : Lives(u, M, 6, i, x) <=> i = CHOOSE p \in DOMAIN M : TRUE
    <2>1. PICK p \in DOMAIN M : x \in Run(p, M[p])
      BY PagesOfMembers
    <2>2. (CHOOSE q \in DOMAIN M : TRUE) = p
      <3>1. (CHOOSE q \in DOMAIN M : TRUE) \in DOMAIN M
        BY <2>1
      <3> QED BY <1>6, <3>1
    <2> QED BY <1>6, <1>8, <2>1, <2>2
  <1>10. ASSUME NEW x, NEW k, NEW i, k <= 6
         PROVE  Lives(u, M, k, i, x) <=> IF x \in X THEN k = 6 /\ i = CHOOSE p \in DOMAIN M : TRUE
                                          ELSE Lives(t, Nil, k, i, x)
    <2>1. x \in X => \A l, j : Lives(t, Nil, l, j, x) => l = 5 /\ j = id
      BY <1>1, <1>7 DEF Once
    <2>2. CASE k = 6
      <3>1. ~Lives(t, Nil, 6, i, x)
        BY NilMembers
      <3>2. x \notin X => ~Lives(u, M, 6, i, x)
        BY <1>8, PagesOfMembers
      <3> QED BY <1>9, <2>2, <3>1, <3>2
    <2>3. CASE k = 5
      <3>1. Lives(u, M, 5, i, x) <=> i \in DOMAIN u.free.recs /\ x \in PagesOf(u.free.recs[i].ov)
        BY SMT DEF Lives
      <3>2. Lives(t, Nil, 5, i, x) <=> i \in DOMAIN t.free.recs /\ x \in PagesOf(t.free.recs[i].ov)
        BY SMT DEF Lives
      <3>3. Lives(u, M, 5, i, x) <=> i # id /\ Lives(t, Nil, 5, i, x)
        BY <1>3, <3>1, <3>2
      <3>4. x \notin X => ~Lives(t, Nil, 5, id, x)
        BY <1>7
      <3>5. CASE x \in X
        <4>1. ~Lives(u, M, 5, i, x)
          BY <2>1, <3>3, <3>5
        <4> QED BY <2>3, <3>5, <4>1
      <3>6. CASE x \notin X
        <4>1. Lives(u, M, 5, i, x) <=> Lives(t, Nil, 5, i, x)
          BY <3>3, <3>4, <3>6
        <4> QED BY <2>3, <3>6, <4>1
      <3> QED BY <3>5, <3>6
    <2>4. CASE k # 6 /\ k # 5
      <3>1. Lives(u, M, k, i, x) <=> Lives(t, Nil, k, i, x)
        BY <1>2, <1>10, <2>4, SMT DEF Lives, RootOf
      <3> QED BY <2>1, <2>4, <3>1
    <2> QED BY <2>2, <2>3, <2>4
  <1>11. MovedUse(t, Nil, u, M, X, D, E)
    <2>1. \A x \in X : D[x] <= 6 /\ \E k, i : k <= 6 /\ Lives(t, Nil, k, i, x)
      <3> SUFFICES ASSUME NEW x \in X PROVE D[x] <= 6 /\ \E k, i : k <= 6 /\ Lives(t, Nil, k, i, x)
        OBVIOUS
      <3>1. Lives(t, Nil, 5, id, x) /\ 5 <= 6
        BY <1>7
      <3> QED BY <3>1
    <2>2. \A x \in X : D[x] = 6 /\ E[x] = CHOOSE p \in DOMAIN M : TRUE
      OBVIOUS
    <2> HIDE DEF D, E, X
    <2> QED BY <1>10, <2>1, <2>2 DEF MovedUse
  <1>12. ASSUME NEW p, NEW n PROVE Block(t, Nil, p, n) => Block(u, M, p, n)
    <2>1. CASE \E k \in DOMAIN t.free.recs : p \in DOMAIN t.free.recs[k].ov /\ n = t.free.recs[k].ov[p]
      <3>1. PICK k \in DOMAIN t.free.recs : p \in DOMAIN t.free.recs[k].ov /\ n = t.free.recs[k].ov[p]
        BY <2>1
      <3>2. CASE k = id
        BY <3>1, <3>2 DEF Block, M
      <3>3. CASE k # id
        <4>1. k \in DOMAIN u.free.recs /\ u.free.recs[k] = t.free.recs[k]
          BY <1>3, <3>1, <3>3
        <4> QED BY <3>1, <4>1 DEF Block
      <3> QED BY <3>2, <3>3
    <2>2. CASE ~\E k \in DOMAIN t.free.recs : p \in DOMAIN t.free.recs[k].ov /\ n = t.free.recs[k].ov[p]
      <3>1. RootOf(u.free) = RootOf(t.free)
        BY <1>2 DEF RootOf
      <3>2. DOMAIN Nil = {}
        BY NilMembers
      <3> QED BY <1>2, <2>2, <3>1, <3>2 DEF Block, Rest
    <2> QED BY <2>1, <2>2
  <1>13. SameUse(t, Nil, u, M)
    BY <1>1, <1>11, <1>12, MovedSameUse
  <1>14. Good(u, M)
    BY <1>2, <1>4, <1>5, <1>6, <1>13, Relink
  <1> QED BY <1>2, <1>3, <1>14 DEF M

(* A record that keeps its pages: its length, or what is written in it.    *)
LEMMA RecordChanged ==
  ASSUME NEW t, NEW L, Good(t, L), NEW u, NEW id \in DOMAIN t.free.recs, DOMAIN u = TxnFields, Rest(t, u), u.main = t.main,
         u.free.root = t.free.root, DOMAIN u.free = {"root", "recs"}, u.got \in Nat,
         DOMAIN u.free.recs = DOMAIN t.free.recs,
         \A k \in DOMAIN t.free.recs : k # id => u.free.recs[k] = t.free.recs[k],
         IsRecord(u.free.recs[id]), u.free.recs[id].ov = t.free.recs[id].ov,
         \/ u.free.recs[id].pgs = t.free.recs[id].pgs
         \/ newest < id /\ t.id <= id
         \/ id <= t.pglast /\ u.free.recs[id].pgs \subseteq t.pghead,
         Numbers
  PROVE  Good(u, L)
  <1>1. IsTxn(t) /\ Once(t, L) /\ IsRuns(L) /\ t.pglast \in Nat /\ t.id \in Nat /\ id \in Nat /\ Spared(t)
    BY DEF Good, IsTxn, IsFree
  <1>2. IsTxn(u)
    <2>1. IsFree(u.free)
      BY <1>1 DEF IsTxn, IsFree
    <2> QED BY <1>1, <2>1 DEF IsTxn, Rest
  <1>3. ASSUME NEW k \in DOMAIN t.free.recs PROVE u.free.recs[k].ov = t.free.recs[k].ov
    BY <1>3
  <1>4. SameRecords(t, u)
    <2>1. ASSUME NEW k \in DOMAIN u.free.recs
          PROVE  \/ \A j \in Referenced : k <= j => u.free.recs[k].pgs \cap UsedPages(snaps[j]) = {}
                 \/ k \in DOMAIN t.free.recs /\ u.free.recs[k].pgs = t.free.recs[k].pgs
      <3>1. CASE k # id
        BY <3>1
      <3>2. CASE k = id /\ newest < id
        <4>1. \A j \in Referenced : ~(id <= j)
          BY <1>1, <3>2 DEF Numbers
        <4> QED BY <3>2, <4>1
      <3>3. CASE k = id /\ u.free.recs[id].pgs \subseteq t.pghead
        <4>1. \A j \in Referenced : \A x \in UsedPages(snaps[j]) : x \notin t.pghead
          BY <1>1 DEF Spared, Mine
        <4> QED BY <3>3, <4>1
      <3>4. CASE k = id /\ u.free.recs[id].pgs = t.free.recs[id].pgs
        BY <3>4
      <3> QED BY <3>1, <3>2, <3>3, <3>4
    <2>2. ASSUME NEW k, t.pglast < k, k < t.id
          PROVE  /\ k \in DOMAIN u.free.recs <=> k \in DOMAIN t.free.recs
                 /\ k \in DOMAIN t.free.recs => u.free.recs[k].pgs = t.free.recs[k].pgs
      <3>1. k = id => u.free.recs[id].pgs = t.free.recs[id].pgs
        BY <1>1, <2>2
      <3> QED BY <3>1
    <2> QED BY <2>1, <2>2 DEF SameRecords
  <1>5. ASSUME NEW x, NEW k, NEW i, k <= 6 PROVE Lives(u, L, k, i, x) <=> Lives(t, L, k, i, x)
    <2>1. CASE k = 5
      <3>1. Lives(u, L, 5, i, x) <=> i \in DOMAIN u.free.recs /\ x \in PagesOf(u.free.recs[i].ov)
        BY SMT DEF Lives
      <3>2. Lives(t, L, 5, i, x) <=> i \in DOMAIN t.free.recs /\ x \in PagesOf(t.free.recs[i].ov)
        BY SMT DEF Lives
      <3>3. i \in DOMAIN t.free.recs => u.free.recs[i].ov = t.free.recs[i].ov
        BY <1>3
      <3> QED BY <2>1, <3>1, <3>2, <3>3
    <2>2. CASE k # 5
      BY <1>5, <2>2, SMT DEF Lives, RootOf
    <2> QED BY <2>1, <2>2
  <1>6. ASSUME NEW p, NEW n PROVE Block(t, L, p, n) => Block(u, L, p, n)
    <2>1. CASE \E k \in DOMAIN t.free.recs : p \in DOMAIN t.free.recs[k].ov /\ n = t.free.recs[k].ov[p]
      <3>1. PICK k \in DOMAIN t.free.recs : p \in DOMAIN t.free.recs[k].ov /\ n = t.free.recs[k].ov[p]
        BY <2>1
      <3>2. k \in DOMAIN u.free.recs /\ u.free.recs[k].ov = t.free.recs[k].ov
        BY <1>3, <3>1
      <3>3. \E j \in DOMAIN u.free.recs : p \in DOMAIN u.free.recs[j].ov /\ n = u.free.recs[j].ov[p]
        BY <3>1, <3>2
      <3> QED BY <3>3 DEF Block
    <2>2. CASE ~\E k \in DOMAIN t.free.recs : p \in DOMAIN t.free.recs[k].ov /\ n = t.free.recs[k].ov[p]
      <3>1. RootOf(u.free) = RootOf(t.free)
        BY DEF RootOf
      <3> QED BY <2>2, <3>1 DEF Block, Rest
    <2> QED BY <2>1, <2>2
  <1>7. SameUse(t, L, u, L)
    <2>1. \A x : (\E k, i : k <= 6 /\ Lives(u, L, k, i, x)) <=> (\E k, i : k <= 6 /\ Lives(t, L, k, i, x))
      BY <1>5
    <2>2. \A x, k, i, l, j : k <= 6 /\ l <= 6 /\ Lives(u, L, k, i, x) /\ Lives(u, L, l, j, x) => k = l /\ i = j
      BY <1>1, <1>5 DEF Once
    <2> QED BY <1>6, <2>1, <2>2 DEF SameUse
  <1> QED BY <1>1, <1>2, <1>4, <1>7, Relink

-----------------------------------------------------------------------------
(* Writing the freeDB. *)
LEMMA Quotient ==
  ASSUME NEW a \in Nat, NEW b \in Nat, NEW c \in Nat \ {0}, a <= b
  PROVE  a \div c \in Nat /\ a \div c <= b \div c
  <1>1. a \div c \in Int /\ b \div c \in Int
    BY SMT
  <1>2. /\ c * (a \div c) <= a /\ a < c * (a \div c) + c
        /\ c * (b \div c) <= b /\ b < c * (b \div c) + c
    BY SMT
  <1> DEFINE x == a \div c
             y == b \div c
  <1> HIDE DEF x, y
  <1>3. x \in Int /\ y \in Int /\ c * x <= a /\ a < c * x + c /\ c * y <= b /\ b < c * y + c
    BY <1>1, <1>2 DEF x, y
  <1>4. x >= 0
    <2> SUFFICES ASSUME x <= -1 PROVE FALSE
      BY <1>3
    <2>1. c * x + c <= 0
      BY <1>3, SMT
    <2> QED BY <1>3, <2>1
  <1>5. x <= y
    <2> SUFFICES ASSUME y + 1 <= x PROVE FALSE
      BY <1>3
    <2>1. c * y + c <= c * x
      BY <1>3, SMT
    <2> QED BY <1>3, <2>1
  <1> QED BY <1>3, <1>4, <1>5 DEF x, y

LEMMA OvPagesType ==
  /\ \A n \in Nat : OvPages(n) \in Nat \ {0}
  /\ \A m, n \in Nat : m <= n => OvPages(m) <= OvPages(n)
  <1>1. MaxFree1Pg + 3 \in Nat \ {0}
    BY PagesAssumption
  <1> DEFINE c == MaxFree1Pg + 3
  <1> HIDE DEF c
  <1>2. ASSUME NEW n \in Nat PROVE (n + 2) \div c \in Nat /\ OvPages(n) = (n + 2) \div c + 1
    <2>1. n + 2 \in Nat /\ n + 2 <= n + 2 /\ c \in Nat \ {0}
      BY <1>1 DEF c
    <2> QED BY <2>1, Quotient DEF OvPages, c
  <1>3. ASSUME NEW m \in Nat, NEW n \in Nat, m <= n PROVE (m + 2) \div c <= (n + 2) \div c
    <2>1. m + 2 \in Nat /\ n + 2 \in Nat /\ m + 2 <= n + 2 /\ c \in Nat \ {0}
      BY <1>1, <1>3 DEF c
    <2> QED BY <2>1, Quotient
  <1>4. \A n \in Nat : OvPages(n) \in Nat \ {0}
    BY <1>2
  <1>5. ASSUME NEW m \in Nat, NEW n \in Nat, m <= n PROVE OvPages(m) <= OvPages(n)
    <2> DEFINE x == (m + 2) \div c
               y == (n + 2) \div c
    <2>1. x \in Nat /\ y \in Nat /\ x <= y /\ OvPages(m) = x + 1 /\ OvPages(n) = y + 1
      BY <1>2, <1>3, <1>5
    <2> HIDE DEF x, y
    <2> QED BY <2>1
  <1> QED BY <1>4, <1>5

Writable(t) == DOMAIN t.dirty \cup DOMAIN t.spill

(* A write to the freeDB has failed; the commit will be given up.          *)
Stuck(u) == Bare(u) /\ ~Ok(u)

(* What the writing of record id leaves as it was. *)
RecFrame(t, u, id) ==
  /\ DOMAIN u = TxnFields /\ u.id = t.id /\ u.rc = t.rc /\ u.err = t.err
  /\ \A k : k # id => (k \in DOMAIN u.free.recs <=> k \in DOMAIN t.free.recs)
  /\ \A k \in DOMAIN t.free.recs : k # id => u.free.recs[k] = t.free.recs[k]
  /\ t.freed \subseteq u.freed /\ ToSet(u.loose) \subseteq ToSet(t.loose)
  /\ u.pglast \in {t.pglast} \cup DOMAIN t.free.recs /\ t.pglast <= u.pglast
  /\ \A k \in DOMAIN t.free.recs :
        k # id /\ DOMAIN t.free.recs[k].ov \subseteq Writable(t) => DOMAIN t.free.recs[k].ov \subseteq Writable(u)

LEMMA RecFrameTwice ==
  ASSUME NEW t, NEW u, NEW v, NEW id, IsTxn(t), IsTxn(u), IsTxn(v), RecFrame(t, u, id), RecFrame(u, v, id),
         DOMAIN u.free.recs \subseteq DOMAIN t.free.recs \/ v.pglast = u.pglast
  PROVE  RecFrame(t, v, id)
  <1>1. v.pglast \in {t.pglast} \cup DOMAIN t.free.recs /\ t.pglast <= v.pglast
    <2>1. t.pglast \in Nat /\ u.pglast \in Nat /\ v.pglast \in Nat
      BY DEF IsTxn
    <2>2. /\ u.pglast \in {t.pglast} \cup DOMAIN t.free.recs /\ t.pglast <= u.pglast
          /\ v.pglast \in {u.pglast} \cup DOMAIN u.free.recs /\ u.pglast <= v.pglast
      BY DEF RecFrame
    <2> QED BY <2>1, <2>2
  <1>2. \A k \in DOMAIN t.free.recs : k # id => k \in DOMAIN u.free.recs /\ u.free.recs[k] = t.free.recs[k]
    BY DEF RecFrame
  <1>3. \A k \in DOMAIN t.free.recs : k # id => v.free.recs[k] = t.free.recs[k]
    BY <1>2 DEF RecFrame
  <1>4. ASSUME NEW k \in DOMAIN t.free.recs, k # id, DOMAIN t.free.recs[k].ov \subseteq Writable(t)
        PROVE  DOMAIN t.free.recs[k].ov \subseteq Writable(v)
    <2>1. DOMAIN u.free.recs[k].ov \subseteq Writable(u)
      BY <1>2, <1>4 DEF RecFrame
    <2> QED BY <1>2, <1>4, <2>1 DEF RecFrame
  <1> QED BY <1>1, <1>3, <1>4 DEF RecFrame

(* The transaction with the same records. *)
LEMMA RecFrameSame ==
  ASSUME NEW t, NEW u, NEW id, IsTxn(t), DOMAIN u = TxnFields, u.id = t.id, u.rc = t.rc, u.err = t.err,
         u.free.recs = t.free.recs, t.freed \subseteq u.freed, ToSet(u.loose) \subseteq ToSet(t.loose),
         u.pglast \in {t.pglast} \cup DOMAIN t.free.recs, t.pglast <= u.pglast, Writable(t) \subseteq Writable(u)
  PROVE  RecFrame(t, u, id)
  BY DEF RecFrame

Fits(r) == IF r.ov = Nil THEN r.len <= NodeMax ELSE \A p \in DOMAIN r.ov : OvPages(r.len) <= r.ov[p]

Added(t, u, id, len) ==
  /\ RecFrame(t, u, id) /\ u.free.root = t.free.root /\ Writable(t) \subseteq Writable(u)
  /\ id \in DOMAIN u.free.recs /\ u.free.recs[id].len = len /\ u.free.recs[id].pgs = {}
  /\ DOMAIN u.free.recs[id].ov \subseteq Writable(u) /\ Fits(u.free.recs[id])
  /\ len <= NodeMax => Rest(t, u)

LEMMA AddRecGood ==
  ASSUME NEW t, Good(t, Nil), Numbers, Ok(t), NEW id \in Nat \ {0}, id \notin DOMAIN t.free.recs,
         id <= t.pglast \/ t.id <= id, NEW len \in Nat
  PROVE  \/ Lost(AddRec(t, id, len))
         \/ Good(AddRec(t, id, len), Nil) /\ Added(t, AddRec(t, id, len), id, len)
  <1>1. IsTxn(t) /\ t.pglast \in Nat /\ t.id \in Nat
    BY DEF Good, IsTxn
  <1>2. CASE len <= NodeMax
    <2> DEFINE r == [len |-> len, pgs |-> {}, ov |-> Nil]
               u == SetRec(t, id, r)
    <2>1. AddRec(t, id, len) = u
      BY <1>2 DEF AddRec, Nil
    <2>2. IsRecord(r) /\ r.pgs = {} /\ r.ov = Nil /\ r.len = len
      BY NilMembers, SMT DEF IsRecord
    <2> HIDE DEF r
    <2>3. /\ Good(u, Nil) /\ Rest(t, u) /\ DOMAIN u = TxnFields /\ u.main = t.main /\ u.free.root = t.free.root
          /\ DOMAIN u.free.recs = DOMAIN t.free.recs \cup {id} /\ u.free.recs[id] = r
          /\ \A k \in DOMAIN t.free.recs : k # id => u.free.recs[k] = t.free.recs[k]
          /\ u.got = t.got /\ u.rc = t.rc /\ u.err = t.err /\ u.ops = t.ops
      BY <2>2, RecordAdded
    <2> HIDE DEF u
    <2>4. Writable(u) = Writable(t) /\ u.freed = t.freed /\ u.loose = t.loose /\ u.pglast = t.pglast /\ u.id = t.id
      BY <2>3 DEF Rest, Writable
    <2>5. RecFrame(t, u, id)
      BY <1>1, <2>3, <2>4 DEF RecFrame
    <2>6. DOMAIN u.free.recs[id].ov \subseteq Writable(u) /\ Fits(u.free.recs[id])
      BY <1>2, <2>2, <2>3, NilMembers DEF Fits
    <2> QED BY <2>1, <2>2, <2>3, <2>4, <2>5, <2>6 DEF Added
  <1>3. CASE ~(len <= NodeMax)
    <2> DEFINE n == OvPages(len)
               a == PageAlloc(t, n)
               r == [len |-> len, pgs |-> {}, ov |-> One(a.got, n)]
               u == SetRec(a, id, r)
    <2>1. AddRec(t, id, len) = IF Ok(a) THEN u ELSE a
      BY <1>3 DEF AddRec, Then, One, Nil
    <2>2. n \in Nat \ {0}
      BY OvPagesType
    <2>3. \/ Lost(a)
          \/ Good(a, One(a.got, n)) /\ Allocated(t, a) /\ a.got \in Nat
      BY <2>2, AllocGood DEF One
    <2>4. n = OvPages(len)
      OBVIOUS
    <2> HIDE DEF a, n
    <2>5. CASE Lost(a)
      <3>1. AddRec(t, id, len) = a
        BY <2>1, <2>5 DEF Lost
      <3> QED BY <2>5, <3>1
    <2>6. CASE Good(a, One(a.got, n)) /\ Allocated(t, a) /\ a.got \in Nat
      <3>1. /\ Ok(a) /\ IsTxn(a) /\ a.id = t.id /\ a.free = t.free /\ a.rc = t.rc /\ a.err = t.err
            /\ a.freed = t.freed /\ ToSet(a.loose) \subseteq ToSet(t.loose) /\ a.got \in Writable(a)
            /\ a.pglast \in {t.pglast} \cup DOMAIN t.free.recs /\ t.pglast <= a.pglast /\ DOMAIN a = TxnFields
            /\ Writable(t) \subseteq Writable(a)
        BY <2>6 DEF Ok, Allocated, Good, Writable
      <3>2. /\ IsRuns(One(a.got, n)) /\ DOMAIN One(a.got, n) = {a.got} /\ One(a.got, n)[a.got] = n
        BY <2>2, <2>6, OneMembers
      <3>3. IsRecord(r) /\ r.pgs = {} /\ r.ov = One(a.got, n) /\ r.len = len
        BY <3>2, SMT DEF IsRecord
      <3> HIDE DEF r
      <3>4. id \notin DOMAIN a.free.recs /\ (id <= a.pglast \/ a.id <= id)
        <4>1. a.pglast \in Nat
          BY <3>1 DEF IsTxn
        <4> QED BY <1>1, <3>1, <4>1
      <3>5. /\ Good(u, Nil) /\ Rest(a, u) /\ DOMAIN u = TxnFields /\ u.main = a.main /\ u.free.root = a.free.root
            /\ DOMAIN u.free.recs = DOMAIN a.free.recs \cup {id} /\ u.free.recs[id] = r
            /\ \A k \in DOMAIN a.free.recs : k # id => u.free.recs[k] = a.free.recs[k]
            /\ u.got = a.got /\ u.rc = a.rc /\ u.err = a.err /\ u.ops = a.ops
        BY <2>6, <3>3, <3>4, RecordAdded
      <3> HIDE DEF u
      <3>6. Writable(u) = Writable(a) /\ u.freed = a.freed /\ u.loose = a.loose /\ u.pglast = a.pglast /\ u.id = a.id
        BY <3>5 DEF Rest, Writable
      <3>7. RecFrame(t, u, id)
        BY <1>1, <3>1, <3>5, <3>6 DEF RecFrame
      <3>8. DOMAIN u.free.recs[id].ov \subseteq Writable(u)
        BY <3>1, <3>2, <3>3, <3>5, <3>6
      <3>9. Fits(u.free.recs[id])
        <4>1. One(a.got, n) # Nil
          BY <3>2, NilMembers
        <4>2. n <= n
          BY <2>2
        <4> QED BY <2>4, <3>2, <3>3, <3>5, <4>1, <4>2 DEF Fits
      <3> QED BY <1>3, <2>1, <3>1, <3>3, <3>5, <3>6, <3>7, <3>8, <3>9 DEF Added
    <2> QED BY <2>3, <2>5, <2>6
  <1> QED BY <1>2, <1>3

LEMMA FreeOvGood ==
  ASSUME NEW t, NEW ov, Good(t, ov), Numbers, \A p, q \in DOMAIN ov : p = q
  PROVE  /\ Good(FreeOv(t, ov), Nil) /\ DOMAIN FreeOv(t, ov) = TxnFields /\ FreeOv(t, ov).id = t.id
         /\ FreeOv(t, ov).main = t.main /\ FreeOv(t, ov).free = t.free /\ FreeOv(t, ov).pglast = t.pglast
         /\ FreeOv(t, ov).rc = t.rc /\ FreeOv(t, ov).err = t.err /\ t.freed \subseteq FreeOv(t, ov).freed
         /\ FreeOv(t, ov).loose = t.loose /\ Writable(t) \subseteq Writable(FreeOv(t, ov)) \cup DOMAIN ov
         /\ ov = Nil => FreeOv(t, ov) = t
  <1> DEFINE u == FreeOv(t, ov)
  <1>1. IsTxn(t) /\ IsRuns(ov)
    BY DEF Good
  <1>2. CASE ov = Nil
    <2>1. u = t
      BY <1>2 DEF FreeOv, Nil
    <2> HIDE DEF u
    <2>2. Good(u, Nil) /\ DOMAIN u = TxnFields
      BY <1>1, <1>2, <2>1 DEF IsTxn
    <2> QED BY <2>1, <2>2 DEF u
  <1>3. ASSUME NEW p \in Nat, NEW n \in Nat \ {0}, ov = One(p, n), DOMAIN ov = {p}, ov[p] = n
        PROVE  /\ Good(u, Nil) /\ DOMAIN u = TxnFields /\ u.id = t.id
               /\ u.main = t.main /\ u.free = t.free /\ u.pglast = t.pglast
               /\ u.rc = t.rc /\ u.err = t.err /\ t.freed \subseteq u.freed
               /\ u.loose = t.loose /\ Writable(t) \subseteq Writable(u) \cup DOMAIN ov /\ ov # Nil
    <2>1. ov # Nil
      BY <1>3, NilMembers
    <2>2. (CHOOSE q \in DOMAIN ov : TRUE) = p
      BY <1>3
    <2>3. u = OvpageFree(t, p, n)
      <3>1. FreeOv(t, ov) = LET q == CHOOSE q \in DOMAIN ov : TRUE IN OvpageFree(t, q, ov[q])
        BY <2>1 DEF FreeOv, Nil
      <3> QED BY <1>3, <2>2, <3>1
    <2> HIDE DEF u
    <2>4. Good(t, One(p, n))
      BY <1>3
    <2>5. Good(u, Nil) /\ Freed(t, u) /\ u.loose = t.loose
      BY <2>3, <2>4, OvpageFreeGood
    <2>6. Writable(t) \subseteq Writable(u) \cup DOMAIN ov
      <3>1. DOMAIN t.dirty \cup DOMAIN t.spill \subseteq DOMAIN u.dirty \cup DOMAIN u.spill \cup {p}
        BY <2>3, <2>4, OvpageFreeGood
      <3> QED BY <1>3, <3>1 DEF Writable
    <2> QED BY <2>1, <2>5, <2>6 DEF Freed
  <1>4. \/ ov = Nil
        \/ \E p \in Nat, n \in Nat \ {0} : ov = One(p, n) /\ DOMAIN ov = {p} /\ ov[p] = n
    BY <1>1, OneRun
  <1> QED BY <1>2, <1>3, <1>4

(* The page of the freeDB. *)
FreeTouched(t, u) ==
  /\ DOMAIN u = TxnFields /\ u.id = t.id /\ u.rc = t.rc /\ u.err = t.err
  /\ u.free.recs = t.free.recs /\ u.free.root # NoPage /\ u.free.root \in Writable(u)
  /\ t.freed \subseteq u.freed /\ ToSet(u.loose) \subseteq ToSet(t.loose)
  /\ u.pglast \in {t.pglast} \cup DOMAIN t.free.recs /\ t.pglast <= u.pglast
  /\ Writable(t) \subseteq Writable(u)
  /\ t.free.root \in Writable(t) =>
        /\ u.pglast = t.pglast /\ u.pghead = t.pghead /\ u.freed = t.freed /\ u.nfreed = t.nfreed
        /\ u.loose = t.loose

LEMMA RootTouchGood ==
  ASSUME NEW t, Good(t, Nil), Numbers, Ok(t), t.free.root # NoPage
  PROVE  \/ Lost(PageTouch(t, t.free.root))
         \/ Good(PageTouch(t, t.free.root), Nil) /\ FreeTouched(t, PageTouch(t, t.free.root))
  <1> DEFINE p == t.free.root
             u == PageTouch(t, p)
  <1>1. IsTxn(t) /\ Sized(t, Nil)
    BY DEF Good
  <1>2. 4 \in {1, 2, 4} /\ Lives(t, Nil, 4, 0, p)
    BY SMT DEF Lives, RootOf
  <1>3. \/ Lost(u)
        \/ Good(u, Nil) /\ Touched(t, u, p)
    BY <1>2, TouchGood
  <1> HIDE DEF u
  <1>4. ASSUME Good(u, Nil), Touched(t, u, p) PROVE FreeTouched(t, u)
    <2>1. u.free.root = u.got /\ u.got \in Writable(u)
      BY <1>4 DEF Touched, Sub, Writable
    <2>2. u.free.root # NoPage
      <3>1. Block(u, Nil, u.got, u.dirty[u.got])
        BY <1>4 DEF Good, Sized, Touched
      <3> QED BY <1>4, <2>1, <3>1, NoBlock
    <2>3. Writable(t) \subseteq Writable(u)
      BY <1>4 DEF Touched, Writable
    <2>4. p \in Writable(t) => /\ u.pglast = t.pglast /\ u.pghead = t.pghead /\ u.freed = t.freed /\ u.nfreed = t.nfreed
                              /\ u.loose = t.loose
      BY <1>4 DEF Touched, Writable
    <2> QED BY <1>4, <2>1, <2>2, <2>3, <2>4 DEF Touched, FreeTouched
  <1> QED BY <1>3, <1>4 DEF u

LEMMA TouchFreeGood ==
  ASSUME NEW t, Good(t, Nil), Numbers, Ok(t)
  PROVE  \/ Lost(TouchFree(t))
         \/ Good(TouchFree(t), Nil) /\ FreeTouched(t, TouchFree(t))
  <1>1. CASE t.free.root # NoPage
    <2>1. TouchFree(t) = PageTouch(t, t.free.root)
      BY <1>1 DEF TouchFree
    <2> QED BY <1>1, <2>1, RootTouchGood
  <1>2. CASE t.free.root = NoPage
    <2> DEFINE a == PageAlloc(t, 1)
               u == [a EXCEPT !.free.root = a.got]
    <2>1. TouchFree(t) = IF Ok(a) THEN u ELSE a
      BY <1>2 DEF TouchFree, Then
    <2>2. \/ Lost(a)
          \/ Good(a, One(a.got, 1)) /\ Allocated(t, a) /\ a.got \in Nat
      BY SmallAlloc
    <2> HIDE DEF a
    <2>3. CASE Lost(a)
      <3>1. TouchFree(t) = a
        BY <2>1, <2>3 DEF Lost
      <3> QED BY <2>3, <3>1
    <2>4. CASE Good(a, One(a.got, 1)) /\ Allocated(t, a) /\ a.got \in Nat
      <3>1. Ok(a) /\ IsTxn(a) /\ a.free = t.free
        BY <2>4 DEF Ok, Allocated, Good
      <3>2. Good(u, Nil)
        BY <1>2, <2>4, <3>1, LinkFreeRoot
      <3>3. /\ DOMAIN u = TxnFields /\ Rest(a, u) /\ u.rc = a.rc /\ u.err = a.err /\ u.free.recs = a.free.recs
            /\ u.free.root = a.got
        BY <3>1, SMT DEF IsTxn, IsFree, TxnFields, Rest
      <3> HIDE DEF u
      <3>4. a.got # NoPage
        <4>1. a.got \in DOMAIN One(a.got, 1)
          BY <2>4, OnePage
        <4> QED BY <2>4, <4>1, LimboPage
      <3>5. /\ u.dirty = a.dirty /\ u.spill = a.spill /\ u.freed = a.freed /\ u.loose = a.loose /\ u.pglast = a.pglast
            /\ u.id = a.id
        BY <3>3 DEF Rest
      <3>6. Writable(t) \subseteq Writable(u) /\ a.got \in Writable(u)
        BY <2>4, <3>5 DEF Allocated, Writable
      <3>7. t.free.root \notin Writable(t)
        <4>1. \A n : ~Block(t, Nil, NoPage, n)
          BY NoBlock
        <4>2. Sized(t, Nil)
          BY DEF Good
        <4> QED BY <1>2, <4>1, <4>2 DEF Sized, Writable
      <3>8. FreeTouched(t, u)
        BY <2>4, <3>1, <3>3, <3>4, <3>5, <3>6, <3>7 DEF Allocated, FreeTouched
      <3> QED BY <2>1, <3>1, <3>2, <3>8
    <2> QED BY <2>2, <2>3, <2>4
  <1> QED BY <1>1, <1>2

LEMMA TouchedFrame ==
  ASSUME NEW t, NEW u, NEW id, IsTxn(t), FreeTouched(t, u)
  PROVE  RecFrame(t, u, id)
  BY RecFrameSame DEF FreeTouched

Deleted(t, id) == FreeOv(Recs(t, Without(t.free.recs, id)), t.free.recs[id].ov)

LEMMA DeletedGood ==
  ASSUME NEW t, Good(t, Nil), Numbers, NEW id \in DOMAIN t.free.recs, id <= t.pglast \/ t.id <= id,
         t.free.root \in Writable(t), NEW c, c = Deleted(t, id)
  PROVE  /\ Good(c, Nil) /\ RecFrame(t, c, id) /\ c.free.root = t.free.root /\ c.free.root \in Writable(c)
         /\ DOMAIN c.free.recs = DOMAIN t.free.recs \ {id} /\ c.pglast = t.pglast /\ c.main = t.main
         /\ c.loose = t.loose
         /\ t.free.recs[id].ov = Nil => Rest(t, c)
  <1> DEFINE ov == t.free.recs[id].ov
             b == Recs(t, Without(t.free.recs, id))
  <1>1. IsTxn(t) /\ \A p, q \in DOMAIN ov : p = q
    BY DEF Good, IsTxn, IsFree, IsRecord
  <1>2. /\ Good(b, ov) /\ Rest(t, b) /\ DOMAIN b = TxnFields /\ b.main = t.main /\ b.free.root = t.free.root
        /\ DOMAIN b.free.recs = DOMAIN t.free.recs \ {id}
        /\ \A k \in DOMAIN b.free.recs : b.free.recs[k] = t.free.recs[k]
        /\ b.got = t.got /\ b.rc = t.rc /\ b.err = t.err /\ b.ops = t.ops
    BY RecordRemoved
  <1>3. c = FreeOv(b, ov)
    BY DEF Deleted
  <1>4. ov = t.free.recs[id].ov
    OBVIOUS
  <1> HIDE DEF b, ov
  <1>5. /\ Good(c, Nil) /\ DOMAIN c = TxnFields /\ c.id = b.id
        /\ c.main = b.main /\ c.free = b.free /\ c.pglast = b.pglast
        /\ c.rc = b.rc /\ c.err = b.err /\ b.freed \subseteq c.freed
        /\ c.loose = b.loose /\ Writable(b) \subseteq Writable(c) \cup DOMAIN ov
        /\ ov = Nil => c = b
    BY <1>1, <1>2, <1>3, FreeOvGood
  <1>6. /\ Writable(b) = Writable(t) /\ b.freed = t.freed /\ b.loose = t.loose /\ b.pglast = t.pglast /\ b.id = t.id
    BY <1>2 DEF Rest, Writable
  <1>7. \A p \in DOMAIN ov : p # b.free.root /\ \A i \in DOMAIN b.free.recs : p \notin DOMAIN b.free.recs[i].ov
    BY <1>2, LimboPage
  <1>8. c.free.root \in Writable(c)
    BY <1>2, <1>5, <1>6, <1>7
  <1>9. ASSUME NEW k \in DOMAIN t.free.recs, k # id, DOMAIN t.free.recs[k].ov \subseteq Writable(t)
        PROVE  DOMAIN t.free.recs[k].ov \subseteq Writable(c)
    <2>1. k \in DOMAIN b.free.recs /\ b.free.recs[k] = t.free.recs[k]
      BY <1>2, <1>9
    <2>2. \A p \in DOMAIN ov : p \notin DOMAIN t.free.recs[k].ov
      BY <1>7, <2>1
    <2> QED BY <1>5, <1>6, <1>9, <2>2
  <1>10. /\ \A k : k # id => (k \in DOMAIN c.free.recs <=> k \in DOMAIN t.free.recs)
         /\ \A k \in DOMAIN t.free.recs : k # id => c.free.recs[k] = t.free.recs[k]
    BY <1>2, <1>5
  <1>11. t.pglast \in Nat
    BY <1>1 DEF IsTxn
  <1>12. RecFrame(t, c, id)
    BY <1>2, <1>5, <1>6, <1>9, <1>10, <1>11 DEF RecFrame
  <1>13. ov = Nil => Rest(t, c)
    BY <1>2, <1>5
  <1> QED BY <1>2, <1>4, <1>5, <1>6, <1>8, <1>12, <1>13

(* A record that is written where it is. *)
Calm(t, u) ==
  /\ u.pglast = t.pglast /\ u.pghead = t.pghead /\ u.freed = t.freed /\ u.nfreed = t.nfreed
  /\ u.loose = t.loose

(* Record i lies in pages of this transaction, large enough for it: writing *)
(* it again takes none.                                                    *)
Reserved(t, i) ==
  /\ t.free.root \in Writable(t)
  /\ DOMAIN t.free.recs[i].ov \subseteq Writable(t) /\ Fits(t.free.recs[i])

PutDone(t, u, id, len) ==
  /\ RecFrame(t, u, id) /\ u.free.root \in Writable(u)
  /\ id \in DOMAIN u.free.recs /\ u.free.recs[id].len = len
  /\ \/ u.free.recs[id].pgs = {}
     \/ id \in DOMAIN t.free.recs /\ u.free.recs[id].pgs = t.free.recs[id].pgs
  /\ DOMAIN u.free.recs[id].ov \subseteq Writable(u)
  /\ (id \in DOMAIN t.free.recs => Fits(t.free.recs[id])) => Fits(u.free.recs[id])
  /\ id \in DOMAIN t.free.recs /\ Reserved(t, id) /\ len <= t.free.recs[id].len => Calm(t, u)

(* [old EXCEPT !.len = len] in the place of old. *)
Relength(t, id, len) == SetRec(t, id, [t.free.recs[id] EXCEPT !.len = len])

LEMMA RelengthGood ==
  ASSUME NEW t, Good(t, Nil), Numbers, NEW id \in DOMAIN t.free.recs, NEW len \in Nat,
         t.free.root \in Writable(t), DOMAIN t.free.recs[id].ov \subseteq Writable(t),
         t.free.recs[id].ov # Nil, \A p \in DOMAIN t.free.recs[id].ov : t.free.recs[id].ov[p] >= OvPages(len),
         NEW u, u = Relength(t, id, len)
  PROVE  Good(u, Nil) /\ PutDone(t, u, id, len) /\ Calm(t, u)
  <1> DEFINE old == t.free.recs[id]
             r == [old EXCEPT !.len = len]
             f == With(t.free.recs, id, r)
  <1>1. IsTxn(t) /\ IsRecord(old) /\ t.got \in Nat
    BY DEF Good, IsTxn, IsFree
  <1>2. DOMAIN r = {"len", "pgs", "ov"} /\ r.len = len /\ r.pgs = old.pgs /\ r.ov = old.ov
    BY <1>1, SMT DEF IsRecord
  <1>3. IsRecord(r)
    BY <1>1, <1>2 DEF IsRecord
  <1>4. u = Recs(t, f)
    BY DEF Relength, SetRec, Recs
  <1> HIDE DEF r
  <1>5. DOMAIN f = DOMAIN t.free.recs /\ f[id] = r /\ \A k \in DOMAIN t.free.recs : k # id => f[k] = t.free.recs[k]
    <2> DEFINE g == t.free.recs
    <2>1. f = With(g, id, r) /\ id \in DOMAIN g
      OBVIOUS
    <2> HIDE DEF f, g
    <2>2. DOMAIN f = DOMAIN g /\ f[id] = r /\ \A k \in DOMAIN g : k # id => f[k] = g[k]
      BY <2>1 DEF With
    <2> QED BY <2>2 DEF g
  <1> HIDE DEF f
  <1>6. /\ u.free.recs = f /\ u.free.root = t.free.root /\ DOMAIN u.free = {"root", "recs"}
        /\ u.main = t.main /\ Rest(t, u) /\ DOMAIN u = TxnFields
        /\ u.got = t.got /\ u.rc = t.rc /\ u.err = t.err /\ u.ops = t.ops
    BY <1>1, <1>4, RecsSet
  <1>7. Good(u, Nil)
    <2>1. /\ u.got \in Nat /\ DOMAIN u.free.recs = DOMAIN t.free.recs
          /\ \A k \in DOMAIN t.free.recs : k # id => u.free.recs[k] = t.free.recs[k]
          /\ IsRecord(u.free.recs[id]) /\ u.free.recs[id].ov = t.free.recs[id].ov
          /\ u.free.recs[id].pgs = t.free.recs[id].pgs
      BY <1>1, <1>2, <1>3, <1>5, <1>6
    <2> QED BY <1>6, <2>1, RecordChanged
  <1>8. Writable(u) = Writable(t) /\ Calm(t, u) /\ u.id = t.id
    BY <1>6 DEF Rest, Writable, Calm
  <1>9. RecFrame(t, u, id)
    <2>1. t.pglast \in Nat
      BY <1>1 DEF IsTxn
    <2> QED BY <1>5, <1>6, <1>8, <2>1 DEF RecFrame, Calm
  <1>10. Fits(u.free.recs[id])
    <2>1. \A p \in DOMAIN old.ov : old.ov[p] \in Nat
      BY <1>1 DEF IsRecord, IsRuns
    <2>2. OvPages(len) \in Nat
      BY OvPagesType
    <2>3. u.free.recs[id].ov = old.ov /\ u.free.recs[id].len = len
      BY <1>2, <1>5, <1>6
    <2>4. \A p \in DOMAIN old.ov : OvPages(len) <= old.ov[p]
      BY <2>1, <2>2
    <2> HIDE DEF old
    <2>5. old.ov # Nil
      BY DEF old
    <2> QED BY <2>3, <2>4, <2>5 DEF Fits
  <1> QED BY <1>2, <1>5, <1>6, <1>7, <1>8, <1>9, <1>10 DEF PutDone

LEMMA LostStuck ==
  ASSUME NEW u, Lost(u)
  PROVE  Stuck(u)
  BY DEF Lost, Stuck

LEMMA RefusedStuck ==
  ASSUME NEW t, Good(t, Nil)
  PROVE  Stuck(Refused(t))
  <1> DEFINE u == Refused(t)
  <1>1. IsTxn(t) /\ Bare(t)
    BY GoodBare DEF Good
  <1>2. DOMAIN u = TxnFields /\ Rest(t, u) /\ u.rc = "full"
    BY <1>1, SMT DEF IsTxn, TxnFields, Rest, Refused
  <1> HIDE DEF u
  <1>3. Bare(u)
    BY <1>1, <1>2 DEF Bare, Rest
  <1> QED BY <1>2, <1>3 DEF Stuck, Ok, u

LEMMA AddedPut ==
  ASSUME NEW t, NEW c, NEW id, NEW len \in Nat, Good(t, Nil), Good(c, Nil), RecFrame(t, c, id),
         DOMAIN c.free.recs = DOMAIN t.free.recs \ {id}, c.free.root \in Writable(c), NEW u, Good(u, Nil),
         Added(c, u, id, len), id \in DOMAIN t.free.recs => (t.free.recs[id].ov = Nil => Rest(t, c)),
         id \in DOMAIN t.free.recs /\ Reserved(t, id) /\ len <= t.free.recs[id].len => t.free.recs[id].ov = Nil
  PROVE  PutDone(t, u, id, len)
  <1>1. IsTxn(t) /\ IsTxn(c) /\ IsTxn(u)
    BY DEF Good
  <1>2. RecFrame(t, u, id)
    BY <1>1, RecFrameTwice DEF Added
  <1>3. u.free.root \in Writable(u)
    BY DEF Added
  <1>4. ASSUME id \in DOMAIN t.free.recs, Reserved(t, id), len <= t.free.recs[id].len
        PROVE  Calm(t, u)
    <2>1. t.free.recs[id].ov = Nil /\ Rest(t, c)
      BY <1>4
    <2>2. t.free.recs[id].len <= NodeMax
      BY <1>4, <2>1 DEF Reserved, Fits
    <2>3. len <= NodeMax
      <3>1. t.free.recs[id].len \in Nat /\ NodeMax \in Nat
        BY <1>1, <1>4, PagesAssumption DEF IsTxn, IsFree, IsRecord
      <3> QED BY <1>4, <2>2, <3>1
    <2>4. Rest(c, u)
      BY <2>3 DEF Added
    <2> QED BY <2>1, <2>4 DEF Rest, Calm
  <1> QED BY <1>2, <1>3, <1>4 DEF Added, PutDone

LEMMA PutNodeGood ==
  ASSUME NEW t, Good(t, Nil), Numbers, Ok(t), NEW id \in Nat \ {0}, id <= t.pglast \/ t.id <= id,
         NEW len \in Nat, t.free.root \in Writable(t)
  PROVE  \/ Stuck(PutNode(t, id, len))
         \/ Good(PutNode(t, id, len), Nil) /\ PutDone(t, PutNode(t, id, len), id, len)
  <1> DEFINE u == PutNode(t, id, len)
  <1>1. IsTxn(t) /\ t.pglast \in Nat /\ t.id \in Nat
    BY DEF Good, IsTxn
  <1>2. CASE id \notin DOMAIN t.free.recs
    <2>1. u = AddRec(t, id, len)
      BY <1>2 DEF PutNode
    <2> HIDE DEF u
    <2>2. Lost(u) \/ (Good(u, Nil) /\ Added(t, u, id, len))
      BY <1>2, <2>1, AddRecGood
    <2>3. RecFrame(t, t, id)
      BY <1>1 DEF RecFrame, IsTxn
    <2>4. DOMAIN t.free.recs = DOMAIN t.free.recs \ {id}
      BY <1>2
    <2>5. CASE Good(u, Nil) /\ Added(t, u, id, len)
      <3>1. PutDone(t, u, id, len)
        BY <1>2, <2>3, <2>4, <2>5, AddedPut
      <3> QED BY <2>5, <3>1 DEF u
    <2> QED BY <2>2, <2>5, LostStuck DEF u
  <1>3. CASE id \in DOMAIN t.free.recs
    <2> DEFINE old == t.free.recs[id]
               ov == DOMAIN old.ov
               wide == \A p \in ov : old.ov[p] >= OvPages(len)
               InPlace(a) == SetRec(a, id, [old EXCEPT !.len = len])
               c == Deleted(t, id)
    <2>1. \/ ov = {} /\ old.len = len /\ u = t
          \/ ov # {} /\ wide /\ ov \subseteq DOMAIN t.dirty /\ u = InPlace(t)
          \/ ov # {} /\ wide /\ ov \subseteq DOMAIN t.spill /\ u = Then(Unspill(t, Min(ov)), InPlace)
          \/ /\ ~(ov # {} /\ wide /\ ov \subseteq DOMAIN t.dirty) /\ ~(ov # {} /\ wide /\ ov \subseteq DOMAIN t.spill)
             /\ u = AddRec(c, id, len)
      BY <1>3 DEF PutNode, Deleted, Recs
    <2>2. IsRecord(old) /\ OvPages(len) \in Nat \ {0}
      BY <1>1, <1>3, OvPagesType DEF IsTxn, IsFree
    <2>3. \/ old.ov = Nil /\ ov = {}
          \/ \E p \in Nat, n \in Nat \ {0} : old.ov = One(p, n) /\ ov = {p} /\ old.ov[p] = n
      <3> HIDE DEF old
      <3> QED BY <2>2, OneRun DEF IsRecord
    <2>4. ov # {} => old.ov # Nil
      BY NilMembers
    <2>5. CASE ov = {} /\ old.len = len /\ u = t
      <3>1. old.ov = Nil /\ id \in DOMAIN t.free.recs /\ t.free.recs[id].len = len
        BY <1>3, <2>3, <2>5
      <3>2. RecFrame(t, t, id) /\ Calm(t, t)
        BY <1>1 DEF RecFrame, IsTxn, Calm
      <3>3. DOMAIN t.free.recs[id].ov \subseteq Writable(t)
        BY <2>5
      <3>4. PutDone(t, t, id, len)
        BY <1>3, <3>1, <3>2, <3>3 DEF PutDone
      <3> HIDE DEF u
      <3> QED BY <2>5, <3>4 DEF u
    <2>6. CASE ov # {} /\ wide /\ ov \subseteq DOMAIN t.dirty /\ u = InPlace(t)
      <3>1. u = Relength(t, id, len)
        BY <2>6 DEF Relength
      <3>2. ov \subseteq Writable(t)
        BY <2>6 DEF Writable
      <3> HIDE DEF u
      <3>3. Good(u, Nil) /\ PutDone(t, u, id, len)
        BY <1>3, <2>4, <2>6, <3>1, <3>2, RelengthGood
      <3> QED BY <3>3 DEF u
    <2>7. CASE ov # {} /\ wide /\ ov \subseteq DOMAIN t.spill /\ u = Then(Unspill(t, Min(ov)), InPlace)
      <3>1. PICK p \in Nat : ov = {p}
        BY <2>3, <2>7
      <3>2. Min(ov) = p
        <4>1. ov \subseteq Nat /\ ov # {}
          BY <3>1
        <4> HIDE DEF ov
        <4>2. Min(ov) \in ov
          BY <4>1, MinOf
        <4> QED BY <3>1, <4>2
      <3> DEFINE a == Unspill(t, p)
                 v == InPlace(a)
      <3>3. p \in DOMAIN t.spill
        BY <2>7, <3>1
      <3>4. u = IF Ok(a) THEN v ELSE a
        BY <2>7, <3>2 DEF Then
      <3>5. CASE t.room = 0
        <4>1. a = Refused(t)
          BY <3>5 DEF Unspill
        <4>2. Stuck(a)
          BY <4>1, RefusedStuck
        <4> HIDE DEF a, u
        <4>3. u = a
          BY <3>4, <4>2 DEF Stuck
        <4> QED BY <4>2, <4>3 DEF u
      <3>6. CASE t.room # 0
        <4>1. Good(a, Nil) /\ Listing(t, a)
          BY <3>3, <3>6, UnspillGood
        <4> HIDE DEF a
        <4>2. a.free = t.free /\ Ok(a) /\ IsTxn(a) /\ Writable(a) = Writable(t) /\ Calm(t, a)
          BY <4>1 DEF Listing, Ok, Good, Writable, Calm
        <4>3. v = Relength(a, id, len)
          BY <4>2 DEF Relength
        <4>4. ov \subseteq Writable(a)
          BY <2>7, <4>2 DEF Writable
        <4>5. u = v
          BY <3>4, <4>2
        <4> HIDE DEF v, u
        <4>6. Good(v, Nil) /\ PutDone(a, v, id, len) /\ Calm(a, v)
          <5>1. id \in DOMAIN a.free.recs /\ a.free.recs[id] = old /\ a.free.root \in Writable(a)
            BY <1>3, <4>2
          <5> QED BY <2>4, <2>7, <4>1, <4>3, <4>4, <5>1, RelengthGood
        <4>7. Calm(t, v)
          BY <4>2, <4>6 DEF Calm
        <4>8. RecFrame(t, a, id)
          <5>1. t.pglast \in Nat /\ a.pglast = t.pglast
            BY <1>1, <4>2 DEF Calm
          <5> QED BY <4>1, <4>2, <5>1 DEF RecFrame, Listing
        <4>9. RecFrame(t, v, id)
          BY <1>1, <4>2, <4>6, <4>8, RecFrameTwice DEF PutDone, Good
        <4>10. PutDone(t, v, id, len)
          BY <4>2, <4>6, <4>7, <4>9 DEF PutDone
        <4> QED BY <4>5, <4>6, <4>10 DEF u
      <3> QED BY <3>5, <3>6
    <2>8. CASE /\ ~(ov # {} /\ wide /\ ov \subseteq DOMAIN t.dirty) /\ ~(ov # {} /\ wide /\ ov \subseteq DOMAIN t.spill)
               /\ u = AddRec(c, id, len)
      <3>1. /\ Good(c, Nil) /\ RecFrame(t, c, id) /\ c.free.root \in Writable(c)
            /\ DOMAIN c.free.recs = DOMAIN t.free.recs \ {id} /\ c.pglast = t.pglast
            /\ old.ov = Nil => Rest(t, c)
        BY <1>3, DeletedGood
      <3>2. Reserved(t, id) /\ len <= old.len => old.ov = Nil
        <4> SUFFICES ASSUME Reserved(t, id), len <= old.len, old.ov # Nil PROVE FALSE
          OBVIOUS
        <4>1. PICK p \in Nat, n \in Nat \ {0} : old.ov = One(p, n) /\ ov = {p} /\ old.ov[p] = n
          BY <2>3
        <4>2. OvPages(len) <= OvPages(old.len) /\ OvPages(old.len) \in Nat
          BY <2>2, OvPagesType DEF IsRecord
        <4>3. OvPages(old.len) <= n
          BY <4>1 DEF Reserved, Fits
        <4>4. n >= OvPages(len)
          BY <2>2, <4>1, <4>2, <4>3
        <4>5. wide
          BY <4>1, <4>4
        <4>6. p \in DOMAIN t.dirty \/ p \in DOMAIN t.spill
          BY <4>1 DEF Reserved, Writable
        <4> QED BY <2>8, <4>1, <4>5, <4>6
      <3> HIDE DEF c, u
      <3>3. /\ id \notin DOMAIN c.free.recs /\ (id <= c.pglast \/ c.id <= id) /\ Ok(c)
        BY <3>1 DEF RecFrame, Ok
      <3>4. Lost(u) \/ (Good(u, Nil) /\ Added(c, u, id, len))
        BY <2>8, <3>1, <3>3, AddRecGood
      <3>5. CASE Good(u, Nil) /\ Added(c, u, id, len)
        <4>1. PutDone(t, u, id, len)
          BY <3>1, <3>2, <3>5, AddedPut
        <4> QED BY <3>5, <4>1 DEF u
      <3> QED BY <3>4, <3>5, LostStuck DEF u
    <2> HIDE DEF u, old, ov, wide, c, InPlace
    <2> QED BY <2>1, <2>5, <2>6, <2>7, <2>8 DEF u
  <1> QED BY <1>2, <1>3

LEMMA ListedCalm ==
  ASSUME NEW t, NEW a, NEW id, Good(t, Nil), Listing(t, a)
  PROVE  /\ a.free = t.free /\ a.rc = t.rc /\ a.err = t.err /\ Writable(a) = Writable(t) /\ Calm(t, a) /\ a.id = t.id
         /\ RecFrame(t, a, id)
  <1>1. /\ a.free = t.free /\ a.rc = t.rc /\ a.err = t.err /\ Writable(a) = Writable(t) /\ Calm(t, a) /\ a.id = t.id
        /\ DOMAIN a = TxnFields
    BY DEF Listing, Writable, Calm
  <1>2. t.pglast \in Nat
    BY DEF Good, IsTxn
  <1> QED BY <1>1, <1>2 DEF RecFrame, Calm

LEMMA RecPutGood ==
  ASSUME NEW t, Good(t, Nil), Numbers, Ok(t), NEW id \in Nat \ {0}, id <= t.pglast \/ t.id <= id,
         NEW len \in Nat
  PROVE  \/ Stuck(RecPut(t, id, len))
         \/ Good(RecPut(t, id, len), Nil) /\ PutDone(t, RecPut(t, id, len), id, len)
  <1> DEFINE a == PageSpill(t, {})
             b == TouchFree(a)
             v == PutNode(b, id, len)
             u == RecPut(t, id, len)
  <1>1. u = IF Ok(a) THEN IF Ok(b) THEN v ELSE b ELSE a
    BY DEF RecPut, Then
  <1>2. Good(a, Nil) /\ Listing(t, a)
    BY SpillGood
  <1> HIDE DEF a, u
  <1>3. /\ a.free = t.free /\ a.rc = t.rc /\ a.err = t.err /\ Writable(a) = Writable(t) /\ Calm(t, a) /\ a.id = t.id
        /\ RecFrame(t, a, id) /\ Ok(a) /\ IsTxn(t) /\ IsTxn(a)
    BY <1>2, ListedCalm DEF Ok, Good
  <1>4. \/ Lost(b)
        \/ Good(b, Nil) /\ FreeTouched(a, b)
    BY <1>2, <1>3, TouchFreeGood
  <1> HIDE DEF b
  <1>5. CASE Lost(b)
    <2>1. u = b
      BY <1>1, <1>3, <1>5 DEF Lost
    <2> QED BY <1>5, <2>1, LostStuck DEF u
  <1>6. CASE Good(b, Nil) /\ FreeTouched(a, b)
    <2>1. Ok(b) /\ IsTxn(b) /\ RecFrame(a, b, id) /\ b.free.recs = t.free.recs /\ b.free.root \in Writable(b)
          /\ b.id = t.id
      BY <1>3, <1>6, TouchedFrame DEF Ok, Good, FreeTouched
    <2>2. u = v
      BY <1>1, <1>3, <2>1
    <2>3. id <= b.pglast \/ b.id <= id
      <3>1. t.pglast \in Nat /\ b.pglast \in Nat /\ t.pglast <= b.pglast
        BY <1>3, <1>6, <2>1 DEF IsTxn, FreeTouched, Calm
      <3> QED BY <2>1, <3>1
    <2>4. Stuck(v) \/ (Good(v, Nil) /\ PutDone(b, v, id, len))
      BY <1>6, <2>1, <2>3, PutNodeGood
    <2> HIDE DEF v
    <2>5. CASE Good(v, Nil) /\ PutDone(b, v, id, len)
      <3>1. RecFrame(t, b, id)
        BY <1>3, <2>1, RecFrameTwice
      <3>2. RecFrame(t, v, id)
        BY <1>3, <2>1, <2>5, <3>1, RecFrameTwice DEF PutDone, Good
      <3>3. ASSUME id \in DOMAIN t.free.recs, Reserved(t, id), len <= t.free.recs[id].len
            PROVE  Calm(t, v)
        <4>1. Calm(a, b)
          BY <1>3, <1>6, <3>3 DEF Reserved, FreeTouched, Calm
        <4>2. Reserved(b, id)
          BY <1>3, <1>6, <2>1, <3>3 DEF Reserved, FreeTouched
        <4>3. Calm(b, v)
          BY <2>1, <2>5, <3>3, <4>2 DEF PutDone
        <4> QED BY <1>3, <4>1, <4>3 DEF Calm
      <3>4. PutDone(t, v, id, len)
        BY <2>1, <2>5, <3>2, <3>3 DEF PutDone
      <3> QED BY <2>2, <2>5, <3>4 DEF u
    <2> QED BY <2>2, <2>4, <2>5 DEF u
  <1> QED BY <1>4, <1>5, <1>6

FreeRooted(t, r) == [t EXCEPT !.free.root = r]

LEMMA FreeRootSet ==
  ASSUME NEW g, DOMAIN g = TxnFields, IsFree(g.free), NEW z, NEW u, u = FreeRooted(g, z)
  PROVE  /\ u.free.root = z /\ u.free.recs = g.free.recs /\ u.main = g.main
         /\ DOMAIN u.free = {"root", "recs"} /\ Rest(g, u) /\ DOMAIN u = TxnFields
         /\ u.got = g.got /\ u.rc = g.rc /\ u.err = g.err /\ u.ops = g.ops
  <1>1. DOMAIN g.free = {"root", "recs"}
    BY DEF IsFree
  <1> QED BY <1>1, SMT DEF TxnFields, Rest, FreeRooted

LEMMA FreeRootDropped ==
  ASSUME NEW t, Good(t, Nil), Numbers, t.free.root # NoPage,
         NEW d, d = Append_(t, {t.free.root}), NEW u, u = FreeRooted(d, NoPage)
  PROVE  /\ Good(u, Nil) /\ DOMAIN u = TxnFields /\ u.id = t.id /\ u.free.recs = t.free.recs
         /\ u.rc = t.rc /\ u.err = t.err /\ t.freed \subseteq u.freed /\ u.loose = t.loose
         /\ u.pglast = t.pglast /\ Writable(u) = Writable(t)
  <1> DEFINE r == t.free.root
  <1>1. IsTxn(t) /\ Once(t, Nil) /\ r \in Nat
    BY DEF Good, IsTxn, IsFree
  <1>2. /\ Appends(t, d, {r}) /\ d.main = t.main /\ d.free = t.free
        /\ d.rc = t.rc /\ d.err = t.err /\ d.ops = t.ops /\ d.got = t.got
    BY <1>1, AppendFields
  <1>3. u = FreeRooted(d, NoPage)
    OBVIOUS
  <1>4. DOMAIN d = TxnFields /\ IsFree(d.free)
    BY <1>1, <1>2 DEF Appends, Freeing, IsTxn
  <1>5. /\ Rest(d, u) /\ DOMAIN u = TxnFields /\ u.main = d.main
        /\ u.rc = d.rc /\ u.err = d.err /\ u.ops = d.ops /\ u.got = d.got
        /\ u.free.root = NoPage /\ u.free.recs = d.free.recs /\ DOMAIN u.free = {"root", "recs"}
    BY <1>3, <1>4, FreeRootSet
  <1>6. Appends(t, u, {r})
    BY <1>2, <1>5 DEF Appends, Freeing, Rest
  <1>7. IsMain(u.main) /\ IsFree(u.free) /\ u.free.recs = t.free.recs /\ u.main = t.main
    <2>1. u.free.recs = t.free.recs /\ u.main = t.main
      BY <1>2, <1>5
    <2>2. u.free.root \in Nat /\ DOMAIN u.free = {"root", "recs"}
      BY <1>5 DEF NoPage
    <2>3. IsFree(u.free)
      BY <1>1, <2>1, <2>2 DEF IsTxn, IsFree
    <2> QED BY <1>1, <2>1, <2>3 DEF IsTxn
  <1>8. \A k, i : Lives(t, Nil, k, i, r) <=> k = 4 /\ i = 0
    <2>1. Lives(t, Nil, 4, 0, r)
      BY SMT DEF Lives, RootOf
    <2> QED BY <1>1, <2>1 DEF Once
  <1> HIDE DEF r
  <1>9. u.freed = t.freed \cup {r} /\ u.loose = t.loose /\ u.pghead = t.pghead /\ u.pglast = t.pglast /\ u.id = t.id
        /\ u.dirty = t.dirty /\ u.spill = t.spill
    BY <1>6 DEF Appends, Freeing
  <1>10. ASSUME NEW x, NEW k, NEW i
         PROVE  Lives(u, Nil, k, i, x) <=> IF x \in {r} THEN k = 7 /\ i = 0 ELSE Lives(t, Nil, k, i, x)
    <2>1. CASE k = 4
      <3>1. ~Lives(u, Nil, 4, i, x)
        BY <1>5, SMT DEF Lives, RootOf
      <3>2. Lives(t, Nil, 4, i, x) => x = r
        BY SMT DEF Lives, RootOf, r
      <3> QED BY <2>1, <3>1, <3>2
    <2>2. CASE k = 7
      <3>1. Lives(u, Nil, 7, i, x) <=> i = 0 /\ (x \in t.freed \/ x = r)
        BY <1>9, SMT DEF Lives
      <3>2. Lives(t, Nil, 7, i, x) <=> i = 0 /\ x \in t.freed
        BY SMT DEF Lives
      <3> QED BY <2>2, <3>1, <3>2
    <2>3. CASE k # 4 /\ k # 7
      <3>1. Lives(u, Nil, k, i, x) <=> Lives(t, Nil, k, i, x)
        BY <1>7, <1>9, <1>10, <2>3, SMT DEF Lives
      <3> QED BY <1>8, <2>3, <3>1
    <2> QED BY <2>1, <2>2, <2>3
  <1>11. Moved(t, Nil, u, Nil, {r}, 7, 0)
    BY <1>10 DEF Moved
  <1>12. Placed(t, Nil, u, Nil)
    <2> SUFFICES ASSUME NEW p, NEW n, Block(t, Nil, p, n) PROVE Block(u, Nil, p, n)
      BY DEF Placed
    <2>1. CASE p = r
      BY <1>9, <2>1 DEF Block
    <2>2. CASE p # r
      <3>1. p \notin RootOf(t.free)
        BY <2>2 DEF RootOf, r
      <3> QED BY <1>7, <1>9, <3>1 DEF Block
    <2> QED BY <2>1, <2>2
  <1>13. IsFiniteSet({r}) /\ {r} \subseteq Nat
    BY <1>1, FS_Singleton
  <1>14. \A x \in {r} : \E k, i : k <= 6 /\ Lives(t, Nil, k, i, x)
    <2>1. 4 <= 6 /\ Lives(t, Nil, 4, 0, r)
      BY <1>8
    <2> QED BY <2>1
  <1>15. \A k \in DOMAIN u.free.recs : k \in DOMAIN t.free.recs /\ u.free.recs[k].pgs = t.free.recs[k].pgs
    BY <1>7
  <1>16. Good(u, Nil)
    BY <1>6, <1>7, <1>11, <1>12, <1>13, <1>14, <1>15, NilMembers, AppendGood
  <1> QED BY <1>2, <1>5, <1>7, <1>9, <1>16 DEF Writable

DelDone(t, u, id) ==
  /\ RecFrame(t, u, id) /\ id \notin DOMAIN u.free.recs

LEMMA RecDelGood ==
  ASSUME NEW t, Good(t, Nil), Numbers, Ok(t), NEW id \in DOMAIN t.free.recs, id <= t.pglast
  PROVE  \/ Stuck(RecDel(t, id))
         \/ Good(RecDel(t, id), Nil) /\ DelDone(t, RecDel(t, id), id)
  <1> DEFINE a == PageSpill(t, {})
             b == TouchFree(a)
             c == Deleted(b, id)
             d == FreeRooted(Append_(c, {c.free.root}), NoPage)
             u == RecDel(t, id)
  <1>1. u = IF Ok(a) THEN IF Ok(b) THEN IF c.free.recs # <<>> THEN c ELSE d ELSE b ELSE a
    BY DEF RecDel, Then, Deleted, Recs, FreeRooted
  <1>2. Good(a, Nil) /\ Listing(t, a)
    BY SpillGood
  <1> HIDE DEF a, u
  <1>3. /\ a.free = t.free /\ a.rc = t.rc /\ a.err = t.err /\ Writable(a) = Writable(t) /\ Calm(t, a) /\ a.id = t.id
        /\ RecFrame(t, a, id) /\ Ok(a) /\ IsTxn(t) /\ IsTxn(a)
    BY <1>2, ListedCalm DEF Ok, Good
  <1>4. \/ Lost(b)
        \/ Good(b, Nil) /\ FreeTouched(a, b)
    BY <1>2, <1>3, TouchFreeGood
  <1> HIDE DEF b
  <1>5. CASE Lost(b)
    <2>1. u = b
      BY <1>1, <1>3, <1>5 DEF Lost
    <2> QED BY <1>5, <2>1, LostStuck DEF u
  <1>6. CASE Good(b, Nil) /\ FreeTouched(a, b)
    <2>1. Ok(b) /\ IsTxn(b) /\ RecFrame(a, b, id) /\ b.free.recs = t.free.recs /\ b.free.root \in Writable(b)
          /\ b.id = t.id
      BY <1>3, <1>6, TouchedFrame DEF Ok, Good, FreeTouched
    <2>2. u \in {c, d} /\ (u # c => u = d)
      BY <1>1, <1>3, <2>1
    <2>3. id \in DOMAIN b.free.recs /\ (id <= b.pglast \/ b.id <= id)
      <3>1. t.pglast \in Nat /\ b.pglast \in Nat /\ t.pglast <= b.pglast /\ id \in Nat
        BY <1>3, <1>6, <2>1 DEF IsTxn, IsFree, FreeTouched, Calm
      <3> QED BY <2>1, <3>1
    <2>4. /\ Good(c, Nil) /\ RecFrame(b, c, id) /\ c.free.root \in Writable(c)
          /\ DOMAIN c.free.recs = DOMAIN b.free.recs \ {id} /\ c.pglast = b.pglast
      BY <1>6, <2>1, <2>3, DeletedGood
    <2> HIDE DEF c
    <2>5. RecFrame(t, c, id) /\ IsTxn(c)
      <3>1. RecFrame(t, b, id)
        BY <1>3, <2>1, RecFrameTwice
      <3> QED BY <1>3, <2>1, <2>4, <3>1, RecFrameTwice DEF Good
    <2>6. c.free.root # NoPage
      <3>1. Sized(c, Nil) /\ \A n : ~Block(c, Nil, NoPage, n)
        BY <2>4, NoBlock DEF Good
      <3> QED BY <2>4, <3>1 DEF Sized, Writable
    <2>7. /\ Good(d, Nil) /\ DOMAIN d = TxnFields /\ d.id = c.id /\ d.free.recs = c.free.recs
          /\ d.rc = c.rc /\ d.err = c.err /\ c.freed \subseteq d.freed /\ d.loose = c.loose
          /\ d.pglast = c.pglast /\ Writable(d) = Writable(c)
      BY <2>4, <2>6, FreeRootDropped
    <2> HIDE DEF d
    <2>8. RecFrame(t, d, id)
      <3>1. RecFrame(c, d, id)
        <4>1. c.pglast \in Nat
          BY <2>5 DEF IsTxn
        <4> QED BY <2>7, <4>1 DEF RecFrame
      <3> QED BY <1>3, <2>5, <2>7, <3>1, RecFrameTwice DEF Good
    <2>9. DelDone(t, c, id) /\ DelDone(t, d, id)
      BY <2>4, <2>5, <2>7, <2>8 DEF DelDone
    <2> QED BY <2>2, <2>4, <2>7, <2>9 DEF u
  <1> QED BY <1>4, <1>5, <1>6

-----------------------------------------------------------------------------
(* The room in the records of freed pages: one slot for a page number each. *)
IsRecords(f) == DOMAIN f \subseteq Nat /\ \A i \in DOMAIN f : f[i].len \in Nat

Slots(f, a, b) == {e \in (DOMAIN f) \X Nat : a < e[1] /\ e[1] <= b /\ e[2] < f[e[1]].len}

Row(id, n) == {id} \X (0..(n - 1))

LenOf(f, id) == IF id \in DOMAIN f THEN f[id].len ELSE 0

LEMMA RowSize ==
  ASSUME NEW id, NEW n \in Nat
  PROVE  IsFiniteSet(Row(id, n)) /\ Cardinality(Row(id, n)) = n
  <1>1. IsFiniteSet(0..(n - 1)) /\ Cardinality(0..(n - 1)) = n
    BY FS_Interval
  <1>2. IsFiniteSet({id}) /\ Cardinality({id}) = 1
    BY FS_Singleton
  <1>3. IsFiniteSet({id} \X (0..(n - 1))) /\ Cardinality({id} \X (0..(n - 1))) = 1 * n
    BY <1>1, <1>2, FS_Product
  <1> QED BY <1>3 DEF Row

LEMMA RowMembers ==
  ASSUME NEW id, NEW n \in Nat, NEW e
  PROVE  e \in Row(id, n) <=> \E j \in Nat : e = <<id, j>> /\ j < n
  BY SMT DEF Row

LEMMA SlotMembers ==
  ASSUME NEW f, NEW a, NEW b, NEW e
  PROVE  e \in Slots(f, a, b) <=> \E k \in DOMAIN f, j \in Nat : e = <<k, j>> /\ a < k /\ k <= b /\ j < f[k].len
  BY SMT DEF Slots

LEMMA NoSlots ==
  ASSUME NEW f, IsRecords(f), NEW a \in Nat, NEW b \in Nat, \A i \in DOMAIN f : a < i => b < i
  PROVE  IsFiniteSet(Slots(f, a, b)) /\ Cardinality(Slots(f, a, b)) = 0 /\ Slots(f, a, b) = {}
  <1>1. ASSUME NEW e PROVE e \notin Slots(f, a, b)
    BY SlotMembers DEF IsRecords
  <1>2. Slots(f, a, b) = {}
    BY <1>1
  <1> QED BY <1>2, FS_EmptySet

(* The slots of all records but id. *)
SlotsBut(f, id, a, b) == {e \in Slots(f, a, b) : e[1] # id}

LEMMA SlotsOfOne ==
  ASSUME NEW f, IsRecords(f), NEW a \in Nat, NEW b \in Nat, NEW id \in Nat, a < id, id <= b
  PROVE  /\ Slots(f, a, b) = SlotsBut(f, id, a, b) \cup Row(id, LenOf(f, id))
         /\ SlotsBut(f, id, a, b) \cap Row(id, LenOf(f, id)) = {} /\ LenOf(f, id) \in Nat
  <1>1. LenOf(f, id) \in Nat
    BY DEF LenOf, IsRecords
  <1>2. ASSUME NEW e \in Row(id, LenOf(f, id)) PROVE e \in Slots(f, a, b) /\ e \notin SlotsBut(f, id, a, b)
    <2>1. PICK j \in Nat : e = <<id, j>> /\ j < LenOf(f, id)
      BY <1>1, RowMembers
    <2>2. id \in DOMAIN f /\ j < f[id].len
      BY <2>1 DEF LenOf
    <2>3. e[1] = id
      BY <2>1
    <2> QED BY <2>1, <2>2, <2>3, SlotMembers DEF SlotsBut
  <1>3. ASSUME NEW e \in Slots(f, a, b), e \notin SlotsBut(f, id, a, b) PROVE e \in Row(id, LenOf(f, id))
    <2>1. PICK k \in DOMAIN f, j \in Nat : e = <<k, j>> /\ a < k /\ k <= b /\ j < f[k].len
      BY SlotMembers
    <2>2. k = id
      BY <1>3, <2>1 DEF SlotsBut
    <2> QED BY <1>1, <2>1, <2>2, RowMembers DEF LenOf
  <1>4. SlotsBut(f, id, a, b) \subseteq Slots(f, a, b)
    BY DEF SlotsBut
  <1> QED BY <1>1, <1>2, <1>3, <1>4

LEMMA SlotsPut ==
  ASSUME NEW f, IsRecords(f), NEW g, IsRecords(g), NEW a \in Nat, NEW b \in Nat, NEW id \in Nat, a < id, id <= b,
         \A k : k # id => (k \in DOMAIN g <=> k \in DOMAIN f),
         \A k \in DOMAIN f : k # id => g[k].len = f[k].len, IsFiniteSet(Slots(f, a, b))
  PROVE  /\ IsFiniteSet(Slots(g, a, b)) /\ Cardinality(Slots(f, a, b)) \in Nat
         /\ Cardinality(Slots(g, a, b)) = Cardinality(Slots(f, a, b)) - LenOf(f, id) + LenOf(g, id)
  <1> DEFINE B == SlotsBut(f, id, a, b)
             R == Row(id, LenOf(f, id))
             Q == Row(id, LenOf(g, id))
             m == LenOf(f, id)
             n == LenOf(g, id)
  <1>1. Slots(f, a, b) = B \cup R /\ B \cap R = {} /\ m \in Nat
    BY SlotsOfOne
  <1>2. Slots(g, a, b) = SlotsBut(g, id, a, b) \cup Q /\ SlotsBut(g, id, a, b) \cap Q = {} /\ n \in Nat
    BY SlotsOfOne
  <1>3. ASSUME NEW e PROVE e \in SlotsBut(g, id, a, b) <=> e \in B
    <2>1. ASSUME e \in SlotsBut(g, id, a, b) PROVE e \in B
      <3>1. PICK k \in DOMAIN g, j \in Nat : e = <<k, j>> /\ a < k /\ k <= b /\ j < g[k].len
        BY <2>1, SlotMembers DEF SlotsBut
      <3>2. e[1] = k /\ k # id
        BY <2>1, <3>1 DEF SlotsBut
      <3>3. k \in DOMAIN f /\ f[k].len = g[k].len
        BY <3>1, <3>2
      <3>4. e \in Slots(f, a, b)
        BY <3>1, <3>3, SlotMembers
      <3> QED BY <3>2, <3>4 DEF SlotsBut
    <2>2. ASSUME e \in B PROVE e \in SlotsBut(g, id, a, b)
      <3>1. PICK k \in DOMAIN f, j \in Nat : e = <<k, j>> /\ a < k /\ k <= b /\ j < f[k].len
        BY <2>2, SlotMembers DEF SlotsBut
      <3>2. e[1] = k /\ k # id
        BY <2>2, <3>1 DEF SlotsBut
      <3>3. k \in DOMAIN g /\ f[k].len = g[k].len
        BY <3>1, <3>2
      <3>4. e \in Slots(g, a, b)
        BY <3>1, <3>3, SlotMembers
      <3> QED BY <3>2, <3>4 DEF SlotsBut
    <2> QED BY <2>1, <2>2
  <1>4. SlotsBut(g, id, a, b) = B
    BY <1>3
  <1>5. IsFiniteSet(R) /\ Cardinality(R) = m /\ IsFiniteSet(Q) /\ Cardinality(Q) = n
    BY <1>1, <1>2, RowSize
  <1>6. IsFiniteSet(B)
    BY <1>1, FS_Subset
  <1> HIDE DEF B, R, Q, m, n
  <1>7. Cardinality(B \cup R) = Cardinality(B) + m /\ Cardinality(B) \in Nat
    BY <1>1, <1>5, <1>6, MoreFreed
  <1>8. IsFiniteSet(B \cup Q) /\ Cardinality(B \cup Q) = Cardinality(B) + n
    BY <1>2, <1>4, <1>5, <1>6, MoreFreed
  <1>9. Cardinality(Slots(g, a, b)) = Cardinality(B) + n /\ Cardinality(Slots(f, a, b)) = Cardinality(B) + m
    BY <1>1, <1>2, <1>4, <1>7, <1>8
  <1>10. Cardinality(Slots(g, a, b)) = Cardinality(Slots(f, a, b)) - m + n
    BY <1>1, <1>2, <1>7, <1>9
  <1> QED BY <1>1, <1>2, <1>4, <1>7, <1>8, <1>9, <1>10 DEF m, n

LEMMA SlotsSame ==
  ASSUME NEW f, NEW g, NEW a, NEW b,
         \A k : a < k /\ k <= b => /\ k \in DOMAIN g <=> k \in DOMAIN f
                                   /\ k \in DOMAIN f => g[k].len = f[k].len
  PROVE  Slots(g, a, b) = Slots(f, a, b)
  <1>1. ASSUME NEW e PROVE e \in Slots(g, a, b) <=> e \in Slots(f, a, b)
    BY SlotMembers
  <1> QED BY <1>1

(* The first record after a, and those after it. *)
LEMMA SlotsFirst ==
  ASSUME NEW f, IsRecords(f), NEW a \in Nat, NEW b \in Nat, NEW id \in DOMAIN f, a < id, id <= b,
         \A k \in DOMAIN f : a < k => id <= k, IsFiniteSet(Slots(f, a, b))
  PROVE  /\ IsFiniteSet(Slots(f, id, b)) /\ Cardinality(Slots(f, id, b)) \in Nat
         /\ Cardinality(Slots(f, a, b)) = Cardinality(Slots(f, id, b)) + f[id].len
  <1> DEFINE B == SlotsBut(f, id, a, b)
             n == f[id].len
             R == Row(id, n)
  <1>1. id \in Nat /\ n \in Nat /\ LenOf(f, id) = n
    BY DEF IsRecords, LenOf
  <1>2. Slots(f, a, b) = B \cup R /\ B \cap R = {}
    BY <1>1, SlotsOfOne
  <1>3. ASSUME NEW e PROVE e \in B <=> e \in Slots(f, id, b)
    <2>1. ASSUME e \in B PROVE e \in Slots(f, id, b)
      <3>1. PICK k \in DOMAIN f, j \in Nat : e = <<k, j>> /\ a < k /\ k <= b /\ j < f[k].len
        BY <2>1, SlotMembers DEF SlotsBut
      <3>2. e[1] = k /\ k # id
        BY <2>1, <3>1 DEF SlotsBut
      <3>3. id < k
        BY <1>1, <3>1, <3>2 DEF IsRecords
      <3> QED BY <3>1, <3>3, SlotMembers
    <2>2. ASSUME e \in Slots(f, id, b) PROVE e \in B
      <3>1. PICK k \in DOMAIN f, j \in Nat : e = <<k, j>> /\ id < k /\ k <= b /\ j < f[k].len
        BY <2>2, SlotMembers
      <3>2. e[1] = k /\ k # id /\ a < k
        BY <1>1, <3>1 DEF IsRecords
      <3>3. e \in Slots(f, a, b)
        BY <3>1, <3>2, SlotMembers
      <3> QED BY <3>2, <3>3 DEF SlotsBut
    <2> QED BY <2>1, <2>2
  <1>4. B = Slots(f, id, b)
    BY <1>3
  <1>5. IsFiniteSet(R) /\ Cardinality(R) = n
    BY <1>1, RowSize
  <1>6. IsFiniteSet(B)
    BY <1>2, FS_Subset
  <1> HIDE DEF B, R, n
  <1>7. Cardinality(B \cup R) = Cardinality(B) + n /\ Cardinality(B) \in Nat
    BY <1>2, <1>5, <1>6, MoreFreed
  <1> QED BY <1>1, <1>2, <1>4, <1>6, <1>7 DEF n

(* The lowest n members. *)
LEMMA LowestSize ==
  ASSUME NEW P, IsFiniteSet(P), P \subseteq Nat, NEW c \in Nat, \A x \in P : x <= c, NEW n \in Nat
  PROVE  /\ Lowest(P, n) \subseteq P /\ IsFiniteSet(Lowest(P, n)) /\ Cardinality(Lowest(P, n)) \in Nat
         /\ Cardinality(Lowest(P, n)) <= n
         /\ Lowest(P, n) # P => Cardinality(Lowest(P, n)) >= n
  <1> DEFINE L == Lowest(P, n)
             B(p) == {q \in P : q < p}
  <1>1. L = {p \in P : Cardinality(B(p)) < n}
    BY DEF Lowest
  <1>2. \A p : IsFiniteSet(B(p)) /\ Cardinality(B(p)) \in Nat
    BY FS_Subset, FS_CardinalityType
  <1> HIDE DEF L
  <1>3. L \subseteq P /\ IsFiniteSet(L) /\ Cardinality(L) \in Nat
    BY <1>1, FS_Subset, FS_CardinalityType
  <1>4. Cardinality(L) <= n
    <2>1. CASE L = {}
      BY <2>1, FS_EmptySet
    <2>2. CASE L # {}
      <3>1. PICK m \in L : \A x \in L : x <= m
        <4>1. L \subseteq Nat /\ \A x \in L : x <= c
          BY <1>3
        <4> QED BY <2>2, <4>1, GreatestMember
      <3>2. Cardinality(B(m)) < n /\ m \notin B(m)
        BY <1>1, <1>3
      <3>3. L \subseteq B(m) \cup {m}
        <4> SUFFICES ASSUME NEW x \in L, x # m PROVE x < m
          BY <1>3
        <4> QED BY <1>3, <3>1
      <3> HIDE DEF B
      <3>4. IsFiniteSet(B(m) \cup {m}) /\ Cardinality(B(m) \cup {m}) = Cardinality(B(m)) + 1
        BY <1>2, <3>2, FS_AddElement
      <3>5. Cardinality(L) <= Cardinality(B(m) \cup {m})
        BY <3>3, <3>4, FS_Subset
      <3> QED BY <1>2, <1>3, <3>2, <3>4, <3>5
    <2> QED BY <2>1, <2>2
  <1>5. ASSUME L # P PROVE Cardinality(L) >= n
    <2>1. P \ L # {} /\ P \ L \subseteq Nat
      BY <1>3, <1>5
    <2>2. PICK m \in P \ L : \A x \in P \ L : m <= x
      <3> DEFINE S == P \ L
      <3>1. S # {} /\ S \subseteq Nat
        BY <2>1
      <3> HIDE DEF S
      <3>2. \E m \in S : \A x \in S : m <= x
        BY <3>1, MinOf
      <3> QED BY <3>2 DEF S
    <2>3. B(m) \subseteq L
      <3> SUFFICES ASSUME NEW q \in P, q < m PROVE q \in L
        OBVIOUS
      <3> QED BY <2>2
    <2>4. ~(Cardinality(B(m)) < n)
      BY <1>1, <2>2
    <2> HIDE DEF B
    <2>5. Cardinality(B(m)) <= Cardinality(L)
      BY <1>3, <2>3, FS_Subset
    <2> QED BY <1>2, <1>3, <2>4, <2>5
  <1> QED BY <1>3, <1>4, <1>5 DEF L

-----------------------------------------------------------------------------
(* Saving the list of free pages. *)
OwnPages(t) == IF t.id \in DOMAIN t.free.recs THEN t.free.recs[t.id].pgs ELSE {}

(* In "save": the records up to s.pglast are empty and written to, the     *)
(* counters of mdb_freelist_save are those of the freeDB, and the record   *)
(* of the transaction has all the freed pages once freecnt says so.        *)
Saves(t, s) ==
  /\ Good(t, Nil) /\ Ok(t) /\ ~t.err
  /\ DOMAIN t.free.recs \subseteq 1..t.id
  /\ s.pglast \in Nat /\ s.pglast <= t.pglast /\ (s.pglast < t.pglast => t.pglast \in DOMAIN t.free.recs)
  /\ s.headId \in Nat /\ s.headId <= s.pglast /\ (s.pglast > 0 => s.headId > 0)
  /\ \A i \in DOMAIN t.free.recs : i <= s.pglast =>
        s.headId <= i /\ t.free.recs[i].pgs = {} /\ Reserved(t, i)
  /\ s.headRoom = LenOf(t.free.recs, s.headId)
  /\ IsFiniteSet(Slots(t.free.recs, 0, s.pglast)) /\ s.total = Cardinality(Slots(t.free.recs, 0, s.pglast))
  /\ s.freecnt \in 0..t.nfreed
  /\ s.freecnt = t.nfreed => OwnPages(t) = t.freed
  /\ t.pglast = 0 => ToSet(t.loose) = {}
  /\ s.more \in {0, 1} /\ s.at = 0

LEMMA OwnKept ==
  ASSUME NEW t, NEW u, Good(t, Nil), Good(u, Nil), NEW id, RecFrame(t, u, id), id # t.id,
         NEW n \in 0..t.nfreed, n = t.nfreed => OwnPages(t) = t.freed
  PROVE  n \in 0..u.nfreed /\ (n = u.nfreed => OwnPages(u) = u.freed)
  <1>1. /\ IsFiniteSet(t.freed) /\ t.nfreed = Cardinality(t.freed) /\ t.nfreed \in Nat
        /\ IsFiniteSet(u.freed) /\ u.nfreed = Cardinality(u.freed) /\ u.nfreed \in Nat
    BY DEF Good, Counted, IsTxn
  <1>2. t.freed \subseteq u.freed /\ u.id = t.id
    BY DEF RecFrame
  <1>3. Cardinality(t.freed) <= Cardinality(u.freed) /\ (Cardinality(t.freed) = Cardinality(u.freed) => t.freed = u.freed)
    BY <1>1, <1>2, FS_Subset
  <1>4. t.nfreed <= u.nfreed
    BY <1>1, <1>3
  <1>5. OwnPages(u) = OwnPages(t)
    <2>1. t.id \in DOMAIN u.free.recs <=> t.id \in DOMAIN t.free.recs
      BY DEF RecFrame
    <2>2. t.id \in DOMAIN t.free.recs => u.free.recs[t.id] = t.free.recs[t.id]
      BY DEF RecFrame
    <2> QED BY <1>2, <2>1, <2>2 DEF OwnPages
  <1>6. ASSUME n = u.nfreed PROVE OwnPages(u) = u.freed
    <2>1. t.nfreed = u.nfreed /\ n = t.nfreed
      BY <1>1, <1>4, <1>6
    <2> QED BY <1>1, <1>3, <1>5, <2>1
  <1> QED BY <1>1, <1>4, <1>6

LEMMA SavedRecords ==
  ASSUME NEW t, Good(t, Nil)
  PROVE  IsRecords(t.free.recs) /\ DOMAIN t.free.recs \subseteq Nat \ {0}
         /\ t.pglast \in Nat /\ t.id \in Nat /\ t.pglast < t.id /\ t.nfreed \in Nat
  BY DEF Good, IsTxn, IsFree, IsRecord, IsRecords, Counted

LEMMA DeleteGood ==
  ASSUME NEW t, NEW s, Saves(t, s), Numbers, s.pglast < t.pglast,
         NEW id, id = Min(DOMAIN t.free.recs), NEW u, u = RecDel(t, id),
         NEW z, z.pglast = id, z.headId = id, z.headRoom = 0, z.total = 0,
         z.freecnt = s.freecnt, z.more = s.more, z.at = s.at
  PROVE  Stuck(u) \/ Saves(u, z)
  <1>1. Good(t, Nil) /\ Ok(t)
    BY DEF Saves
  <1>2. /\ IsRecords(t.free.recs) /\ DOMAIN t.free.recs \subseteq Nat \ {0}
        /\ t.pglast \in Nat /\ t.id \in Nat /\ t.pglast < t.id
    BY <1>1, SavedRecords
  <1>3. t.pglast \in DOMAIN t.free.recs
    BY DEF Saves
  <1>4. id \in DOMAIN t.free.recs /\ \A k \in DOMAIN t.free.recs : id <= k
    <2> DEFINE S == DOMAIN t.free.recs
    <2>1. S \subseteq Nat /\ S # {} /\ id = Min(S)
      BY <1>2, <1>3
    <2> HIDE DEF S
    <2>2. id \in S /\ \A k \in S : id <= k
      BY <2>1, MinOf
    <2> QED BY <2>2 DEF S
  <1>5. id <= t.pglast /\ id \in Nat \ {0} /\ id # t.id
    BY <1>2, <1>3, <1>4
  <1>6. Stuck(u) \/ (Good(u, Nil) /\ DelDone(t, u, id))
    BY <1>1, <1>4, <1>5, RecDelGood
  <1>7. ASSUME Good(u, Nil), DelDone(t, u, id) PROVE Saves(u, z)
    <2>1. RecFrame(t, u, id) /\ id \notin DOMAIN u.free.recs
      BY <1>7 DEF DelDone
    <2>2. /\ IsRecords(u.free.recs) /\ DOMAIN u.free.recs \subseteq Nat \ {0} /\ u.pglast \in Nat /\ u.id \in Nat
      BY <1>7, SavedRecords
    <2>3. u.id = t.id /\ Ok(u) /\ ~u.err
      BY <2>1 DEF RecFrame, Saves, Ok
    <2>4. \A k : k \in DOMAIN u.free.recs => k \in DOMAIN t.free.recs /\ k # id
      BY <2>1 DEF RecFrame
    <2>5. DOMAIN u.free.recs \subseteq 1..u.id
      BY <2>3, <2>4 DEF Saves
    <2>6. \A i \in DOMAIN u.free.recs : id < i
      BY <1>2, <1>4, <1>5, <2>4
    <2>7. id <= u.pglast /\ (id < u.pglast => u.pglast \in DOMAIN u.free.recs) /\ u.pglast # 0
      <3>1. u.pglast \in {t.pglast} \cup DOMAIN t.free.recs /\ t.pglast <= u.pglast
        BY <2>1 DEF RecFrame
      <3>2. u.pglast # id => u.pglast \in DOMAIN u.free.recs
        BY <1>3, <2>1, <3>1 DEF RecFrame
      <3> QED BY <1>2, <1>5, <2>2, <3>1, <3>2
    <2>8. LenOf(u.free.recs, id) = 0
      BY <2>1 DEF LenOf
    <2>9. IsFiniteSet(Slots(u.free.recs, 0, id)) /\ Cardinality(Slots(u.free.recs, 0, id)) = 0
      <3>1. \A i \in DOMAIN u.free.recs : 0 < i => id < i
        BY <2>6
      <3>2. 0 \in Nat /\ id \in Nat
        BY <1>5
      <3> QED BY <2>2, <3>1, <3>2, NoSlots
    <2>10. s.freecnt \in 0..u.nfreed /\ (s.freecnt = u.nfreed => OwnPages(u) = u.freed)
      <3>1. s.freecnt \in 0..t.nfreed /\ (s.freecnt = t.nfreed => OwnPages(t) = t.freed)
        BY DEF Saves
      <3> QED BY <1>1, <1>5, <1>7, <2>1, <3>1, OwnKept
    <2>11. \A i \in DOMAIN u.free.recs : ~(i <= id)
      BY <1>5, <2>2, <2>6
    <2>12. s.more \in {0, 1} /\ s.at = 0
      BY DEF Saves
    <2>13. id \in Nat /\ id <= id /\ id > 0
      BY <1>5
    <2> QED BY <1>7, <2>3, <2>5, <2>7, <2>8, <2>9, <2>10, <2>11, <2>12, <2>13 DEF Saves
  <1> QED BY <1>6, <1>7

LEMMA AtHandType ==
  ASSUME NEW t, Good(t, Nil)
  PROVE  /\ IsFiniteSet(t.pghead) /\ t.pghead \subseteq Nat /\ Cardinality(t.pghead) \in Nat
         /\ Len(t.loose) \in Nat /\ AtHand(t) \in Nat /\ AtHand(t) = Cardinality(t.pghead) + Len(t.loose)
         /\ (t.pglast = 0 /\ ToSet(t.loose) = {} => AtHand(t) = 0)
  <1>1. IsTxn(t) /\ Counted(t)
    BY DEF Good
  <1>2. \A x \in t.pghead : Lives(t, Nil, 8, 0, x)
    BY SMT DEF Lives
  <1>3. IsFiniteSet(t.pghead) /\ t.pghead \subseteq Nat
    BY <1>2, FinitePages
  <1>4. Cardinality(t.pghead) \in Nat
    BY <1>3, FS_CardinalityType
  <1>5. t.loose \in Seq(Nat) /\ Len(t.loose) \in Nat
    BY <1>1 DEF IsTxn
  <1>6. ASSUME t.pglast = 0, ToSet(t.loose) = {} PROVE Cardinality(t.pghead) = 0 /\ Len(t.loose) = 0
    <2>1. t.pghead = {}
      BY <1>1, <1>6 DEF Counted
    <2>2. Len(t.loose) = 0
      <3>1. ASSUME Len(t.loose) # 0 PROVE FALSE
        <4>1. 1 \in DOMAIN t.loose
          BY <1>5, <3>1
        <4>2. t.loose[1] \in ToSet(t.loose)
          BY <4>1 DEF ToSet
        <4> QED BY <1>6, <4>2
      <3> QED BY <3>1
    <2> QED BY <2>1, <2>2, FS_EmptySet
  <1> QED BY <1>3, <1>4, <1>5, <1>6 DEF AtHand

(* The records reserved so far, after a record id has been put.            *)
LEMMA ReservedKept ==
  ASSUME NEW t, NEW u, NEW id, NEW len, Good(t, Nil), PutDone(t, u, id, len),
         NEW i \in DOMAIN u.free.recs, i # id, Reserved(t, i)
  PROVE  Reserved(u, i) /\ u.free.recs[i].pgs = t.free.recs[i].pgs /\ i \in DOMAIN t.free.recs
  <1>1. RecFrame(t, u, id) /\ u.free.root \in Writable(u)
    BY DEF PutDone
  <1>2. i \in DOMAIN t.free.recs /\ u.free.recs[i] = t.free.recs[i]
    BY <1>1 DEF RecFrame
  <1>3. DOMAIN t.free.recs[i].ov \subseteq Writable(u)
    BY <1>1, <1>2 DEF RecFrame, Reserved
  <1> QED BY <1>1, <1>2, <1>3 DEF Reserved

LEMMA ReserveGood ==
  ASSUME NEW t, NEW s, Saves(t, s), Numbers, s.pglast = t.pglast, s.freecnt = t.nfreed,
         s.total # AtHand(t), ~(s.total > AtHand(t) /\ s.more = 0),
         NEW id, NEW others,
         \/ id = s.headId - 1 /\ others = s.total /\ s.headId > 1
         \/ id = s.headId /\ others = s.total - s.headRoom,
         NEW room \in Nat, NEW u, u = RecPut(t, id, room),
         NEW z, z.headId = id, z.headRoom = room, z.total = others + room,
         z.more = IF s.total > AtHand(t) THEN s.more - 1 ELSE s.more,
         z.pglast = s.pglast, z.freecnt = s.freecnt, z.at = s.at
  PROVE  Stuck(u) \/ Saves(u, z)
  <1>1. Good(t, Nil) /\ Ok(t) /\ AtHand(t) \in Nat
    BY AtHandType DEF Saves
  <1>2. /\ IsRecords(t.free.recs) /\ DOMAIN t.free.recs \subseteq Nat \ {0}
        /\ t.pglast \in Nat /\ t.id \in Nat /\ t.pglast < t.id
    BY <1>1, SavedRecords
  <1>3. s.headId \in Nat /\ s.headId <= s.pglast /\ s.pglast \in Nat
    BY DEF Saves
  <1>4. s.pglast # 0
    <2> SUFFICES ASSUME s.pglast = 0 PROVE FALSE
      OBVIOUS
    <2>1. AtHand(t) = 0
      BY <1>1, AtHandType DEF Saves
    <2>2. Cardinality(Slots(t.free.recs, 0, 0)) = 0
      <3>1. \A i \in DOMAIN t.free.recs : 0 < i => 0 < i
        OBVIOUS
      <3>2. 0 \in Nat
        OBVIOUS
      <3> QED BY <1>2, <3>1, <3>2, NoSlots
    <2>3. s.total = Cardinality(Slots(t.free.recs, 0, s.pglast))
      BY DEF Saves
    <2> QED BY <2>1, <2>2, <2>3
  <1>5. s.headId > 0
    BY <1>3, <1>4 DEF Saves
  <1>6. id \in Nat \ {0} /\ id <= s.pglast /\ id <= s.headId /\ id <= t.pglast /\ id # t.id
    BY <1>2, <1>3, <1>5
  <1>7. Stuck(u) \/ (Good(u, Nil) /\ PutDone(t, u, id, room))
    BY <1>1, <1>6, RecPutGood
  <1>8. ASSUME Good(u, Nil), PutDone(t, u, id, room) PROVE Saves(u, z)
    <2>1. RecFrame(t, u, id) /\ id \in DOMAIN u.free.recs /\ u.free.recs[id].len = room
      BY <1>8 DEF PutDone
    <2>2. /\ IsRecords(u.free.recs) /\ DOMAIN u.free.recs \subseteq Nat \ {0} /\ u.pglast \in Nat /\ u.id \in Nat
      BY <1>8, SavedRecords
    <2>3. u.id = t.id /\ Ok(u) /\ ~u.err
      BY <2>1 DEF RecFrame, Saves, Ok
    <2>4. DOMAIN u.free.recs \subseteq 1..u.id
      <3> SUFFICES ASSUME NEW k \in DOMAIN u.free.recs PROVE k \in 1..t.id
        BY <2>3
      <3>1. CASE k = id
        BY <1>2, <1>6, <3>1
      <3>2. CASE k # id
        <4>1. k \in DOMAIN t.free.recs
          BY <2>1, <3>2 DEF RecFrame
        <4> QED BY <4>1 DEF Saves
      <3> QED BY <3>1, <3>2
    <2>5. s.pglast <= u.pglast /\ (s.pglast < u.pglast => u.pglast \in DOMAIN u.free.recs) /\ u.pglast # 0
      <3>1. u.pglast \in {t.pglast} \cup DOMAIN t.free.recs /\ t.pglast <= u.pglast
        BY <2>1 DEF RecFrame
      <3>2. ASSUME s.pglast < u.pglast PROVE u.pglast \in DOMAIN u.free.recs
        <4>1. u.pglast # t.pglast /\ u.pglast # id
          BY <1>2, <1>3, <1>6, <2>2, <3>2
        <4> QED BY <2>1, <3>1, <4>1 DEF RecFrame
      <3> QED BY <1>2, <1>3, <1>4, <2>2, <3>1, <3>2
    <2>6. ASSUME NEW i \in DOMAIN u.free.recs, i <= s.pglast
          PROVE  id <= i /\ u.free.recs[i].pgs = {} /\ Reserved(u, i)
      <3>1. CASE i = id
        <4>1. id \in DOMAIN t.free.recs => t.free.recs[id].pgs = {} /\ Reserved(t, id)
          BY <1>6 DEF Saves
        <4>2. u.free.recs[id].pgs = {}
          BY <1>8, <4>1 DEF PutDone
        <4>3. Reserved(u, id)
          BY <1>8, <4>1 DEF PutDone, Reserved
        <4> QED BY <1>6, <3>1, <4>2, <4>3
      <3>2. CASE i # id
        <4>1. i \in DOMAIN t.free.recs /\ i \in Nat
          BY <2>1, <2>2, <3>2 DEF RecFrame
        <4>2. s.headId <= i /\ t.free.recs[i].pgs = {} /\ Reserved(t, i)
          BY <2>6, <4>1 DEF Saves
        <4>3. Reserved(u, i) /\ u.free.recs[i].pgs = {}
          BY <1>1, <1>8, <3>2, <4>2, ReservedKept
        <4> QED BY <1>3, <1>6, <4>1, <4>2, <4>3
      <3> QED BY <3>1, <3>2
    <2>7. LenOf(u.free.recs, id) = room
      BY <2>1 DEF LenOf
    <2>8. others = s.total - LenOf(t.free.recs, id)
      <3>1. CASE id = s.headId /\ others = s.total - s.headRoom
        BY <3>1 DEF Saves
      <3>2. CASE id = s.headId - 1 /\ others = s.total
        <4>1. id \notin DOMAIN t.free.recs
          <5>1. \A i \in DOMAIN t.free.recs : i <= s.pglast => s.headId <= i
            BY DEF Saves
          <5> QED BY <1>3, <1>6, <3>2, <5>1
        <4>2. s.total \in Nat
          BY FS_CardinalityType DEF Saves
        <4> QED BY <3>2, <4>1, <4>2 DEF LenOf
      <3> QED BY <3>1, <3>2
    <2>9. /\ IsFiniteSet(Slots(u.free.recs, 0, s.pglast))
          /\ Cardinality(Slots(u.free.recs, 0, s.pglast)) = others + room
      <3> DEFINE f == t.free.recs
                 g == u.free.recs
      <3>1. /\ IsRecords(f) /\ IsRecords(g) /\ 0 \in Nat /\ s.pglast \in Nat /\ id \in Nat /\ 0 < id /\ id <= s.pglast
            /\ IsFiniteSet(Slots(f, 0, s.pglast))
        BY <1>2, <1>3, <1>6, <2>2 DEF Saves
      <3>2. /\ \A k : k # id => (k \in DOMAIN g <=> k \in DOMAIN f)
            /\ \A k \in DOMAIN f : k # id => g[k].len = f[k].len
        BY <2>1 DEF RecFrame
      <3>3. s.total = Cardinality(Slots(f, 0, s.pglast)) /\ others = s.total - LenOf(f, id) /\ LenOf(g, id) = room
        BY <2>7, <2>8 DEF Saves
      <3> HIDE DEF f, g
      <3>4. /\ IsFiniteSet(Slots(g, 0, s.pglast)) /\ Cardinality(Slots(f, 0, s.pglast)) \in Nat
            /\ Cardinality(Slots(g, 0, s.pglast)) = Cardinality(Slots(f, 0, s.pglast)) - LenOf(f, id) + LenOf(g, id)
        BY <3>1, <3>2, SlotsPut
      <3>5. Cardinality(Slots(g, 0, s.pglast)) = others + room
        BY <3>3, <3>4
      <3> QED BY <3>4, <3>5 DEF g
    <2>10. s.freecnt \in 0..u.nfreed /\ (s.freecnt = u.nfreed => OwnPages(u) = u.freed)
      <3>1. s.freecnt \in 0..t.nfreed /\ (s.freecnt = t.nfreed => OwnPages(t) = t.freed)
        BY DEF Saves
      <3> QED BY <1>1, <1>6, <1>8, <2>1, <3>1, OwnKept
    <2>11. z.more \in {0, 1} /\ s.at = 0
      <3>1. s.more \in {0, 1} /\ s.at = 0
        BY DEF Saves
      <3> QED BY <3>1
    <2> QED BY <1>3, <1>6, <1>8, <2>3, <2>4, <2>5, <2>6, <2>7, <2>9, <2>10, <2>11 DEF Saves
  <1> QED BY <1>7, <1>8

LEMMA RoomType ==
  ASSUME NEW n \in Int, NEW id \in Nat \ {0}, NEW room,
         room = IF n > MaxFree1Pg /\ id > 1 THEN Amortized(n, id) ELSE Max({0, n})
  PROVE  room \in Nat
  <1>1. MaxFree1Pg \in Nat
    BY PagesAssumption
  <1>2. CASE n > MaxFree1Pg /\ id > 1
    <2> DEFINE q == n \div id
               c == MaxFree1Pg + 1
    <2>1. q \in Nat
      <3>1. n \in Nat /\ n <= n
        BY <1>1, <1>2
      <3> QED BY <3>1, Quotient
    <2>2. c \in Nat \ {0}
      BY <1>1
    <2>3. room = q + MaxFree1Pg - (q % c)
      BY <1>2 DEF Amortized
    <2> HIDE DEF q, c
    <2>4. q % c \in 0..(c - 1)
      BY <2>1, <2>2, SMT
    <2>5. q % c <= MaxFree1Pg /\ q % c \in Nat
      BY <1>1, <2>2, <2>4 DEF c
    <2> DEFINE m == q % c
    <2> HIDE DEF m
    <2>6. m <= MaxFree1Pg /\ m \in Nat /\ room = q + MaxFree1Pg - m
      BY <2>3, <2>5 DEF m
    <2> QED BY <1>1, <2>1, <2>6
  <1>3. CASE ~(n > MaxFree1Pg /\ id > 1)
    <2>1. room = Max({0, n})
      BY <1>3
    <2>2. CASE n \in Nat
      <3> DEFINE S == {0, n}
      <3>1. S \subseteq Nat /\ n \in S /\ \A x \in S : x <= n
        BY <2>2
      <3> HIDE DEF S
      <3>2. Max(S) = n
        BY <3>1, MaxOf
      <3> QED BY <2>1, <2>2, <3>2 DEF S
    <2>3. CASE n \notin Nat
      <3>1. Max({0, n}) = CHOOSE x \in {0, n} : \A y \in {0, n} : x >= y
        BY DEF Max
      <3>2. \E x \in {0, n} : \A y \in {0, n} : x >= y
        BY <2>3
      <3>3. Max({0, n}) \in {0, n} /\ \A y \in {0, n} : Max({0, n}) >= y
        <4> DEFINE P(x) == x \in {0, n} /\ \A y \in {0, n} : x >= y
        <4>1. \E x : P(x)
          BY <3>2
        <4>2. Max({0, n}) = CHOOSE x : P(x)
          BY <3>1
        <4> HIDE DEF P
        <4>3. P(Max({0, n}))
          BY <4>1, <4>2
        <4> QED BY <4>3 DEF P
      <3> QED BY <2>1, <3>3
    <2> QED BY <2>2, <2>3
  <1> QED BY <1>2, <1>3

(* The page numbers written into a record. *)
Refilled(t, id, P) == [t EXCEPT !.free.recs[id].pgs = P]

Refilling(t, u, id, P) ==
  /\ Rest(t, u) /\ u.main = t.main /\ DOMAIN u = TxnFields /\ DOMAIN u.free = {"root", "recs"}
  /\ u.free.root = t.free.root /\ DOMAIN u.free.recs = DOMAIN t.free.recs
  /\ \A k \in DOMAIN t.free.recs : k # id => u.free.recs[k] = t.free.recs[k]
  /\ IsRecord(u.free.recs[id]) /\ u.free.recs[id].pgs = P
  /\ u.free.recs[id].ov = t.free.recs[id].ov /\ u.free.recs[id].len = t.free.recs[id].len
  /\ u.got = t.got /\ u.rc = t.rc /\ u.err = t.err

LEMMA PgsSet ==
  ASSUME NEW t, IsTxn(t), NEW id \in DOMAIN t.free.recs, NEW P, P \subseteq Nat, NEW u, u = Refilled(t, id, P)
  PROVE  Refilling(t, u, id, P)
  <1>1. DOMAIN t = TxnFields /\ IsFree(t.free) /\ IsRecord(t.free.recs[id])
    BY DEF IsTxn, IsFree
  <1> DEFINE r == [t.free.recs[id] EXCEPT !.pgs = P]
             f == [t.free.recs EXCEPT ![id] = r]
             g == [t.free EXCEPT !.recs = f]
  <1>4. DOMAIN r = {"len", "pgs", "ov"} /\ r.pgs = P /\ r.len = t.free.recs[id].len /\ r.ov = t.free.recs[id].ov
    BY <1>1 DEF IsRecord
  <1>2. u.free = g
    BY <1>1 DEF TxnFields, Refilled
  <1> HIDE DEF r
  <1>5. DOMAIN f = DOMAIN t.free.recs /\ f[id] = r /\ \A k \in DOMAIN t.free.recs : k # id => f[k] = t.free.recs[k]
    OBVIOUS
  <1> HIDE DEF f
  <1>6. DOMAIN g = {"root", "recs"} /\ g.recs = f /\ g.root = t.free.root
    BY <1>1 DEF IsFree
  <1> HIDE DEF g
  <1>7. DOMAIN u = TxnFields /\ u.main = t.main /\ u.got = t.got /\ u.rc = t.rc /\ u.err = t.err
    BY <1>1 DEF TxnFields, Refilled
  <1>8. Rest(t, u)
    BY <1>1 DEF TxnFields, Rest, Refilled
  <1>9. IsRecord(r)
    BY <1>1, <1>4 DEF IsRecord
  <1> QED BY <1>2, <1>4, <1>5, <1>6, <1>7, <1>8, <1>9 DEF Refilling

LEMMA PgsFrame ==
  ASSUME NEW t, NEW b, NEW u, NEW id, RecFrame(t, b, id), Rest(b, u), DOMAIN u = TxnFields,
         DOMAIN u.free.recs = DOMAIN b.free.recs,
         \A k \in DOMAIN b.free.recs : k # id => u.free.recs[k] = b.free.recs[k],
         u.rc = b.rc, u.err = b.err
  PROVE  RecFrame(t, u, id)
  <1>1. u.id = b.id /\ u.freed = b.freed /\ u.loose = b.loose /\ u.pglast = b.pglast /\ Writable(u) = Writable(b)
    BY DEF Rest, Writable
  <1>2. /\ u.id = t.id /\ u.rc = t.rc /\ u.err = t.err
        /\ t.freed \subseteq u.freed /\ ToSet(u.loose) \subseteq ToSet(t.loose)
        /\ u.pglast \in {t.pglast} \cup DOMAIN t.free.recs /\ t.pglast <= u.pglast
    BY <1>1 DEF RecFrame
  <1>3. \A k : k # id => (k \in DOMAIN u.free.recs <=> k \in DOMAIN t.free.recs)
    BY DEF RecFrame
  <1>4. \A k \in DOMAIN t.free.recs : k # id => u.free.recs[k] = t.free.recs[k]
    BY DEF RecFrame
  <1>5. \A k \in DOMAIN t.free.recs :
           k # id /\ DOMAIN t.free.recs[k].ov \subseteq Writable(t) => DOMAIN t.free.recs[k].ov \subseteq Writable(u)
    BY <1>1 DEF RecFrame
  <1> QED BY <1>2, <1>3, <1>4, <1>5 DEF RecFrame

LEMMA OwnWritten ==
  ASSUME NEW t, Good(t, Nil), Numbers, Ok(t), NEW b, b = RecPut(t, t.id, t.nfreed),
         NEW u, u = IF Ok(b) THEN Refilled(b, b.id, b.freed) ELSE b
  PROVE  \/ Stuck(u)
         \/ Good(u, Nil) /\ RecFrame(t, u, t.id) /\ u.free.root \in Writable(u) /\ Ok(u) /\ OwnPages(u) = u.freed
  <1>1. IsTxn(t) /\ t.id = newest + 1 /\ t.id \in Nat /\ t.nfreed \in Nat
    BY DEF Good, IsTxn, Counted
  <1>2. newest \in Nat /\ t.id \in Nat \ {0} /\ t.id <= t.id /\ newest < t.id
    BY <1>1 DEF Numbers
  <1>3. Stuck(b) \/ (Good(b, Nil) /\ PutDone(t, b, t.id, t.nfreed))
    BY <1>1, <1>2, RecPutGood
  <1>4. CASE Stuck(b)
    BY <1>4 DEF Stuck
  <1>5. CASE Good(b, Nil) /\ PutDone(t, b, t.id, t.nfreed)
    <2>1. /\ IsTxn(b) /\ b.freed \subseteq Nat /\ b.id = t.id /\ RecFrame(t, b, t.id) /\ b.rc = t.rc
          /\ b.id \in DOMAIN b.free.recs /\ b.free.root \in Writable(b) /\ b.got \in Nat
      BY <1>5 DEF Good, IsTxn, PutDone, RecFrame
    <2>2. Ok(b) /\ u = Refilled(b, b.id, b.freed)
      BY <2>1 DEF Ok
    <2>3. /\ Rest(b, u) /\ u.main = b.main /\ DOMAIN u = TxnFields /\ DOMAIN u.free = {"root", "recs"}
          /\ u.free.root = b.free.root /\ DOMAIN u.free.recs = DOMAIN b.free.recs
          /\ \A k \in DOMAIN b.free.recs : k # b.id => u.free.recs[k] = b.free.recs[k]
          /\ IsRecord(u.free.recs[b.id]) /\ u.free.recs[b.id].pgs = b.freed
          /\ u.free.recs[b.id].ov = b.free.recs[b.id].ov
          /\ u.got = b.got /\ u.rc = b.rc /\ u.err = b.err
      <3>1. IsTxn(b) /\ b.id \in DOMAIN b.free.recs /\ b.freed \subseteq Nat /\ u = Refilled(b, b.id, b.freed)
        BY <2>1, <2>2
      <3>2. Refilling(b, u, b.id, b.freed)
        BY Zenon, <3>1, PgsSet
      <3> QED BY Zenon, <3>2 DEF Refilling
    <2>4. newest < b.id /\ b.id <= b.id /\ u.got \in Nat
      <3>1. b.id = t.id /\ u.got = b.got /\ b.got \in Nat
        BY <2>1, <2>3
      <3> QED BY <1>2, <3>1
    <2>5. Good(u, Nil)
      BY Zenon, <1>5, <2>1, <2>3, <2>4, RecordChanged
    <2>6. RecFrame(t, u, t.id)
      <3>1. \A k \in DOMAIN b.free.recs : k # t.id => u.free.recs[k] = b.free.recs[k]
        BY Zenon, <2>1, <2>3
      <3>2. /\ RecFrame(t, b, t.id) /\ Rest(b, u) /\ DOMAIN u = TxnFields /\ DOMAIN u.free.recs = DOMAIN b.free.recs
            /\ u.rc = b.rc /\ u.err = b.err
        BY Zenon, <2>1, <2>3
      <3>3. \A id : id = t.id => RecFrame(t, u, id)
        BY <3>1, <3>2, PgsFrame
      <3> QED BY <3>3
    <2>7. u.freed = b.freed /\ u.id = b.id /\ Writable(u) = Writable(b)
      BY Zenon, <2>3 DEF Rest, Writable
    <2>8. u.free.root \in Writable(u) /\ Ok(u) /\ OwnPages(u) = u.freed
      BY Zenon, <2>1, <2>2, <2>3, <2>7 DEF Ok, OwnPages
    <2> QED BY <2>5, <2>6, <2>8
  <1> QED BY <1>3, <1>4, <1>5

LEMMA StillReserved ==
  ASSUME NEW t, NEW u, NEW id, RecFrame(t, u, id), u.free.root \in Writable(u),
         NEW i \in DOMAIN u.free.recs, i # id, Reserved(t, i)
  PROVE  Reserved(u, i) /\ u.free.recs[i] = t.free.recs[i] /\ i \in DOMAIN t.free.recs
  <1>1. i \in DOMAIN t.free.recs /\ u.free.recs[i] = t.free.recs[i]
    BY DEF RecFrame
  <1>2. DOMAIN t.free.recs[i].ov \subseteq Writable(u)
    BY <1>1 DEF RecFrame, Reserved
  <1> QED BY <1>1, <1>2 DEF Reserved

(* The slots below the own record of a transaction do not change with it. *)
LEMMA SavesAfterOwn ==
  ASSUME NEW t, NEW s, Saves(t, s), s.pglast = t.pglast, Numbers,
         NEW u, Good(u, Nil), RecFrame(t, u, t.id), u.free.root \in Writable(u), Ok(u), OwnPages(u) = u.freed,
         NEW z, z.freecnt \in Nat, z.freecnt <= u.nfreed,
         z.pglast = s.pglast, z.headId = s.headId, z.headRoom = s.headRoom, z.total = s.total,
         z.more = s.more, z.at = s.at
  PROVE  Saves(u, z)
  <1>1. /\ IsRecords(t.free.recs) /\ DOMAIN t.free.recs \subseteq Nat \ {0}
        /\ t.pglast \in Nat /\ t.id \in Nat /\ t.pglast < t.id
    BY SavedRecords DEF Saves
  <1>2. /\ IsRecords(u.free.recs) /\ DOMAIN u.free.recs \subseteq Nat \ {0} /\ u.pglast \in Nat /\ u.id \in Nat
        /\ u.nfreed \in Nat
    BY SavedRecords
  <1>3. u.id = t.id /\ ~u.err
    BY DEF RecFrame, Saves
  <1>4. DOMAIN u.free.recs \subseteq 1..u.id
    <2> SUFFICES ASSUME NEW k \in DOMAIN u.free.recs PROVE k \in 1..t.id
      BY <1>3
    <2>1. CASE k = t.id
      BY <1>1, <1>2, <2>1
    <2>2. CASE k # t.id
      <3>1. k \in DOMAIN t.free.recs
        BY <2>2 DEF RecFrame
      <3> QED BY <3>1 DEF Saves
    <2> QED BY <2>1, <2>2
  <1>5. s.headId \in Nat /\ s.headId <= s.pglast /\ s.pglast \in Nat /\ (s.pglast > 0 => s.headId > 0)
    BY DEF Saves
  <1>6. s.pglast <= u.pglast /\ (s.pglast < u.pglast => u.pglast \in DOMAIN u.free.recs)
    <2>1. u.pglast \in {t.pglast} \cup DOMAIN t.free.recs /\ t.pglast <= u.pglast
      BY DEF RecFrame
    <2>2. ASSUME u.pglast # t.pglast PROVE u.pglast \in DOMAIN u.free.recs
      <3>1. u.pglast < u.id
        BY DEF Good, Counted
      <3> QED BY <1>2, <1>3, <2>1, <2>2, <3>1 DEF RecFrame
    <2>3. s.pglast < u.pglast => u.pglast # t.pglast
      BY <1>1
    <2> QED BY <2>1, <2>2, <2>3
  <1>7. ASSUME NEW i \in DOMAIN u.free.recs, i <= s.pglast
        PROVE  s.headId <= i /\ u.free.recs[i].pgs = {} /\ Reserved(u, i)
    <2>1. i # t.id
      BY <1>1, <1>2, <1>7
    <2>2. i \in DOMAIN t.free.recs
      BY <2>1 DEF RecFrame
    <2>3. s.headId <= i /\ t.free.recs[i].pgs = {} /\ Reserved(t, i)
      BY <1>7, <2>2 DEF Saves
    <2>4. Reserved(u, i) /\ u.free.recs[i] = t.free.recs[i]
      BY <2>1, <2>3, StillReserved
    <2> QED BY <2>3, <2>4
  <1>8. \A k : 0 < k /\ k <= s.pglast =>
           /\ k \in DOMAIN u.free.recs <=> k \in DOMAIN t.free.recs
           /\ k \in DOMAIN t.free.recs => u.free.recs[k].len = t.free.recs[k].len
    <2> SUFFICES ASSUME NEW k, k <= s.pglast, k \in DOMAIN u.free.recs \/ k \in DOMAIN t.free.recs
                 PROVE  /\ k \in DOMAIN u.free.recs <=> k \in DOMAIN t.free.recs
                        /\ k \in DOMAIN t.free.recs => u.free.recs[k].len = t.free.recs[k].len
      OBVIOUS
    <2>1. k # t.id
      BY <1>1, <1>2
    <2> QED BY <2>1 DEF RecFrame
  <1>9. Slots(u.free.recs, 0, s.pglast) = Slots(t.free.recs, 0, s.pglast)
    <2> DEFINE f == t.free.recs
               g == u.free.recs
    <2>1. \A k : 0 < k /\ k <= s.pglast => /\ k \in DOMAIN g <=> k \in DOMAIN f
                                           /\ k \in DOMAIN f => g[k].len = f[k].len
      BY <1>8
    <2> HIDE DEF f, g
    <2>2. Slots(g, 0, s.pglast) = Slots(f, 0, s.pglast)
      BY <2>1, SlotsSame
    <2> QED BY <2>2 DEF f, g
  <1>10. LenOf(u.free.recs, s.headId) = LenOf(t.free.recs, s.headId)
    <2>1. s.headId # t.id
      BY <1>1, <1>5
    <2> QED BY <2>1 DEF LenOf, RecFrame
  <1>11. u.pglast = 0 => ToSet(u.loose) = {}
    <2>1. u.pglast = 0 => t.pglast = 0
      BY <1>1, <1>2 DEF RecFrame
    <2>2. ToSet(u.loose) \subseteq ToSet(t.loose)
      BY DEF RecFrame
    <2>3. t.pglast = 0 => ToSet(t.loose) = {}
      BY DEF Saves
    <2> QED BY <2>1, <2>2, <2>3
  <1>12. z.freecnt \in 0..u.nfreed
    BY <1>2
  <1>13. /\ s.headRoom = LenOf(t.free.recs, s.headId) /\ s.more \in {0, 1} /\ s.at = 0
         /\ IsFiniteSet(Slots(t.free.recs, 0, s.pglast)) /\ s.total = Cardinality(Slots(t.free.recs, 0, s.pglast))
    BY DEF Saves
  <1> QED BY <1>3, <1>4, <1>5, <1>6, <1>7, <1>9, <1>10, <1>11, <1>12, <1>13 DEF Saves

LEMMA FrameOnto ==
  ASSUME NEW t, NEW a, NEW u, NEW id, Good(t, Nil), Good(a, Nil), Good(u, Nil),
         a = t \/ FreeTouched(t, a), RecFrame(a, u, id)
  PROVE  RecFrame(t, u, id) /\ a.nfreed \in Nat /\ a.nfreed <= u.nfreed
  <1>1. IsTxn(t) /\ IsTxn(a) /\ IsTxn(u)
    BY DEF Good
  <1>2. RecFrame(t, u, id)
    <2>1. CASE a = t
      BY <2>1
    <2>2. CASE FreeTouched(t, a)
      <3>1. RecFrame(t, a, id) /\ DOMAIN a.free.recs \subseteq DOMAIN t.free.recs
        BY <1>1, <2>2, TouchedFrame DEF FreeTouched
      <3> QED BY <1>1, <3>1, RecFrameTwice
    <2> QED BY <2>1, <2>2
  <1>3. /\ a.nfreed \in Nat /\ a.nfreed = Cardinality(a.freed) /\ u.nfreed = Cardinality(u.freed)
        /\ IsFiniteSet(u.freed) /\ a.freed \subseteq u.freed
    BY DEF Good, IsTxn, Counted, RecFrame
  <1>4. a.nfreed <= u.nfreed
    BY <1>3, FS_Subset
  <1> QED BY <1>2, <1>3, <1>4

LEMMA OwnAfterTouch ==
  ASSUME NEW t, NEW s, Saves(t, s), Numbers, s.pglast = t.pglast,
         NEW a, Good(a, Nil), Ok(a), a.id = t.id, a = t \/ FreeTouched(t, a),
         NEW b, b = RecPut(a, a.id, a.nfreed),
         NEW u, u = IF Ok(b) THEN Refilled(b, b.id, b.freed) ELSE b,
         NEW z, z.freecnt = a.nfreed, z.pglast = s.pglast, z.headId = s.headId, z.headRoom = s.headRoom,
         z.total = s.total, z.more = s.more, z.at = s.at
  PROVE  Stuck(u) \/ Saves(u, z)
  <1>1. Good(t, Nil) /\ Ok(t)
    BY DEF Saves
  <1>2. \/ Stuck(u)
        \/ Good(u, Nil) /\ RecFrame(a, u, a.id) /\ u.free.root \in Writable(u) /\ Ok(u) /\ OwnPages(u) = u.freed
    BY OwnWritten
  <1>3. ASSUME Good(u, Nil), RecFrame(a, u, a.id), u.free.root \in Writable(u), Ok(u), OwnPages(u) = u.freed
        PROVE  Saves(u, z)
    <2>1. RecFrame(a, u, t.id)
      BY <1>3
    <2>2. RecFrame(t, u, t.id) /\ a.nfreed \in Nat /\ a.nfreed <= u.nfreed
      BY <1>1, <1>3, <2>1, FrameOnto
    <2>3. z.freecnt \in Nat /\ z.freecnt <= u.nfreed
      BY <2>2
    <2> QED BY <1>3, <2>2, <2>3, SavesAfterOwn
  <1> QED BY <1>2, <1>3

LEMMA OwnGood ==
  ASSUME NEW t, NEW s, Saves(t, s), Numbers, s.pglast = t.pglast,
         NEW a, a = IF s.freecnt = 0 /\ t.free.root # NoPage THEN PageTouch(t, t.free.root) ELSE t,
         NEW b, b = IF Ok(a) THEN RecPut(a, a.id, a.nfreed) ELSE a,
         NEW u, u = IF Ok(b) THEN Refilled(b, b.id, b.freed) ELSE b,
         NEW z, z.freecnt = a.nfreed, z.pglast = s.pglast, z.headId = s.headId, z.headRoom = s.headRoom,
         z.total = s.total, z.more = s.more, z.at = s.at
  PROVE  Stuck(u) \/ Saves(u, z)
  <1>1. Good(t, Nil) /\ Ok(t)
    BY DEF Saves
  <1>2. Stuck(a) \/ (Good(a, Nil) /\ Ok(a) /\ a.id = t.id /\ (a = t \/ FreeTouched(t, a)))
    <2>1. CASE s.freecnt = 0 /\ t.free.root # NoPage
      <3>1. a = PageTouch(t, t.free.root)
        BY <2>1
      <3>2. Lost(a) \/ (Good(a, Nil) /\ FreeTouched(t, a))
        <4>1. t.free.root # NoPage /\ Good(t, Nil) /\ Ok(t)
          BY <1>1, <2>1
        <4> HIDE <1>1, <2>1
        <4>2. \/ Lost(PageTouch(t, t.free.root))
              \/ Good(PageTouch(t, t.free.root), Nil) /\ FreeTouched(t, PageTouch(t, t.free.root))
          BY Zenon, <4>1, RootTouchGood
        <4> QED BY Zenon, <3>1, <4>2
      <3>3. FreeTouched(t, a) => Ok(a) /\ a.id = t.id
        BY <1>1 DEF FreeTouched, Ok
      <3> QED BY <3>2, <3>3, LostStuck
    <2>2. CASE ~(s.freecnt = 0 /\ t.free.root # NoPage)
      BY <1>1, <2>2
    <2> QED BY <2>1, <2>2
  <1>3. CASE Stuck(a)
    BY <1>3 DEF Stuck
  <1>4. CASE Good(a, Nil) /\ Ok(a) /\ a.id = t.id /\ (a = t \/ FreeTouched(t, a))
    <2>1. b = RecPut(a, a.id, a.nfreed)
      BY <1>4
    <2> QED BY <1>4, <2>1, OwnAfterTouch
  <1> QED BY <1>2, <1>3, <1>4

(* The loose pages become freed pages (7), or pages at hand (8).           *)
Unloosed(t, u, d) ==
  /\ DOMAIN u = TxnFields /\ u.got = t.got /\ u.main = t.main /\ u.free = t.free
  /\ u.id = t.id /\ u.next = t.next /\ u.oldest = t.oldest /\ u.pglast = t.pglast
  /\ u.written = t.written /\ u.spill = t.spill /\ u.room = t.room
  /\ u.rc = t.rc /\ u.err = t.err /\ u.loose = <<>>
  /\ u.dirty = [p \in DOMAIN t.dirty \ ToSet(t.loose) |-> t.dirty[p]]
  /\ IF d = 7
     THEN /\ u.freed = t.freed \cup ToSet(t.loose) /\ u.nfreed = t.nfreed + Cardinality(ToSet(t.loose))
          /\ u.pghead = t.pghead
     ELSE u.pghead = t.pghead \cup ToSet(t.loose) /\ u.freed = t.freed /\ u.nfreed = t.nfreed

LEMMA UnloosedGood ==
  ASSUME NEW t, Good(t, Nil), Numbers, NEW d \in {7, 8}, d = 8 => t.pglast # 0 \/ ToSet(t.loose) = {},
         NEW u, Unloosed(t, u, d)
  PROVE  Good(u, Nil) /\ ToSet(u.loose) = {}
  <1> DEFINE X == ToSet(t.loose)
  <1>1. IsTxn(t) /\ Sized(t, Nil) /\ Counted(t) /\ Once(t, Nil) /\ IsRuns(t.dirty) /\ IsRuns(t.spill)
    BY DEF Good, IsTxn
  <1>2. \A x \in X : Lives(t, Nil, 9, 0, x)
    BY SMT DEF Lives
  <1>3. IsFiniteSet(X) /\ X \subseteq Nat
    BY <1>2, FinitePages
  <1>4. ToSet(u.loose) = {} /\ u.loose \in Seq(Nat) /\ NoTwice(u.loose)
    <2>1. u.loose = <<>>
      BY DEF Unloosed
    <2>2. DOMAIN u.loose = {}
      BY <2>1
    <2>3. ToSet(u.loose) = {}
      BY <2>2 DEF ToSet
    <2> QED BY <2>1, <2>2, <2>3 DEF NoTwice
  <1>5. X \subseteq DOMAIN t.dirty /\ X \cap DOMAIN t.spill = {}
    BY <1>1 DEF Sized
  <1>6. \A p \in X : Run(p, t.dirty[p]) = {p}
    <2> SUFFICES ASSUME NEW p \in X PROVE Run(p, t.dirty[p]) = {p}
      OBVIOUS
    <2>1. Block(t, Nil, p, t.dirty[p])
      BY <1>1, <1>5 DEF Sized
    <2>2. Lives(t, Nil, 9, 0, p) /\ 9 \in {1, 2, 4, 9}
      BY <1>2
    <2>3. t.dirty[p] = 1
      BY <2>1, <2>2, PageSize
    <2> QED BY <1>3, <2>3, RunMembers
  <1> HIDE DEF X
  <1>7. /\ IsRuns(u.dirty) /\ DOMAIN u.dirty = DOMAIN t.dirty \ X
        /\ \A p \in DOMAIN u.dirty : u.dirty[p] = t.dirty[p]
    <2>1. u.dirty = [p \in DOMAIN t.dirty \ X |-> t.dirty[p]]
      BY DEF Unloosed, X
    <2> QED BY <1>1, <2>1, SMT DEF IsRuns
  <1>8. PagesOf(u.dirty) \subseteq PagesOf(t.dirty)
    BY <1>7, PagesOfMembers
  <1>9. /\ u.id = t.id /\ u.main = t.main /\ u.free = t.free /\ u.pglast = t.pglast
        /\ u.spill = t.spill /\ u.written = t.written /\ u.room = t.room /\ u.next = t.next
    BY DEF Unloosed
  <1>10. u.freed = (IF d = 7 THEN t.freed \cup X ELSE t.freed) /\ u.pghead = IF d = 8 THEN t.pghead \cup X ELSE t.pghead
    <2>1. CASE d = 7
      BY <2>1 DEF Unloosed, X
    <2>2. CASE d = 8
      BY <2>2 DEF Unloosed, X
    <2> QED BY <2>1, <2>2
  <1>11. Moved(t, Nil, u, Nil, X, d, 0)
    <2> SUFFICES ASSUME NEW x, NEW k, NEW i
                 PROVE  Lives(u, Nil, k, i, x) <=> IF x \in X THEN k = d /\ i = 0 ELSE Lives(t, Nil, k, i, x)
      BY DEF Moved
    <2>1. x \in X => (Lives(t, Nil, k, i, x) <=> k = 9 /\ i = 0)
      BY <1>1, <1>2 DEF Once
    <2>2. CASE k = 9
      <3>1. ~Lives(u, Nil, 9, i, x)
        BY <1>4, SMT DEF Lives
      <3>2. Lives(t, Nil, 9, i, x) => x \in X
        BY SMT DEF Lives, X
      <3> QED BY <2>2, <3>1, <3>2
    <2>3. CASE k = 7
      <3>1. Lives(u, Nil, 7, i, x) <=> i = 0 /\ x \in u.freed
        BY SMT DEF Lives
      <3>2. Lives(t, Nil, 7, i, x) <=> i = 0 /\ x \in t.freed
        BY SMT DEF Lives
      <3> QED BY <1>10, <2>1, <2>3, <3>1, <3>2
    <2>4. CASE k = 8
      <3>1. Lives(u, Nil, 8, i, x) <=> i = 0 /\ x \in u.pghead
        BY SMT DEF Lives
      <3>2. Lives(t, Nil, 8, i, x) <=> i = 0 /\ x \in t.pghead
        BY SMT DEF Lives
      <3> QED BY <1>10, <2>1, <2>4, <3>1, <3>2
    <2>5. CASE k \notin {7, 8, 9}
      <3>1. x \in X => ~Lives(t, Nil, k, i, x)
        BY <2>1, <2>5
      <3>2. Lives(u, Nil, k, i, x) <=> Lives(t, Nil, k, i, x)
        BY <1>9, <2>5, SMT DEF Lives
      <3> QED BY <2>5, <3>1, <3>2
    <2> QED BY <2>2, <2>3, <2>4, <2>5
  <1>12. Freeing(t, u)
    BY <1>1 DEF Freeing, IsTxn, Unloosed
  <1>13. IsFiniteSet(DOMAIN u.dirty) /\ u.room + Cardinality(DOMAIN u.dirty) <= DirtyRoom
    <2> DEFINE D == DOMAIN t.dirty
    <2>1. IsFiniteSet(D) /\ t.room + Cardinality(D) <= DirtyRoom /\ t.room \in Nat /\ DirtyRoom \in Nat
      BY <1>1, PagesAssumption DEF Counted, IsTxn
    <2> HIDE DEF D
    <2>2. IsFiniteSet(D \ X) /\ Cardinality(D \ X) <= Cardinality(D)
      BY <2>1, FS_Subset
    <2>3. Cardinality(D \ X) \in Nat /\ Cardinality(D) \in Nat
      BY <2>1, <2>2, FS_CardinalityType
    <2>4. DOMAIN u.dirty = D \ X /\ u.room = t.room
      BY <1>7, <1>9 DEF D
    <2> QED BY <2>1, <2>2, <2>3, <2>4
  <1>14. IsFiniteSet(u.freed) /\ u.nfreed = Cardinality(u.freed) /\ u.nfreed \in Nat
    <2>1. IsFiniteSet(t.freed) /\ t.nfreed = Cardinality(t.freed) /\ t.nfreed \in Nat
      BY <1>1 DEF Counted, IsTxn
    <2>2. CASE d = 8
      BY <2>1, <2>2 DEF Unloosed
    <2>3. CASE d = 7
      <3>1. t.freed \cap X = {}
        <4>1. \A x \in t.freed : Lives(t, Nil, 7, 0, x)
          BY SMT DEF Lives
        <4>2. \A x \in X : ~Lives(t, Nil, 7, 0, x)
          BY <1>1, <1>2 DEF Once
        <4> QED BY <4>1, <4>2
      <3>2. u.nfreed = t.nfreed + Cardinality(X) /\ u.freed = t.freed \cup X
        BY <2>3 DEF Unloosed, X
      <3> QED BY <1>3, <2>1, <3>1, <3>2, MoreFreed
    <2> QED BY <2>2, <2>3
  <1>15. IsTxn(u)
    <2>1. u.pghead \subseteq Nat /\ u.freed \subseteq Nat
      BY <1>1, <1>3, <1>10 DEF IsTxn
    <2> QED BY <1>1, <1>4, <1>7, <1>9, <1>14, <2>1 DEF IsTxn, Unloosed
  <1>16. Sheds(t, u, X)
    <2>1. \A p \in DOMAIN u.dirty : p \in DOMAIN t.dirty /\ u.dirty[p] = t.dirty[p]
      BY <1>7
    <2>2. \A p \in DOMAIN t.dirty : p \notin DOMAIN u.dirty => Run(p, t.dirty[p]) \subseteq X
      BY <1>6, <1>7
    <2>3. Mine(u) \subseteq Mine(t)
      <3>1. u.pghead \subseteq t.pghead \cup ToSet(t.loose)
        BY <1>10 DEF X
      <3> QED BY <1>4, <1>8, <1>9, <3>1 DEF Mine
    <2> QED BY <1>4, <1>9, <2>1, <2>2, <2>3 DEF Sheds
  <1>17. Placed(t, Nil, u, Nil)
    <2> SUFFICES ASSUME NEW p, NEW n, Block(t, Nil, p, n), p \in DOMAIN u.dirty \cup DOMAIN u.spill
                 PROVE  Block(u, Nil, p, n)
      BY DEF Placed
    <2>1. p \notin X
      BY <1>5, <1>7, <1>9
    <2>2. t.freed \subseteq u.freed
      BY <1>10
    <2> QED BY <1>9, <2>1, <2>2 DEF Block, X
  <1>18. Counted(u)
    <2>1. u.pglast = 0 => u.pghead = {}
      BY <1>1, <1>9, <1>10 DEF Counted, X
    <2> QED BY <1>1, <1>4, <1>9, <1>13, <1>14, <2>1 DEF Counted, NoTwice
  <1>19. \A x \in X : \E k, i : Lives(t, Nil, k, i, x)
    BY <1>2
  <1>20. d \in 7..9
    OBVIOUS
  <1> QED BY <1>4, <1>11, <1>12, <1>15, <1>16, <1>17, <1>18, <1>19, <1>20, NilMembers, FreedGood

(* Filling the records that were reserved; left are the pages to come.     *)
Filling(t, left) ==
  /\ Good(t, Nil) /\ Ok(t) /\ ~t.err
  /\ DOMAIN t.free.recs \subseteq 1..t.id
  /\ ToSet(t.loose) = {} /\ OwnPages(t) = t.freed
  /\ \A i, j \in DOMAIN t.free.recs : \A x :
        i <= t.pglast /\ j <= t.pglast /\ x \in t.free.recs[i].pgs /\ x \in t.free.recs[j].pgs => i = j
  /\ \A x : (\E i \in DOMAIN t.free.recs : i <= t.pglast /\ x \in t.free.recs[i].pgs) <=> x \in t.pghead \ left

(* In "fill": the slots in the records not written yet have room for the   *)
(* pages not written yet.                                                  *)
Fills(t, s) ==
  /\ Filling(t, s.left) /\ s.left \subseteq t.pghead /\ s.left # {}
  /\ \A i \in DOMAIN t.free.recs : i <= t.pglast => Reserved(t, i) /\ (s.at < i => t.free.recs[i].pgs = {})
  /\ s.at \in Nat /\ s.at <= t.pglast
  /\ IsFiniteSet(Slots(t.free.recs, s.at, t.pglast))
  /\ Cardinality(s.left) <= Cardinality(Slots(t.free.recs, s.at, t.pglast))
  /\ s.freecnt \in 0..t.nfreed /\ s.more \in {0, 1}

LEMMA UpTo ==
  ASSUME NEW n \in Nat
  PROVE  IsFiniteSet(1..n) /\ Cardinality(1..n) = n
  <1>1. IsFiniteSet(1..n) /\ Cardinality(1..n) = IF 1 > n THEN 0 ELSE n - 1 + 1
    BY FS_Interval
  <1>2. CASE 1 > n
    BY <1>1, <1>2
  <1>3. CASE ~(1 > n)
    BY <1>1, <1>3
  <1> QED BY <1>2, <1>3

LEMMA MembersBound ==
  ASSUME NEW s \in Seq(Nat)
  PROVE  IsFiniteSet(ToSet(s)) /\ Cardinality(ToSet(s)) \in Nat /\ Cardinality(ToSet(s)) <= Len(s) /\ Len(s) \in Nat
  <1>1. Len(s) \in Nat /\ DOMAIN s = 1..Len(s)
    OBVIOUS
  <1>2. ToSet(s) = {s[i] : i \in 1..Len(s)}
    BY <1>1 DEF ToSet
  <1>3. s \in Surjection(1..Len(s), ToSet(s))
    <2>1. s \in [1..Len(s) -> ToSet(s)]
      BY <1>1, <1>2
    <2>2. \A y \in ToSet(s) : \E i \in 1..Len(s) : s[i] = y
      BY <1>2
    <2> QED BY <2>1, <2>2 DEF Surjection
  <1>4. IsFiniteSet(1..Len(s)) /\ Cardinality(1..Len(s)) = Len(s)
    BY <1>1, UpTo
  <1>5. IsFiniteSet(ToSet(s)) /\ Cardinality(ToSet(s)) <= Len(s)
    <2>1. IsFiniteSet(ToSet(s)) /\ Cardinality(ToSet(s)) <= Cardinality(1..Len(s))
      BY <1>3, <1>4, FS_Surjection
    <2> QED BY <1>4, <2>1
  <1>6. Cardinality(ToSet(s)) \in Nat
    BY <1>5, FS_CardinalityType
  <1> QED BY <1>1, <1>5, <1>6

LEMMA UnloosedSame ==
  ASSUME NEW t, Good(t, Nil), NEW u, Unloosed(t, u, 8), Good(u, Nil)
  PROVE  /\ \A i \in DOMAIN t.free.recs : Reserved(t, i) => Reserved(u, i)
         /\ IsFiniteSet(u.pghead) /\ Cardinality(u.pghead) <= AtHand(t)
  <1>1. IsTxn(t) /\ Sized(t, Nil) /\ t.loose \in Seq(Nat)
    BY DEF Good, IsTxn
  <1>2. u.free = t.free /\ u.spill = t.spill /\ u.pghead = t.pghead \cup ToSet(t.loose)
    BY DEF Unloosed
  <1>3. DOMAIN u.dirty = DOMAIN t.dirty \ ToSet(t.loose)
    <2>1. u.dirty = [p \in DOMAIN t.dirty \ ToSet(t.loose) |-> t.dirty[p]]
      BY DEF Unloosed
    <2> QED BY <2>1
  <1>4. ASSUME NEW i \in DOMAIN t.free.recs, Reserved(t, i) PROVE Reserved(u, i)
    <2>1. \A x \in ToSet(t.loose) : Lives(t, Nil, 9, 0, x)
      BY SMT DEF Lives
    <2>2. t.free.root \notin ToSet(t.loose)
      <3>1. t.free.root # NoPage => Lives(t, Nil, 4, 0, t.free.root)
        BY SMT DEF Lives, RootOf
      <3>2. NoPage \notin ToSet(t.loose)
        <4>1. ~Lives(t, Nil, 9, 0, NoPage)
          <5>1. Lives(t, Nil, 9, 0, NoPage) => FirstPage <= NoPage
            BY LivePage
          <5> QED BY <5>1 DEF FirstPage, NoPage
        <4> QED BY <2>1, <4>1
      <3>3. Lives(t, Nil, 4, 0, t.free.root) => ~Lives(t, Nil, 9, 0, t.free.root)
        <4>1. Once(t, Nil)
          BY DEF Good
        <4> QED BY <4>1 DEF Once
      <3> QED BY <2>1, <3>1, <3>2, <3>3
    <2>3. DOMAIN t.free.recs[i].ov \cap ToSet(t.loose) = {}
      <3> SUFFICES ASSUME NEW p \in DOMAIN t.free.recs[i].ov, p \in ToSet(t.loose) PROVE FALSE
        OBVIOUS
      <3>1. IsRuns(t.free.recs[i].ov)
        BY <1>1 DEF IsTxn, IsFree, IsRecord
      <3>2. p \in PagesOf(t.free.recs[i].ov)
        BY <3>1, FirstInRun
      <3>3. Lives(t, Nil, 5, i, p) /\ Lives(t, Nil, 9, 0, p)
        BY <2>1, <3>2, SMT DEF Lives
      <3>4. Once(t, Nil)
        BY DEF Good
      <3>5. 5 = 9
        BY <3>3, <3>4 DEF Once
      <3> QED BY <3>5
    <2> QED BY <1>2, <1>3, <1>4, <2>2, <2>3 DEF Reserved, Writable
  <1>5. IsFiniteSet(u.pghead) /\ Cardinality(u.pghead) <= AtHand(t)
    <2> DEFINE X == ToSet(t.loose)
               P == t.pghead
    <2>1. IsFiniteSet(X) /\ Cardinality(X) \in Nat /\ Cardinality(X) <= Len(t.loose) /\ Len(t.loose) \in Nat
      BY <1>1, MembersBound
    <2>2. IsFiniteSet(P) /\ Cardinality(P) \in Nat /\ AtHand(t) = Cardinality(P) + Len(t.loose)
      BY AtHandType
    <2>3. u.pghead = P \cup X
      BY <1>2
    <2> HIDE DEF X, P
    <2>4. IsFiniteSet(P \cup X) /\ Cardinality(P \cup X) = Cardinality(P) + Cardinality(X) - Cardinality(P \cap X)
      BY <2>1, <2>2, FS_Union
    <2>5. IsFiniteSet(P \cap X)
      BY <2>1, FS_Subset
    <2>6. Cardinality(P \cap X) \in Nat
      BY <2>5, FS_CardinalityType
    <2> QED BY <2>1, <2>2, <2>3, <2>4, <2>6
  <1> QED BY <1>4, <1>5

LEMMA ReservedFills ==
  ASSUME NEW t, NEW s, Saves(t, s), Numbers, s.pglast = t.pglast, s.freecnt = t.nfreed, s.total >= AtHand(t),
         NEW u, Unloosed(t, u, 8),
         NEW z, z.left = u.pghead, z.at = s.at, z.freecnt = s.freecnt, z.more = s.more
  PROVE  Filling(u, u.pghead) /\ (u.pghead # {} => Fills(u, z))
  <1>1. Good(t, Nil) /\ Ok(t) /\ AtHand(t) \in Nat
    BY AtHandType DEF Saves
  <1>2. Good(u, Nil) /\ ToSet(u.loose) = {}
    <2>1. t.pglast # 0 \/ ToSet(t.loose) = {}
      BY DEF Saves
    <2>2. 8 \in {7, 8}
      OBVIOUS
    <2> QED BY <1>1, <2>1, <2>2, UnloosedGood
  <1>3. /\ u.free = t.free /\ u.pglast = t.pglast /\ u.id = t.id /\ u.freed = t.freed /\ u.nfreed = t.nfreed
        /\ u.rc = t.rc /\ u.err = t.err
    BY DEF Unloosed
  <1>4. \A i \in DOMAIN u.free.recs : i <= u.pglast => u.free.recs[i].pgs = {} /\ Reserved(u, i)
    <2>1. \A i \in DOMAIN t.free.recs : i <= t.pglast => t.free.recs[i].pgs = {} /\ Reserved(t, i)
      BY DEF Saves
    <2> QED BY <1>1, <1>2, <1>3, <2>1, UnloosedSame
  <1>5. Filling(u, u.pghead)
    <2>1. Ok(u) /\ ~u.err /\ DOMAIN u.free.recs \subseteq 1..u.id
      BY <1>3 DEF Saves, Ok
    <2>2. OwnPages(u) = u.freed
      BY <1>3 DEF Saves, OwnPages
    <2>3. u.pghead \ u.pghead = {}
      OBVIOUS
    <2> QED BY <1>2, <1>4, <2>1, <2>2, <2>3 DEF Filling
  <1>6. /\ s.at = 0 /\ s.freecnt \in 0..t.nfreed /\ s.more \in {0, 1} /\ t.pglast \in Nat
        /\ IsFiniteSet(Slots(t.free.recs, 0, t.pglast)) /\ s.total = Cardinality(Slots(t.free.recs, 0, t.pglast))
    BY DEF Saves
  <1>7. Cardinality(u.pghead) <= s.total
    <2>1. IsFiniteSet(u.pghead) /\ Cardinality(u.pghead) <= AtHand(t)
      BY <1>1, <1>2, UnloosedSame
    <2>2. Cardinality(u.pghead) \in Nat /\ s.total \in Nat
      BY <1>6, <2>1, FS_CardinalityType
    <2> QED BY <1>1, <2>1, <2>2
  <1>8. ASSUME u.pghead # {} PROVE Fills(u, z)
    BY <1>3, <1>4, <1>5, <1>6, <1>7, <1>8 DEF Fills
  <1> QED BY <1>5, <1>8

LEMMA NextRecord ==
  ASSUME NEW t, NEW s, Fills(t, s), NEW ids, ids = {i \in DOMAIN t.free.recs : i > s.at}
  PROVE  /\ ids # {} /\ Min(ids) \in DOMAIN t.free.recs /\ Min(ids) \in Nat \ {0}
         /\ s.at < Min(ids) /\ Min(ids) <= t.pglast
         /\ \A k \in DOMAIN t.free.recs : s.at < k => Min(ids) <= k
  <1>1. /\ IsRecords(t.free.recs) /\ DOMAIN t.free.recs \subseteq Nat \ {0} /\ t.pglast \in Nat
    BY SavedRecords DEF Fills, Filling
  <1>2. s.at \in Nat /\ IsFiniteSet(s.left) /\ s.left # {}
    <2>1. IsFiniteSet(t.pghead) /\ s.left \subseteq t.pghead
      BY AtHandType DEF Fills, Filling
    <2> QED BY <2>1, FS_Subset DEF Fills
  <1>3. PICK k \in DOMAIN t.free.recs : s.at < k /\ k <= t.pglast
    <2> DEFINE S == Slots(t.free.recs, s.at, t.pglast)
    <2>1. IsFiniteSet(S) /\ Cardinality(s.left) <= Cardinality(S)
      BY DEF Fills
    <2>2. S # {}
      <3>1. S = {} => Cardinality(S) = 0
        BY FS_EmptySet
      <3>2. Cardinality(s.left) \in Nat /\ Cardinality(s.left) # 0
        BY <1>2, FS_CardinalityType, FS_EmptySet
      <3> QED BY <2>1, <3>1, <3>2
    <2> QED BY <2>2, SlotMembers
  <1>4. k \in ids /\ ids \subseteq Nat
    BY <1>1, <1>2, <1>3
  <1>5. Min(ids) \in ids /\ \A x \in ids : Min(ids) <= x
    BY <1>4, MinOf
  <1>6. Min(ids) <= k /\ Min(ids) \in DOMAIN t.free.recs /\ s.at < Min(ids)
    BY <1>2, <1>4, <1>5
  <1>7. \A j \in DOMAIN t.free.recs : s.at < j => j \in ids
    BY <1>1, <1>2
  <1>8. Min(ids) <= t.pglast
    BY <1>1, <1>3, <1>6
  <1> QED BY <1>1, <1>4, <1>5, <1>6, <1>7, <1>8

LEMMA RestSize ==
  ASSUME NEW P, IsFiniteSet(P), NEW L, L \subseteq P, NEW a \in Nat, NEW n \in Nat, Cardinality(P) <= a + n,
         Cardinality(L) >= n
  PROVE  Cardinality(P \ L) <= a
  <1>1. IsFiniteSet(L) /\ IsFiniteSet(P \ L) /\ Cardinality(P \ L) = Cardinality(P) - Cardinality(P \cap L)
    BY FS_Subset, FS_Difference
  <1>2. P \cap L = L
    OBVIOUS
  <1>3. Cardinality(L) \in Nat /\ Cardinality(P) \in Nat
    BY <1>1, FS_CardinalityType
  <1>4. Cardinality(P \ L) = Cardinality(P) - Cardinality(L)
    BY <1>1, <1>2
  <1> DEFINE p == Cardinality(P)
             l == Cardinality(L)
  <1>5. p \in Nat /\ l \in Nat /\ p <= a + n /\ l >= n /\ Cardinality(P \ L) = p - l
    BY <1>3, <1>4
  <1> HIDE DEF p, l
  <1> QED BY <1>5

(* Record id gets the page numbers pgs. *)
FilledOne(t, u, id, pgs) ==
  /\ Good(u, Nil) /\ RecFrame(t, u, id) /\ Calm(t, u) /\ Ok(u) /\ ~u.err /\ u.id = t.id
  /\ DOMAIN u.free.recs = DOMAIN t.free.recs
  /\ \A k \in DOMAIN t.free.recs : k # id => u.free.recs[k] = t.free.recs[k]
  /\ u.free.recs[id].pgs = pgs /\ Reserved(u, id) /\ u.free.root \in Writable(u)

LEMMA RefilledGood ==
  ASSUME NEW t, NEW b, Good(t, Nil), Good(b, Nil), Ok(t), ~t.err, Numbers, NEW id \in DOMAIN t.free.recs,
         id <= t.pglast, NEW n, PutDone(t, b, id, n), Calm(t, b), Reserved(t, id),
         NEW pgs, pgs \subseteq t.pghead, NEW u, u = Refilled(b, id, pgs)
  PROVE  FilledOne(t, u, id, pgs)
  <1>1. IsTxn(b) /\ IsTxn(t) /\ b.got \in Nat
    BY DEF Good, IsTxn
  <1>2. /\ RecFrame(t, b, id) /\ id \in DOMAIN b.free.recs /\ b.free.root \in Writable(b)
        /\ DOMAIN b.free.recs[id].ov \subseteq Writable(b) /\ Fits(b.free.recs[id])
    BY DEF PutDone, Reserved
  <1>3. pgs \subseteq Nat
    BY <1>1 DEF IsTxn
  <1>a. IsTxn(b) /\ id \in DOMAIN b.free.recs
    BY <1>1, <1>2
  <1>b. Refilling(b, u, id, pgs)
    BY <1>a, <1>3, PgsSet
  <1>4. /\ Rest(b, u) /\ u.main = b.main /\ DOMAIN u = TxnFields /\ DOMAIN u.free = {"root", "recs"}
        /\ u.free.root = b.free.root /\ DOMAIN u.free.recs = DOMAIN b.free.recs
        /\ \A k \in DOMAIN b.free.recs : k # id => u.free.recs[k] = b.free.recs[k]
    BY <1>b DEF Refilling
  <1>5. /\ IsRecord(u.free.recs[id]) /\ u.free.recs[id].pgs = pgs
        /\ u.free.recs[id].ov = b.free.recs[id].ov /\ u.free.recs[id].len = b.free.recs[id].len
        /\ u.got = b.got /\ u.rc = b.rc /\ u.err = b.err
    BY <1>b DEF Refilling
  <1>6. id <= b.pglast /\ u.free.recs[id].pgs \subseteq b.pghead /\ u.got \in Nat
    BY <1>1, <1>5 DEF Calm
  <1>7. Good(u, Nil)
    BY <1>2, <1>4, <1>5, <1>6, RecordChanged
  <1>8. RecFrame(t, u, id)
    BY <1>2, <1>4, <1>5, PgsFrame
  <1>9. Calm(t, u) /\ Writable(u) = Writable(b)
    BY <1>4 DEF Rest, Calm, Writable
  <1>10. Ok(u) /\ ~u.err /\ u.id = t.id
    BY <1>8 DEF RecFrame, Ok
  <1>11. \A k : (k \in DOMAIN u.free.recs <=> k \in DOMAIN t.free.recs)
    BY <1>2, <1>4, <1>8 DEF RecFrame
  <1>12. \A k \in DOMAIN t.free.recs : k # id => u.free.recs[k] = t.free.recs[k]
    BY <1>8 DEF RecFrame
  <1>13. DOMAIN u.free.recs = DOMAIN t.free.recs
    BY <1>11
  <1>14. Fits(u.free.recs[id])
    BY <1>2, <1>5 DEF Fits
  <1>15. Reserved(u, id) /\ u.free.root \in Writable(u)
    BY <1>2, <1>4, <1>5, <1>9, <1>14 DEF Reserved
  <1> QED BY <1>5, <1>7, <1>8, <1>9, <1>10, <1>12, <1>13, <1>15 DEF FilledOne

(* The pages a record takes are no longer left. *)
Taking(t, u, id, left, pgs) ==
  /\ FilledOne(t, u, id, pgs) /\ Filling(t, left)
  /\ id \in DOMAIN t.free.recs /\ id \in Nat /\ id <= t.pglast /\ t.free.recs[id].pgs = {}
  /\ left \subseteq t.pghead /\ pgs \subseteq left

LEMMA TakingRecords ==
  ASSUME NEW t, NEW u, NEW id, NEW left, NEW pgs, Taking(t, u, id, left, pgs), NEW x, NEW i
  PROVE  i \in DOMAIN u.free.recs /\ i <= u.pglast /\ x \in u.free.recs[i].pgs <=>
            \/ i = id /\ x \in pgs
            \/ i \in DOMAIN t.free.recs /\ i <= t.pglast /\ x \in t.free.recs[i].pgs
  <1>1. /\ DOMAIN u.free.recs = DOMAIN t.free.recs /\ u.pglast = t.pglast /\ u.free.recs[id].pgs = pgs
        /\ i \in DOMAIN t.free.recs /\ i # id => u.free.recs[i].pgs = t.free.recs[i].pgs
    BY DEF Taking, FilledOne, Calm
  <1>2. id \in DOMAIN t.free.recs /\ id <= t.pglast /\ t.free.recs[id].pgs = {}
    BY DEF Taking
  <1>3. CASE i = id
    BY <1>1, <1>2, <1>3
  <1>4. CASE i # id
    BY <1>1, <1>4
  <1> QED BY <1>3, <1>4

LEMMA TakingFills ==
  ASSUME NEW t, NEW u, NEW id, NEW left, NEW pgs, Taking(t, u, id, left, pgs)
  PROVE  Filling(u, left \ pgs)
  <1>1. Filling(t, left) /\ FilledOne(t, u, id, pgs)
    BY DEF Taking
  <1>2. t.pglast < t.id /\ t.pglast \in Nat /\ t.id \in Nat /\ id # t.id
    BY <1>1, SavedRecords DEF Filling, Taking
  <1>3. /\ u.pghead = t.pghead /\ u.freed = t.freed /\ u.loose = t.loose /\ u.id = t.id
        /\ DOMAIN u.free.recs = DOMAIN t.free.recs /\ Good(u, Nil) /\ Ok(u) /\ ~u.err
    BY <1>1 DEF FilledOne, Calm
  <1>4. OwnPages(u) = u.freed
    <2>1. t.id \in DOMAIN t.free.recs => u.free.recs[t.id] = t.free.recs[t.id]
      BY <1>1, <1>2 DEF FilledOne
    <2>2. OwnPages(t) = t.freed
      BY <1>1 DEF Filling
    <2> QED BY <1>3, <2>1, <2>2 DEF OwnPages
  <1>5. ASSUME NEW x
        PROVE  (\E i \in DOMAIN u.free.recs : i <= u.pglast /\ x \in u.free.recs[i].pgs) <=> x \in u.pghead \ (left \ pgs)
    <2>1. (\E i \in DOMAIN t.free.recs : i <= t.pglast /\ x \in t.free.recs[i].pgs) <=> x \in t.pghead \ left
      BY <1>1 DEF Filling
    <2>2. x \in u.pghead \ (left \ pgs) <=> x \in pgs \/ x \in t.pghead \ left
      BY <1>3 DEF Taking
    <2>3. \A i : i \in DOMAIN u.free.recs /\ i <= u.pglast /\ x \in u.free.recs[i].pgs <=>
             \/ i = id /\ x \in pgs
             \/ i \in DOMAIN t.free.recs /\ i <= t.pglast /\ x \in t.free.recs[i].pgs
      BY TakingRecords
    <2> QED BY <2>1, <2>2, <2>3
  <1>6. ASSUME NEW i \in DOMAIN u.free.recs, NEW j \in DOMAIN u.free.recs, NEW x,
               i <= u.pglast, j <= u.pglast, x \in u.free.recs[i].pgs, x \in u.free.recs[j].pgs
        PROVE  i = j
    <2>1. \A k : k \in DOMAIN u.free.recs /\ k <= u.pglast /\ x \in u.free.recs[k].pgs <=>
             \/ k = id /\ x \in pgs
             \/ k \in DOMAIN t.free.recs /\ k <= t.pglast /\ x \in t.free.recs[k].pgs
      BY TakingRecords
    <2>2. \A k \in DOMAIN t.free.recs : k <= t.pglast /\ x \in t.free.recs[k].pgs => x \notin pgs
      <3>1. \A k \in DOMAIN t.free.recs : k <= t.pglast /\ x \in t.free.recs[k].pgs => x \in t.pghead \ left
        BY <1>1 DEF Filling
      <3> QED BY <3>1 DEF Taking
    <2>3. \A k, l \in DOMAIN t.free.recs :
             k <= t.pglast /\ l <= t.pglast /\ x \in t.free.recs[k].pgs /\ x \in t.free.recs[l].pgs => k = l
      BY <1>1 DEF Filling
    <2>4. \/ i = id /\ x \in pgs
          \/ i \in DOMAIN t.free.recs /\ i <= t.pglast /\ x \in t.free.recs[i].pgs
      BY <1>6, <2>1
    <2>5. \/ j = id /\ x \in pgs
          \/ j \in DOMAIN t.free.recs /\ j <= t.pglast /\ x \in t.free.recs[j].pgs
      BY <1>6, <2>1
    <2> QED BY <2>2, <2>3, <2>4, <2>5
  <1>7. DOMAIN u.free.recs \subseteq 1..u.id /\ ToSet(u.loose) = {}
    BY <1>1, <1>3 DEF Filling
  <1> QED BY <1>3, <1>4, <1>5, <1>6, <1>7 DEF Filling

LEMMA TakingGoesOn ==
  ASSUME NEW t, NEW u, NEW s, NEW id, NEW pgs, Taking(t, u, id, s.left, pgs), Fills(t, s), s.at < id,
         \A k \in DOMAIN t.free.recs : s.at < k => id <= k, pgs # s.left, IsFiniteSet(s.left),
         Cardinality(pgs) >= t.free.recs[id].len,
         NEW z, z.left = s.left \ pgs, z.at = id, z.freecnt = s.freecnt, z.more = s.more
  PROVE  Fills(u, z)
  <1>1. Filling(t, s.left) /\ FilledOne(t, u, id, pgs) /\ id \in DOMAIN t.free.recs /\ id \in Nat /\ id <= t.pglast
    BY DEF Taking
  <1>2. /\ IsRecords(t.free.recs) /\ DOMAIN t.free.recs \subseteq Nat \ {0} /\ t.pglast \in Nat
        /\ t.free.recs[id].len \in Nat /\ s.at \in Nat
    BY <1>1, SavedRecords DEF Filling, IsRecords, Fills
  <1>3. /\ u.pghead = t.pghead /\ u.nfreed = t.nfreed /\ u.pglast = t.pglast
        /\ DOMAIN u.free.recs = DOMAIN t.free.recs /\ RecFrame(t, u, id) /\ u.free.root \in Writable(u) /\ Reserved(u, id)
    BY <1>1 DEF FilledOne, Calm
  <1>4. z.left \subseteq u.pghead /\ z.left # {}
    BY <1>3 DEF Taking
  <1>5. ASSUME NEW i \in DOMAIN u.free.recs, i <= u.pglast
        PROVE  Reserved(u, i) /\ (id < i => u.free.recs[i].pgs = {})
    <2>1. CASE i = id
      BY <1>1, <1>3, <2>1
    <2>2. CASE i # id
      <3>1. i \in DOMAIN t.free.recs /\ i <= t.pglast
        BY <1>3, <1>5
      <3>2. Reserved(t, i) /\ (s.at < i => t.free.recs[i].pgs = {})
        BY <3>1 DEF Fills
      <3>3. Reserved(u, i) /\ u.free.recs[i] = t.free.recs[i]
        BY <1>3, <2>2, <3>2, StillReserved
      <3>4. id < i => s.at < i
        BY <1>1, <1>2, <3>1
      <3> QED BY <3>2, <3>3, <3>4
    <2> QED BY <2>1, <2>2
  <1> DEFINE f == t.free.recs
             g == u.free.recs
             S == Slots(f, id, t.pglast)
  <1>6. /\ IsFiniteSet(S) /\ Cardinality(S) \in Nat
        /\ Cardinality(Slots(f, s.at, t.pglast)) = Cardinality(S) + f[id].len
    <2>1. IsFiniteSet(Slots(f, s.at, t.pglast)) /\ IsRecords(f) /\ id \in DOMAIN f
      BY <1>1, <1>2 DEF Fills
    <2>2. \A k \in DOMAIN f : s.at < k => id <= k
      OBVIOUS
    <2> HIDE DEF f
    <2> QED BY <1>1, <1>2, <2>1, <2>2, SlotsFirst
  <1>7. Slots(g, id, t.pglast) = S
    <2>1. \A k : id < k /\ k <= t.pglast => /\ k \in DOMAIN g <=> k \in DOMAIN f
                                            /\ k \in DOMAIN f => g[k].len = f[k].len
      <3> SUFFICES ASSUME NEW k, id < k, k \in DOMAIN f
                   PROVE  g[k].len = f[k].len
        BY <1>3
      <3>1. k # id
        BY <1>2
      <3> QED BY <1>1, <3>1 DEF FilledOne
    <2> HIDE DEF f, g
    <2> QED BY <2>1, SlotsSame
  <1>8. Cardinality(s.left) <= Cardinality(Slots(f, s.at, t.pglast))
    BY DEF Fills
  <1>9. Cardinality(s.left \ pgs) <= Cardinality(S)
    <2>1. /\ Cardinality(s.left) <= Cardinality(S) + f[id].len /\ f[id].len \in Nat /\ Cardinality(pgs) >= f[id].len
          /\ pgs \subseteq s.left
      BY <1>2, <1>6, <1>8 DEF Taking
    <2> HIDE DEF S, f
    <2> QED BY <1>6, <2>1, RestSize
  <1>10. s.freecnt \in 0..u.nfreed /\ s.more \in {0, 1}
    BY <1>3 DEF Fills
  <1> HIDE DEF S
  <1>11. IsFiniteSet(Slots(u.free.recs, id, u.pglast)) /\ Cardinality(z.left) <= Cardinality(Slots(u.free.recs, id, u.pglast))
    BY <1>3, <1>6, <1>7, <1>9
  <1>12. Filling(u, z.left)
    BY TakingFills
  <1>13. id \in Nat /\ id <= u.pglast
    BY <1>1, <1>3
  <1> QED BY <1>4, <1>5, <1>10, <1>11, <1>12, <1>13 DEF Fills

LEMMA FillGood ==
  ASSUME NEW t, NEW s, Fills(t, s), Numbers,
         NEW id \in DOMAIN t.free.recs, id \in Nat \ {0}, s.at < id, id <= t.pglast,
         \A k \in DOMAIN t.free.recs : s.at < k => id <= k,
         NEW pgs, pgs = Lowest(s.left, t.free.recs[id].len),
         NEW b, b = RecPut(t, id, Cardinality(pgs)),
         NEW u, u = IF Ok(b) THEN Refilled(b, id, pgs) ELSE b,
         NEW z, z.left = s.left \ pgs, z.at = id, z.freecnt = s.freecnt, z.more = s.more
  PROVE  Stuck(u) \/ (Filling(u, s.left \ pgs) /\ pgs \subseteq s.left /\ (pgs # s.left => Fills(u, z)))
  <1>1. Filling(t, s.left) /\ Good(t, Nil) /\ Ok(t) /\ ~t.err
    BY DEF Fills, Filling
  <1>2. t.free.recs[id].len \in Nat
    BY <1>1, SavedRecords DEF IsRecords
  <1>3. s.left \subseteq t.pghead /\ s.left # {} /\ s.at \in Nat /\ Reserved(t, id) /\ t.free.recs[id].pgs = {}
    BY DEF Fills
  <1>4. IsFiniteSet(s.left) /\ s.left \subseteq Nat /\ t.next \in Nat /\ \A x \in s.left : x <= t.next
    <2>1. IsFiniteSet(t.pghead) /\ t.pghead \subseteq Nat
      BY <1>1, AtHandType
    <2>2. \A x \in t.pghead : x < t.next
      <3>1. \A x \in t.pghead : Lives(t, Nil, 8, 0, x)
        BY SMT DEF Lives
      <3> QED BY <1>1, <3>1, LivePage
    <2>3. t.next \in Nat
      BY <1>1 DEF Good, IsTxn
    <2>4. \A x \in s.left : x \in Nat /\ x < t.next
      BY <1>3, <2>1, <2>2
    <2> QED BY <1>3, <2>1, <2>3, <2>4, FS_Subset
  <1>5. /\ pgs \subseteq s.left /\ IsFiniteSet(pgs) /\ Cardinality(pgs) \in Nat
        /\ Cardinality(pgs) <= t.free.recs[id].len
        /\ pgs # s.left => Cardinality(pgs) >= t.free.recs[id].len
    <2> DEFINE n == t.free.recs[id].len
               P == s.left
    <2>1. P \subseteq Nat /\ IsFiniteSet(P) /\ t.next \in Nat /\ (\A x \in P : x <= t.next) /\ n \in Nat /\ pgs = Lowest(P, n)
      BY <1>2, <1>4
    <2> HIDE DEF n, P
    <2>2. /\ Lowest(P, n) \subseteq P /\ IsFiniteSet(Lowest(P, n)) /\ Cardinality(Lowest(P, n)) \in Nat
          /\ Cardinality(Lowest(P, n)) <= n
          /\ Lowest(P, n) # P => Cardinality(Lowest(P, n)) >= n
      <3>1. P \subseteq Nat /\ IsFiniteSet(P) /\ t.next \in Nat /\ (\A x \in P : x <= t.next) /\ n \in Nat
        BY <2>1
      <3> HIDE <2>1
      <3> QED BY <3>1, LowestSize
    <2>3. pgs = Lowest(P, n)
      BY <2>1
    <2> QED BY <2>2, <2>3 DEF n, P
  <1>6. Stuck(b) \/ (Good(b, Nil) /\ PutDone(t, b, id, Cardinality(pgs)))
    BY <1>1, <1>5, RecPutGood
  <1>7. CASE Stuck(b)
    BY <1>7 DEF Stuck
  <1>8. ASSUME Good(b, Nil), PutDone(t, b, id, Cardinality(pgs))
        PROVE  Filling(u, s.left \ pgs) /\ pgs \subseteq s.left /\ (pgs # s.left => Fills(u, z))
    <2>1. b.rc = t.rc
      BY Zenon, <1>8 DEF RecFrame, PutDone
    <2>2. u = Refilled(b, id, pgs)
      BY <1>1, <2>1 DEF Ok
    <2>3. Calm(t, b) /\ pgs \subseteq t.pghead
      BY Zenon, <1>3, <1>5, <1>8 DEF PutDone
    <2>4. FilledOne(t, u, id, pgs)
      BY <1>1, <1>3, <1>8, <2>2, <2>3, RefilledGood
    <2>5. Taking(t, u, id, s.left, pgs)
      BY <1>1, <1>3, <1>5, <2>4 DEF Taking
    <2>6. Filling(u, s.left \ pgs)
      BY <2>5, TakingFills
    <2>7. pgs # s.left => Fills(u, z)
      BY <1>4, <1>5, <2>5, TakingGoesOn
    <2> QED BY <1>5, <2>6, <2>7
  <1> QED BY <1>6, <1>7, <1>8

(* Snapshots.  A snapshot is tidy when a transaction that begins with it    *)
(* has each page in one place.                                             *)
Tidy(s, id) ==
  LET t == NewTxn(id + 1, s, 0)
  IN  /\ IsTxn(t) /\ Once(t, Nil) /\ Cover(t, Nil)
      /\ DOMAIN s.free.recs \subseteq 1..id
      /\ FirstPage <= s.next /\ s.next < MaxPg

Opened(v, id, s, o) ==
  /\ DOMAIN v = TxnFields /\ v.id = id /\ v.main = s.main /\ v.free = s.free /\ v.next = s.next
  /\ v.oldest = o /\ v.pglast = 0 /\ v.pghead = {} /\ v.dirty = Nil /\ v.spill = Nil /\ v.loose = <<>>
  /\ v.freed = {} /\ v.nfreed = 0 /\ v.room = DirtyRoom /\ v.written = {} /\ v.ops = 0
  /\ v.got = NoPage /\ v.rc = "ok" /\ v.err = FALSE

LEMMA NewFields ==
  ASSUME NEW id, NEW s, NEW o
  PROVE  Opened(NewTxn(id, s, o), id, s, o)
  BY SMT DEF Opened, NewTxn, TxnFields, Nil

LEMMA NoLoose ==
  ToSet(<<>>) = {} /\ <<>> \in Seq(Nat) /\ NoTwice(<<>>)
  <1>1. DOMAIN <<>> = {}
    BY NoRuns
  <1>2. ToSet(<<>>) = {}
    BY <1>1 DEF ToSet
  <1> QED BY <1>1, <1>2 DEF NoTwice

LEMMA UsedLives ==
  ASSUME NEW t, NEW x
  PROVE  x \in UsedPages(t) <=> \E k \in 1..5 : \E i : Lives(t, Nil, k, i, x)
  <1>1. x \in UsedPages(t) <=> \/ x \in RootOf(t.main) \/ x \in t.main.leaves \/ x \in PagesOf(t.main.big)
                               \/ x \in RootOf(t.free)
                               \/ \E i \in DOMAIN t.free.recs : x \in PagesOf(t.free.recs[i].ov)
    BY DEF UsedPages, MainPages, FreePages
  <1>2. x \in PagesOf(t.main.big) <=> \E i \in DOMAIN t.main.big : x \in Run(i, t.main.big[i])
    BY PagesOfMembers
  <1>3. \A i : /\ Lives(t, Nil, 1, i, x) <=> i = 0 /\ x \in RootOf(t.main)
               /\ Lives(t, Nil, 2, i, x) <=> i = 0 /\ x \in t.main.leaves
               /\ Lives(t, Nil, 3, i, x) <=> i \in DOMAIN t.main.big /\ x \in Run(i, t.main.big[i])
    BY SMT DEF Lives
  <1>4. \A i : /\ Lives(t, Nil, 4, i, x) <=> i = 0 /\ x \in RootOf(t.free)
               /\ Lives(t, Nil, 5, i, x) <=> i \in DOMAIN t.free.recs /\ x \in PagesOf(t.free.recs[i].ov)
    BY SMT DEF Lives
  <1>5. \A k \in 1..5 : k = 1 \/ k = 2 \/ k = 3 \/ k = 4 \/ k = 5
    OBVIOUS
  <1>6. 1 \in 1..5 /\ 2 \in 1..5 /\ 3 \in 1..5 /\ 4 \in 1..5 /\ 5 \in 1..5
    OBVIOUS
  <1>7. ASSUME x \in UsedPages(t) PROVE \E k \in 1..5 : \E i : Lives(t, Nil, k, i, x)
    <2>1. CASE x \in RootOf(t.main)
      BY <1>3, <1>6, <2>1
    <2>2. CASE x \in t.main.leaves
      BY <1>3, <1>6, <2>2
    <2>3. CASE x \in PagesOf(t.main.big)
      BY <1>2, <1>3, <1>6, <2>3
    <2>4. CASE x \in RootOf(t.free)
      BY <1>4, <1>6, <2>4
    <2>5. CASE \E i \in DOMAIN t.free.recs : x \in PagesOf(t.free.recs[i].ov)
      BY <1>4, <1>6, <2>5
    <2> QED BY <1>1, <1>7, <2>1, <2>2, <2>3, <2>4, <2>5
  <1>8. ASSUME NEW k \in 1..5, NEW i, Lives(t, Nil, k, i, x) PROVE x \in UsedPages(t)
    BY <1>1, <1>2, <1>3, <1>4, <1>5, <1>8
  <1> QED BY <1>7, <1>8

(* The places of the pages in a transaction that begins. *)
NewPlaces(v, t) ==
  \A k, i, x :
     Lives(v, Nil, k, i, x) <=>
        \/ k \in 1..5 /\ Lives(t, Nil, k, i, x)
        \/ k = 10 /\ i \in DOMAIN t.free.recs /\ 0 < i /\ i < v.id /\ x \in t.free.recs[i].pgs

LEMMA NewLives ==
  ASSUME NEW id, NEW s, NEW o, NEW v, Opened(v, id, s, o), NEW t, t.main = s.main, t.free = s.free
  PROVE  NewPlaces(v, t)
  <1> SUFFICES ASSUME NEW k, NEW i, NEW x
               PROVE  Lives(v, Nil, k, i, x) <=>
                         \/ k \in 1..5 /\ Lives(t, Nil, k, i, x)
                         \/ k = 10 /\ i \in DOMAIN t.free.recs /\ 0 < i /\ i < v.id /\ x \in t.free.recs[i].pgs
    BY DEF NewPlaces
  <1>1. /\ v.id = id /\ v.main = t.main /\ v.free = t.free /\ v.pglast = 0 /\ v.pghead = {} /\ v.loose = <<>>
        /\ v.freed = {}
    BY DEF Opened
  <1>2. ToSet(v.loose) = {}
    BY <1>1, NoLoose
  <1>3. Lives(v, Nil, k, i, x) => k \in 1..10
    BY LivesElsewhere
  <1>4. CASE k \in 1..5
    <2>1. k \in {1, 2, 3, 4, 5}
      BY <1>4
    <2>2. Lives(v, Nil, k, i, x) <=> Lives(t, Nil, k, i, x)
      BY <1>1, <2>1, SMT DEF Lives
    <2> QED BY <1>4, <2>2
  <1>5. CASE k = 10
    BY <1>1, <1>5, SMT DEF Lives
  <1>6. CASE k \in {6, 7, 8, 9}
    <2>1. ~Lives(v, Nil, k, i, x)
      <3>1. ~Lives(v, Nil, 6, i, x)
        BY NilMembers
      <3> QED BY <1>1, <1>2, <1>6, <3>1, SMT DEF Lives
    <2> QED BY <1>6, <2>1
  <1>7. CASE k \notin 1..10
    <2>1. k \notin 1..5 /\ k # 10
      BY <1>7
    <2> QED BY <1>3, <1>7, <2>1
  <1>8. k \in 1..10 => k \in 1..5 \/ k = 10 \/ k \in {6, 7, 8, 9}
    OBVIOUS
  <1> QED BY <1>4, <1>5, <1>6, <1>7, <1>8

LEMMA SnapshotFields ==
  ASSUME NEW t, NEW s, s = Snapshot(t)
  PROVE  s.main = t.main /\ s.free = t.free /\ s.next = t.next /\ UsedPages(s) = UsedPages(t)
  <1>1. s.main = t.main /\ s.free = t.free /\ s.next = t.next
    BY DEF Snapshot
  <1> QED BY <1>1 DEF UsedPages, MainPages, FreePages

LEMMA FilledTidy ==
  ASSUME NEW t, Filling(t, {}), NEW s, s = Snapshot(t)
  PROVE  Tidy(s, t.id)
  <1> DEFINE v == NewTxn(t.id + 1, s, 0)
  <1>1. /\ Good(t, Nil) /\ IsTxn(t) /\ Once(t, Nil) /\ Cover(t, Nil) /\ Counted(t)
        /\ DOMAIN t.free.recs \subseteq 1..t.id /\ t.id \in Nat /\ t.pglast \in Nat
    BY DEF Filling, Good, IsTxn
  <1>2. s.main = t.main /\ s.free = t.free /\ s.next = t.next
    BY SnapshotFields
  <1>a. Opened(v, t.id + 1, s, 0)
    BY NewFields
  <1> HIDE DEF v
  <1>3. \A k, i, x : Lives(v, Nil, k, i, x) <=>
            \/ k \in 1..5 /\ Lives(t, Nil, k, i, x)
            \/ k = 10 /\ i \in DOMAIN t.free.recs /\ 0 < i /\ i < t.id + 1 /\ x \in t.free.recs[i].pgs
    <2>1. NewPlaces(v, t) /\ v.id = t.id + 1
      BY <1>2, <1>a, NewLives DEF Opened
    <2> QED BY <2>1 DEF NewPlaces
  <1>4. IsTxn(v) /\ v.next = t.next
    <2>1. /\ DOMAIN v = TxnFields /\ v.id = t.id + 1 /\ v.main = t.main /\ v.free = t.free /\ v.next = t.next
          /\ v.oldest = 0 /\ v.pglast = 0 /\ v.pghead = {} /\ v.dirty = Nil /\ v.spill = Nil /\ v.loose = <<>>
          /\ v.freed = {} /\ v.nfreed = 0 /\ v.room = DirtyRoom /\ v.written = {} /\ v.got = NoPage
      BY <1>2, <1>a DEF Opened
    <2>2. DirtyRoom \in Nat /\ NoPage \in Nat
      BY PagesAssumption DEF NoPage
    <2> QED BY <1>1, <2>1, <2>2, NilMembers, NoLoose DEF IsTxn
  <1>5. \A i \in DOMAIN t.free.recs : i \in Nat /\ 0 < i /\ i < t.id + 1 /\ i <= t.id
    BY <1>1
  (* where the pages of a record are *)
  <1>6. ASSUME NEW i \in DOMAIN t.free.recs, NEW x \in t.free.recs[i].pgs
        PROVE  \/ i = t.id /\ Lives(t, Nil, 7, 0, x)
               \/ i <= t.pglast /\ Lives(t, Nil, 8, 0, x)
               \/ Lives(t, Nil, 10, i, x)
    <2>1. CASE i = t.id
      <3>1. x \in t.freed
        BY <2>1 DEF Filling, OwnPages
      <3> QED BY <2>1, <3>1, SMT DEF Lives
    <2>2. CASE i <= t.pglast
      <3>1. x \in t.pghead
        BY <2>2 DEF Filling
      <3> QED BY <2>2, <3>1, SMT DEF Lives
    <2>3. CASE i # t.id /\ ~(i <= t.pglast)
      <3>1. t.pglast < i /\ i < t.id
        BY <1>1, <1>5, <2>3
      <3> QED BY <3>1, SMT DEF Lives
    <2> QED BY <2>1, <2>2, <2>3
  <1>7. \A i \in DOMAIN t.free.recs : \A x \in t.free.recs[i].pgs : \A k \in 1..5 : \A j : ~Lives(t, Nil, k, j, x)
    <2> SUFFICES ASSUME NEW i \in DOMAIN t.free.recs, NEW x \in t.free.recs[i].pgs, NEW k \in 1..5, NEW j,
                        Lives(t, Nil, k, j, x)
                 PROVE  FALSE
      OBVIOUS
    <2>1. k # 7 /\ k # 8 /\ k # 10
      OBVIOUS
    <2> QED BY <1>1, <1>6, <2>1 DEF Once
  <1>8. \A i, j \in DOMAIN t.free.recs : \A x : x \in t.free.recs[i].pgs /\ x \in t.free.recs[j].pgs => i = j
    <2> SUFFICES ASSUME NEW i \in DOMAIN t.free.recs, NEW j \in DOMAIN t.free.recs, NEW x,
                        x \in t.free.recs[i].pgs, x \in t.free.recs[j].pgs
                 PROVE  i = j
      OBVIOUS
    <2>1. \/ i = t.id /\ Lives(t, Nil, 7, 0, x)
          \/ i <= t.pglast /\ Lives(t, Nil, 8, 0, x)
          \/ Lives(t, Nil, 10, i, x)
      BY <1>6
    <2>2. \/ j = t.id /\ Lives(t, Nil, 7, 0, x)
          \/ j <= t.pglast /\ Lives(t, Nil, 8, 0, x)
          \/ Lives(t, Nil, 10, j, x)
      BY <1>6
    <2>3. i <= t.pglast /\ j <= t.pglast => i = j
      BY DEF Filling
    <2>4. \A k, l, a, b : Lives(t, Nil, k, a, x) /\ Lives(t, Nil, l, b, x) => k = l /\ a = b
      BY <1>1 DEF Once
    <2>5. 7 # 8 /\ 7 # 10 /\ 8 # 10
      OBVIOUS
    <2> QED BY <2>1, <2>2, <2>3, <2>4, <2>5
  <1>9. Once(v, Nil)
    <2> SUFFICES ASSUME NEW x, NEW k, NEW i, NEW l, NEW j, Lives(v, Nil, k, i, x), Lives(v, Nil, l, j, x)
                 PROVE  k = l /\ i = j
      BY DEF Once
    <2>1. \/ k \in 1..5 /\ Lives(t, Nil, k, i, x)
          \/ k = 10 /\ i \in DOMAIN t.free.recs /\ x \in t.free.recs[i].pgs
      BY <1>3
    <2>2. \/ l \in 1..5 /\ Lives(t, Nil, l, j, x)
          \/ l = 10 /\ j \in DOMAIN t.free.recs /\ x \in t.free.recs[j].pgs
      BY <1>3
    <2>3. CASE k \in 1..5 /\ Lives(t, Nil, k, i, x)
      <3>1. l \in 1..5 /\ Lives(t, Nil, l, j, x)
        BY <1>7, <2>2, <2>3
      <3> QED BY <1>1, <2>3, <3>1 DEF Once
    <2>4. CASE k = 10 /\ i \in DOMAIN t.free.recs /\ x \in t.free.recs[i].pgs
      <3>1. l = 10 /\ j \in DOMAIN t.free.recs /\ x \in t.free.recs[j].pgs
        BY <1>7, <2>2, <2>4
      <3> QED BY <1>8, <2>4, <3>1
    <2> QED BY <2>1, <2>3, <2>4
  <1>10. \A x : (\E k, i : Lives(v, Nil, k, i, x)) <=> (\E k, i : Lives(t, Nil, k, i, x))
    <2>1. ASSUME NEW x, NEW k, NEW i, Lives(v, Nil, k, i, x) PROVE \E l, j : Lives(t, Nil, l, j, x)
      BY <1>3, <1>6, <2>1
    <2>2. ASSUME NEW x, NEW i \in DOMAIN t.free.recs, x \in t.free.recs[i].pgs PROVE Lives(v, Nil, 10, i, x)
      BY <1>3, <1>5, <2>2
    <2>3. ASSUME NEW x, NEW k, NEW i, Lives(t, Nil, k, i, x) PROVE \E l, j : Lives(v, Nil, l, j, x)
      <3>1. k \in 1..10
        BY <2>3, LivesElsewhere
      <3>2. CASE k \in 1..5
        BY <1>3, <2>3, <3>2
      <3>3. CASE k = 6
        BY <2>3, <3>3, NilMembers
      <3>4. CASE k = 7
        <4>1. x \in t.freed
          BY <2>3, <3>4, SMT DEF Lives
        <4>2. t.id \in DOMAIN t.free.recs /\ x \in t.free.recs[t.id].pgs
          BY <4>1 DEF Filling, OwnPages
        <4> QED BY <2>2, <4>2
      <3>5. CASE k = 8
        <4>1. x \in t.pghead \ {}
          BY <2>3, <3>5, SMT DEF Lives
        <4>2. PICK j \in DOMAIN t.free.recs : x \in t.free.recs[j].pgs
          BY <4>1 DEF Filling
        <4> QED BY <2>2, <4>2
      <3>6. CASE k = 9
        <4>1. x \in ToSet(t.loose)
          BY <2>3, <3>6, SMT DEF Lives
        <4> QED BY <4>1 DEF Filling
      <3>7. CASE k = 10
        <4>1. i \in DOMAIN t.free.recs /\ x \in t.free.recs[i].pgs
          BY <2>3, <3>7, SMT DEF Lives
        <4> QED BY <2>2, <4>1
      <3>8. k \in 1..5 \/ k = 6 \/ k = 7 \/ k = 8 \/ k = 9 \/ k = 10
        BY <3>1
      <3> QED BY <3>2, <3>3, <3>4, <3>5, <3>6, <3>7, <3>8
    <2> QED BY <2>1, <2>3
  <1>11. Cover(v, Nil)
    BY <1>1, <1>4, <1>10 DEF Cover
  <1>12. FirstPage <= s.next /\ s.next < MaxPg /\ DOMAIN s.free.recs \subseteq 1..t.id
    BY <1>1, <1>2 DEF Counted
  <1> QED BY <1>4, <1>9, <1>11, <1>12 DEF Tidy, v

LEMMA OpenedTxn ==
  ASSUME NEW id \in Nat, NEW s, NEW o \in Nat, NEW v, Opened(v, id, s, o),
         IsMain(s.main), IsFree(s.free), s.next \in Nat
  PROVE  IsTxn(v)
  <1>1. DirtyRoom \in Nat /\ NoPage \in Nat
    BY PagesAssumption DEF NoPage
  <1>2. IsRuns(v.dirty) /\ IsRuns(v.spill)
    BY NilMembers DEF Opened
  <1>3. v.loose \in Seq(Nat)
    BY NoLoose DEF Opened
  <1> QED BY <1>1, <1>2, <1>3 DEF IsTxn, Opened

(* A place of a file, in the order of Lives. *)
LEMMA PlacesLive ==
  ASSUME NEW id, NEW s, NEW o, NEW v, Opened(v, id, s, o),
         \A j \in DOMAIN s.free.recs : 0 < j /\ j < id,
         NEW k, NEW i, NEW x
  PROVE  Lives(v, Nil, k, i, x) <=>
            \/ k \in 1..5 /\ <<k, i>> \in Places(s) /\ x \in PagesAt(s, k, i)
            \/ k = 10 /\ <<6, i>> \in Places(s) /\ x \in PagesAt(s, 6, i)
  <1>1. NewPlaces(v, s)
    BY NewLives
  <1>2. v.id = id
    BY DEF Opened
  <1>3. k \in 1..5 <=> k \in {1, 2, 3, 4, 5}
    OBVIOUS
  <1>4. \A j : <<6, j>> \in Places(s) <=> j \in DOMAIN s.free.recs
    BY SMT DEF Places
  <1>5. PagesAt(s, 6, i) = s.free.recs[i].pgs
    BY SMT DEF PagesAt
  <1>6. i \in DOMAIN s.free.recs => 0 < i /\ i < id
    OBVIOUS
  <1>7. CASE k = 10
    <2>1. k \notin 1..5
      BY <1>7
    <2>2. Lives(v, Nil, k, i, x) <=> i \in DOMAIN s.free.recs /\ 0 < i /\ i < v.id /\ x \in s.free.recs[i].pgs
      BY <1>1, <1>7, <2>1 DEF NewPlaces
    <2> QED BY <1>2, <1>4, <1>5, <1>6, <1>7, <2>1, <2>2
  <1>8. CASE k \in 1..5
    <2>1. k # 10
      BY <1>8
    <2>2. Lives(v, Nil, k, i, x) <=> Lives(s, Nil, k, i, x)
      BY <1>1, <1>8, <2>1 DEF NewPlaces
    <2>3. Lives(s, Nil, k, i, x) <=> <<k, i>> \in Places(s) /\ x \in PagesAt(s, k, i)
      <3>1. CASE k = 1
        <4>1. <<k, i>> \in Places(s) <=> i = 0
          BY <3>1, SMT DEF Places
        <4>2. PagesAt(s, k, i) = RootOf(s.main)
          BY <3>1, SMT DEF PagesAt
        <4> QED BY <3>1, <4>1, <4>2, SMT DEF Lives
      <3>2. CASE k = 2
        <4>1. <<k, i>> \in Places(s) <=> i = 0
          BY <3>2, SMT DEF Places
        <4>2. PagesAt(s, k, i) = s.main.leaves
          BY <3>2, SMT DEF PagesAt
        <4> QED BY <3>2, <4>1, <4>2, SMT DEF Lives
      <3>3. CASE k = 3
        <4>1. <<k, i>> \in Places(s) <=> i \in DOMAIN s.main.big
          BY <3>3, SMT DEF Places
        <4>2. PagesAt(s, k, i) = Run(i, s.main.big[i])
          BY <3>3, SMT DEF PagesAt
        <4> QED BY <3>3, <4>1, <4>2, SMT DEF Lives
      <3>4. CASE k = 4
        <4>1. <<k, i>> \in Places(s) <=> i = 0
          BY <3>4, SMT DEF Places
        <4>2. PagesAt(s, k, i) = RootOf(s.free)
          BY <3>4, SMT DEF PagesAt
        <4> QED BY <3>4, <4>1, <4>2, SMT DEF Lives
      <3>5. CASE k = 5
        <4>1. <<k, i>> \in Places(s) <=> i \in DOMAIN s.free.recs
          BY <3>5, SMT DEF Places
        <4>2. PagesAt(s, k, i) = PagesOf(s.free.recs[i].ov)
          BY <3>5, SMT DEF PagesAt
        <4> QED BY <3>5, <4>1, <4>2, SMT DEF Lives
      <3> QED BY <1>3, <1>8, <3>1, <3>2, <3>3, <3>4, <3>5
    <2> QED BY <1>8, <2>1, <2>2, <2>3
  <1>9. CASE k # 10 /\ k \notin 1..5
    BY <1>1, <1>9 DEF NewPlaces
  <1> QED BY <1>7, <1>8, <1>9

(* The file an environment opens with is tidy. *)
LEMMA StartTidy ==
  ASSUME NEW z \in Starts
  PROVE  Tidy(z.snap, z.id) /\ z.id \in Nat /\ z.last \in Nat /\ z.id <= z.last
         /\ FirstPage < MaxPg
  <1> DEFINE s == z.snap
             v == NewTxn(z.id + 1, s, 0)
  <1>1. /\ z.id \in Nat /\ z.last \in Nat /\ z.id <= z.last
        /\ IsMain(s.main) /\ IsFree(s.free)
        /\ s.next \in Nat /\ FirstPage <= s.next /\ s.next < MaxPg
        /\ DOMAIN s.free.recs \subseteq 1..z.id
    BY StartsAssumption
  <1>2. \A c, d \in Places(s) : c = d \/ PagesAt(s, c[1], c[2]) \cap PagesAt(s, d[1], d[2]) = {}
    BY StartsAssumption
  <1>3. UNION {PagesAt(s, c[1], c[2]) : c \in Places(s)} = FirstPage..(s.next - 1)
    BY StartsAssumption
  <1>4. Opened(v, z.id + 1, s, 0)
    BY NewFields
  <1>5. MaxPg \in Nat /\ FirstPage \in Nat
    BY PagesAssumption DEF FirstPage
  <1>a. FirstPage < MaxPg
    BY <1>1, <1>5
  <1> HIDE DEF v, s
  <1>6. IsTxn(v)
    <2>1. z.id + 1 \in Nat /\ 0 \in Nat
      BY <1>1
    <2> QED BY <1>1, <1>4, <2>1, OpenedTxn
  <1>7. \A k, i, x : Lives(v, Nil, k, i, x) <=>
            \/ k \in 1..5 /\ <<k, i>> \in Places(s) /\ x \in PagesAt(s, k, i)
            \/ k = 10 /\ <<6, i>> \in Places(s) /\ x \in PagesAt(s, 6, i)
    <2>1. \A j \in DOMAIN s.free.recs : 0 < j /\ j < z.id + 1
      BY <1>1
    <2> QED BY Zenon, <1>4, <2>1, PlacesLive
  <1>8. Once(v, Nil)
    <2> SUFFICES ASSUME NEW x, NEW k, NEW i, NEW l, NEW j, Lives(v, Nil, k, i, x), Lives(v, Nil, l, j, x)
                 PROVE  k = l /\ i = j
      BY DEF Once
    <2>1. PICK a \in {k, 6} : /\ <<a, i>> \in Places(s) /\ x \in PagesAt(s, a, i)
                              /\ (k = 10 /\ a = 6) \/ (k \in 1..5 /\ a = k)
      BY <1>7
    <2>2. PICK b \in {l, 6} : /\ <<b, j>> \in Places(s) /\ x \in PagesAt(s, b, j)
                              /\ (l = 10 /\ b = 6) \/ (l \in 1..5 /\ b = l)
      BY <1>7
    <2>3. <<a, i>> = <<b, j>>
      <3>1. PagesAt(s, <<a, i>>[1], <<a, i>>[2]) = PagesAt(s, a, i) /\ PagesAt(s, <<b, j>>[1], <<b, j>>[2]) = PagesAt(s, b, j)
        OBVIOUS
      <3> QED BY <1>2, <2>1, <2>2, <3>1
    <2>4. a = b /\ i = j
      BY <2>3
    <2>5. 6 \notin 1..5
      OBVIOUS
    <2> QED BY <2>1, <2>2, <2>4, <2>5
  <1>9. Cover(v, Nil)
    <2> SUFFICES ASSUME NEW x
                 PROVE  (\E k, i : Lives(v, Nil, k, i, x)) <=> x \in FirstPage..(s.next - 1)
      <3>1. v.next = s.next
        BY <1>4 DEF Opened
      <3> QED BY <3>1 DEF Cover
    <2>1. ASSUME NEW k, NEW i, Lives(v, Nil, k, i, x) PROVE x \in FirstPage..(s.next - 1)
      <3>1. \E a : <<a, i>> \in Places(s) /\ x \in PagesAt(s, a, i)
        BY <1>7, <2>1
      <3>2. \A a : <<a, i>>[1] = a /\ <<a, i>>[2] = i
        OBVIOUS
      <3>3. \E c \in Places(s) : x \in PagesAt(s, c[1], c[2])
        BY <3>1, <3>2
      <3> QED BY <1>3, <3>3
    <2>2. ASSUME x \in FirstPage..(s.next - 1) PROVE \E k, i : Lives(v, Nil, k, i, x)
      <3>1. PICK c \in Places(s) : x \in PagesAt(s, c[1], c[2])
        BY <1>3, <2>2
      <3>2. c = <<c[1], c[2]>> /\ c[1] \in 1..6
        BY SMT DEF Places
      <3>3. CASE c[1] = 6
        <4>1. <<6, c[2]>> \in Places(s) /\ x \in PagesAt(s, 6, c[2])
          BY <3>1, <3>2, <3>3
        <4> QED BY <1>7, <4>1
      <3>4. CASE c[1] \in 1..5
        <4>1. <<c[1], c[2]>> \in Places(s)
          BY <3>2
        <4> QED BY <1>7, <3>1, <3>4, <4>1
      <3>5. c[1] = 6 \/ c[1] \in 1..5
        BY <3>2
      <3> QED BY <3>3, <3>4, <3>5
    <2> QED BY <2>1, <2>2
  <1>10. Tidy(s, z.id)
    BY <1>1, <1>6, <1>8, <1>9 DEF Tidy, v
  <1> QED BY <1>1, <1>a, <1>10 DEF s

-----------------------------------------------------------------------------
(* The snapshots, and the transaction that begins with the newest. *)
(* The snapshots kept are those somebody may read, and the oldest id known *)
(* is not above any of them.                                               *)
World ==
  /\ start \in Starts /\ newest \in Nat /\ newest <= start.last
  /\ readers \in [Readers -> {None} \cup (0..newest)]
  /\ DOMAIN snaps = Referenced
  /\ DOMAIN env = {"oldest", "fatal"} /\ env.oldest \in Nat
  /\ \A j \in Referenced : env.oldest <= j

(* Each is tidy, and the newest has none of its pages in a record as old   *)
(* as it: no later transaction will fetch one while it is referenced.      *)
Stores ==
  \A j \in Referenced :
     /\ Tidy(snaps[j], j)
     /\ \A x \in UsedPages(snaps[j]) :
          /\ x < snaps[newest].next
          /\ \A k \in DOMAIN snaps[newest].free.recs : k <= j => x \notin snaps[newest].free.recs[k].pgs

LEMMA TidyPages ==
  ASSUME NEW s, NEW id, Tidy(s, id), NEW x \in UsedPages(s)
  PROVE  x \in Nat /\ FirstPage <= x /\ x < s.next /\ s.next \in Nat
  <1> DEFINE t == NewTxn(id + 1, s, 0)
  <1>1. IsTxn(t) /\ Cover(t, Nil)
    BY DEF Tidy
  <1>2. Opened(t, id + 1, s, 0)
    BY NewFields
  <1> HIDE DEF t
  <1>3. t.next = s.next /\ t.next \in Nat /\ FirstPage \in Nat
    BY <1>1, <1>2 DEF Opened, IsTxn, FirstPage
  <1>4. NewPlaces(t, s)
    BY <1>2, NewLives
  <1>5. PICK k \in 1..5 : \E i : Lives(s, Nil, k, i, x)
    BY UsedLives
  <1>6. \E i : Lives(t, Nil, k, i, x)
    BY <1>4, <1>5 DEF NewPlaces
  <1>7. x \in FirstPage..(t.next - 1)
    BY <1>1, <1>6 DEF Cover
  <1> QED BY <1>3, <1>7

LEMMA ReferencedType ==
  ASSUME World
  PROVE  /\ Referenced \subseteq Nat /\ newest \in Referenced /\ \A j \in Referenced : j <= newest
         /\ newest \in Nat
  <1>1. newest \in Nat /\ \A r \in Readers : readers[r] \in {None} \cup (0..newest)
    BY DEF World
  <1> QED BY <1>1 DEF Referenced, Needed, None

LEMMA WorldNumbers ==
  ASSUME World, Stores
  PROVE  Numbers
  <1>1. \A j \in Referenced : UsedPages(snaps[j]) \subseteq Nat
    BY TidyPages DEF Stores
  <1> QED BY <1>1, ReferencedType DEF Numbers

LEMMA NothingMine ==
  ASSUME NEW v, NEW id, NEW s, NEW o, Opened(v, id, s, o)
  PROVE  Mine(v) = {} /\ DOMAIN v.dirty = {} /\ DOMAIN v.spill = {} /\ ToSet(v.loose) = {} /\ PagesOf(v.dirty) = {}
  <1>1. PagesOf(v.dirty) = {} /\ PagesOf(v.spill) = {} /\ DOMAIN v.dirty = {} /\ DOMAIN v.spill = {}
    BY NilMembers DEF Opened
  <1>2. ToSet(v.loose) = {} /\ v.pghead = {} /\ v.written = {}
    BY NoLoose DEF Opened
  <1> QED BY <1>1, <1>2 DEF Mine

LEMMA BeginGood ==
  ASSUME World, Stores, NEW v, Opened(v, newest + 1, snaps[newest], env.oldest)
  PROVE  /\ Good(v, Nil) /\ v.pglast = 0 /\ ~v.err /\ Ok(v)
         /\ DOMAIN v.free.recs \subseteq 1..newest
  <1> DEFINE s == snaps[newest]
             t == NewTxn(newest + 1, s, 0)
  <1>1. newest \in Referenced /\ newest \in Nat
    BY ReferencedType
  <1>2. Tidy(s, newest) /\ \A j \in Referenced : \A x \in UsedPages(snaps[j]) :
                              /\ x < s.next
                              /\ \A k \in DOMAIN s.free.recs : k <= j => x \notin s.free.recs[k].pgs
    BY <1>1 DEF Stores
  <1>3. IsTxn(t) /\ Once(t, Nil) /\ Cover(t, Nil) /\ DOMAIN s.free.recs \subseteq 1..newest
        /\ FirstPage <= s.next /\ s.next < MaxPg
    BY <1>2 DEF Tidy
  <1>4. Opened(t, newest + 1, s, 0)
    BY NewFields
  <1>5. env.oldest \in Nat /\ \A j \in Referenced : env.oldest <= j
    BY DEF World
  <1>6. Opened(v, newest + 1, s, env.oldest)
    OBVIOUS
  <1> HIDE DEF t, s
  <1>7. NewPlaces(t, s) /\ NewPlaces(v, s) /\ t.id = v.id /\ t.next = v.next
    BY <1>4, <1>6, NewLives DEF Opened
  <1>8. \A k, i, x : Lives(v, Nil, k, i, x) <=> Lives(t, Nil, k, i, x)
    BY <1>7 DEF NewPlaces
  <1>9. Once(v, Nil)
    BY <1>3, <1>8 DEF Once
  <1>10. Cover(v, Nil)
    BY <1>3, <1>7, <1>8 DEF Cover
  <1>11. IsTxn(v)
    <2>1. IsMain(s.main) /\ IsFree(s.free) /\ s.next \in Nat
      BY <1>3, <1>4 DEF IsTxn, Opened
    <2>2. newest + 1 \in Nat
      BY <1>1
    <2> QED BY <1>5, <1>6, <2>1, <2>2, OpenedTxn
  <1>12. v.free = s.free /\ v.next = s.next /\ v.oldest = env.oldest /\ v.id = newest + 1 /\ v.freed = {} /\ v.nfreed = 0
         /\ v.room = DirtyRoom /\ v.loose = <<>> /\ v.pglast = 0 /\ v.pghead = {} /\ v.rc = "ok" /\ v.err = FALSE
    BY <1>6 DEF Opened
  <1>13. Mine(v) = {} /\ DOMAIN v.dirty = {} /\ DOMAIN v.spill = {} /\ ToSet(v.loose) = {}
    BY <1>6, NothingMine
  <1>14. Sized(v, Nil)
    BY <1>13 DEF Sized
  <1>15. Spared(v)
    BY <1>2, <1>5, <1>12, <1>13 DEF Spared
  <1>16. Kept(v, Nil)
    <2> SUFFICES ASSUME NEW x, NEW k, NEW i, Lives(v, Nil, k, i, x), k <= 6
                 PROVE  x \in UsedPages(snaps[newest])
      BY DEF Kept
    <2>1. k \in 1..5 /\ Lives(s, Nil, k, i, x)
      BY <1>7 DEF NewPlaces
    <2>2. x \in UsedPages(s)
      BY <2>1, UsedLives
    <2> QED BY <2>2 DEF s
  <1>17. Counted(v)
    <2>1. Cardinality({}) = 0 /\ IsFiniteSet({})
      BY FS_EmptySet
    <2>2. \A i, j \in DOMAIN v.loose : v.loose[i] = v.loose[j] => i = j
      BY <1>12, NoLoose DEF NoTwice
    <2>3. DirtyRoom \in Nat
      BY PagesAssumption
    <2> QED BY <1>1, <1>3, <1>12, <1>13, <2>1, <2>2, <2>3 DEF Counted
  <1> QED BY <1>3, <1>9, <1>10, <1>11, <1>12, <1>14, <1>15, <1>16, <1>17, NilMembers DEF Good, Ok

-----------------------------------------------------------------------------
(* The dirty pages are written. *)
Written(t) == [t EXCEPT !.written = @ \cup PagesOf(t.dirty), !.dirty = <<>>]

LEMMA WrittenFields ==
  ASSUME NEW t, DOMAIN t = TxnFields, NEW u, u = Written(t)
  PROVE  /\ DOMAIN u = TxnFields /\ u.written = t.written \cup PagesOf(t.dirty) /\ u.dirty = Nil
         /\ u.id = t.id /\ u.main = t.main /\ u.free = t.free /\ u.next = t.next /\ u.oldest = t.oldest
         /\ u.pglast = t.pglast /\ u.pghead = t.pghead /\ u.spill = t.spill /\ u.loose = t.loose
         /\ u.freed = t.freed /\ u.nfreed = t.nfreed /\ u.room = t.room /\ u.got = t.got
         /\ u.rc = t.rc /\ u.err = t.err
  BY SMT DEF Written, TxnFields, Nil

LEMMA Flushed ==
  ASSUME NEW t, Filling(t, {}), NEW u, u = Written(t)
  PROVE  Filling(u, {}) /\ u.dirty = Nil
  <1>1. /\ Good(t, Nil) /\ IsTxn(t) /\ Once(t, Nil) /\ Cover(t, Nil) /\ Sized(t, Nil) /\ Spared(t) /\ Kept(t, Nil)
        /\ Counted(t) /\ ToSet(t.loose) = {}
    BY DEF Filling, Good
  <1>2. /\ DOMAIN u = TxnFields /\ u.written = t.written \cup PagesOf(t.dirty) /\ u.dirty = Nil
        /\ u.id = t.id /\ u.main = t.main /\ u.free = t.free /\ u.next = t.next /\ u.oldest = t.oldest
        /\ u.pglast = t.pglast /\ u.pghead = t.pghead /\ u.spill = t.spill /\ u.loose = t.loose
        /\ u.freed = t.freed /\ u.nfreed = t.nfreed /\ u.room = t.room /\ u.got = t.got
        /\ u.rc = t.rc /\ u.err = t.err
    BY <1>1, WrittenFields DEF IsTxn
  <1>3. DOMAIN u.dirty = {} /\ PagesOf(u.dirty) = {} /\ IsRuns(u.dirty)
    BY <1>2, NilMembers
  <1>4. \A k, i, x : Lives(u, Nil, k, i, x) <=> Lives(t, Nil, k, i, x)
    BY <1>2 DEF Lives
  <1>5. Once(u, Nil)
    BY <1>1, <1>4 DEF Once
  <1>6. Cover(u, Nil)
    BY <1>1, <1>2, <1>4 DEF Cover
  <1>7. PagesOf(t.dirty) \subseteq Nat
    <2>1. IsRuns(t.dirty)
      BY <1>1 DEF IsTxn
    <2>2. \A p \in DOMAIN t.dirty : \A x \in Run(p, t.dirty[p]) : x \in Nat
      BY <2>1, FirstInRun
    <2> QED BY <2>2, PagesOfMembers
  <1>8. IsTxn(u)
    BY <1>1, <1>2, <1>3, <1>7 DEF IsTxn
  <1>9. \A p, n : Block(t, Nil, p, n) => Block(u, Nil, p, n)
    BY <1>2 DEF Block
  <1>10. Sized(u, Nil)
    BY <1>1, <1>2, <1>3, <1>9 DEF Sized
  <1>11. Mine(u) \subseteq Mine(t)
    BY <1>2, <1>3 DEF Mine
  <1>12. Spared(u)
    BY <1>1, <1>2, <1>11 DEF Spared
  <1>13. Kept(u, Nil)
    BY <1>1, <1>2, <1>4 DEF Kept
  <1>14. Counted(u)
    <2>1. Cardinality({}) = 0 /\ IsFiniteSet({})
      BY FS_EmptySet
    <2>2. t.room \in Nat /\ Cardinality(DOMAIN t.dirty) \in Nat /\ DirtyRoom \in Nat
      BY <1>1, FS_CardinalityType, PagesAssumption DEF Counted, IsTxn
    <2>3. u.room + Cardinality(DOMAIN u.dirty) <= DirtyRoom
      BY <1>1, <1>2, <1>3, <2>1, <2>2 DEF Counted
    <2> QED BY <1>1, <1>2, <1>3, <2>1, <2>3 DEF Counted
  <1>15. Good(u, Nil)
    BY <1>5, <1>6, <1>8, <1>10, <1>12, <1>13, <1>14, NilMembers DEF Good
  <1> QED BY <1>2, <1>15 DEF Filling, OwnPages, Ok

-----------------------------------------------------------------------------
(* The operations, and the start of mdb_freelist_save. *)
Ops(t) ==
  /\ Bare(t)
  /\ ~t.err => /\ Good(t, Nil) /\ Ok(t) /\ DOMAIN t.free.recs \subseteq 1..newest
               /\ t.pglast \in {0} \cup DOMAIN t.free.recs

Counting(t) == [t EXCEPT !.ops = @ + 1]
Ready(t) == [t EXCEPT !.rc = "ok", !.got = NoPage]

LEMMA CountingFields ==
  ASSUME NEW t, DOMAIN t = TxnFields, NEW u, u = Counting(t)
  PROVE  /\ DOMAIN u = TxnFields /\ Rest(t, u) /\ u.main = t.main /\ u.free = t.free
         /\ u.got = t.got /\ u.rc = t.rc /\ u.err = t.err
  BY SMT DEF Counting, TxnFields, Rest

LEMMA ReadyFields ==
  ASSUME NEW t, DOMAIN t = TxnFields, NEW u, u = Ready(t)
  PROVE  /\ DOMAIN u = TxnFields /\ Rest(t, u) /\ u.main = t.main /\ u.free = t.free
         /\ u.got = NoPage /\ u.rc = "ok" /\ u.err = t.err
  BY SMT DEF Ready, TxnFields, Rest

LEMMA BareRest ==
  ASSUME NEW t, NEW u, Bare(t), Rest(t, u), DOMAIN u = TxnFields
  PROVE  Bare(u)
  BY DEF Bare, Rest

LEMMA OperateGood ==
  ASSUME NEW t, Ops(t), ~t.err, Numbers, NEW u \in Operations(Counting(t)), NEW z, z = Ready(u)
  PROVE  Ops(z)
  <1> DEFINE c == Counting(t)
  <1>1. Good(t, Nil) /\ Ok(t) /\ DOMAIN t.free.recs \subseteq 1..newest /\ t.pglast \in {0} \cup DOMAIN t.free.recs
        /\ DOMAIN t = TxnFields /\ t.got \in Nat
    BY DEF Ops, Good, IsTxn
  <1>2. /\ DOMAIN c = TxnFields /\ Rest(t, c) /\ c.main = t.main /\ c.free = t.free
        /\ c.got = t.got /\ c.rc = t.rc /\ c.err = t.err
    BY <1>1, CountingFields
  <1>3. u \in Operations(c)
    OBVIOUS
  <1> HIDE DEF c
  <1>4. Good(c, Nil)
    BY <1>1, <1>2, Relabelled
  <1>5. Ok(c)
    BY <1>1, <1>2 DEF Ok
  <1>6. Bare(u) /\ (~u.err => Good(u, Nil) /\ Frame(c, u))
    BY <1>3, <1>4, <1>5, OperationsGood DEF Done
  <1>7. DOMAIN u = TxnFields
    BY <1>6 DEF Bare
  <1>8. /\ DOMAIN z = TxnFields /\ Rest(u, z) /\ z.main = u.main /\ z.free = u.free
        /\ z.got = NoPage /\ z.rc = "ok" /\ z.err = u.err
    BY <1>7, ReadyFields
  <1>9. Bare(z)
    BY <1>6, <1>8, BareRest
  <1>10. ASSUME ~z.err PROVE Good(z, Nil) /\ Ok(z) /\ DOMAIN z.free.recs \subseteq 1..newest
                             /\ z.pglast \in {0} \cup DOMAIN z.free.recs
    <2>1. Good(u, Nil) /\ Frame(c, u)
      BY <1>6, <1>8, <1>10
    <2>2. NoPage \in Nat
      BY DEF NoPage
    <2>3. Good(z, Nil)
      BY <1>8, <2>1, <2>2, Relabelled
    <2>4. z.free.recs = t.free.recs
      BY <1>2, <1>8, <2>1 DEF Frame
    <2>5. z.pglast = u.pglast /\ c.pglast = t.pglast
      BY <1>2, <1>8 DEF Rest
    <2>6. z.pglast \in {t.pglast} \cup DOMAIN t.free.recs
      BY <1>2, <2>1, <2>5 DEF Frame
    <2> QED BY <1>1, <1>8, <2>3, <2>4, <2>6 DEF Ok
  <1> QED BY <1>9, <1>10 DEF Ops

FirstSave(s) ==
  /\ s.freecnt = 0 /\ s.pglast = 0 /\ s.headId = 0 /\ s.headRoom = 0 /\ s.total = 0 /\ s.more = 1 /\ s.at = 0

LEMMA FirstSaves ==
  ASSUME NEW u, Good(u, Nil), Ok(u), ~u.err, DOMAIN u.free.recs \subseteq 1..newest,
         u.pglast \in {0} \cup DOMAIN u.free.recs, u.pglast = 0 => ToSet(u.loose) = {},
         NEW s, FirstSave(s), newest \in Nat
  PROVE  Saves(u, s)
  <1> DEFINE f == u.free.recs
             S == Slots(f, 0, 0)
  <1>1. /\ IsRecords(f) /\ DOMAIN f \subseteq Nat \ {0} /\ u.pglast \in Nat /\ u.id \in Nat /\ u.pglast < u.id /\ u.nfreed \in Nat
    BY SavedRecords
  <1>2. u.id = newest + 1 /\ IsFiniteSet(u.freed) /\ u.nfreed = Cardinality(u.freed)
    BY DEF Good, Counted
  <1>3. s.freecnt = 0 /\ s.pglast = 0 /\ s.headId = 0 /\ s.headRoom = 0 /\ s.total = 0 /\ s.more = 1 /\ s.at = 0
    BY DEF FirstSave
  <1>4. IsFiniteSet(S) /\ Cardinality(S) = 0
    <2>1. \A i \in DOMAIN f : 0 < i => 0 < i
      OBVIOUS
    <2>2. 0 \in Nat
      OBVIOUS
    <2> HIDE DEF f
    <2> QED BY <1>1, <2>1, <2>2, NoSlots
  <1>5. DOMAIN f \subseteq 1..u.id /\ u.id \notin DOMAIN f
    BY <1>1, <1>2
  <1>6. u.nfreed = 0 => OwnPages(u) = u.freed
    <2>1. OwnPages(u) = {}
      BY <1>5 DEF OwnPages
    <2>2. u.nfreed = 0 => u.freed = {}
      BY <1>2, FS_EmptySet
    <2> QED BY <2>1, <2>2
  <1>7. LenOf(f, 0) = 0
    BY <1>1 DEF LenOf
  <1>8. \A i \in DOMAIN f : ~(i <= 0)
    BY <1>1
  <1>9. 0 \in 0..u.nfreed
    BY <1>1
  <1>10. u.pglast > 0 => u.pglast \in DOMAIN f
    OBVIOUS
  <1> QED BY <1>1, <1>3, <1>4, <1>5, <1>6, <1>7, <1>8, <1>9, <1>10 DEF Saves

LoosenedTo(t) == Append_(WithoutLoose(t), ToSet(t.loose))

LEMMA LooseFreed ==
  ASSUME NEW t, DOMAIN t = TxnFields
  PROVE  Unloosed(t, LoosenedTo(t), 7)
  <1> DEFINE d == WithoutLoose(t)
             u == LoosenedTo(t)
  <1>1. /\ DOMAIN d = TxnFields /\ d.got = t.got /\ d.main = t.main /\ d.free = t.free
        /\ d.id = t.id /\ d.next = t.next /\ d.oldest = t.oldest /\ d.pglast = t.pglast
        /\ d.written = t.written /\ d.spill = t.spill /\ d.room = t.room
        /\ d.rc = t.rc /\ d.err = t.err /\ d.loose = <<>>
        /\ d.dirty = [p \in DOMAIN t.dirty \ ToSet(t.loose) |-> t.dirty[p]]
        /\ d.freed = t.freed /\ d.nfreed = t.nfreed /\ d.pghead = t.pghead
    BY SMT DEF WithoutLoose, TxnFields
  <1>2. u = Append_(d, ToSet(t.loose))
    BY DEF LoosenedTo
  <1> HIDE DEF d, u
  <1>3. /\ DOMAIN u = TxnFields /\ u.got = d.got /\ u.main = d.main /\ u.free = d.free
        /\ u.id = d.id /\ u.next = d.next /\ u.oldest = d.oldest /\ u.pglast = d.pglast
        /\ u.written = d.written /\ u.spill = d.spill /\ u.room = d.room
        /\ u.rc = d.rc /\ u.err = d.err /\ u.loose = d.loose /\ u.dirty = d.dirty /\ u.pghead = d.pghead
        /\ u.freed = d.freed \cup ToSet(t.loose) /\ u.nfreed = d.nfreed + Cardinality(ToSet(t.loose))
    BY <1>1, <1>2, SMT DEF Append_, TxnFields
  <1>4. Unloosed(t, u, 7)
    BY <1>1, <1>3 DEF Unloosed
  <1> QED BY <1>4 DEF u

LEMMA SaveStarts ==
  ASSUME NEW t, Ops(t), ~t.err, Numbers, newest \in Nat,
         NEW u, u = IF ~HasHead(t) THEN LoosenedTo(t)
                    ELSE IF t.free.root # NoPage THEN PageTouch(t, t.free.root) ELSE t,
         NEW s, FirstSave(s)
  PROVE  Stuck(u) \/ Saves(u, s)
  <1>1. Good(t, Nil) /\ Ok(t) /\ DOMAIN t.free.recs \subseteq 1..newest /\ t.pglast \in {0} \cup DOMAIN t.free.recs
        /\ DOMAIN t = TxnFields /\ t.pglast \in Nat
    BY DEF Ops, Good, IsTxn
  <1>2. CASE ~HasHead(t)
    <2>1. u = LoosenedTo(t)
      BY <1>2
    <2>2. Unloosed(t, u, 7)
      BY <1>1, <2>1, LooseFreed
    <2>3. Good(u, Nil) /\ ToSet(u.loose) = {}
      <3>1. 7 \in {7, 8} /\ 7 # 8
        OBVIOUS
      <3> QED BY <1>1, <2>2, <3>1, UnloosedGood
    <2>4. u.free = t.free /\ u.rc = t.rc /\ u.err = t.err /\ u.pglast = t.pglast
      BY <2>2 DEF Unloosed
    <2>5. Ok(u)
      BY <1>1, <2>4 DEF Ok
    <2> QED BY <1>1, <2>3, <2>4, <2>5, FirstSaves
  <1>3. CASE HasHead(t) /\ t.free.root # NoPage
    <2>1. u = PageTouch(t, t.free.root)
      BY <1>3
    <2>2. Lost(u) \/ (Good(u, Nil) /\ FreeTouched(t, u))
      BY <1>1, <1>3, <2>1, RootTouchGood
    <2>3. CASE Lost(u)
      BY <2>3, LostStuck
    <2>4. CASE Good(u, Nil) /\ FreeTouched(t, u)
      <3>1. u.rc = t.rc /\ u.err = t.err /\ u.free.recs = t.free.recs /\ u.pglast \in {t.pglast} \cup DOMAIN t.free.recs
            /\ t.pglast <= u.pglast
        BY <2>4 DEF FreeTouched
      <3>2. Ok(u)
        BY <1>1, <3>1 DEF Ok
      <3>3. u.pglast \in Nat
        BY <2>4 DEF Good, IsTxn
      <3>4. u.pglast # 0
        BY <1>1, <1>3, <3>1, <3>3 DEF HasHead
      <3> QED BY <1>1, <2>4, <3>1, <3>2, <3>4, FirstSaves
    <2> QED BY <2>2, <2>3, <2>4
  <1>4. CASE HasHead(t) /\ t.free.root = NoPage
    <2>1. u = t
      BY <1>4
    <2>2. t.pglast # 0
      BY <1>4 DEF HasHead
    <2> QED BY <1>1, <2>1, <2>2, FirstSaves
  <1> QED BY <1>2, <1>3, <1>4

-----------------------------------------------------------------------------
(* The write transaction in each of its phases, and the invariant. *)
SaveFields == {"freecnt", "pglast", "headId", "headRoom", "total", "more", "left", "at", "turn"}

(* What the transaction is in each phase of a commit.                      *)
Phase(p, t, s) ==
  /\ p \in {"idle", "ops", "save", "fill", "flush", "meta", "failed"}
  /\ p = "idle" => t = NoTxn
  /\ p # "idle" => newest < start.last /\ Bare(t)
  /\ p = "ops" => Ops(t)
  /\ p = "save" => Saves(t, s)
  /\ p = "fill" => Fills(t, s)
  /\ p \in {"flush", "meta"} => Filling(t, {})
  /\ p = "meta" => t.dirty = Nil
  /\ p \notin {"save", "fill"} => s.freecnt = 0 /\ s.more = 1
  /\ DOMAIN s = SaveFields

(* The inductive invariant.                                                *)
Inv == World /\ Stores /\ Phase(pc, w, sv)

(* A step of another actor: the newest snapshot stays, a reader may come or *)
(* go.                                                                      *)
Stays ==
  /\ newest' = newest /\ Referenced' \subseteq Referenced /\ newest \in Referenced'
  /\ start' = start /\ \A j \in Referenced' : snaps'[j] = snaps[j]

LEMMA StaysGood ==
  ASSUME Stays, newest \in Referenced, NEW t, NEW L, Good(t, L)
  PROVE  Good(t, L)'
  <1>1. newest' = newest /\ Referenced' \subseteq Referenced /\ newest \in Referenced'
        /\ \A j \in Referenced' : snaps'[j] = snaps[j]
    BY DEF Stays
  <1>2. Spared(t)'
    <2>1. Spared(t)
      BY DEF Good
    <2> HIDE DEF Referenced
    <2> QED BY <1>1, <2>1 DEF Spared
  <1>3. Kept(t, L)'
    <2>1. Kept(t, L)
      BY DEF Good
    <2>2. snaps'[newest'] = snaps[newest]
      BY <1>1
    <2> QED BY <2>1, <2>2 DEF Kept
  <1>4. Counted(t)'
    BY <1>1 DEF Good, Counted
  <1> QED BY <1>2, <1>3, <1>4 DEF Good

LEMMA StaysBare ==
  ASSUME Stays, NEW t, Bare(t)
  PROVE  Bare(t)'
  <1>1. newest' = newest /\ Referenced' \subseteq Referenced
        /\ \A j \in Referenced' : snaps'[j] = snaps[j]
    BY DEF Stays
  <1> QED BY <1>1 DEF Bare

LEMMA StaysFilling ==
  ASSUME Stays, newest \in Referenced, NEW t, NEW left, Filling(t, left)
  PROVE  Filling(t, left)'
  <1>1. Good(t, Nil)'
    BY StaysGood DEF Filling
  <1> QED BY <1>1 DEF Filling

LEMMA StaysOps ==
  ASSUME Stays, newest \in Referenced, NEW t, Ops(t)
  PROVE  Ops(t)'
  <1>1. Bare(t)'
    BY StaysBare DEF Ops
  <1>2. newest' = newest
    BY DEF Stays
  <1>3. ASSUME ~t.err PROVE Good(t, Nil)'
    BY <1>3, StaysGood DEF Ops
  <1> QED BY <1>1, <1>2, <1>3 DEF Ops

LEMMA StaysPhase ==
  ASSUME Stays, newest \in Referenced, NEW p, NEW t, NEW s, Phase(p, t, s)
  PROVE  Phase(p, t, s)'
  <1>1. start' = start /\ newest' = newest
    BY DEF Stays
  <1>2. p # "idle" => Bare(t)'
    BY StaysBare DEF Phase
  <1>3. p = "ops" => Ops(t)'
    BY StaysOps DEF Phase
  <1>4. p = "save" => Saves(t, s)'
    <2> SUFFICES ASSUME p = "save" PROVE Saves(t, s)'
      OBVIOUS
    <2>1. Saves(t, s)
      BY DEF Phase
    <2>2. Good(t, Nil)'
      BY <2>1, StaysGood DEF Saves
    <2> QED BY <2>1, <2>2 DEF Saves
  <1>5. p = "fill" => Fills(t, s)'
    <2> SUFFICES ASSUME p = "fill" PROVE Fills(t, s)'
      OBVIOUS
    <2>1. Fills(t, s)
      BY DEF Phase
    <2>2. Filling(t, s.left)'
      BY <2>1, StaysFilling DEF Fills
    <2> QED BY <2>1, <2>2 DEF Fills
  <1>6. p \in {"flush", "meta"} => Filling(t, {})'
    BY StaysFilling DEF Phase
  <1> QED BY <1>1, <1>2, <1>3, <1>4, <1>5, <1>6 DEF Phase

LEMMA StaysStores ==
  ASSUME Stays, Stores
  PROVE  Stores'
  <1>1. newest' = newest /\ Referenced' \subseteq Referenced /\ newest' \in Referenced'
        /\ \A j \in Referenced' : snaps'[j] = snaps[j]
    BY DEF Stays
  <1>2. snaps'[newest'] = snaps[newest]
    BY <1>1
  <1>3. \A j \in Referenced' :
           /\ Tidy(snaps'[j], j)
           /\ \A x \in UsedPages(snaps'[j]) :
                /\ x < snaps'[newest'].next
                /\ \A k \in DOMAIN snaps'[newest'].free.recs : k <= j => x \notin snaps'[newest'].free.recs[k].pgs
    BY <1>1, <1>2 DEF Stores
  <1> QED BY <1>3 DEF Stores

(* A step of the writer that commits nothing. *)
LEMMA Onward ==
  ASSUME World, Stores, UNCHANGED <<start, newest, snaps, readers>>,
         DOMAIN env' = {"oldest", "fatal"}, env'.oldest \in Nat, \A j \in Referenced : env'.oldest <= j,
         NEW p, NEW t, NEW s, Phase(p, t, s), pc' = p, w' = t, sv' = s
  PROVE  Inv'
  <1>1. newest \in Referenced
    BY ReferencedType
  <1>2. Referenced' = Referenced
    BY DEF Referenced, Needed
  <1>3. Stays
    BY <1>1, <1>2 DEF Stays
  <1>4. Phase(p, t, s)'
    BY <1>1, <1>3, StaysPhase
  <1>5. Phase(pc, w, sv)'
    BY <1>4
  <1>6. Stores'
    BY <1>3, StaysStores
  <1>7. World'
    BY <1>2 DEF World
  <1> QED BY <1>5, <1>6, <1>7 DEF Inv

LEMMA NewSaveFields ==
  FirstSave(NewSave) /\ NewSave.freecnt = 0 /\ NewSave.more = 1 /\ DOMAIN NewSave = SaveFields
  BY SMT DEF NewSave, FirstSave, SaveFields

LEMMA IdlePhase ==
  Phase("idle", NoTxn, NewSave)
  BY NewSaveFields DEF Phase

LEMMA TidyRecords ==
  ASSUME NEW s, NEW id \in Nat, Tidy(s, id), NEW x \in UsedPages(s), NEW k \in DOMAIN s.free.recs
  PROVE  x \notin s.free.recs[k].pgs
  <1> SUFFICES ASSUME x \in s.free.recs[k].pgs PROVE FALSE
    OBVIOUS
  <1> DEFINE v == NewTxn(id + 1, s, 0)
  <1>1. Once(v, Nil) /\ DOMAIN s.free.recs \subseteq 1..id
    BY DEF Tidy
  <1>2. Opened(v, id + 1, s, 0)
    BY NewFields
  <1> HIDE DEF v
  <1>3. NewPlaces(v, s) /\ v.id = id + 1
    BY <1>2, NewLives DEF Opened
  <1>4. PICK l \in 1..5 : \E i : Lives(s, Nil, l, i, x)
    BY UsedLives
  <1>5. \E i : Lives(v, Nil, l, i, x)
    BY <1>3, <1>4 DEF NewPlaces
  <1>6. 0 < k /\ k < v.id
    BY <1>1, <1>3
  <1>7. Lives(v, Nil, 10, k, x)
    BY <1>3, <1>6 DEF NewPlaces
  <1>8. l # 10
    OBVIOUS
  <1> QED BY <1>1, <1>5, <1>7, <1>8 DEF Once

LEMMA InitInv ==
  ASSUME Init
  PROVE  Inv
  <1>1. start \in Starts /\ newest = start.id /\ snaps = [i \in {start.id} |-> start.snap]
    BY DEF Init
  <1>2. env = [oldest |-> 0, fatal |-> FALSE] /\ readers = [r \in Readers |-> None]
    BY DEF Init
  <1>3. pc = "idle" /\ w = NoTxn /\ sv = NewSave
    BY DEF Init
  <1>4. Tidy(start.snap, start.id) /\ start.id \in Nat /\ start.last \in Nat /\ start.id <= start.last
    BY <1>1, StartTidy
  <1>5. Referenced = {newest}
    BY <1>2 DEF Referenced, Needed
  <1>6. snaps[newest] = start.snap /\ DOMAIN snaps = {newest}
    BY <1>1
  <1>7. World
    <2>1. env.oldest = 0 /\ DOMAIN env = {"oldest", "fatal"}
      BY <1>2
    <2>2. readers \in [Readers -> {None} \cup (0..newest)]
      BY <1>2
    <2> QED BY <1>1, <1>4, <1>5, <1>6, <2>1, <2>2 DEF World
  <1>8. Stores
    <2> SUFFICES ASSUME NEW j \in Referenced
                 PROVE  /\ Tidy(snaps[j], j)
                        /\ \A x \in UsedPages(snaps[j]) :
                             /\ x < snaps[newest].next
                             /\ \A k \in DOMAIN snaps[newest].free.recs : k <= j => x \notin snaps[newest].free.recs[k].pgs
      BY DEF Stores
    <2>1. j = newest /\ snaps[j] = start.snap
      BY <1>5, <1>6
    <2>2. Tidy(snaps[j], j)
      BY <1>1, <1>4, <2>1
    <2>3. \A x \in UsedPages(snaps[j]) : x < snaps[newest].next
      BY <2>1, <2>2, TidyPages
    <2>4. \A x \in UsedPages(snaps[j]) : \A k \in DOMAIN snaps[newest].free.recs : x \notin snaps[newest].free.recs[k].pgs
      BY <1>1, <1>4, <2>1, <2>2, TidyRecords
    <2> QED BY <2>2, <2>3, <2>4
  <1> QED BY <1>3, <1>7, <1>8, IdlePhase DEF Inv

LEMMA ReadInv ==
  ASSUME Inv, NEW r \in Readers, NEW id \in {None, newest}, Read(r, id)
  PROVE  Inv'
  <1>1. World /\ Stores /\ Phase(pc, w, sv)
    BY DEF Inv
  <1>2. /\ readers' = [readers EXCEPT ![r] = id] /\ snaps' = [i \in Needed(newest, readers') |-> snaps[i]]
        /\ UNCHANGED <<start, newest, env, pc, w, sv>>
    BY DEF Read
  <1>3. newest \in Nat /\ newest \in Referenced /\ readers \in [Readers -> {None} \cup (0..newest)]
    BY <1>1, ReferencedType DEF World
  <1>4. readers' \in [Readers -> {None} \cup (0..newest)]
    BY <1>2, <1>3
  <1>5. Referenced' = Needed(newest, readers') /\ newest \in Referenced'
    BY <1>2 DEF Referenced, Needed
  <1>6. Referenced' \subseteq Referenced
    BY <1>2, <1>3 DEF Referenced, Needed
  <1>7. Stays
    BY <1>2, <1>5, <1>6 DEF Stays
  <1>8. Stores'
    BY <1>1, <1>7, StaysStores
  <1>9. World'
    BY <1>1, <1>2, <1>4, <1>5, <1>6 DEF World
  <1>10. Phase(pc, w, sv)'
    <2>1. PICK p, t, s : p = pc /\ t = w /\ s = sv
      OBVIOUS
    <2>2. Phase(p, t, s)
      BY <1>1, <2>1
    <2>3. Phase(p, t, s)'
      BY <1>3, <1>7, <2>2, StaysPhase
    <2>4. pc' = p /\ w' = t /\ sv' = s
      BY <1>2, <2>1
    <2> QED BY <2>3, <2>4
  <1> QED BY <1>8, <1>9, <1>10 DEF Inv

LEMMA EndInv ==
  ASSUME World, Stores, EndTxn, UNCHANGED <<start, newest, snaps, readers>>,
         DOMAIN env' = {"oldest", "fatal"}, env'.oldest \in Nat, \A j \in Referenced : env'.oldest <= j
  PROVE  Inv'
  <1>1. pc' = "idle" /\ w' = NoTxn /\ sv' = NewSave
    BY DEF EndTxn
  <1> QED BY <1>1, IdlePhase, Onward

LEMMA BeginInv ==
  ASSUME Inv, BeginWrite
  PROVE  Inv'
  <1> DEFINE t == NewTxn(newest + 1, snaps[newest], env.oldest)
  <1>1. World /\ Stores
    BY DEF Inv
  <1>2. /\ newest < start.last /\ pc' = "ops" /\ w' = t /\ sv' = NewSave
        /\ UNCHANGED <<start, newest, snaps, readers, env>>
    BY DEF BeginWrite, Goto
  <1>3. Opened(t, newest + 1, snaps[newest], env.oldest)
    BY NewFields
  <1> HIDE DEF t
  <1>4. Good(t, Nil) /\ t.pglast = 0 /\ ~t.err /\ Ok(t) /\ DOMAIN t.free.recs \subseteq 1..newest
    BY <1>1, <1>3, BeginGood
  <1>5. Bare(t)
    BY <1>4, GoodBare
  <1>6. Ops(t)
    BY <1>4, <1>5 DEF Ops
  <1>7. Phase("ops", t, NewSave)
    BY <1>2, <1>5, <1>6, NewSaveFields DEF Phase
  <1>8. DOMAIN env' = {"oldest", "fatal"} /\ env'.oldest \in Nat /\ \A j \in Referenced : env'.oldest <= j
    BY <1>1, <1>2 DEF World
  <1> QED BY <1>1, <1>2, <1>7, <1>8, Onward

LEMMA OperateInv ==
  ASSUME Inv, Operate
  PROVE  Inv'
  <1>1. World /\ Stores /\ Phase(pc, w, sv) /\ Numbers
    BY WorldNumbers DEF Inv
  <1>2. /\ pc = "ops" /\ ~w.err
        /\ UNCHANGED <<start, newest, snaps, readers, env>>
    BY DEF Operate
  <1>3. PICK t \in Operations(Counting(w)) : pc' = "ops" /\ w' = Ready(t) /\ sv' = sv
    BY Zenon DEF Operate, Goto, Counting, Ready
  <1>4. Ops(w) /\ newest < start.last /\ sv.freecnt = 0 /\ sv.more = 1 /\ DOMAIN sv = SaveFields
    BY <1>1, <1>2 DEF Phase
  <1>5. Ops(Ready(t))
    BY <1>1, <1>2, <1>3, <1>4, OperateGood
  <1>6. Phase("ops", Ready(t), sv)
    BY <1>4, <1>5 DEF Phase, Ops
  <1>8. DOMAIN env' = {"oldest", "fatal"} /\ env'.oldest \in Nat /\ \A j \in Referenced : env'.oldest <= j
    BY <1>1, <1>2 DEF World
  <1> QED BY <1>1, <1>2, <1>3, <1>6, <1>8, Onward

(* The bound that was cached outlives the transaction. *)
LEMMA CachedOldest ==
  ASSUME Inv, pc # "idle"
  PROVE  w.oldest \in Nat /\ \A j \in Referenced : w.oldest <= j
  BY DEF Inv, Phase, Bare

LEMMA EndsInv ==
  ASSUME Inv, pc # "idle", EndTxn, UNCHANGED <<start, newest, snaps, readers>>,
         DOMAIN env' = {"oldest", "fatal"}, env'.oldest = w.oldest
  PROVE  Inv'
  <1>1. env'.oldest \in Nat /\ \A j \in Referenced : env'.oldest <= j
    BY CachedOldest
  <1> QED BY <1>1, EndInv DEF Inv

LEMMA OldestCached ==
  ASSUME World, env' = [env EXCEPT !.oldest = w.oldest]
  PROVE  DOMAIN env' = {"oldest", "fatal"} /\ env'.oldest = w.oldest
  BY DEF World

LEMMA AbortInv ==
  ASSUME Inv, Abort \/ CommitNothing \/ WriteMetaFails
  PROVE  Inv'
  <1>1. CASE Abort \/ CommitNothing
    <2>1. /\ pc # "idle" /\ EndTxn /\ UNCHANGED <<start, newest, snaps, readers>>
          /\ env' = [env EXCEPT !.oldest = w.oldest]
      BY <1>1 DEF Abort, CommitNothing
    <2>2. DOMAIN env' = {"oldest", "fatal"} /\ env'.oldest = w.oldest
      BY <2>1, OldestCached DEF Inv
    <2> QED BY <2>1, <2>2, EndsInv
  <1>2. CASE WriteMetaFails
    <2>1. /\ pc # "idle" /\ EndTxn /\ UNCHANGED <<start, newest, snaps, readers>>
          /\ env' = [oldest |-> w.oldest, fatal |-> TRUE]
      BY <1>2 DEF WriteMetaFails
    <2>2. DOMAIN env' = {"oldest", "fatal"} /\ env'.oldest = w.oldest
      BY <2>1
    <2> QED BY <2>1, <2>2, EndsInv
  <1> QED BY <1>1, <1>2

LEMMA RestartInv ==
  ASSUME Inv, Restart
  PROVE  Inv'
  <1>1. /\ EndTxn /\ UNCHANGED <<start, newest, snaps, readers>>
        /\ env' = [oldest |-> 0, fatal |-> FALSE]
    BY DEF Restart
  <1>2. DOMAIN env' = {"oldest", "fatal"} /\ env'.oldest = 0
    BY <1>1
  <1>3. World /\ Stores /\ Referenced \subseteq Nat
    BY ReferencedType DEF Inv
  <1>4. \A j \in Referenced : env'.oldest <= j
    BY <1>2, <1>3
  <1>5. env'.oldest \in Nat
    BY <1>2
  <1> QED BY <1>1, <1>2, <1>3, <1>4, <1>5, EndInv

-----------------------------------------------------------------------------
(* The steps of mdb_freelist_save. *)
LEMMA SameEnv ==
  ASSUME World, env' = env
  PROVE  DOMAIN env' = {"oldest", "fatal"} /\ env'.oldest \in Nat /\ \A j \in Referenced : env'.oldest <= j
  BY DEF World

LEMMA Begun ==
  ASSUME Inv, pc # "idle"
  PROVE  newest < start.last /\ Bare(w) /\ World /\ Stores /\ Numbers /\ Phase(pc, w, sv) /\ DOMAIN sv = SaveFields
         /\ newest \in Nat
  BY WorldNumbers, ReferencedType DEF Inv, Phase

LEMMA StuckStep ==
  ASSUME Inv, pc # "idle", NEW p, NEW t, NEW s, Step(p, t, s), Stuck(t)
  PROVE  Inv'
  <1>1. /\ pc' = "failed" /\ w' = t /\ sv' = NewSave
        /\ UNCHANGED <<start, newest, snaps, readers, env>>
    BY DEF Step, Goto, Stuck
  <1>2. newest < start.last /\ World /\ Stores
    BY Begun
  <1>3. Phase("failed", t, NewSave)
    BY <1>2, NewSaveFields DEF Phase, Stuck
  <1> QED BY <1>1, <1>2, <1>3, SameEnv, Onward

LEMMA TurnFields ==
  ASSUME NEW s, DOMAIN s = SaveFields, NEW q, NEW z, z = [s EXCEPT !.turn = q]
  PROVE  /\ DOMAIN z = SaveFields /\ z.freecnt = s.freecnt /\ z.pglast = s.pglast /\ z.headId = s.headId
         /\ z.headRoom = s.headRoom /\ z.total = s.total /\ z.more = s.more /\ z.left = s.left /\ z.at = s.at
  BY SMT DEF SaveFields

LEMMA SavesStep ==
  ASSUME Inv, pc # "idle", NEW t, NEW s, DOMAIN s = SaveFields, Step("save", t, s), Stuck(t) \/ Saves(t, s)
  PROVE  Inv'
  <1>1. CASE Stuck(t)
    BY <1>1, StuckStep
  <1>2. CASE Saves(t, s)
    <2>1. Ok(t) /\ Good(t, Nil)
      BY <1>2 DEF Saves
    <2>2. PICK z : z = [s EXCEPT !.turn = 1 - sv.turn]
      OBVIOUS
    <2>3. /\ pc' = "save" /\ w' = t /\ sv' = z
          /\ UNCHANGED <<start, newest, snaps, readers, env>>
      BY <2>1, <2>2 DEF Step, Goto
    <2>4. newest < start.last /\ World /\ Stores
      BY Begun
    <2>5. /\ DOMAIN z = SaveFields /\ z.freecnt = s.freecnt /\ z.pglast = s.pglast /\ z.headId = s.headId
          /\ z.headRoom = s.headRoom /\ z.total = s.total /\ z.more = s.more /\ z.at = s.at
      BY <2>2, TurnFields
    <2>6. Saves(t, z)
      BY <1>2, <2>5 DEF Saves
    <2>7. Phase("save", t, z)
      BY <2>1, <2>4, <2>5, <2>6, GoodBare DEF Phase
    <2> QED BY <2>3, <2>4, <2>7, SameEnv, Onward
  <1> QED BY <1>1, <1>2

LEMMA FillsStep ==
  ASSUME Inv, pc # "idle", NEW t, NEW s, DOMAIN s = SaveFields, Step("fill", t, s), Fills(t, s)
  PROVE  Inv'
  <1>1. Ok(t) /\ Good(t, Nil)
    BY DEF Fills, Filling
  <1>2. PICK z : z = [s EXCEPT !.turn = 1 - sv.turn]
    OBVIOUS
  <1>3. /\ pc' = "fill" /\ w' = t /\ sv' = z
        /\ UNCHANGED <<start, newest, snaps, readers, env>>
    BY <1>1, <1>2 DEF Step, Goto
  <1>4. newest < start.last /\ World /\ Stores
    BY Begun
  <1>5. /\ DOMAIN z = SaveFields /\ z.freecnt = s.freecnt /\ z.more = s.more /\ z.at = s.at /\ z.left = s.left
    BY <1>2, TurnFields
  <1>6. Fills(t, z)
    BY <1>5 DEF Fills
  <1>7. Phase("fill", t, z)
    BY <1>1, <1>4, <1>5, <1>6, GoodBare DEF Phase
  <1> QED BY <1>3, <1>4, <1>7, SameEnv, Onward

LEMMA FlushStep ==
  ASSUME Inv, pc # "idle", NEW t, NEW s, Step("flush", t, s), Filling(t, {})
  PROVE  Inv'
  <1>1. Ok(t) /\ Good(t, Nil)
    BY DEF Filling
  <1>2. /\ pc' = "flush" /\ w' = t /\ sv' = NewSave
        /\ UNCHANGED <<start, newest, snaps, readers, env>>
    BY <1>1 DEF Step, Goto
  <1>3. newest < start.last /\ World /\ Stores
    BY Begun
  <1>4. Phase("flush", t, NewSave)
    BY <1>1, <1>3, NewSaveFields, GoodBare DEF Phase
  <1> QED BY <1>2, <1>3, <1>4, SameEnv, Onward

LEMMA SaveBeginInv ==
  ASSUME Inv, SaveBegin
  PROVE  Inv'
  <1>1. pc = "ops" /\ ~w.err
    BY DEF SaveBegin
  <1>2. PICK u : u = IF ~HasHead(w) THEN LoosenedTo(w)
                     ELSE IF w.free.root # NoPage THEN PageTouch(w, w.free.root) ELSE w
    OBVIOUS
  <1>3. Step("save", u, NewSave)
    BY <1>2 DEF SaveBegin, LoosenedTo
  <1>4. Ops(w) /\ Numbers /\ newest \in Nat
    BY <1>1, Begun DEF Phase
  <1>5. Stuck(u) \/ Saves(u, NewSave)
    BY <1>1, <1>2, <1>4, NewSaveFields, SaveStarts
  <1>6. pc # "idle"
    BY <1>1
  <1> QED BY <1>3, <1>5, <1>6, NewSaveFields, SavesStep

LEMMA SaveDeleteInv ==
  ASSUME Inv, SaveDelete
  PROVE  Inv'
  <1>1. pc = "save" /\ sv.pglast < w.pglast
    BY DEF SaveDelete, Consumed
  <1>2. PICK id : id = Min(DOMAIN w.free.recs)
    OBVIOUS
  <1>3. PICK u : u = RecDel(w, id)
    OBVIOUS
  <1>4. PICK z : z = [sv EXCEPT !.pglast = id, !.headId = id, !.headRoom = 0, !.total = 0]
    OBVIOUS
  <1>5. Step("save", u, z)
    BY <1>2, <1>3, <1>4 DEF SaveDelete
  <1>6. Saves(w, sv) /\ Numbers /\ DOMAIN sv = SaveFields /\ pc # "idle"
    BY <1>1, Begun DEF Phase
  <1>7. /\ DOMAIN z = SaveFields /\ z.pglast = id /\ z.headId = id /\ z.headRoom = 0 /\ z.total = 0
        /\ z.freecnt = sv.freecnt /\ z.more = sv.more /\ z.at = sv.at
    BY <1>4, <1>6, SMT DEF SaveFields
  <1>8. Stuck(u) \/ Saves(u, z)
    BY <1>1, <1>2, <1>3, <1>6, <1>7, DeleteGood
  <1> QED BY <1>5, <1>6, <1>7, <1>8, SavesStep

LEMMA SaveOwnInv ==
  ASSUME Inv, SaveOwn
  PROVE  Inv'
  <1>1. pc = "save" /\ ~(sv.pglast < w.pglast)
    BY Zenon DEF SaveOwn, Consumed
  <1>2. PICK a : a = IF sv.freecnt = 0 /\ w.free.root # NoPage THEN PageTouch(w, w.free.root) ELSE w
    OBVIOUS
  <1>3. PICK b : b = IF Ok(a) THEN RecPut(a, a.id, a.nfreed) ELSE a
    OBVIOUS
  <1>4. PICK u : u = IF Ok(b) THEN Refilled(b, b.id, b.freed) ELSE b
    OBVIOUS
  <1>5. PICK z : z = [sv EXCEPT !.freecnt = a.nfreed]
    BY Zenon
  <1>6. Step("save", u, z)
    BY Zenon, <1>2, <1>3, <1>4, <1>5 DEF SaveOwn, Then, Refilled
  <1>7. Saves(w, sv) /\ Numbers /\ DOMAIN sv = SaveFields /\ pc # "idle"
    BY <1>1, Begun DEF Phase
  <1>8. /\ DOMAIN z = SaveFields /\ z.freecnt = a.nfreed /\ z.pglast = sv.pglast /\ z.headId = sv.headId
        /\ z.headRoom = sv.headRoom /\ z.total = sv.total /\ z.more = sv.more /\ z.at = sv.at
    BY <1>5, <1>7, SMT DEF SaveFields
  <1>9. sv.pglast = w.pglast
    BY <1>1, <1>7 DEF Saves, Good, IsTxn
  <1>10. Stuck(u) \/ Saves(u, z)
    BY <1>2, <1>3, <1>4, <1>7, <1>8, <1>9, OwnGood
  <1> QED BY <1>6, <1>7, <1>8, <1>10, SavesStep

(* A round that reserves has a first record to reserve in. *)
LEMMA HeadToReserve ==
  ASSUME NEW t, NEW s, Saves(t, s), s.pglast = t.pglast, s.total # AtHand(t)
  PROVE  s.headId \in Nat \ {0} /\ s.total \in Nat /\ s.headRoom \in Nat /\ AtHand(t) \in Nat
  <1>1. Good(t, Nil) /\ s.headId \in Nat /\ s.pglast \in Nat /\ (s.pglast > 0 => s.headId > 0)
        /\ s.total = Cardinality(Slots(t.free.recs, 0, s.pglast)) /\ IsFiniteSet(Slots(t.free.recs, 0, s.pglast))
        /\ s.headRoom = LenOf(t.free.recs, s.headId) /\ (t.pglast = 0 => ToSet(t.loose) = {})
    BY DEF Saves
  <1>2. AtHand(t) \in Nat /\ (t.pglast = 0 /\ ToSet(t.loose) = {} => AtHand(t) = 0)
    BY <1>1, AtHandType
  <1>3. IsRecords(t.free.recs) /\ DOMAIN t.free.recs \subseteq Nat \ {0}
    BY <1>1, SavedRecords
  <1>4. s.total \in Nat
    BY <1>1, FS_CardinalityType
  <1>5. s.headRoom \in Nat
    BY <1>1, <1>3 DEF LenOf, IsRecords
  <1>6. s.pglast # 0
    <2> SUFFICES ASSUME s.pglast = 0 PROVE FALSE
      OBVIOUS
    <2>1. \A i \in DOMAIN t.free.recs : 0 < i => 0 < i
      OBVIOUS
    <2>2. 0 \in Nat
      OBVIOUS
    <2>3. Cardinality(Slots(t.free.recs, 0, 0)) = 0
      BY <1>3, <2>1, <2>2, NoSlots
    <2>4. s.total = 0
      BY <1>1, <2>3
    <2>5. AtHand(t) = 0
      BY <1>1, <1>2
    <2> QED BY <2>4, <2>5
  <1> QED BY <1>1, <1>2, <1>4, <1>5, <1>6

LEMMA SaveReserveInv ==
  ASSUME Inv, SaveReserve
  PROVE  Inv'
  <1>1. pc = "save" /\ ~(sv.pglast < w.pglast) /\ sv.freecnt = w.nfreed
        /\ sv.total # AtHand(w) /\ ~(sv.total > AtHand(w) /\ sv.more = 0)
    BY DEF SaveReserve, Reserving, Consumed, Settled
  <1>2. PICK full : full = (sv.total < AtHand(w) /\ sv.headRoom >= MaxFree1Pg /\ sv.headId > 1)
    OBVIOUS
  <1>3. PICK id : id = IF full THEN sv.headId - 1 ELSE sv.headId
    OBVIOUS
  <1>4. PICK others : others = IF full THEN sv.total ELSE sv.total - sv.headRoom
    OBVIOUS
  <1>5. PICK room : room = IF AtHand(w) - others > MaxFree1Pg /\ id > 1 THEN Amortized(AtHand(w) - others, id)
                           ELSE Max({0, AtHand(w) - others})
    OBVIOUS
  <1>6. PICK u : u = RecPut(w, id, room)
    OBVIOUS
  <1>7. PICK z : z = [sv EXCEPT !.headId = id, !.headRoom = room, !.total = others + room,
                                !.more = IF sv.total > AtHand(w) THEN @ - 1 ELSE @]
    OBVIOUS
  <1>8. Step("save", u, z)
    BY <1>2, <1>3, <1>4, <1>5, <1>6, <1>7 DEF SaveReserve
  <1>9. Saves(w, sv) /\ Numbers /\ DOMAIN sv = SaveFields /\ pc # "idle"
    BY <1>1, Begun DEF Phase
  <1>10. sv.pglast = w.pglast
    BY <1>1, <1>9 DEF Saves, Good, IsTxn
  <1>11. sv.headId \in Nat \ {0} /\ sv.total \in Nat /\ sv.headRoom \in Nat /\ AtHand(w) \in Nat
    BY <1>1, <1>9, <1>10, HeadToReserve
  <1>12. id \in Nat \ {0} /\ AtHand(w) - others \in Int
    <2>1. CASE full
      <3>1. sv.headId > 1 /\ id = sv.headId - 1 /\ others = sv.total
        BY <1>2, <1>3, <1>4, <2>1
      <3> QED BY <1>11, <3>1
    <2>2. CASE ~full
      <3>1. id = sv.headId /\ others = sv.total - sv.headRoom
        BY <1>3, <1>4, <2>2
      <3> QED BY <1>11, <3>1
    <2> QED BY <2>1, <2>2
  <1>13. room \in Nat
    <2> DEFINE n == AtHand(w) - others
    <2>1. n \in Int /\ room = IF n > MaxFree1Pg /\ id > 1 THEN Amortized(n, id) ELSE Max({0, n})
      BY <1>5, <1>12
    <2> HIDE DEF n
    <2> QED BY <1>12, <2>1, RoomType
  <1>14. \/ id = sv.headId - 1 /\ others = sv.total /\ sv.headId > 1
         \/ id = sv.headId /\ others = sv.total - sv.headRoom
    BY <1>2, <1>3, <1>4
  <1>15. /\ DOMAIN z = SaveFields /\ z.headId = id /\ z.headRoom = room /\ z.total = others + room
         /\ z.more = (IF sv.total > AtHand(w) THEN sv.more - 1 ELSE sv.more)
         /\ z.pglast = sv.pglast /\ z.freecnt = sv.freecnt /\ z.at = sv.at
    BY <1>7, <1>9, SMT DEF SaveFields
  <1>16. Stuck(u) \/ Saves(u, z)
    BY <1>1, <1>6, <1>9, <1>10, <1>13, <1>14, <1>15, ReserveGood
  <1> QED BY <1>8, <1>9, <1>15, <1>16, SavesStep

LEMMA LooseTaken ==
  ASSUME NEW t, DOMAIN t = TxnFields, NEW u, u = [WithoutLoose(t) EXCEPT !.pghead = @ \cup ToSet(t.loose)]
  PROVE  Unloosed(t, u, 8)
  <1> DEFINE d == WithoutLoose(t)
  <1>1. /\ DOMAIN d = TxnFields /\ d.got = t.got /\ d.main = t.main /\ d.free = t.free
        /\ d.id = t.id /\ d.next = t.next /\ d.oldest = t.oldest /\ d.pglast = t.pglast
        /\ d.written = t.written /\ d.spill = t.spill /\ d.room = t.room
        /\ d.rc = t.rc /\ d.err = t.err /\ d.loose = <<>>
        /\ d.dirty = [p \in DOMAIN t.dirty \ ToSet(t.loose) |-> t.dirty[p]]
        /\ d.freed = t.freed /\ d.nfreed = t.nfreed /\ d.pghead = t.pghead
    BY SMT DEF WithoutLoose, TxnFields
  <1>2. u = [d EXCEPT !.pghead = @ \cup ToSet(t.loose)]
    OBVIOUS
  <1> HIDE DEF d
  <1>3. /\ DOMAIN u = TxnFields /\ u.got = d.got /\ u.main = d.main /\ u.free = d.free
        /\ u.id = d.id /\ u.next = d.next /\ u.oldest = d.oldest /\ u.pglast = d.pglast
        /\ u.written = d.written /\ u.spill = d.spill /\ u.room = d.room
        /\ u.rc = d.rc /\ u.err = d.err /\ u.loose = d.loose /\ u.dirty = d.dirty
        /\ u.pghead = d.pghead \cup ToSet(t.loose)
        /\ u.freed = d.freed /\ u.nfreed = d.nfreed
    BY <1>1, <1>2, SMT DEF TxnFields
  <1>4. 8 # 7
    OBVIOUS
  <1> QED BY <1>1, <1>3, <1>4 DEF Unloosed

LEMMA SaveReservedInv ==
  ASSUME Inv, SaveReserved
  PROVE  Inv'
  <1>1. pc = "save" /\ ~(sv.pglast < w.pglast) /\ sv.freecnt = w.nfreed
        /\ (sv.total = AtHand(w) \/ sv.total > AtHand(w))
    BY DEF SaveReserved, Reserving, Consumed, Settled
  <1>2. PICK u : u = [WithoutLoose(w) EXCEPT !.pghead = @ \cup ToSet(w.loose)]
    OBVIOUS
  <1>3. PICK z : z = [sv EXCEPT !.left = u.pghead]
    OBVIOUS
  <1>4. Step(IF u.pghead = {} THEN "flush" ELSE "fill", u, z)
    BY <1>2, <1>3 DEF SaveReserved, Save
  <1>5. Saves(w, sv) /\ Numbers /\ DOMAIN sv = SaveFields /\ pc # "idle"
    BY <1>1, Begun DEF Phase
  <1>6. Good(w, Nil) /\ DOMAIN w = TxnFields
    BY <1>5 DEF Saves, Good, IsTxn
  <1>7. sv.pglast = w.pglast
    BY <1>1, <1>5 DEF Saves, Good, IsTxn
  <1>8. Unloosed(w, u, 8)
    BY <1>2, <1>6, LooseTaken
  <1>9. /\ DOMAIN z = SaveFields /\ z.left = u.pghead /\ z.at = sv.at /\ z.freecnt = sv.freecnt /\ z.more = sv.more
    BY <1>3, <1>5, SMT DEF SaveFields
  <1>10. sv.total >= AtHand(w)
    <2>1. AtHand(w) \in Nat
      BY <1>6, AtHandType
    <2>2. sv.total \in Nat
      BY <1>5, FS_CardinalityType DEF Saves
    <2> QED BY <1>1, <2>1, <2>2
  <1>11. Filling(u, u.pghead) /\ (u.pghead # {} => Fills(u, z))
    BY <1>1, <1>5, <1>7, <1>8, <1>9, <1>10, ReservedFills
  <1>12. CASE u.pghead = {}
    <2>1. Step("flush", u, z) /\ Filling(u, {})
      BY <1>4, <1>11, <1>12
    <2> QED BY <1>5, <2>1, FlushStep
  <1>13. CASE u.pghead # {}
    <2>1. Step("fill", u, z) /\ Fills(u, z)
      BY <1>4, <1>11, <1>13
    <2> QED BY <1>5, <1>9, <2>1, FillsStep
  <1> QED BY <1>12, <1>13

LEMMA SaveFillInv ==
  ASSUME Inv, SaveFill
  PROVE  Inv'
  <1>1. pc = "fill"
    BY Zenon DEF SaveFill
  <1>2. Fills(w, sv) /\ Numbers /\ DOMAIN sv = SaveFields /\ pc # "idle"
    BY <1>1, Begun DEF Phase
  <1>3. PICK ids : ids = {i \in DOMAIN w.free.recs : i > sv.at}
    OBVIOUS
  <1>4. PICK id : id = Min(ids)
    OBVIOUS
  <1>5. PICK pgs : pgs = Lowest(sv.left, w.free.recs[id].len)
    OBVIOUS
  <1>6. PICK b : b = RecPut(w, id, Cardinality(pgs))
    OBVIOUS
  <1>7. PICK u : u = IF Ok(b) THEN Refilled(b, id, pgs) ELSE b
    OBVIOUS
  <1>8. PICK z : z = [sv EXCEPT !.left = @ \ pgs, !.at = id]
    OBVIOUS
  <1>9. /\ ids # {} /\ id \in DOMAIN w.free.recs /\ id \in Nat \ {0}
        /\ sv.at < id /\ id <= w.pglast
        /\ \A k \in DOMAIN w.free.recs : sv.at < k => id <= k
    BY <1>2, <1>3, <1>4, NextRecord
  <1>10. Step(IF pgs = sv.left THEN "flush" ELSE "fill", u, z)
    BY Zenon, <1>3, <1>4, <1>5, <1>6, <1>7, <1>8, <1>9 DEF SaveFill, Refilled
  <1>11. /\ DOMAIN z = SaveFields /\ z.left = sv.left \ pgs /\ z.at = id /\ z.freecnt = sv.freecnt /\ z.more = sv.more
    BY <1>2, <1>8, SMT DEF SaveFields
  <1>12. Stuck(u) \/ (Filling(u, sv.left \ pgs) /\ (pgs # sv.left => Fills(u, z)))
    BY <1>2, <1>5, <1>6, <1>7, <1>9, <1>11, FillGood
  <1>13. CASE Stuck(u)
    BY <1>2, <1>10, <1>13, StuckStep
  <1>14. CASE ~Stuck(u) /\ pgs = sv.left
    <2>1. sv.left \ pgs = {}
      BY <1>14
    <2>2. Step("flush", u, z) /\ Filling(u, {})
      BY <1>10, <1>12, <1>14, <2>1
    <2> QED BY <1>2, <2>2, FlushStep
  <1>15. CASE ~Stuck(u) /\ pgs # sv.left
    <2>1. Step("fill", u, z) /\ Fills(u, z)
      BY <1>10, <1>12, <1>15
    <2> QED BY <1>2, <1>11, <2>1, FillsStep
  <1> QED BY <1>13, <1>14, <1>15

LEMMA FlushInv ==
  ASSUME Inv, Flush
  PROVE  Inv'
  <1>1. pc = "flush" /\ (Step("meta", Written(w), NewSave) \/ Step("failed", w, NewSave))
    BY DEF Flush, Written
  <1>2. Filling(w, {}) /\ newest < start.last /\ World /\ Stores /\ pc # "idle"
    BY <1>1, Begun DEF Phase
  <1>3. PICK z : z = [NewSave EXCEPT !.turn = 1 - sv.turn]
    OBVIOUS
  <1>4. DOMAIN z = SaveFields /\ z.freecnt = 0 /\ z.more = 1
    BY <1>3, NewSaveFields, TurnFields
  <1>5. CASE Step("meta", Written(w), NewSave)
    <2>1. PICK t : t = Written(w)
      OBVIOUS
    <2>2. Filling(t, {}) /\ t.dirty = Nil
      BY <1>2, <2>1, Flushed
    <2>3. Ok(t) /\ Good(t, Nil)
      BY <2>2 DEF Filling
    <2>4. pc' = "meta" /\ w' = t /\ sv' = z /\ UNCHANGED <<start, newest, snaps, readers, env>>
      BY <1>3, <1>5, <2>1, <2>3 DEF Step, Goto
    <2>5. Phase("meta", t, z)
      BY <1>2, <1>4, <2>2, <2>3, GoodBare DEF Phase
    <2> QED BY <1>2, <2>4, <2>5, SameEnv, Onward
  <1>6. CASE Step("failed", w, NewSave)
    <2>1. Ok(w) /\ Good(w, Nil)
      BY <1>2 DEF Filling
    <2>2. PICK t : t = w
      OBVIOUS
    <2>3. pc' = "failed" /\ w' = t /\ sv' = z /\ UNCHANGED <<start, newest, snaps, readers, env>>
      BY <1>3, <1>6, <2>1, <2>2 DEF Step, Goto
    <2>4. Phase("failed", t, z)
      BY <1>2, <1>4, <2>1, <2>2, GoodBare DEF Phase
    <2> QED BY <1>2, <2>3, <2>4, SameEnv, Onward
  <1> QED BY <1>1, <1>5, <1>6

LEMMA MetaState ==
  ASSUME Inv, pc = "meta"
  PROVE  /\ Filling(w, {}) /\ Good(w, Nil) /\ w.dirty = Nil /\ w.id = newest + 1 /\ w.id \in Nat
         /\ Tidy(Snapshot(w), w.id) /\ newest < start.last
  <1>1. Filling(w, {}) /\ w.dirty = Nil /\ newest < start.last
    BY Begun DEF Phase
  <1>2. Good(w, Nil)
    BY <1>1 DEF Filling
  <1> QED BY <1>1, <1>2, FilledTidy DEF Good, Counted, IsTxn

LEMMA WriteMetaInv ==
  ASSUME Inv, WriteMeta
  PROVE  Inv'
  <1>1. /\ pc = "meta" /\ newest' = w.id
        /\ snaps' = [i \in Needed(w.id, readers) |-> IF i = w.id THEN Snapshot(w) ELSE snaps[i]]
        /\ pc' = "idle" /\ w' = NoTxn /\ sv' = NewSave
        /\ env' = [env EXCEPT !.oldest = w.oldest]
        /\ start' = start /\ readers' = readers
    BY DEF WriteMeta, EndTxn
  <1>2. /\ Filling(w, {}) /\ Good(w, Nil) /\ w.dirty = Nil /\ w.id = newest + 1 /\ w.id \in Nat
        /\ Tidy(Snapshot(w), w.id) /\ newest < start.last
    BY <1>1, MetaState
  <1>3. World /\ Stores /\ newest \in Nat /\ Referenced \subseteq Nat /\ newest \in Referenced
        /\ \A j \in Referenced : j <= newest
    BY ReferencedType DEF Inv
  <1>4. Referenced' = Needed(w.id, readers)
    BY <1>1 DEF Referenced, Needed
  <1>5. \A j \in Referenced' : j = w.id \/ j \in Referenced
    BY <1>4 DEF Referenced, Needed
  <1>6. Spared(w)
    BY <1>2 DEF Good
  <1>7. PICK s : s = Snapshot(w)
    OBVIOUS
  <1>8. w.id \in Referenced'
    BY <1>4 DEF Needed
  <1>9. \A j \in Referenced' : snaps'[j] = IF j = w.id THEN s ELSE snaps[j]
    BY <1>1, <1>4, <1>7
  <1>10. snaps'[newest'] = s
    BY <1>1, <1>8, <1>9
  <1>11. World'
    <2>1. env'.oldest = w.oldest /\ DOMAIN env' = {"oldest", "fatal"}
      BY <1>1, <1>3, OldestCached
    <2>2. w.oldest \in Nat /\ \A j \in Referenced : w.oldest <= j
      BY <1>1, CachedOldest
    <2>3. \A j \in Referenced' : env'.oldest <= j
      <3>1. w.oldest <= newest /\ newest < w.id
        BY <1>2, <1>3, <2>2
      <3>2. w.oldest <= w.id
        BY <1>2, <1>3, <2>2, <3>1
      <3> QED BY <1>5, <2>1, <2>2, <3>2
    <2>4. readers' \in [Readers -> {None} \cup (0..newest')]
      <3>1. readers \in [Readers -> {None} \cup (0..newest)]
        BY <1>3 DEF World
      <3>2. 0..newest \subseteq 0..newest'
        BY <1>1, <1>2, <1>3
      <3> QED BY <1>1, <3>1, <3>2
    <2>5. newest' \in Nat /\ newest' <= start'.last /\ start' \in Starts
      <3>1. start \in Starts
        BY <1>3 DEF World
      <3>2. start.last \in Nat
        BY <3>1, StartTidy
      <3> QED BY <1>1, <1>2, <1>3, <3>1, <3>2
    <2>6. DOMAIN snaps' = Referenced'
      BY <1>1, <1>4
    <2> QED BY <2>1, <2>2, <2>3, <2>4, <2>5, <2>6 DEF World
  <1>12. s.main = w.main /\ s.free = w.free /\ s.next = w.next
    BY <1>7, SnapshotFields
  <1>13. \A j \in Referenced' :
            /\ Tidy(snaps'[j], j)
            /\ \A x \in UsedPages(snaps'[j]) :
                 /\ x < s.next
                 /\ \A k \in DOMAIN s.free.recs : k <= j => x \notin s.free.recs[k].pgs
    <2> SUFFICES ASSUME NEW j \in Referenced'
                 PROVE  /\ Tidy(snaps'[j], j)
                        /\ \A x \in UsedPages(snaps'[j]) :
                             /\ x < s.next
                             /\ \A k \in DOMAIN s.free.recs : k <= j => x \notin s.free.recs[k].pgs
      OBVIOUS
    <2>1. CASE j = w.id
      <3>1. snaps'[j] = s
        BY <1>9, <2>1
      <3>2. Tidy(s, j)
        BY <1>2, <1>7, <2>1
      <3>3. \A x \in UsedPages(s) : x < s.next
        BY <3>2, TidyPages
      <3>4. \A x \in UsedPages(s) : \A k \in DOMAIN s.free.recs : x \notin s.free.recs[k].pgs
        BY <1>2, <2>1, <3>2, TidyRecords
      <3> QED BY <3>1, <3>2, <3>3, <3>4
    <2>2. CASE j # w.id
      <3>1. snaps'[j] = snaps[j] /\ j \in Referenced
        BY <1>5, <1>9, <2>2
      <3>2. Tidy(snaps[j], j)
        BY <1>3, <3>1 DEF Stores
      <3>3. \A x \in UsedPages(snaps[j]) :
               x < w.next /\ \A k \in DOMAIN w.free.recs : k <= j => x \notin w.free.recs[k].pgs
        BY <1>6, <3>1 DEF Spared
      <3> QED BY <1>12, <3>1, <3>2, <3>3
    <2> QED BY <2>1, <2>2
  <1>14. Stores'
    BY <1>10, <1>13 DEF Stores
  <1>15. Phase(pc, w, sv)'
    <2>1. Phase("idle", NoTxn, NewSave)'
      BY NewSaveFields DEF Phase
    <2> QED BY <1>1, <2>1
  <1> QED BY <1>11, <1>14, <1>15 DEF Inv

-----------------------------------------------------------------------------
(* The invariant of the specification. *)
LEMMA NextInv ==
  ASSUME Inv, [Next]_vars
  PROVE  Inv'
  <1>1. CASE \E r \in Readers : ReaderBegin(r) \/ ReaderEnd(r)
    <2>1. PICK r \in Readers : Read(r, newest) \/ Read(r, None)
      BY <1>1 DEF ReaderBegin, ReaderEnd
    <2> QED BY <2>1, ReadInv
  <1>2. CASE BeginWrite
    BY <1>2, BeginInv
  <1>3. CASE Operate
    BY <1>3, OperateInv
  <1>4. CASE Abort \/ CommitNothing \/ WriteMetaFails
    BY <1>4, AbortInv
  <1>5. CASE Restart
    BY <1>5, RestartInv
  <1>6. CASE SaveBegin
    BY <1>6, SaveBeginInv
  <1>7. CASE SaveStep
    BY <1>7, SaveDeleteInv, SaveOwnInv, SaveReserveInv, SaveReservedInv, SaveFillInv DEF SaveStep
  <1>8. CASE Flush
    BY <1>8, FlushInv
  <1>9. CASE WriteMeta
    BY <1>9, WriteMetaInv
  <1>10. CASE UNCHANGED vars
    <2>1. UNCHANGED <<start, newest, snaps, readers, env, pc, w, sv>>
      BY <1>10 DEF vars
    <2>2. World /\ Stores
      BY DEF Inv
    <2>3. PICK p, t, s : p = pc /\ t = w /\ s = sv
      OBVIOUS
    <2>4. Phase(p, t, s)
      BY <2>3 DEF Inv
    <2> QED BY <2>1, <2>2, <2>3, <2>4, SameEnv, Onward
  <1> QED BY <1>1, <1>2, <1>3, <1>4, <1>5, <1>6, <1>7, <1>8, <1>9, <1>10 DEF Next

(* Inv holds in every state: the transaction has each page in one place,    *)
(* and claims none of a referenced snapshot; every snapshot is tidy.       *)
THEOREM PagesInvariant == Spec => []Inv
  <1>1. Init => Inv
    BY InitInv
  <1>2. Inv /\ [Next]_vars => Inv'
    BY NextInv
  <1> QED BY <1>1, <1>2, PTL DEF Spec

LEMMA IdleTxn ==
  /\ Opened(NoTxn, 0, FirstSnap, 0) /\ NoTxn.next = FirstPage
  /\ Mine(NoTxn) = {} /\ DOMAIN NoTxn.dirty = {} /\ NoTxn.room = DirtyRoom /\ NoTxn.nfreed = 0
  <1>1. Opened(NoTxn, 0, FirstSnap, 0)
    BY NewFields DEF NoTxn
  <1>2. FirstSnap.next = FirstPage
    BY DEF FirstSnap
  <1> QED BY <1>1, <1>2, NothingMine DEF Opened

LEMMA SavFreecnt ==
  ASSUME Inv
  PROVE  sv.more \in {0, 1} /\ sv.freecnt <= w.nfreed
  <1>1. Phase(pc, w, sv)
    BY DEF Inv
  <1>2. CASE pc = "save"
    BY <1>1, <1>2 DEF Phase, Saves
  <1>3. CASE pc = "fill"
    BY <1>1, <1>3 DEF Phase, Fills
  <1>4. CASE pc \notin {"save", "fill"}
    <2>1. sv.freecnt = 0 /\ sv.more = 1
      BY <1>1, <1>4 DEF Phase
    <2>2. w.nfreed \in Nat
      BY <1>1, IdleTxn DEF Phase, Bare
    <2> QED BY <2>1, <2>2
  <1> QED BY <1>2, <1>3, <1>4

LEMMA InvTypeOK ==
  ASSUME Inv
  PROVE  PagesTypeOK
  <1>1. World /\ Phase(pc, w, sv) /\ newest \in Nat /\ newest \in Referenced /\ Referenced \subseteq Nat
    BY ReferencedType DEF Inv
  <1>2. newest \in 0..start.last
    <2>1. start \in Starts /\ newest <= start.last
      BY <1>1 DEF World
    <2>2. start.last \in Nat
      BY <2>1, StartTidy
    <2> QED BY <1>1, <2>1, <2>2
  <1>3. env.oldest <= newest
    BY <1>1 DEF World
  <1>4. pc # "idle" => w.id = newest + 1
    BY <1>1 DEF Phase, Bare
  <1>5. w.next < MaxPg
    <2>1. start \in Starts
      BY <1>1 DEF World
    <2>2. FirstPage < MaxPg
      BY <2>1, StartTidy
    <2> QED BY <1>1, <2>2, IdleTxn DEF Phase, Bare
  <1>6. w.room \in 0..DirtyRoom /\ w.room + Cardinality(DOMAIN w.dirty) <= DirtyRoom
    <2>1. DirtyRoom \in Nat
      BY PagesAssumption
    <2>2. CASE pc = "idle"
      <3>1. w.room = DirtyRoom /\ DOMAIN w.dirty = {}
        BY <1>1, <2>2, IdleTxn DEF Phase
      <3>2. Cardinality({}) = 0
        BY FS_EmptySet
      <3> QED BY <2>1, <3>1, <3>2
    <2>3. CASE pc # "idle"
      <3>1. w.room \in Nat /\ IsFiniteSet(DOMAIN w.dirty) /\ w.room + Cardinality(DOMAIN w.dirty) <= DirtyRoom
        BY <1>1, <2>3 DEF Phase, Bare
      <3>2. Cardinality(DOMAIN w.dirty) \in Nat
        BY <3>1, FS_CardinalityType
      <3> QED BY <2>1, <3>1, <3>2
    <2> QED BY <2>2, <2>3
  <1>7. readers \in [Readers -> {None} \cup (0..newest)] /\ DOMAIN snaps = Referenced
    BY <1>1 DEF World
  <1>8. pc \in {"idle", "ops", "save", "fill", "flush", "meta", "failed"}
    BY <1>1 DEF Phase
  <1> QED BY <1>2, <1>3, <1>4, <1>5, <1>6, <1>7, <1>8, SavFreecnt DEF PagesTypeOK

LEMMA InvSpared ==
  ASSUME Inv
  PROVE  SnapshotsSpared
  <1>1. Phase(pc, w, sv)
    BY DEF Inv
  <1>2. CASE pc = "idle"
    <2>1. Mine(w) = {}
      BY <1>1, <1>2, IdleTxn DEF Phase
    <2> QED BY <2>1 DEF SnapshotsSpared, Mine
  <1>3. CASE pc # "idle"
    <2>1. Bare(w)
      BY <1>1, <1>3 DEF Phase
    <2> QED BY <2>1 DEF SnapshotsSpared, Bare
  <1> QED BY <1>2, <1>3

(* What the shares of a transaction are, by the places of Lives. *)
LEMMA ShareLives ==
  ASSUME NEW t, Good(t, Nil), NEW x
  PROVE  /\ x \in MainPages(t) <=> \E k \in 1..3 : \E i : Lives(t, Nil, k, i, x)
         /\ x \in FreePages(t) <=> \E k \in 4..5 : \E i : Lives(t, Nil, k, i, x)
         /\ x \in t.freed <=> \E k \in {7} : \E i : Lives(t, Nil, k, i, x)
         /\ x \in t.pghead <=> \E k \in {8} : \E i : Lives(t, Nil, k, i, x)
         /\ x \in ToSet(t.loose) <=> \E k \in {9} : \E i : Lives(t, Nil, k, i, x)
         /\ x \in Records(t.free, t.pglast, t.id) <=> \E k \in {10} : \E i : Lives(t, Nil, k, i, x)
  <1>1. /\ \A i : Lives(t, Nil, 7, i, x) <=> i = 0 /\ x \in t.freed
        /\ \A i : Lives(t, Nil, 8, i, x) <=> i = 0 /\ x \in t.pghead
        /\ \A i : Lives(t, Nil, 9, i, x) <=> i = 0 /\ x \in ToSet(t.loose)
        /\ \A i : Lives(t, Nil, 10, i, x) <=>
              i \in DOMAIN t.free.recs /\ t.pglast < i /\ i < t.id /\ x \in t.free.recs[i].pgs
    BY SMT DEF Lives
  <1>2. /\ \A i : Lives(t, Nil, 1, i, x) <=> i = 0 /\ x \in RootOf(t.main)
        /\ \A i : Lives(t, Nil, 2, i, x) <=> i = 0 /\ x \in t.main.leaves
        /\ \A i : Lives(t, Nil, 3, i, x) <=> i \in DOMAIN t.main.big /\ x \in Run(i, t.main.big[i])
    BY SMT DEF Lives
  <1>3. /\ \A i : Lives(t, Nil, 4, i, x) <=> i = 0 /\ x \in RootOf(t.free)
        /\ \A i : Lives(t, Nil, 5, i, x) <=> i \in DOMAIN t.free.recs /\ x \in PagesOf(t.free.recs[i].ov)
    BY SMT DEF Lives
  <1>4. x \in MainPages(t) <=> x \in RootOf(t.main) \/ x \in t.main.leaves
                               \/ \E i \in DOMAIN t.main.big : x \in Run(i, t.main.big[i])
    BY PagesOfMembers DEF MainPages
  <1>5. x \in FreePages(t) <=> x \in RootOf(t.free) \/ \E i \in DOMAIN t.free.recs : x \in PagesOf(t.free.recs[i].ov)
    BY DEF FreePages
  <1>6. x \in Records(t.free, t.pglast, t.id) <=>
           \E i \in DOMAIN t.free.recs : t.pglast < i /\ i < t.id /\ x \in t.free.recs[i].pgs
    BY DEF Records
  <1>7. x \in MainPages(t) <=> \E k \in 1..3 : \E i : Lives(t, Nil, k, i, x)
    <2>1. \A k \in 1..3 : k = 1 \/ k = 2 \/ k = 3
      OBVIOUS
    <2>2. 1 \in 1..3 /\ 2 \in 1..3 /\ 3 \in 1..3
      OBVIOUS
    <2>3. ASSUME x \in MainPages(t) PROVE \E k \in 1..3 : \E i : Lives(t, Nil, k, i, x)
      <3>1. CASE x \in RootOf(t.main)
        BY <1>2, <2>2, <3>1
      <3>2. CASE x \in t.main.leaves
        BY <1>2, <2>2, <3>2
      <3>3. CASE \E i \in DOMAIN t.main.big : x \in Run(i, t.main.big[i])
        BY <1>2, <2>2, <3>3
      <3> QED BY <1>4, <2>3, <3>1, <3>2, <3>3
    <2>4. ASSUME NEW k \in 1..3, NEW i, Lives(t, Nil, k, i, x) PROVE x \in MainPages(t)
      BY <1>2, <1>4, <2>1, <2>4
    <2> QED BY <2>3, <2>4
  <1>8. x \in FreePages(t) <=> \E k \in 4..5 : \E i : Lives(t, Nil, k, i, x)
    <2>1. \A k \in 4..5 : k = 4 \/ k = 5
      OBVIOUS
    <2>2. 4 \in 4..5 /\ 5 \in 4..5
      OBVIOUS
    <2>3. ASSUME x \in FreePages(t) PROVE \E k \in 4..5 : \E i : Lives(t, Nil, k, i, x)
      <3>1. CASE x \in RootOf(t.free)
        BY <1>3, <2>2, <3>1
      <3>2. CASE \E i \in DOMAIN t.free.recs : x \in PagesOf(t.free.recs[i].ov)
        BY <1>3, <2>2, <3>2
      <3> QED BY <1>5, <2>3, <3>1, <3>2
    <2>4. ASSUME NEW k \in 4..5, NEW i, Lives(t, Nil, k, i, x) PROVE x \in FreePages(t)
      BY <1>3, <1>5, <2>1, <2>4
    <2> QED BY <2>3, <2>4
  <1> QED BY <1>1, <1>6, <1>7, <1>8

LEMMA InvGood ==
  ASSUME Inv, pc \in {"ops", "save", "fill", "flush"}, ~w.err
  PROVE  Good(w, Nil)
  <1>1. Phase(pc, w, sv)
    BY DEF Inv
  <1>2. CASE pc = "ops"
    BY <1>1, <1>2 DEF Phase, Ops
  <1>3. CASE pc = "save"
    BY <1>1, <1>3 DEF Phase, Saves
  <1>4. CASE pc = "fill"
    BY <1>1, <1>4 DEF Phase, Fills, Filling
  <1>5. CASE pc = "flush"
    BY <1>1, <1>5 DEF Phase, Filling
  <1> QED BY <1>2, <1>3, <1>4, <1>5

(* The places of a share. *)
Kinds == <<1..3, 4..5, {7}, {8}, {9}, {10}>>

LEMMA KindsApart ==
  /\ DOMAIN Kinds = 1..6
  /\ \A a, b \in 1..6 : \A k : k \in Kinds[a] /\ k \in Kinds[b] => a = b
  /\ \A k \in 1..10 : k # 6 => \E a \in 1..6 : k \in Kinds[a]
  /\ \A a \in 1..6 : Kinds[a] \subseteq (1..10) \ {6}
  <1>1. DOMAIN Kinds = 1..6 /\ Kinds[1] = 1..3 /\ Kinds[2] = 4..5 /\ Kinds[3] = {7} /\ Kinds[4] = {8}
        /\ Kinds[5] = {9} /\ Kinds[6] = {10}
    BY DEF Kinds
  <1>2. \A a \in 1..6 : a = 1 \/ a = 2 \/ a = 3 \/ a = 4 \/ a = 5 \/ a = 6
    OBVIOUS
  <1> HIDE DEF Kinds
  <1>3. ASSUME NEW a \in 1..6, NEW b \in 1..6, NEW k, k \in Kinds[a], k \in Kinds[b] PROVE a = b
    <2>1. \/ k \in 1..3 /\ a = 1
          \/ k \in 4..5 /\ a = 2
          \/ k = 7 /\ a = 3
          \/ k = 8 /\ a = 4
          \/ k = 9 /\ a = 5
          \/ k = 10 /\ a = 6
      BY <1>1, <1>2, <1>3
    <2>2. \/ k \in 1..3 /\ b = 1
          \/ k \in 4..5 /\ b = 2
          \/ k = 7 /\ b = 3
          \/ k = 8 /\ b = 4
          \/ k = 9 /\ b = 5
          \/ k = 10 /\ b = 6
      BY <1>1, <1>2, <1>3
    <2> QED BY <2>1, <2>2
  <1>4. ASSUME NEW k \in 1..10, k # 6 PROVE \E a \in 1..6 : k \in Kinds[a]
    <2>1. k \in 1..3 \/ k \in 4..5 \/ k = 7 \/ k = 8 \/ k = 9 \/ k = 10
      BY <1>4
    <2>2. 1 \in 1..6 /\ 2 \in 1..6 /\ 3 \in 1..6 /\ 4 \in 1..6 /\ 5 \in 1..6 /\ 6 \in 1..6
      OBVIOUS
    <2> QED BY <1>1, <2>1, <2>2
  <1>5. ASSUME NEW a \in 1..6, NEW k \in Kinds[a] PROVE k \in (1..10) \ {6}
    <2>1. k \in 1..3 \/ k \in 4..5 \/ k = 7 \/ k = 8 \/ k = 9 \/ k = 10
      BY <1>1, <1>2, <1>5
    <2> QED BY <2>1
  <1> QED BY <1>1, <1>3, <1>4, <1>5

LEMMA ShareKinds ==
  ASSUME NEW t, Good(t, Nil), NEW x
  PROVE  /\ DOMAIN Shares(t) = 1..6
         /\ \A a \in 1..6 : x \in Shares(t)[a] <=> \E k \in Kinds[a] : \E i : Lives(t, Nil, k, i, x)
  <1> DEFINE S == Shares(t)
  <1>1. DOMAIN Kinds = 1..6 /\ Kinds[1] = 1..3 /\ Kinds[2] = 4..5 /\ Kinds[3] = {7} /\ Kinds[4] = {8}
        /\ Kinds[5] = {9} /\ Kinds[6] = {10}
    BY DEF Kinds
  <1>2. DOMAIN S = 1..6 /\ S[1] = MainPages(t) /\ S[2] = FreePages(t) /\ S[3] = t.freed /\ S[4] = t.pghead
        /\ S[5] = ToSet(t.loose) /\ S[6] = Records(t.free, t.pglast, t.id)
    BY DEF Shares
  <1>3. \A a \in 1..6 : a = 1 \/ a = 2 \/ a = 3 \/ a = 4 \/ a = 5 \/ a = 6
    OBVIOUS
  <1> HIDE DEF S
  <1>4. /\ x \in S[1] <=> \E k \in Kinds[1] : \E i : Lives(t, Nil, k, i, x)
        /\ x \in S[2] <=> \E k \in Kinds[2] : \E i : Lives(t, Nil, k, i, x)
        /\ x \in S[3] <=> \E k \in Kinds[3] : \E i : Lives(t, Nil, k, i, x)
        /\ x \in S[4] <=> \E k \in Kinds[4] : \E i : Lives(t, Nil, k, i, x)
        /\ x \in S[5] <=> \E k \in Kinds[5] : \E i : Lives(t, Nil, k, i, x)
        /\ x \in S[6] <=> \E k \in Kinds[6] : \E i : Lives(t, Nil, k, i, x)
    BY <1>1, <1>2, ShareLives
  <1>5. \A a \in 1..6 : x \in S[a] <=> \E k \in Kinds[a] : \E i : Lives(t, Nil, k, i, x)
    BY <1>3, <1>4
  <1> QED BY <1>2, <1>5 DEF S

LEMMA InvOnce ==
  ASSUME Inv
  PROVE  EveryPageOnce
  <1> SUFFICES ASSUME pc \in {"ops", "save", "fill", "flush"}, ~w.err
               PROVE  /\ Disjoint(Shares(w))
                      /\ UNION ToSet(Shares(w)) = FirstPage..(w.next - 1)
                      /\ w.nfreed = Cardinality(w.freed)
    BY DEF EveryPageOnce
  <1> DEFINE S == Shares(w)
  <1>1. Good(w, Nil) /\ Once(w, Nil) /\ Cover(w, Nil) /\ w.nfreed = Cardinality(w.freed)
    BY InvGood DEF Good, Counted
  <1>2. DOMAIN S = 1..6 /\ \A x : \A a \in 1..6 : x \in S[a] <=> \E k \in Kinds[a] : \E i : Lives(w, Nil, k, i, x)
    BY <1>1, ShareKinds
  <1> HIDE DEF S
  <1>3. Disjoint(S)
    <2> SUFFICES ASSUME NEW a \in 1..6, NEW b \in 1..6, NEW x, x \in S[a], x \in S[b] PROVE a = b
      BY <1>2 DEF Disjoint
    <2>1. PICK k \in Kinds[a] : \E i : Lives(w, Nil, k, i, x)
      BY <1>2
    <2>2. PICK l \in Kinds[b] : \E i : Lives(w, Nil, l, i, x)
      BY <1>2
    <2>3. k = l
      BY <1>1, <2>1, <2>2 DEF Once
    <2> QED BY <2>3, KindsApart
  <1>4. \A x : x \in UNION ToSet(S) <=> \E a \in 1..6 : x \in S[a]
    BY <1>2 DEF ToSet
  <1>5. ASSUME NEW x, NEW a \in 1..6, x \in S[a] PROVE x \in FirstPage..(w.next - 1)
    <2>1. \E k, i : Lives(w, Nil, k, i, x)
      BY <1>2, <1>5
    <2> QED BY <1>1, <2>1 DEF Cover
  <1>6. ASSUME NEW x \in FirstPage..(w.next - 1) PROVE \E a \in 1..6 : x \in S[a]
    <2>1. PICK k, i : Lives(w, Nil, k, i, x)
      BY <1>1 DEF Cover
    <2>2. k \in 1..10 /\ k # 6
      BY <2>1, LivesElsewhere, NilMembers
    <2>3. PICK a \in 1..6 : k \in Kinds[a]
      BY <2>2, KindsApart
    <2> QED BY <1>2, <2>1, <2>3
  <1>7. UNION ToSet(S) = FirstPage..(w.next - 1)
    <2>1. \A x : x \in UNION ToSet(S) <=> x \in FirstPage..(w.next - 1)
      BY <1>4, <1>5, <1>6
    <2> QED BY <2>1
  <1> QED BY <1>1, <1>3, <1>7 DEF S

LEMMA TidyAudit ==
  ASSUME NEW s, NEW id \in Nat, Tidy(s, id),
         NEW listed, listed = UNION {PgsByRecord(s.free)[j] : j \in DOMAIN s.free.recs}
  PROVE  /\ Disjoint(PgsByRecord(s.free))
         /\ listed \cap UsedPages(s) = {}
         /\ listed \cup UsedPages(s) = FirstPage..(s.next - 1)
  <1> DEFINE v == NewTxn(id + 1, s, 0)
             P == PgsByRecord(s.free)
  <1>1. Once(v, Nil) /\ Cover(v, Nil) /\ DOMAIN s.free.recs \subseteq 1..id
    BY DEF Tidy
  <1>2. Opened(v, id + 1, s, 0)
    BY NewFields
  <1>3. DOMAIN P = DOMAIN s.free.recs /\ \A i \in DOMAIN s.free.recs : P[i] = s.free.recs[i].pgs
    BY DEF PgsByRecord
  <1>a. listed = UNION {P[j] : j \in DOMAIN s.free.recs}
    OBVIOUS
  <1> HIDE DEF v, P
  <1>4. NewPlaces(v, s) /\ v.id = id + 1 /\ v.next = s.next
    BY <1>2, NewLives DEF Opened
  <1>5. \A x : x \in listed <=> \E i \in DOMAIN s.free.recs : x \in s.free.recs[i].pgs
    BY <1>a, <1>3
  <1>6. ASSUME NEW i \in DOMAIN s.free.recs, NEW x, x \in s.free.recs[i].pgs PROVE Lives(v, Nil, 10, i, x)
    <2>1. 0 < i /\ i < v.id
      BY <1>1, <1>4
    <2> QED BY <1>4, <1>6, <2>1 DEF NewPlaces
  <1>7. Disjoint(P)
    <2> SUFFICES ASSUME NEW i \in DOMAIN s.free.recs, NEW j \in DOMAIN s.free.recs, NEW x, x \in P[i], x \in P[j]
                 PROVE  i = j
      BY <1>3 DEF Disjoint
    <2>1. Lives(v, Nil, 10, i, x) /\ Lives(v, Nil, 10, j, x)
      BY <1>3, <1>6
    <2> QED BY <1>1, <2>1 DEF Once
  <1>8. \A x : x \in listed => x \notin UsedPages(s)
    BY <1>5, TidyRecords
  <1>9. ASSUME NEW x \in listed \cup UsedPages(s) PROVE x \in FirstPage..(s.next - 1)
    <2>1. CASE x \in UsedPages(s)
      <3>1. PICK k \in 1..5 : \E i : Lives(s, Nil, k, i, x)
        BY <2>1, UsedLives
      <3>2. \E i : Lives(v, Nil, k, i, x)
        BY <1>4, <3>1 DEF NewPlaces
      <3> QED BY <1>1, <1>4, <3>2 DEF Cover
    <2>2. CASE x \in listed
      <3>1. \E i : Lives(v, Nil, 10, i, x)
        BY <1>5, <1>6, <2>2
      <3> QED BY <1>1, <1>4, <3>1 DEF Cover
    <2> QED BY <2>1, <2>2
  <1>10. ASSUME NEW x \in FirstPage..(s.next - 1) PROVE x \in listed \cup UsedPages(s)
    <2>1. PICK k, i : Lives(v, Nil, k, i, x)
      BY <1>1, <1>4 DEF Cover
    <2>2. \/ k \in 1..5 /\ Lives(s, Nil, k, i, x)
          \/ i \in DOMAIN s.free.recs /\ x \in s.free.recs[i].pgs
      BY <1>4, <2>1 DEF NewPlaces
    <2> QED BY <1>5, <2>2, UsedLives
  <1> QED BY <1>7, <1>8, <1>9, <1>10 DEF P

LEMMA InvAudit ==
  ASSUME Inv
  PROVE  SnapshotAudit
  <1> SUFFICES ASSUME NEW i \in Referenced
               PROVE  LET s == snaps[i]
                          listed == UNION {PgsByRecord(s.free)[j] : j \in DOMAIN s.free.recs}
                      IN  /\ Disjoint(PgsByRecord(s.free))
                          /\ listed \cap UsedPages(s) = {}
                          /\ listed \cup UsedPages(s) = FirstPage..(s.next - 1)
    BY DEF SnapshotAudit
  <1>1. Tidy(snaps[i], i) /\ i \in Nat
    BY ReferencedType DEF Inv, Stores
  <1> QED BY <1>1, TidyAudit

LEMMA CommitStep ==
  ASSUME Inv, [Next]_vars
  PROVE  newest' # newest => UsedPages(snaps'[newest']) \ UsedPages(snaps[newest]) \subseteq w.written
  <1>1. CASE WriteMeta
    <2>1. /\ pc = "meta" /\ newest' = w.id
          /\ snaps' = [i \in Needed(w.id, readers) |-> IF i = w.id THEN Snapshot(w) ELSE snaps[i]]
      BY <1>1 DEF WriteMeta
    <2>2. Good(w, Nil) /\ w.dirty = Nil
      BY <2>1, MetaState
    <2>3. snaps'[newest'] = Snapshot(w)
      BY <2>1 DEF Needed
    <2>4. UsedPages(snaps'[newest']) = UsedPages(w)
      <3>1. UsedPages(Snapshot(w)) = UsedPages(w)
        BY SnapshotFields
      <3> QED BY <2>3, <3>1
    <2>5. \A x \in UsedPages(w) : x \in UsedPages(snaps[newest]) \/ x \in w.written
      <3> SUFFICES ASSUME NEW x \in UsedPages(w) PROVE x \in UsedPages(snaps[newest]) \/ x \in w.written
        OBVIOUS
      <3>1. PICK k \in 1..5 : \E i : Lives(w, Nil, k, i, x)
        BY UsedLives
      <3>2. k <= 6
        OBVIOUS
      <3>3. x \in UsedPages(snaps[newest]) \/ x \in PagesOf(w.dirty) \/ x \in w.written
        BY <2>2, <3>1, <3>2 DEF Good, Kept
      <3> QED BY <2>2, <3>3, NilMembers
    <2> QED BY <2>4, <2>5
  <1>2. CASE ~WriteMeta
    <2>1. newest' = newest
      BY Zenon, <1>2 DEF Next, vars, ReaderBegin, ReaderEnd, Read, BeginWrite, Operate, Abort, CommitNothing, Restart,
                  SaveBegin, SaveStep, SaveDelete, SaveOwn, SaveReserve, SaveReserved, Save, SaveFill, Step, Flush,
                  WriteMetaFails
    <2> QED BY <2>1
  <1> QED BY <1>1, <1>2

(* The transaction is the one after the newest commit, the file stays       *)
(* below the end of the map, and the dirty list below MDB_IDL_UM_MAX       *)
(* (mdb_page_alloc, mdb_page_dirty, mdb_page_spill).                       *)
THEOREM PagesType == Spec => []PagesTypeOK
  BY PagesInvariant, InvTypeOK, PTL

(* No page of a snapshot somebody may read, or start from after a crash, is *)
(* dirty or has been written (the rule behind me_pgoldest).                *)
THEOREM SnapshotsAreSpared == Spec => []SnapshotsSpared
  BY PagesInvariant, InvSpared, PTL

(* Each page below the end of the file is in use, freed, at hand, loose or  *)
(* in a record not fetched yet, in one of these and in one place, after    *)
(* every operation and after every step of mdb_freelist_save.              *)
THEOREM PagesUsedOnce == Spec => []EveryPageOnce
  BY PagesInvariant, InvOnce, PTL

(* In every committed snapshot each page is in use or in one record of the  *)
(* freeDB (mdb_audit): none is lost, and none is free and in use.          *)
THEOREM SnapshotsAudited == Spec => []SnapshotAudit
  BY PagesInvariant, InvAudit, PTL

(* Every commit leaves a file that an environment can open with: what       *)
(* StartsAssumption asks of the first one.                                 *)
THEOREM SnapshotsTidy == Spec => [](\A j \in Referenced : Tidy(snaps[j], j))
  <1>1. Inv => \A j \in Referenced : Tidy(snaps[j], j)
    BY DEF Inv, Stores
  <1> QED BY <1>1, PagesInvariant, PTL

(* A commit has written every page its snapshot does not share with the     *)
(* one before (mdb_page_flush, with what mdb_page_spill wrote earlier).    *)
THEOREM CommitsWritten == Spec => CommitWritten
  <1>1. Inv /\ [Next]_vars =>
           [newest' # newest => UsedPages(snaps'[newest']) \ UsedPages(snaps[newest]) \subseteq w.written]_vars
    BY CommitStep
  <1> QED BY <1>1, PagesInvariant, PTL DEF Spec, CommitWritten
=============================================================================
