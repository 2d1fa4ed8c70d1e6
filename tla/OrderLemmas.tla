----------------------------- MODULE OrderLemmas -----------------------------
(***************************************************************************)
(* Facts about sets of numbers and about ranks in a finite order, which    *)
(* the proofs of several modules need.  An order is the set of its pairs:  *)
(* the provers do not instantiate an operator.                             *)
(***************************************************************************)
EXTENDS Naturals, Sequences, FiniteSets, WellFoundedInduction, FiniteSetTheorems, TLAPS

(* A set of natural numbers has a least member: the scan for a free slot,  *)
(* the next key and the position of a record are defined by one.  It also  *)
(* replaces induction: a property of numbers that fails has a least        *)
(* failure.                                                                *)
LEMMA LeastMember ==
  ASSUME NEW S, S \subseteq Nat, S # {}
  PROVE  \E i \in S : \A j \in S : i <= j
  <1> DEFINE R == {p \in Nat \X Nat : p[1] < p[2]}
  <1>1. IsWellFoundedOn(R, Nat)
    BY NatLessThanWellFounded, SMT DEF OpToRel
  <1>2. \A x, y \in Nat : <<y, x>> \in R <=> y < x
    OBVIOUS
  <1> HIDE DEF R
  <1>3. PICK x \in S : \A y \in S : ~(<<y, x>> \in R)
    BY <1>1, WFMin
  <1>4. ASSUME NEW j \in S PROVE x <= j
    <2>1. x \in Nat /\ j \in Nat /\ ~(j < x)
      BY <1>2, <1>3, Zenon
    <2> QED BY <2>1, SMT
  <1> QED BY <1>4
-----------------------------------------------------------------------------
(* R orders the members of S totally and strictly. *)
Orders(R, S) ==
  /\ \A x \in S : <<x, x>> \notin R
  /\ \A x, y, z \in S : <<x, y>> \in R /\ <<y, z>> \in R => <<x, z>> \in R
  /\ \A x, y \in S : x = y \/ <<x, y>> \in R \/ <<y, x>> \in R

Below(R, S, x) == {y \in S : <<y, x>> \in R}
Rank(R, S, x) == Cardinality(Below(R, S, x))

(* The rank of a member: a number below the size of the set, larger for    *)
(* the larger member, so that no two members share one.                    *)
LEMMA RankInside ==
  ASSUME NEW S, IsFiniteSet(S), NEW R, Orders(R, S), NEW x \in S
  PROVE  Rank(R, S, x) \in Nat /\ Rank(R, S, x) < Cardinality(S)
  <1>1. Below(R, S, x) \in SUBSET S /\ x \notin Below(R, S, x)
    BY DEF Below, Orders
  <1>2. /\ IsFiniteSet(Below(R, S, x)) /\ Cardinality(Below(R, S, x)) <= Cardinality(S)
        /\ Cardinality(S) # Cardinality(Below(R, S, x))
    BY <1>1, FS_Subset
  <1>3. Cardinality(Below(R, S, x)) \in Nat /\ Cardinality(S) \in Nat
    BY <1>2, FS_CardinalityType
  <1> QED BY <1>2, <1>3 DEF Rank

LEMMA RankGrows ==
  ASSUME NEW S, IsFiniteSet(S), NEW R, Orders(R, S), NEW x \in S, NEW y \in S, <<x, y>> \in R
  PROVE  Rank(R, S, x) < Rank(R, S, y)
  <1>1. Below(R, S, x) \in SUBSET Below(R, S, y)
    BY DEF Below, Orders
  <1>2. x \in Below(R, S, y) /\ x \notin Below(R, S, x)
    BY DEF Below, Orders
  <1>3. IsFiniteSet(Below(R, S, y))
    <2>1. Below(R, S, y) \in SUBSET S
      BY DEF Below
    <2> QED BY <2>1, FS_Subset
  <1>4. /\ IsFiniteSet(Below(R, S, x)) /\ Cardinality(Below(R, S, x)) <= Cardinality(Below(R, S, y))
        /\ Cardinality(Below(R, S, x)) # Cardinality(Below(R, S, y))
    BY <1>1, <1>2, <1>3, FS_Subset
  <1>5. Cardinality(Below(R, S, x)) \in Nat /\ Cardinality(Below(R, S, y)) \in Nat
    BY <1>3, <1>4, FS_CardinalityType
  <1> QED BY <1>4, <1>5 DEF Rank

LEMMA RankTells ==
  ASSUME NEW S, IsFiniteSet(S), NEW R, Orders(R, S), NEW x \in S, NEW y \in S,
         Rank(R, S, x) = Rank(R, S, y)
  PROVE  x = y
  <1>1. Rank(R, S, x) \in Nat
    BY RankInside
  <1>2. <<x, y>> \notin R /\ <<y, x>> \notin R
    <2>1. CASE <<x, y>> \in R
      BY <1>1, <2>1, RankGrows
    <2>2. CASE <<y, x>> \in R
      BY <1>1, <2>2, RankGrows
    <2> QED BY <2>1, <2>2
  <1> QED BY <1>2 DEF Orders

(* Every number below the size of the set is somebody's rank.              *)
LEMMA RankTaken ==
  ASSUME NEW S, IsFiniteSet(S), NEW R, Orders(R, S), NEW n \in Nat, n < Cardinality(S)
  PROVE  \E x \in S : Rank(R, S, x) = n
  <1> DEFINE N == Cardinality(S)
             f == [x \in S |-> Rank(R, S, x)]
  <1>1. N \in Nat
    BY FS_CardinalityType
  <1>2. IsFiniteSet(0..(N - 1)) /\ Cardinality(0..(N - 1)) = N
    <2>1. 0 \in Int /\ N - 1 \in Int
      BY <1>1
    <2>2. /\ IsFiniteSet(0..(N - 1))
          /\ Cardinality(0..(N - 1)) = IF 0 > N - 1 THEN 0 ELSE (N - 1) - 0 + 1
      BY <2>1, FS_Interval
    <2> HIDE DEF N
    <2> QED BY <1>1, <2>2
  <1>3. f \in [S -> 0..(N - 1)]
    <2>1. \A x \in S : Rank(R, S, x) \in Nat /\ Rank(R, S, x) < N
      BY RankInside
    <2> HIDE DEF N
    <2> QED BY <1>1, <2>1
  <1>4. \A x, y \in S : f[x] = f[y] => x = y
    BY RankTells
  <1> HIDE DEF f
  <1>5. f \in Injection(S, 0..(N - 1))
    BY <1>3, <1>4 DEF Injection, IsInjective
  <1>6. f \in Surjection(S, 0..(N - 1))
    BY <1>2, <1>5, FS_Injection
  <1>7. n \in 0..(N - 1)
    BY <1>1
  <1>8. PICK x \in S : f[x] = n
    BY <1>6, <1>7 DEF Surjection
  <1> QED BY <1>8 DEF f

-----------------------------------------------------------------------------
(* The members of S in the order R. *)
Listed(R, S) == [i \in 1..Cardinality(S) |-> CHOOSE x \in S : Rank(R, S, x) = i - 1]

(* A list holds every member once, at the place its rank gives it.         *)
LEMMA ListedByRank ==
  ASSUME NEW S, IsFiniteSet(S), NEW R, Orders(R, S)
  PROVE  /\ Cardinality(S) \in Nat /\ DOMAIN Listed(R, S) = 1..Cardinality(S)
         /\ Listed(R, S) \in Seq(S) /\ Len(Listed(R, S)) = Cardinality(S)
         /\ \A x \in S : /\ Rank(R, S, x) + 1 \in 1..Cardinality(S)
                          /\ Listed(R, S)[Rank(R, S, x) + 1] = x
         /\ \A i \in 1..Cardinality(S) : /\ Listed(R, S)[i] \in S
                                          /\ Rank(R, S, Listed(R, S)[i]) = i - 1
  <1> DEFINE N == Cardinality(S)
  <1>1. N \in Nat
    BY FS_CardinalityType
  <1>2. DOMAIN Listed(R, S) = 1..N
    BY DEF Listed
  <1>3. ASSUME NEW i \in 1..N
        PROVE  Listed(R, S)[i] \in S /\ Rank(R, S, Listed(R, S)[i]) = i - 1
    <2>1. i - 1 \in Nat /\ i - 1 < N
      BY <1>1
    <2>2. \E x \in S : Rank(R, S, x) = i - 1
      BY <2>1, RankTaken
    <2>3. Listed(R, S)[i] = CHOOSE x \in S : Rank(R, S, x) = i - 1
      BY DEF Listed
    <2> QED BY <2>2, <2>3
  <1>4. ASSUME NEW x \in S
        PROVE  Rank(R, S, x) + 1 \in 1..N /\ Listed(R, S)[Rank(R, S, x) + 1] = x
    <2>1. Rank(R, S, x) \in Nat /\ Rank(R, S, x) < N
      BY RankInside
    <2>2. Rank(R, S, x) + 1 \in 1..N /\ (Rank(R, S, x) + 1) - 1 = Rank(R, S, x)
      BY <1>1, <2>1
    <2>3. /\ Listed(R, S)[Rank(R, S, x) + 1] \in S
          /\ Rank(R, S, Listed(R, S)[Rank(R, S, x) + 1]) = Rank(R, S, x)
      BY <1>3, <2>2
    <2> QED BY <2>2, <2>3, RankTells
  <1>5. Listed(R, S) \in Seq(S) /\ Len(Listed(R, S)) = N
    <2>1. Listed(R, S) = [i \in 1..N |-> Listed(R, S)[i]]
      BY DEF Listed
    <2> HIDE DEF N
    <2> QED BY <1>1, <1>2, <1>3, <2>1
  <1> QED BY <1>1, <1>2, <1>3, <1>4, <1>5

(* Of two sets in step, member for member and in order, so are the lists.  *)
LEMMA ListedInStep ==
  ASSUME NEW S, IsFiniteSet(S), NEW R, Orders(R, S),
         NEW T, NEW Q, NEW f \in [S -> T],
         \A t \in T : \E x \in S : f[x] = t,
         \A x, y \in S : <<f[x], f[y]>> \in Q <=> <<x, y>> \in R,
         \A x, y \in S : f[x] = f[y] => x = y
  PROVE  /\ IsFiniteSet(T) /\ Orders(Q, T) /\ Cardinality(T) = Cardinality(S)
         /\ \A i \in 1..Cardinality(S) : Listed(Q, T)[i] = f[Listed(R, S)[i]]
  <1>1. ASSUME NEW A \in SUBSET S, NEW B \in SUBSET T, \A x \in S : x \in A <=> f[x] \in B
        PROVE  IsFiniteSet(B) /\ Cardinality(B) = Cardinality(A)
    <2> DEFINE g == [x \in A |-> f[x]]
    <2>1. g \in [A -> B]
      BY <1>1
    <2>2. \A t \in B : \E x \in A : g[x] = t
      BY <1>1
    <2>3. \A x, y \in A : g[x] = g[y] => x = y
      BY <1>1
    <2> HIDE DEF g
    <2>4. g \in Bijection(A, B)
      BY <2>1, <2>2, <2>3 DEF Bijection, Injection, Surjection, IsInjective
    <2>5. IsFiniteSet(A)
      BY FS_Subset
    <2> QED BY <2>4, <2>5, FS_Bijection DEF ExistsBijection
  <1>2. IsFiniteSet(T) /\ Cardinality(T) = Cardinality(S)
    BY <1>1
  <1>3. Orders(Q, T)
    <2> SUFFICES ASSUME NEW t \in T, NEW u \in T, NEW v \in T
                 PROVE  /\ <<t, t>> \notin Q
                        /\ <<t, u>> \in Q /\ <<u, v>> \in Q => <<t, v>> \in Q
                        /\ t = u \/ <<t, u>> \in Q \/ <<u, t>> \in Q
      BY DEF Orders
    <2>1. PICK x \in S, y \in S, z \in S : f[x] = t /\ f[y] = u /\ f[z] = v
      OBVIOUS
    <2>2. /\ <<x, x>> \notin R
          /\ <<x, y>> \in R /\ <<y, z>> \in R => <<x, z>> \in R
          /\ x = y \/ <<x, y>> \in R \/ <<y, x>> \in R
      BY DEF Orders
    <2>3. /\ <<t, t>> \in Q <=> <<x, x>> \in R
          /\ <<t, u>> \in Q <=> <<x, y>> \in R
          /\ <<u, t>> \in Q <=> <<y, x>> \in R
          /\ <<u, v>> \in Q <=> <<y, z>> \in R
          /\ <<t, v>> \in Q <=> <<x, z>> \in R
      BY <2>1
    <2> QED BY <2>1, <2>2, <2>3
  <1>4. ASSUME NEW x \in S PROVE Rank(Q, T, f[x]) = Rank(R, S, x)
    <2>1. /\ Below(R, S, x) \in SUBSET S /\ Below(Q, T, f[x]) \in SUBSET T
          /\ \A y \in S : y \in Below(R, S, x) <=> f[y] \in Below(Q, T, f[x])
      BY DEF Below
    <2> QED BY <1>1, <2>1 DEF Rank
  <1>5. ASSUME NEW i \in 1..Cardinality(S) PROVE Listed(Q, T)[i] = f[Listed(R, S)[i]]
    <2>1. Listed(R, S)[i] \in S /\ Rank(R, S, Listed(R, S)[i]) = i - 1
      BY ListedByRank
    <2>2. Listed(Q, T)[i] \in T /\ Rank(Q, T, Listed(Q, T)[i]) = i - 1
      BY <1>2, <1>3, ListedByRank
    <2>3. f[Listed(R, S)[i]] \in T /\ Rank(Q, T, f[Listed(R, S)[i]]) = i - 1
      BY <1>4, <2>1
    <2> QED BY <1>2, <1>3, <2>2, <2>3, RankTells
  <1> QED BY <1>2, <1>3, <1>5

=============================================================================
