---------------------------- MODULE StrideProofs ----------------------------
(***************************************************************************)
(* The stride scheduler keeps its skew heap, picks a process that none is  *)
(* behind, and gives each process its share, for every set of processes    *)
(* and every size of the circle of strides: proofs about modules Stride,   *)
(* StrideWatched and StrideShare.                                          *)
(***************************************************************************)
EXTENDS StrideWatched, FiniteSetTheorems, NaturalsInduction, WellFoundedInduction, TLAPS

-----------------------------------------------------------------------------
(***************************************************************************)
(* Recursion and induction by a rank.                                      *)
(***************************************************************************)
\* A nonempty set of numbers has a least one.
LEMMA LeastNumber ==
  ASSUME NEW S \in SUBSET Nat, S # {}
  PROVE  \E x \in S : \A y \in S : x <= y
<1>1. IsWellFoundedOn(OpToRel(<, Nat), Nat)
  BY NatLessThanWellFounded
<1>2. PICK R : IsWellFoundedOn(R, Nat) /\ R = {ss \in Nat \X Nat : ss[1] < ss[2]}
  BY <1>1 DEF OpToRel
<1>3. PICK x \in S : \A y \in S : <<y, x>> \notin R
  BY <1>2, WFMin
<1>4. ASSUME NEW y \in S PROVE x <= y
  <2>1. x \in Nat /\ y \in Nat /\ <<y, x>> \notin R
    BY <1>3
  <2>2. ~ (y < x)
    BY <1>2, <2>1
  <2> QED BY <2>1, <2>2
<1> QED BY <1>4

\* What holds of a member of D if it holds of all with a lower rank, holds of all.
LEMMA RankInduction ==
  ASSUME NEW D, NEW rank \in [D -> Nat], NEW P,
         \A x \in D : (\A y \in D : rank[y] < rank[x] => y \in P) => x \in P
  PROVE  D \subseteq P
<1> SUFFICES ASSUME D \ P # {} PROVE FALSE
  OBVIOUS
<1> DEFINE S == {rank[x] : x \in D \ P}
<1>1. S \in SUBSET Nat /\ S # {}
  OBVIOUS
<1>2. PICK n \in S : \A m \in S : n <= m
  <2> HIDE DEF S
  <2> QED BY <1>1, LeastNumber
<1>3. PICK x \in D \ P : n = rank[x]
  BY <1>2
<1>4. ASSUME NEW y \in D, rank[y] < rank[x], y \notin P PROVE FALSE
  <2>1. rank[y] \in S
    BY <1>4
  <2>2. rank[x] <= rank[y] /\ rank[x] \in Nat /\ rank[y] \in Nat
    BY <1>2, <1>3, <2>1
  <2> QED BY <1>4, <2>2
<1> QED BY <1>3, <1>4

\* The bodies of the recursive functions of module Stride: what each gives for x, where
\* g is the function itself.
Body(kind, s, x, g) ==
  CASE kind = "trees" -> IF x = 0 THEN {Nil} ELSE {Nil} \cup g[x - 1] \X Proc \X g[x - 1]
    [] kind = "merge" ->
         IF x[1] = Nil THEN x[2]
         ELSE IF x[2] = Nil THEN x[1]
         ELSE IF Behind(s, x[1][2], x[2][2])
         THEN <<g[<<x[1][3], x[2]>>], x[1][2], x[1][1]>>
         ELSE <<g[<<x[1], x[2][3]>>], x[2][2], x[2][1]>>
    [] kind = "nodes" -> IF x = Nil THEN {} ELSE {x} \cup g[x[1]] \cup g[x[3]]
    [] kind = "listed" -> IF x = Nil THEN <<>> ELSE g[x[1]] \o <<x[2]>> \o g[x[3]]
    [] kind = "heap" ->
         IF x = {} THEN Nil
         ELSE LET p == CHOOSE p \in x : TRUE
              IN  skew_heap_insert(s, g[x \ {p}], p)

\* g is the recursive function on D with one of these bodies.
Solves(kind, s, D, g) == g = [x \in D |-> Body(kind, s, x, g)]

\* There is one, if what it gives for x depends on what it gives for a lower rank only.
LEMMA RecursionExists ==
  ASSUME NEW kind, NEW s, NEW D, NEW rank \in [D -> Nat], NEW K \in Nat,
         \A x \in D : rank[x] < K,
         \A x \in D : \A g, h :
           (\A y \in D : rank[y] < rank[x] => g[y] = h[y])
             => Body(kind, s, x, g) = Body(kind, s, x, h)
  PROVE  \E g : Solves(kind, s, D, g)
<1> DEFINE Low(k) == {x \in D : rank[x] < k}
           Solved == {k \in Nat : \E g : Solves(kind, s, Low(k), g)}
<1>1. 0 \in Solved
  <2>1. Low(0) = {}
    OBVIOUS
  <2> DEFINE g == [x \in Low(0) |-> 0]
  <2>2. Solves(kind, s, Low(0), g)
    <3> HIDE DEF Low
    <3> QED BY <2>1 DEF Solves
  <2> QED BY <2>2
<1>2. ASSUME NEW k \in Nat, k \in Solved PROVE k + 1 \in Solved
  <2>1. PICK h : Solves(kind, s, Low(k), h)
    BY <1>2
  <2> DEFINE g == [x \in Low(k + 1) |-> IF x \in Low(k) THEN h[x] ELSE Body(kind, s, x, h)]
  <2>2. \A x \in Low(k + 1) : \A y \in D : rank[y] < rank[x] => y \in Low(k) /\ y \in Low(k + 1)
    OBVIOUS
  <2>3. \A x \in Low(k) : x \in Low(k + 1) /\ x \in D
    OBVIOUS
  <2>4. \A x \in Low(k + 1) : x \in D
    OBVIOUS
  <2>5. \A x \in Low(k) : h[x] = Body(kind, s, x, h)
    <3> HIDE DEF Low
    <3> QED BY <2>1 DEF Solves
  <2>6. \A x \in Low(k + 1) : g[x] = Body(kind, s, x, h)
    <3> HIDE DEF Low
    <3> QED BY <2>5
  <2>7. \A x \in Low(k) : g[x] = h[x]
    <3> HIDE DEF Low
    <3> QED BY <2>3
  <2>8. DOMAIN g = Low(k + 1) /\ g = [x \in DOMAIN g |-> g[x]]
    OBVIOUS
  <2> HIDE DEF g, Low
  <2>9. \A x \in Low(k + 1) : Body(kind, s, x, h) = Body(kind, s, x, g)
    <3> TAKE x \in Low(k + 1)
    <3>1. x \in D /\ \A y \in D : rank[y] < rank[x] => h[y] = g[y]
      BY <2>2, <2>4, <2>7
    <3> QED BY <3>1
  <2>10. Solves(kind, s, Low(k + 1), g)
    BY <2>6, <2>8, <2>9 DEF Solves
  <2> QED BY <2>10
<1> HIDE DEF Solved
<1>3. Nat \subseteq Solved
  <2> DEFINE r == [n \in Nat |-> n]
  <2>1. r \in [Nat -> Nat] /\ \A n \in Nat : r[n] = n
    OBVIOUS
  <2> HIDE DEF r
  <2>2. ASSUME NEW n \in Nat, \A m \in Nat : r[m] < r[n] => m \in Solved PROVE n \in Solved
    <3>1. CASE n = 0
      BY <1>1, <3>1
    <3>2. CASE n # 0
      <4>1. n - 1 \in Nat /\ n - 1 < n /\ (n - 1) + 1 = n
        BY <3>2
      <4>2. n - 1 \in Solved
        BY <2>1, <2>2, <4>1
      <4> QED BY <1>2, <4>1, <4>2
    <3> QED BY <3>1, <3>2
  <2> QED BY <2>1, <2>2, RankInduction
<1>4. Low(K) = D
  OBVIOUS
<1>5. K \in Solved
  BY <1>3
<1> QED BY <1>4, <1>5 DEF Solved

-----------------------------------------------------------------------------
(***************************************************************************)
(* Trees.                                                                  *)
(***************************************************************************)
N == Cardinality(Proc)

LEMMA ProcsFinite == N \in Nat /\ IsFiniteSet(Proc)
BY StrideAssumption, FS_CardinalityType DEF N

LEMMA TreesAre ==
  \A n \in 0..N : Trees[n] = IF n = 0 THEN {Nil}
                             ELSE {Nil} \cup Trees[n - 1] \X Proc \X Trees[n - 1]
<1> DEFINE D == 0..N
           rank == [n \in D |-> n]
           Eq(g) == g = [n \in D |-> IF n = 0 THEN {Nil} ELSE {Nil} \cup g[n - 1] \X Proc \X g[n - 1]]
           T == CHOOSE g : Eq(g)
<1>1. rank \in [D -> Nat] /\ N + 1 \in Nat /\ \A n \in D : rank[n] = n /\ rank[n] < N + 1
  BY ProcsFinite
<1>2. \A n \in D : \A g, h :
        (\A m \in D : rank[m] < rank[n] => g[m] = h[m]) => Body("trees", 0, n, g) = Body("trees", 0, n, h)
  <2> SUFFICES ASSUME NEW n \in D, NEW g, NEW h, \A m \in D : rank[m] < rank[n] => g[m] = h[m]
               PROVE  Body("trees", 0, n, g) = Body("trees", 0, n, h)
    OBVIOUS
  <2>1. CASE n = 0
    BY <2>1 DEF Body
  <2>2. CASE n # 0
    <3>1. n - 1 \in D /\ n - 1 < n
      BY <2>2, ProcsFinite
    <3>2. rank[n - 1] = n - 1 /\ rank[n] = n
      BY <1>1, <3>1
    <3> HIDE DEF rank
    <3>3. g[n - 1] = h[n - 1]
      BY <3>1, <3>2
    <3> QED BY <2>2, <3>3 DEF Body
  <2> QED BY <2>1, <2>2
<1>3. \E g : Solves("trees", 0, D, g)
  <2> HIDE DEF D, rank
  <2> QED BY <1>1, <1>2, RecursionExists
<1>4. ASSUME NEW g PROVE Solves("trees", 0, D, g) <=> Eq(g)
  BY DEF Solves, Body
<1> HIDE DEF Eq
<1>5. \E g : Eq(g)
  BY <1>3, <1>4
<1>6. Eq(T)
  BY ONLY <1>5
<1>7. Trees = T
  BY DEF Trees, Eq, T, N
<1> HIDE DEF T
<1> QED BY <1>6, <1>7 DEF Eq

\* The parts of a tree.
LEMMA TreeParts ==
  ASSUME NEW n \in 0..N, NEW t \in Trees[n], t # Nil
  PROVE  /\ n # 0 /\ n - 1 \in 0..N
         /\ t = <<t[1], t[2], t[3]>>
         /\ t[1] \in Trees[n - 1] /\ t[2] \in Proc /\ t[3] \in Trees[n - 1]
<1>1. n # 0
  BY TreesAre
<1>2. n - 1 \in 0..N
  BY <1>1, ProcsFinite
<1>3. t \in Trees[n - 1] \X Proc \X Trees[n - 1]
  BY <1>1, TreesAre
<1> QED BY <1>1, <1>2, <1>3

LEMMA TreeMade ==
  ASSUME NEW n \in 0..N, n # N, NEW l \in Trees[n], NEW r \in Trees[n], NEW p \in Proc
  PROVE  n + 1 \in 0..N /\ <<l, p, r>> \in Trees[n + 1] /\ <<l, p, r>> # Nil
<1>1. n + 1 \in 0..N /\ n + 1 # 0 /\ (n + 1) - 1 = n
  BY ProcsFinite
<1>2. <<l, p, r>> \in Trees[n] \X Proc \X Trees[n]
  OBVIOUS
<1>3. Trees[n + 1] = {Nil} \cup Trees[n] \X Proc \X Trees[n]
  BY <1>1, TreesAre
<1>4. <<l, p, r>> # Nil
  BY DEF Nil
<1> QED BY <1>1, <1>2, <1>3, <1>4

LEMMA NilTree == \A n \in 0..N : Nil \in Trees[n]
BY TreesAre

\* A tree of up to n levels is one of up to n + 1.
LEMMA TreesGrow == \A m, n \in 0..N : m <= n => Trees[m] \subseteq Trees[n]
<1> DEFINE P == {n \in 0..N : \A m \in 0..N : m <= n => Trees[m] \subseteq Trees[n]}
           rank == [n \in 0..N |-> n]
<1>1. rank \in [0..N -> Nat] /\ \A n \in 0..N : rank[n] = n
  BY ProcsFinite
<1>2. ASSUME NEW n \in 0..N, \A m \in 0..N : m < n => m \in P
      PROVE  n \in P
  <2> SUFFICES ASSUME NEW m \in 0..N, m <= n, NEW t \in Trees[m], t # Nil PROVE t \in Trees[n]
    BY NilTree
  <2>1. /\ m # 0 /\ m - 1 \in 0..N /\ t = <<t[1], t[2], t[3]>>
        /\ t[1] \in Trees[m - 1] /\ t[2] \in Proc /\ t[3] \in Trees[m - 1]
    BY TreeParts
  <2>2. n - 1 \in 0..N /\ n - 1 < n /\ m - 1 <= n - 1 /\ n - 1 # N /\ (n - 1) + 1 = n
    BY <2>1, ProcsFinite
  <2>3. Trees[m - 1] \subseteq Trees[n - 1]
    BY <1>2, <2>1, <2>2
  <2>4. <<t[1], t[2], t[3]>> \in Trees[(n - 1) + 1]
    BY <2>1, <2>2, <2>3, TreeMade
  <2> QED BY <2>1, <2>2, <2>4
<1> HIDE DEF P, rank
<1>3. 0..N \subseteq P
  <2>1. ASSUME NEW n \in 0..N, \A m \in 0..N : rank[m] < rank[n] => m \in P
        PROVE  n \in P
    <3>1. \A m \in 0..N : m < n => m \in P
      BY <1>1, <2>1
    <3> QED BY <1>2, <3>1
  <2> DEFINE D == 0..N
  <2>2. rank \in [D -> Nat] /\ \A n \in D : (\A m \in D : rank[m] < rank[n] => m \in P) => n \in P
    BY <1>1, <2>1
  <2> HIDE DEF D
  <2>3. D \subseteq P
    BY <2>2, RankInduction
  <2> QED BY <2>3 DEF D
<1> QED BY <1>3 DEF P

\* How many levels a tree has.
Level(t) == CHOOSE n \in 0..N : t \in Trees[n] /\ \A m \in 0..N : t \in Trees[m] => n <= m

LEMMA LevelIs ==
  ASSUME NEW n \in 0..N, NEW t \in Trees[n]
  PROVE  Level(t) \in 0..N /\ t \in Trees[Level(t)] /\ Level(t) <= n
<1> DEFINE S == {m \in 0..N : t \in Trees[m]}
<1>1. S \in SUBSET Nat /\ n \in S
  BY ProcsFinite
<1>2. PICK m \in S : \A k \in S : m <= k
  <2> HIDE DEF S
  <2> QED BY <1>1, LeastNumber
<1>3. \E k \in 0..N : t \in Trees[k] /\ \A j \in 0..N : t \in Trees[j] => k <= j
  BY <1>2
<1>4. Level(t) \in 0..N /\ t \in Trees[Level(t)] /\ \A j \in 0..N : t \in Trees[j] => Level(t) <= j
  BY <1>3 DEF Level
<1> QED BY <1>4

LEMMA InTree == /\ N \in 0..N /\ Tree = Trees[N] /\ Nil \in Tree
                /\ \A n \in 0..N : Trees[n] \subseteq Tree
<1>1. N \in 0..N /\ Tree = Trees[N]
  BY ProcsFinite DEF Tree, N
<1> QED BY <1>1, NilTree, TreesGrow

LEMMA LevelOfParts ==
  ASSUME NEW t \in Tree
  PROVE  /\ Level(t) \in 0..N
         /\ t # Nil => /\ t = <<t[1], t[2], t[3]>>
                       /\ t[1] \in Tree /\ t[2] \in Proc /\ t[3] \in Tree
                       /\ Level(t[1]) < Level(t) /\ Level(t[3]) < Level(t)
<1>1. Level(t) \in 0..N /\ t \in Trees[Level(t)]
  BY InTree, LevelIs
<1>2. ASSUME t # Nil
      PROVE  /\ t = <<t[1], t[2], t[3]>>
             /\ t[1] \in Tree /\ t[2] \in Proc /\ t[3] \in Tree
             /\ Level(t[1]) < Level(t) /\ Level(t[3]) < Level(t)
  <2> DEFINE n == Level(t) - 1
  <2>1. /\ n \in 0..N /\ t = <<t[1], t[2], t[3]>>
        /\ t[1] \in Trees[n] /\ t[2] \in Proc /\ t[3] \in Trees[n]
    BY <1>1, <1>2, TreeParts
  <2>2. n < Level(t)
    BY <1>1
  <2> HIDE DEF n
  <2>3. Level(t[1]) <= n /\ Level(t[3]) <= n /\ Level(t[1]) \in 0..N /\ Level(t[3]) \in 0..N
    BY <2>1, LevelIs
  <2>4. t[1] \in Tree /\ t[3] \in Tree
    BY <2>1, InTree
  <2>5. Level(t[1]) < Level(t) /\ Level(t[3]) < Level(t)
    BY <1>1, <2>1, <2>2, <2>3
  <2> QED BY <2>1, <2>4, <2>5
<1> QED BY <1>1, <1>2

\* Induction over trees.
LEMMA TreeInduction ==
  ASSUME NEW P, Nil \in P,
         \A t \in Tree : t # Nil /\ t[1] \in P /\ t[3] \in P => t \in P
  PROVE  Tree \subseteq P
<1> DEFINE rank == [t \in Tree |-> Level(t)]
<1>1. rank \in [Tree -> Nat] /\ \A t \in Tree : rank[t] = Level(t)
  <2>1. \A t \in Tree : Level(t) \in Nat
    BY LevelOfParts, ProcsFinite
  <2> QED BY <2>1
<1> HIDE DEF rank
<1>2. ASSUME NEW t \in Tree, \A u \in Tree : rank[u] < rank[t] => u \in P PROVE t \in P
  <2>1. CASE t # Nil
    <3>1. t[1] \in Tree /\ t[3] \in Tree /\ rank[t[1]] < rank[t] /\ rank[t[3]] < rank[t]
      BY <1>1, <2>1, LevelOfParts
    <3> QED BY <1>2, <2>1, <3>1
  <2> QED BY <2>1
<1> QED BY <1>1, <1>2, RankInduction

\* Induction over pairs of trees that are merged.
LEMMA PairInduction ==
  ASSUME NEW P, \A t \in Tree : <<Nil, t>> \in P /\ <<t, Nil>> \in P,
         \A a, b \in Tree : a # Nil /\ b # Nil /\ <<a[3], b>> \in P /\ <<a, b[3]>> \in P
                              => <<a, b>> \in P
  PROVE  \A a, b \in Tree : <<a, b>> \in P
<1> DEFINE D == Tree \X Tree
           rank == [t \in D |-> Level(t[1]) + Level(t[2])]
<1>1. rank \in [D -> Nat] /\ \A a, b \in Tree : rank[<<a, b>>] = Level(a) + Level(b)
  <2>1. \A t \in Tree : Level(t) \in Nat
    BY LevelOfParts, ProcsFinite
  <2>2. \A t \in D : t[1] \in Tree /\ t[2] \in Tree
    OBVIOUS
  <2>3. \A t \in D : Level(t[1]) + Level(t[2]) \in Nat
    BY <2>1, <2>2
  <2>4. \A a, b \in Tree : <<a, b>> \in D
    OBVIOUS
  <2> QED BY <2>3, <2>4
<1> HIDE DEF rank
<1>2. ASSUME NEW t \in D, \A u \in D : rank[u] < rank[t] => u \in P PROVE t \in P
  <2>1. PICK a \in Tree, b \in Tree : t = <<a, b>>
    OBVIOUS
  <2>2. CASE a # Nil /\ b # Nil
    <3>1. /\ a[3] \in Tree /\ b[3] \in Tree
          /\ Level(a[3]) < Level(a) /\ Level(b[3]) < Level(b)
          /\ Level(a[3]) \in Nat /\ Level(b[3]) \in Nat /\ Level(a) \in Nat /\ Level(b) \in Nat
      <4>1. a[3] \in Tree /\ b[3] \in Tree /\ Level(a[3]) < Level(a) /\ Level(b[3]) < Level(b)
        BY <2>2, LevelOfParts
      <4> QED BY <4>1, LevelOfParts, ProcsFinite
    <3>2. rank[<<a[3], b>>] < rank[t] /\ rank[<<a, b[3]>>] < rank[t]
      BY <1>1, <2>1, <3>1
    <3>3. <<a[3], b>> \in P /\ <<a, b[3]>> \in P
      <4>1. <<a[3], b>> \in D /\ <<a, b[3]>> \in D
        BY <3>1
      <4> QED BY <1>2, <3>2, <4>1
    <3> QED BY <2>1, <2>2, <3>3
  <2>3. CASE a = Nil \/ b = Nil
    BY <2>1, <2>3
  <2> QED BY <2>2, <2>3
<1>3. D \subseteq P
  <2> HIDE DEF D
  <2> QED BY <1>1, <1>2, RankInduction
<1> QED BY <1>3

-----------------------------------------------------------------------------
(***************************************************************************)
(* The recursive functions on trees.                                       *)
(***************************************************************************)
LEMMA RankOfTrees ==
  LET rank == [t \in Tree |-> Level(t)]
  IN  /\ rank \in [Tree -> Nat] /\ \A t \in Tree : rank[t] = Level(t) /\ rank[t] < N + 1
      /\ N + 1 \in Nat
<1>1. \A t \in Tree : Level(t) \in 0..N
  BY LevelOfParts
<1>2. \A t \in Tree : Level(t) \in Nat /\ Level(t) < N + 1
  BY <1>1, ProcsFinite
<1> QED BY <1>2, ProcsFinite

LEMMA TreeFunctionExists ==
  ASSUME NEW kind \in {"nodes", "listed"}
  PROVE  \E g : Solves(kind, 0, Tree, g)
<1>1. PICK rank \in [Tree -> Nat] : /\ \A t \in Tree : rank[t] = Level(t) /\ rank[t] < N + 1
                                    /\ N + 1 \in Nat
  BY RankOfTrees
<1>2. ASSUME NEW t \in Tree, NEW g, NEW h, \A u \in Tree : rank[u] < rank[t] => g[u] = h[u]
      PROVE  Body(kind, 0, t, g) = Body(kind, 0, t, h)
  <2>1. CASE t = Nil
    BY <2>1 DEF Body
  <2>2. CASE t # Nil
    <3>1. t[1] \in Tree /\ t[3] \in Tree /\ rank[t[1]] < rank[t] /\ rank[t[3]] < rank[t]
      BY <1>1, <2>2, LevelOfParts
    <3>2. g[t[1]] = h[t[1]] /\ g[t[3]] = h[t[3]]
      BY <1>2, <3>1
    <3> QED BY <2>2, <3>2 DEF Body
  <2> QED BY <2>1, <2>2
<1> QED BY <1>1, <1>2, RecursionExists

LEMMA NodesAre ==
  \A t \in Tree : Nodes[t] = IF t = Nil THEN {} ELSE {t} \cup Nodes[t[1]] \cup Nodes[t[3]]
<1> DEFINE Eq(g) == g = [t \in Tree |-> IF t = Nil THEN {} ELSE {t} \cup g[t[1]] \cup g[t[3]]]
           T == CHOOSE g : Eq(g)
<1>1. \E g : Solves("nodes", 0, Tree, g)
  BY TreeFunctionExists
<1>2. ASSUME NEW g PROVE Solves("nodes", 0, Tree, g) <=> Eq(g)
  BY DEF Solves, Body
<1> HIDE DEF Eq
<1>3. \E g : Eq(g)
  BY <1>1, <1>2
<1>4. Eq(T)
  BY ONLY <1>3
<1>5. Nodes = T
  BY DEF Nodes, Eq, T
<1> HIDE DEF T
<1> QED BY <1>4, <1>5 DEF Eq

LEMMA ListedAre ==
  \A t \in Tree : Listed[t] = IF t = Nil THEN <<>> ELSE Listed[t[1]] \o <<t[2]>> \o Listed[t[3]]
<1> DEFINE Eq(g) == g = [t \in Tree |-> IF t = Nil THEN <<>> ELSE g[t[1]] \o <<t[2]>> \o g[t[3]]]
           T == CHOOSE g : Eq(g)
<1>1. \E g : Solves("listed", 0, Tree, g)
  BY TreeFunctionExists
<1>2. ASSUME NEW g PROVE Solves("listed", 0, Tree, g) <=> Eq(g)
  BY DEF Solves, Body
<1> HIDE DEF Eq
<1>3. \E g : Eq(g)
  BY <1>1, <1>2
<1>4. Eq(T)
  BY ONLY <1>3
<1>5. Listed = T
  BY DEF Listed, Eq, T
<1> HIDE DEF T
<1> QED BY <1>4, <1>5 DEF Eq

\* What skew_heap_merge does with the roots (skew_heap.h:30).
LEMMA MergeIs ==
  ASSUME NEW s, NEW a \in Tree, NEW b \in Tree
  PROVE  skew_heap_merge(s, a, b) =
           IF a = Nil THEN b
           ELSE IF b = Nil THEN a
           ELSE IF Behind(s, a[2], b[2])
           THEN <<skew_heap_merge(s, a[3], b), a[2], a[1]>>
           ELSE <<skew_heap_merge(s, a, b[3]), b[2], b[1]>>
<1> DEFINE D == Tree \X Tree
           Eq(g) == g = [t \in D |->
             IF t[1] = Nil THEN t[2]
             ELSE IF t[2] = Nil THEN t[1]
             ELSE IF Behind(s, t[1][2], t[2][2])
             THEN <<g[<<t[1][3], t[2]>>], t[1][2], t[1][1]>>
             ELSE <<g[<<t[1], t[2][3]>>], t[2][2], t[2][1]>>]
           T == CHOOSE g : Eq(g)
           rank == [t \in D |-> Level(t[1]) + Level(t[2])]
<1>1. \A t \in Tree : Level(t) \in Nat /\ Level(t) <= N
  BY LevelOfParts, ProcsFinite
<1>2. rank \in [D -> Nat] /\ N + N + 1 \in Nat /\ \A t \in D : rank[t] < N + N + 1
  <2>1. \A t \in D : t[1] \in Tree /\ t[2] \in Tree
    OBVIOUS
  <2>2. \A t \in D : Level(t[1]) + Level(t[2]) \in Nat /\ Level(t[1]) + Level(t[2]) < N + N + 1
    BY <1>1, <2>1, ProcsFinite
  <2> QED BY <2>2, ProcsFinite
<1>3. \A c, d \in Tree : <<c, d>> \in D /\ rank[<<c, d>>] = Level(c) + Level(d)
  OBVIOUS
<1>4. ASSUME NEW t \in D, NEW g, NEW h, \A u \in D : rank[u] < rank[t] => g[u] = h[u]
      PROVE  Body("merge", s, t, g) = Body("merge", s, t, h)
  <2>1. PICK c \in Tree, d \in Tree : t = <<c, d>>
    OBVIOUS
  <2> HIDE DEF rank, D
  <2>2. CASE c # Nil /\ d # Nil
    <3>1. c[3] \in Tree /\ d[3] \in Tree /\ Level(c[3]) < Level(c) /\ Level(d[3]) < Level(d)
      BY <2>2, LevelOfParts
    <3>2. rank[<<c[3], d>>] < rank[t] /\ rank[<<c, d[3]>>] < rank[t]
      BY <1>1, <1>3, <2>1, <3>1
    <3>3. g[<<c[3], d>>] = h[<<c[3], d>>] /\ g[<<c, d[3]>>] = h[<<c, d[3]>>]
      BY <1>3, <1>4, <3>1, <3>2
    <3> QED BY <2>1, <2>2, <3>3 DEF Body
  <2>3. CASE c = Nil \/ d = Nil
    BY <2>1, <2>3 DEF Body
  <2> QED BY <2>2, <2>3
<1>5. \E g : Solves("merge", s, D, g)
  <2> HIDE DEF D, rank
  <2> QED BY <1>2, <1>4, RecursionExists
<1>6. ASSUME NEW g PROVE Solves("merge", s, D, g) <=> Eq(g)
  BY DEF Solves, Body
<1> HIDE DEF Eq
<1>7. \E g : Eq(g)
  BY <1>5, <1>6
<1>8. Eq(T)
  BY ONLY <1>7
<1>9. \A c, d : skew_heap_merge(s, c, d) = T[<<c, d>>]
  BY DEF skew_heap_merge, Eq, T
<1> HIDE DEF T
<1>10. T[<<a, b>>] = IF a = Nil THEN b
           ELSE IF b = Nil THEN a
           ELSE IF Behind(s, a[2], b[2])
           THEN <<T[<<a[3], b>>], a[2], a[1]>>
           ELSE <<T[<<a, b[3]>>], b[2], b[1]>>
  <2>1. <<a, b>> \in D /\ <<a, b>>[1] = a /\ <<a, b>>[2] = b
    OBVIOUS
  <2> QED BY <1>8, <2>1 DEF Eq
<1> QED BY <1>9, <1>10

-----------------------------------------------------------------------------
(***************************************************************************)
(* The processes in a tree.                                                *)
(***************************************************************************)
Elems(t) == {u[2] : u \in Nodes[t]}
Size(t)  == Len(Listed[t])

\* Each process in the tree is in it once.
Once(t) == Size(t) = Cardinality(Elems(t))

LEMMA NilElems == Elems(Nil) = {} /\ Size(Nil) = 0 /\ Once(Nil)
<1>1. Nodes[Nil] = {} /\ Listed[Nil] = <<>>
  BY InTree, NodesAre, ListedAre
<1> QED BY <1>1, FS_EmptySet DEF Elems, Size, Once

LEMMA ElemsAre ==
  ASSUME NEW t \in Tree, t # Nil
  PROVE  Elems(t) = {t[2]} \cup Elems(t[1]) \cup Elems(t[3])
<1>1. Nodes[t] = {t} \cup Nodes[t[1]] \cup Nodes[t[3]]
  BY NodesAre
<1> QED BY <1>1 DEF Elems

LEMMA ListedType == \A t \in Tree : Listed[t] \in Seq(Proc)
<1> DEFINE P == {t \in Tree : Listed[t] \in Seq(Proc)}
<1>1. Nil \in P
  <2>1. Listed[Nil] = <<>> /\ Nil \in Tree
    BY InTree, ListedAre
  <2>2. <<>> \in Seq(Proc)
    OBVIOUS
  <2> QED BY <2>1, <2>2
<1>2. ASSUME NEW t \in Tree, t # Nil, t[1] \in P, t[3] \in P PROVE t \in P
  <2>1. Listed[t] = Listed[t[1]] \o <<t[2]>> \o Listed[t[3]]
    BY <1>2, ListedAre
  <2> DEFINE l == Listed[t[1]]
             r == Listed[t[3]]
             p == t[2]
  <2>2. l \in Seq(Proc) /\ r \in Seq(Proc) /\ p \in Proc
    BY <1>2, LevelOfParts
  <2> HIDE DEF l, r, p
  <2>3. l \o <<p>> \o r \in Seq(Proc)
    BY <2>2
  <2> QED BY <2>1, <2>3 DEF l, r, p
<1> HIDE DEF P
<1>3. Tree \subseteq P
  BY <1>1, <1>2, TreeInduction
<1> QED BY <1>3 DEF P

LEMMA SizeIs ==
  ASSUME NEW t \in Tree
  PROVE  /\ Size(t) \in Nat
         /\ t # Nil => Size(t[1]) \in Nat /\ Size(t[3]) \in Nat /\ Size(t) = Size(t[1]) + 1 + Size(t[3])
<1>1. Size(t) \in Nat
  BY ListedType DEF Size
<1>2. ASSUME t # Nil
      PROVE  Size(t[1]) \in Nat /\ Size(t[3]) \in Nat /\ Size(t) = Size(t[1]) + 1 + Size(t[3])
  <2> DEFINE l == Listed[t[1]]
             r == Listed[t[3]]
             p == t[2]
  <2>1. Listed[t] = l \o <<p>> \o r
    BY <1>2, ListedAre
  <2>2. t[1] \in Tree /\ t[3] \in Tree /\ p \in Proc
    BY <1>2, LevelOfParts
  <2>3. l \in Seq(Proc) /\ r \in Seq(Proc)
    BY <2>2, ListedType
  <2> HIDE DEF l, r, p
  <2>4. Len(l) \in Nat /\ Len(r) \in Nat /\ Len(l \o <<p>> \o r) = Len(l) + 1 + Len(r)
    BY <2>2, <2>3
  <2> QED BY <2>1, <2>4 DEF Size, l, r
<1> QED BY <1>1, <1>2

\* A tree has no more levels than processes.
LEMMA TreeFits == \A t \in Tree : Size(t) <= N => t \in Trees[Size(t)]
<1> DEFINE P == {t \in Tree : Size(t) <= N => t \in Trees[Size(t)]}
<1>1. Nil \in P
  <2>1. 0 \in 0..N
    BY ProcsFinite
  <2> QED BY <2>1, InTree, NilTree, NilElems
<1>2. ASSUME NEW t \in Tree, t # Nil, t[1] \in P, t[3] \in P, Size(t) <= N PROVE t \in Trees[Size(t)]
  <2> DEFINE n == Size(t) - 1
  <2>1. /\ Size(t) \in Nat /\ Size(t[1]) \in Nat /\ Size(t[3]) \in Nat
        /\ Size(t) = Size(t[1]) + 1 + Size(t[3])
    BY <1>2, SizeIs
  <2>2. /\ Size(t[1]) <= n /\ Size(t[3]) <= n /\ n \in 0..N /\ n # N /\ n + 1 = Size(t)
        /\ Size(t[1]) \in 0..N /\ Size(t[3]) \in 0..N
    BY <1>2, <2>1, ProcsFinite
  <2>3. t[1] \in Trees[Size(t[1])] /\ t[3] \in Trees[Size(t[3])]
    BY <1>2, <2>2
  <2>4. t[1] \in Trees[n] /\ t[3] \in Trees[n]
    BY <2>2, <2>3, TreesGrow
  <2>5. t[2] \in Proc /\ t = <<t[1], t[2], t[3]>>
    BY <1>2, LevelOfParts
  <2>6. <<t[1], t[2], t[3]>> \in Trees[n + 1]
    BY <2>2, <2>4, <2>5, TreeMade
  <2> QED BY <2>2, <2>5, <2>6
<1>3. \A t \in Tree : t # Nil /\ t[1] \in P /\ t[3] \in P => t \in P
  BY <1>2
<1> HIDE DEF P
<1>4. Tree \subseteq P
  BY <1>1, <1>3, TreeInduction
<1> QED BY <1>4 DEF P

\* There are at most as many different processes in a tree as it has nodes.
LEMMA ElemsFew ==
  \A t \in Tree : /\ Elems(t) \subseteq Proc /\ IsFiniteSet(Elems(t))
                  /\ Cardinality(Elems(t)) \in Nat /\ Cardinality(Elems(t)) <= Size(t)
                  /\ Cardinality(Elems(t)) <= N
<1> DEFINE P == {t \in Tree : /\ Elems(t) \subseteq Proc
                              /\ Cardinality(Elems(t)) <= Size(t)}
<1>1. Nil \in P
  BY InTree, NilElems, FS_EmptySet
<1>2. ASSUME NEW t \in Tree, t # Nil, t[1] \in P, t[3] \in P PROVE t \in P
  <2> DEFINE L == Elems(t[1])
             R == Elems(t[3])
  <2>1. t[2] \in Proc /\ L \subseteq Proc /\ R \subseteq Proc /\ Elems(t) = ({t[2]} \cup L) \cup R
    BY <1>2, ElemsAre, LevelOfParts
  <2>2. Elems(t) \subseteq Proc
    BY <2>1
  <2>3. IsFiniteSet(L) /\ IsFiniteSet(R) /\ Cardinality(L) \in Nat /\ Cardinality(R) \in Nat
    BY <2>1, ProcsFinite, FS_Subset, FS_CardinalityType
  <2>4. /\ Size(t) = Size(t[1]) + 1 + Size(t[3]) /\ Size(t[1]) \in Nat /\ Size(t[3]) \in Nat
        /\ Cardinality(L) <= Size(t[1]) /\ Cardinality(R) <= Size(t[3])
    BY <1>2, SizeIs
  <2> HIDE DEF L, R
  <2> DEFINE Q == L \cup {t[2]}
  <2>5. /\ IsFiniteSet(Q) /\ Cardinality(Q) <= Cardinality(L) + 1 /\ Cardinality(Q) \in Nat
    <3>1. \/ Q = L
          \/ t[2] \notin L
      OBVIOUS
    <3>2. IsFiniteSet(Q) /\ (t[2] \notin L => Cardinality(Q) = Cardinality(L) + 1)
      BY <2>3, FS_AddElement
    <3> HIDE DEF Q
    <3> QED BY <2>3, <3>1, <3>2, FS_CardinalityType
  <2>6. Cardinality(Q \cup R) <= Cardinality(Q) + Cardinality(R)
    <3> HIDE DEF Q
    <3>1. Cardinality(Q \cup R) = Cardinality(Q) + Cardinality(R) - Cardinality(Q \cap R)
      BY <2>3, <2>5, FS_Union
    <3>2. Cardinality(Q \cap R) \in Nat /\ Cardinality(Q \cup R) \in Nat
      BY <2>3, <2>5, FS_Intersection, FS_Union, FS_CardinalityType
    <3> QED BY <2>3, <2>5, <3>1, <3>2
  <2>7. Elems(t) = Q \cup R
    BY <2>1
  <2>8. Cardinality(Elems(t)) \in Nat
    BY <2>2, ProcsFinite, FS_Subset, FS_CardinalityType
  <2>9. Cardinality(Elems(t)) <= Size(t)
    BY <2>3, <2>4, <2>5, <2>6, <2>7, <2>8
  <2> QED BY <2>2, <2>9
<1> HIDE DEF P
<1>3. Tree \subseteq P
  BY <1>1, <1>2, TreeInduction
<1> QED BY <1>3, ProcsFinite, FS_Subset, FS_CardinalityType DEF P, N

\* Two sets that have together as many members as each for itself have none in common.
LEMMA Disjoint ==
  ASSUME NEW A, NEW B, IsFiniteSet(A), IsFiniteSet(B),
         Cardinality(A \cup B) = Cardinality(A) + Cardinality(B)
  PROVE  A \cap B = {}
<1>1. Cardinality(A \cup B) = Cardinality(A) + Cardinality(B) - Cardinality(A \cap B)
  BY FS_Union
<1>2. IsFiniteSet(A \cap B) /\ Cardinality(A \cap B) \in Nat /\ Cardinality(A) \in Nat /\ Cardinality(B) \in Nat
  BY FS_Intersection, FS_CardinalityType
<1>3. Cardinality(A \cap B) = 0
  BY <1>1, <1>2
<1> QED BY <1>2, <1>3, FS_EmptySet

LEMMA OnceParts ==
  ASSUME NEW t \in Tree, t # Nil, Once(t)
  PROVE  /\ Once(t[1]) /\ Once(t[3])
         /\ Elems(t[1]) \cap Elems(t[3]) = {}
         /\ t[2] \notin Elems(t[1]) \cup Elems(t[3])
<1> DEFINE L == Elems(t[1])
           R == Elems(t[3])
           Q == L \cup R
           p == t[2]
<1>1. Elems(t) = Q \cup {p}
  BY ElemsAre
<1>2. /\ t[1] \in Tree /\ t[3] \in Tree
  BY LevelOfParts
<1>3. /\ Size(t) = Size(t[1]) + 1 + Size(t[3]) /\ Size(t[1]) \in Nat /\ Size(t[3]) \in Nat
  BY SizeIs
<1>4. /\ IsFiniteSet(L) /\ IsFiniteSet(R) /\ Cardinality(L) \in Nat /\ Cardinality(R) \in Nat
      /\ Cardinality(L) <= Size(t[1]) /\ Cardinality(R) <= Size(t[3])
  BY <1>2, ElemsFew
<1>5. Cardinality(Elems(t)) = Size(t)
  BY DEF Once
<1> HIDE DEF L, R
<1>6. /\ IsFiniteSet(Q) /\ Cardinality(Q) \in Nat
      /\ Cardinality(Q) <= Cardinality(L) + Cardinality(R)
  <2>1. IsFiniteSet(Q) /\ Cardinality(Q) = Cardinality(L) + Cardinality(R) - Cardinality(L \cap R)
    BY <1>4, FS_Union
  <2>2. Cardinality(L \cap R) \in Nat /\ Cardinality(Q) \in Nat
    BY <1>4, <2>1, FS_Intersection, FS_CardinalityType
  <2> QED BY <1>4, <2>1, <2>2
<1> HIDE DEF Q, p
<1>7. /\ p \in Q => Cardinality(Q \cup {p}) = Cardinality(Q)
      /\ p \notin Q => Cardinality(Q \cup {p}) = Cardinality(Q) + 1
  BY <1>6, FS_AddElement
<1>8. /\ p \notin Q /\ Cardinality(Q) = Cardinality(L) + Cardinality(R)
      /\ Cardinality(L) = Size(t[1]) /\ Cardinality(R) = Size(t[3])
  BY <1>1, <1>3, <1>4, <1>5, <1>6, <1>7
<1>9. L \cap R = {}
  BY <1>4, <1>8, Disjoint DEF Q
<1> QED BY <1>8, <1>9 DEF L, R, Q, p, Once

-----------------------------------------------------------------------------
(***************************************************************************)
(* Strides: places on a circle.                                            *)
(***************************************************************************)
Circle == 0..2 * Half - 1

LEMMA HalfIs == Half \in Nat /\ Half >= 2 /\ 2 * Half \in Nat /\ 2 * Half > 0
BY StrideAssumption

LEMMA Remainder ==
  ASSUME NEW C \in Nat, C > 0, NEW d \in Int, -C <= d, d < C
  PROVE  d % C = IF d >= 0 THEN d ELSE d + C
<1>1. CASE d >= 0
  <2>1. d \in 0..C - 1
    BY <1>1
  <2>2. d % C = d
    BY <2>1
  <2> QED BY <1>1, <2>2
<1>2. CASE d < 0
  <2>1. d = C * (-1) + (d + C) /\ d + C \in 0..C - 1
    BY <1>2
  <2>2. ASSUME NEW r \in 0..C - 1, NEW q \in Int, d = C * q + r PROVE d % C = r
    BY <2>2
  <2>3. -1 \in Int
    OBVIOUS
  <2>4. d % C = d + C
    BY <2>1, <2>2, <2>3
  <2> QED BY <1>2, <2>4
<1> QED BY <1>1, <1>2

LEMMA Difference ==
  ASSUME NEW x \in Circle, NEW y \in Circle
  PROVE  (x - y) % (2 * Half) = Shares!Minus(x, y)
<1> DEFINE C == 2 * Half
           d == x - y
<1>1. C \in Nat /\ C > 0 /\ x \in 0..C - 1 /\ y \in 0..C - 1
  BY HalfIs DEF Circle
<1>2. d \in Int /\ -C <= d /\ d < C /\ (d >= 0 <=> x >= y)
  <2> HIDE DEF C
  <2> QED BY <1>1
<1>3. d % C = IF d >= 0 THEN d ELSE d + C
  <2> HIDE DEF d, C
  <2> QED BY <1>1, <1>2, Remainder
<1>4. Shares!Minus(x, y) = IF x >= y THEN d ELSE d + C
  BY DEF Shares!Minus
<1> HIDE DEF d, C
<1>5. d % C = Shares!Minus(x, y)
  BY <1>2, <1>3, <1>4
<1> QED BY <1>5 DEF d, C

\* Addition of less than half a turn.
LEMMA Sum ==
  ASSUME NEW x \in Circle, NEW d \in 0..BIG_STRIDE
  PROVE  (x + d) % (2 * Half) = Shares!Plus(x, d) /\ Shares!Plus(x, d) \in Circle
<1> DEFINE C == 2 * Half
           e == x + d - C
<1>1. C \in Nat /\ C > 0 /\ x \in 0..C - 1 /\ d \in 0..C - 1 /\ Half \in Nat
  BY HalfIs DEF Circle, BIG_STRIDE
<1>2. /\ Shares!Plus(x, d) = IF x + d >= C THEN e ELSE x + d
      /\ x + d \in Int /\ e \in Int
  <2> HIDE DEF C
  <2>1. x + d \in Int /\ e \in Int
    BY <1>1
  <2> QED BY <2>1 DEF Shares!Plus, C
<1>3. CASE x + d >= C
  <2>1. e \in 0..C - 1 /\ x + d = C * 1 + e
    <3> HIDE DEF C
    <3> QED BY <1>1, <1>3
  <2>2. (x + d) % C = e
    <3> DEFINE y == x + d
    <3>1. ASSUME NEW r \in 0..C - 1, NEW q \in Int, y = C * q + r PROVE y % C = r
      <4>1. y \in Int
        BY <1>2
      <4> HIDE DEF y, C
      <4> QED BY <1>1, <3>1, <4>1
    <3> HIDE DEF y, e, C
    <3>2. y = C * 1 + e
      BY <2>1 DEF y
    <3>3. y % C = e
      BY <2>1, <3>1, <3>2
    <3> QED BY <3>3 DEF y
  <2> HIDE DEF e
  <2> QED BY <1>2, <1>3, <2>1, <2>2 DEF Circle
<1>4. CASE x + d < C
  <2> DEFINE y == x + d
  <2>1. y \in 0..C - 1
    <3> HIDE DEF C
    <3> QED BY <1>1, <1>4
  <2>2. y % C = y
    <3> HIDE DEF y, C
    <3> QED BY <1>1, <2>1
  <2>3. Shares!Plus(x, d) = y
    <3> HIDE DEF C, e
    <3> QED BY <1>1, <1>2, <1>4
  <2> HIDE DEF y
  <2>4. y % C = Shares!Plus(x, d) /\ Shares!Plus(x, d) \in 0..C - 1
    BY <2>1, <2>2, <2>3
  <2> QED BY <2>4 DEF Circle, y
<1> QED BY <1>1, <1>2, <1>3, <1>4

\* What a process gets for a priority is at most half a turn.
LEMMA PassRange ==
  ASSUME NEW p, priority[p] \in Nat
  PROVE  Pass(p) \in 0..BIG_STRIDE
<1> DEFINE B == BIG_STRIDE
           n == priority[p]
<1>1. B \in Nat
  BY HalfIs DEF BIG_STRIDE
<1>2. CASE n # 0
  <2> DEFINE q == B \div n
  <2>1. n \in Nat \ {0}
    BY <1>2
  <2>2. Pass(p) = q
    BY <1>2 DEF Pass
  <2> HIDE DEF B, n
  <2>3. q \in Int /\ q >= 0 /\ n * q <= B
    BY <1>1, <2>1
  <2> HIDE DEF q
  <2>4. q <= n * q
    BY <2>1, <2>3
  <2>5. q \in 0..B
    <3>1. n * q \in Int
      BY <2>1, <2>3
    <3> QED BY <1>1, <2>3, <2>4, <3>1
  <2> QED BY <2>2, <2>5 DEF B
<1>3. CASE n = 0
  <2>1. Pass(p) = B
    BY <1>3 DEF Pass
  <2> HIDE DEF B
  <2>2. B \in 0..B
    BY <1>1
  <2> QED BY <2>1, <2>2 DEF B
<1> QED BY <1>2, <1>3

-----------------------------------------------------------------------------
(***************************************************************************)
(* Merging.                                                                *)
(***************************************************************************)
\* No child is behind its parent (or both are, half a turn apart).
NotBehind(s, child, parent) == (s[child] - s[parent]) % (2 * Half) <= Half

Ordered(s, t) ==
  \A u \in Nodes[t], i \in {1, 3} : u[i] # Nil => NotBehind(s, u[i][2], u[2])

Roots(a) == IF a = Nil THEN {} ELSE {a[2]}

LEMMA OneBehind ==
  ASSUME NEW s \in [Proc -> Circle], NEW p \in Proc, NEW q \in Proc
  PROVE  IF Behind(s, p, q) THEN NotBehind(s, q, p) ELSE NotBehind(s, p, q)
<1>1. s[p] \in Circle /\ s[q] \in Circle
  OBVIOUS
<1>2. /\ (s[p] - s[q]) % (2 * Half) = Shares!Minus(s[p], s[q])
      /\ (s[q] - s[p]) % (2 * Half) = Shares!Minus(s[q], s[p])
  BY <1>1, Difference
<1>3. ASSUME NEW x \in Circle, NEW y \in Circle
      PROVE  IF Shares!Minus(x, y) >= Half THEN Shares!Minus(y, x) <= Half ELSE Shares!Minus(x, y) <= Half
  BY HalfIs DEF Circle, Shares!Minus
<1> QED BY <1>1, <1>2, <1>3 DEF Behind, NotBehind

\* A tree is ordered if its subtrees are, and its root against theirs.
LEMMA OrderedParts ==
  ASSUME NEW s, NEW t \in Tree, t # Nil
  PROVE  Ordered(s, t) <=> /\ Ordered(s, t[1]) /\ Ordered(s, t[3])
                           /\ \A c \in Roots(t[1]) \cup Roots(t[3]) : NotBehind(s, c, t[2])
<1>1. Nodes[t] = {t} \cup Nodes[t[1]] \cup Nodes[t[3]]
  BY NodesAre
<1> QED BY <1>1 DEF Ordered, Roots

LEMMA RootIn == \A t \in Tree : Roots(t) \subseteq Elems(t) /\ Roots(t) \subseteq Proc
<1> TAKE t \in Tree
<1>1. CASE t = Nil
  BY <1>1 DEF Roots
<1>2. CASE t # Nil
  BY <1>2, ElemsAre, LevelOfParts DEF Roots
<1> QED BY <1>1, <1>2

\* m is what a merge of a and b should be.
MergedWell(s, a, b, m) ==
  /\ m \in Tree
  /\ Size(m) = Size(a) + Size(b)
  /\ Elems(m) = Elems(a) \cup Elems(b)
  /\ Roots(m) \subseteq Roots(a) \cup Roots(b)
  /\ Ordered(s, a) /\ Ordered(s, b) => Ordered(s, m)

\* a keeps its left tree as its right one, and m, a merge of its right tree with b, becomes
\* its left one.
LEMMA Rooted ==
  ASSUME NEW s, NEW a \in Tree, NEW b \in Tree, a # Nil,
         Size(a) + Size(b) <= N,
         NEW m, MergedWell(s, a[3], b, m),
         Ordered(s, b) => \A c \in Roots(b) : NotBehind(s, c, a[2])
  PROVE  MergedWell(s, a, b, <<m, a[2], a[1]>>)
<1> DEFINE r == <<m, a[2], a[1]>>
           n == Size(m) + Size(a[1])
<1>1. /\ a[1] \in Tree /\ a[3] \in Tree /\ a[2] \in Proc /\ m \in Tree
  BY LevelOfParts DEF MergedWell
<1>2. /\ Size(a) = Size(a[1]) + 1 + Size(a[3]) /\ Size(m) = Size(a[3]) + Size(b)
      /\ Size(a) \in Nat /\ Size(a[1]) \in Nat /\ Size(a[3]) \in Nat /\ Size(b) \in Nat /\ Size(m) \in Nat
  BY <1>1, SizeIs DEF MergedWell
<1>3. /\ n \in 0..N /\ n # N /\ Size(m) \in 0..N /\ Size(m) <= n /\ Size(a[1]) \in 0..N /\ Size(a[1]) <= n
  BY <1>2, ProcsFinite
<1>4. m \in Trees[n] /\ a[1] \in Trees[n]
  <2> HIDE DEF n
  <2>1. m \in Trees[Size(m)] /\ a[1] \in Trees[Size(a[1])]
    BY <1>1, <1>3, TreeFits
  <2> QED BY <1>3, <2>1, TreesGrow
<1>5. r \in Trees[n + 1] /\ n + 1 \in 0..N /\ r # Nil
  <2> HIDE DEF n
  <2> QED BY <1>1, <1>3, <1>4, TreeMade
<1>6. r \in Tree /\ r[1] = m /\ r[2] = a[2] /\ r[3] = a[1] /\ r # Nil
  BY <1>5, InTree
<1> HIDE DEF r
<1>7. Size(r) = Size(a) + Size(b)
  BY <1>2, <1>6, SizeIs
<1>8. Elems(r) = Elems(a) \cup Elems(b)
  <2>1. Elems(r) = {a[2]} \cup Elems(m) \cup Elems(a[1])
    BY <1>6, ElemsAre
  <2>2. Elems(a) = {a[2]} \cup Elems(a[1]) \cup Elems(a[3])
    BY ElemsAre
  <2> QED BY <2>1, <2>2 DEF MergedWell
<1>9. Roots(r) = Roots(a)
  BY <1>6 DEF Roots
<1>10. ASSUME Ordered(s, a), Ordered(s, b) PROVE Ordered(s, r)
  <2>1. /\ Ordered(s, a[1]) /\ Ordered(s, a[3])
        /\ \A c \in Roots(a[1]) \cup Roots(a[3]) : NotBehind(s, c, a[2])
    BY <1>10, OrderedParts
  <2>2. Ordered(s, m) /\ Roots(m) \subseteq Roots(a[3]) \cup Roots(b)
    BY <1>10, <2>1 DEF MergedWell
  <2>3. \A c \in Roots(m) \cup Roots(a[1]) : NotBehind(s, c, a[2])
    BY <1>10, <2>1, <2>2
  <2> QED BY <1>6, <2>1, <2>2, <2>3, OrderedParts
<1>11. MergedWell(s, a, b, r)
  BY <1>6, <1>7, <1>8, <1>9, <1>10 DEF MergedWell
<1> QED BY <1>11 DEF r

LEMMA MergedSwapped ==
  ASSUME NEW s, NEW a \in Tree, NEW b \in Tree, NEW m, MergedWell(s, a, b, m)
  PROVE  MergedWell(s, b, a, m)
<1>1. Size(a) + Size(b) = Size(b) + Size(a)
  BY SizeIs
<1> QED BY <1>1 DEF MergedWell

\* The merge of two heaps with no more processes than there are is a heap of the
\* processes of both.
LEMMA MergeWell ==
  ASSUME NEW s \in [Proc -> Circle]
  PROVE  \A a, b \in Tree : Size(a) + Size(b) <= N => MergedWell(s, a, b, skew_heap_merge(s, a, b))
<1> DEFINE P == {t \in Tree \X Tree : Size(t[1]) + Size(t[2]) <= N =>
                    MergedWell(s, t[1], t[2], skew_heap_merge(s, t[1], t[2]))}
<1>1. ASSUME NEW t \in Tree PROVE <<Nil, t>> \in P /\ <<t, Nil>> \in P
  <2>1. skew_heap_merge(s, Nil, t) = t /\ skew_heap_merge(s, t, Nil) = t
    BY InTree, MergeIs
  <2>2. Size(t) \in Nat /\ Size(Nil) = 0 /\ Elems(Nil) = {} /\ Roots(Nil) = {}
    BY NilElems, SizeIs DEF Roots
  <2>3. MergedWell(s, Nil, t, t) /\ MergedWell(s, t, Nil, t)
    BY <2>2 DEF MergedWell
  <2> QED BY <2>1, <2>3, InTree
<1>2. ASSUME NEW a \in Tree, NEW b \in Tree, a # Nil, b # Nil, <<a[3], b>> \in P, <<a, b[3]>> \in P,
             Size(a) + Size(b) <= N
      PROVE  MergedWell(s, a, b, skew_heap_merge(s, a, b))
  <2>1. /\ a[2] \in Proc /\ b[2] \in Proc /\ a[3] \in Tree /\ b[3] \in Tree
    BY <1>2, LevelOfParts
  <2>2. Size(a[3]) + Size(b) <= N /\ Size(a) + Size(b[3]) <= N
    <3>1. /\ Size(a) = Size(a[1]) + 1 + Size(a[3]) /\ Size(b) = Size(b[1]) + 1 + Size(b[3])
          /\ Size(a[1]) \in Nat /\ Size(a[3]) \in Nat /\ Size(b[1]) \in Nat /\ Size(b[3]) \in Nat
      BY <1>2, SizeIs
    <3> QED BY <1>2, <3>1, ProcsFinite
  <2>3. /\ MergedWell(s, a[3], b, skew_heap_merge(s, a[3], b))
        /\ MergedWell(s, a, b[3], skew_heap_merge(s, a, b[3]))
    BY <1>2, <2>2
  <2>4. CASE Behind(s, a[2], b[2])
    <3>1. \A c \in Roots(b) : NotBehind(s, c, a[2])
      BY <1>2, <2>1, <2>4, OneBehind DEF Roots
    <3>2. MergedWell(s, a, b, <<skew_heap_merge(s, a[3], b), a[2], a[1]>>)
      BY <1>2, <2>3, <3>1, Rooted
    <3> QED BY <1>2, <2>4, <3>2, MergeIs
  <2>5. CASE ~Behind(s, a[2], b[2])
    <3>1. \A c \in Roots(a) : NotBehind(s, c, b[2])
      BY <1>2, <2>1, <2>5, OneBehind DEF Roots
    <3>2. MergedWell(s, b[3], a, skew_heap_merge(s, a, b[3])) /\ Size(b) + Size(a) <= N
      <4>1. Size(b) + Size(a) = Size(a) + Size(b)
        BY SizeIs
      <4> QED BY <1>2, <2>1, <2>3, <4>1, MergedSwapped
    <3>3. MergedWell(s, b, a, <<skew_heap_merge(s, a, b[3]), b[2], b[1]>>)
      BY <1>2, <3>1, <3>2, Rooted
    <3>4. MergedWell(s, a, b, <<skew_heap_merge(s, a, b[3]), b[2], b[1]>>)
      BY <3>3, MergedSwapped
    <3> QED BY <1>2, <2>5, <3>4, MergeIs
  <2> QED BY <2>4, <2>5
<1>3. \A a, b \in Tree : a # Nil /\ b # Nil /\ <<a[3], b>> \in P /\ <<a, b[3]>> \in P => <<a, b>> \in P
  <2> SUFFICES ASSUME NEW a \in Tree, NEW b \in Tree, a # Nil, b # Nil, <<a[3], b>> \in P, <<a, b[3]>> \in P
               PROVE  <<a, b>> \in P
    OBVIOUS
  <2>1. Size(a) + Size(b) <= N => MergedWell(s, a, b, skew_heap_merge(s, a, b))
    <3> HIDE DEF P
    <3> QED BY <1>2
  <2> QED BY <2>1
<1> HIDE DEF P
<1>4. \A a, b \in Tree : <<a, b>> \in P
  BY <1>1, <1>3, PairInduction
<1> QED BY <1>4 DEF P

-----------------------------------------------------------------------------
(***************************************************************************)
(* The run pool.                                                           *)
(***************************************************************************)
PoolOK(s, pool) == pool \in Tree /\ Once(pool) /\ Ordered(s, pool)

LEMMA NilPool == \A s : PoolOK(s, Nil) /\ Elems(Nil) = {}
<1>1. Nodes[Nil] = {} /\ Nil \in Tree
  BY InTree, NodesAre
<1> QED BY <1>1, NilElems DEF PoolOK, Ordered

\* stride_enqueue
LEMMA PoolInsert ==
  ASSUME NEW s \in [Proc -> Circle], NEW h, PoolOK(s, h), NEW p \in Proc, p \notin Elems(h)
  PROVE  /\ PoolOK(s, skew_heap_insert(s, h, p))
         /\ Elems(skew_heap_insert(s, h, p)) = Elems(h) \cup {p}
<1> DEFINE l == Leaf(p)
           m == skew_heap_merge(s, h, l)
<1>1. h \in Tree /\ Cardinality(Elems(h)) = Size(h) /\ IsFiniteSet(Elems(h)) /\ Size(h) \in Nat
  BY ElemsFew, SizeIs DEF PoolOK, Once
<1>2. Elems(h) \cup {p} \subseteq Proc /\ Cardinality(Elems(h) \cup {p}) = Size(h) + 1
  BY <1>1, ElemsFew, FS_AddElement
<1>3. Size(h) + 1 <= N
  BY <1>2, ProcsFinite, FS_Subset DEF N
<1>4. /\ l \in Tree /\ l # Nil /\ l[1] = Nil /\ l[2] = p /\ l[3] = Nil
  <2>1. 0 \in 0..N /\ 0 # N /\ 0 + 1 \in 0..N
    BY <1>1, <1>3, ProcsFinite
  <2>2. <<Nil, p, Nil>> \in Trees[0 + 1] /\ <<Nil, p, Nil>> # Nil
    BY <2>1, NilTree, TreeMade
  <2> QED BY <2>1, <2>2, InTree DEF Leaf
<1> HIDE DEF l
<1>5. Size(l) = 1 /\ Elems(l) = {p}
  BY <1>4, NilElems, SizeIs, ElemsAre
<1>6. Ordered(s, l)
  BY <1>4, NilPool, OrderedParts DEF PoolOK, Roots
<1>7. MergedWell(s, h, l, m)
  BY <1>1, <1>3, <1>4, <1>5, MergeWell
<1>8. PoolOK(s, m) /\ Elems(m) = Elems(h) \cup {p}
  BY <1>2, <1>5, <1>6, <1>7 DEF PoolOK, MergedWell, Once
<1> QED BY <1>8 DEF skew_heap_insert, l

\* stride_pick_next and stride_dequeue
LEMMA PoolRemove ==
  ASSUME NEW s \in [Proc -> Circle], NEW h, PoolOK(s, h), h # Nil
  PROVE  /\ PoolOK(s, skew_heap_merge(s, h[1], h[3]))
         /\ Elems(skew_heap_merge(s, h[1], h[3])) = Elems(h) \ {h[2]}
         /\ h[2] \in Elems(h) /\ h[2] \in Proc
<1> DEFINE m == skew_heap_merge(s, h[1], h[3])
<1>1. h \in Tree /\ Once(h) /\ h[1] \in Tree /\ h[3] \in Tree /\ h[2] \in Proc
  BY LevelOfParts DEF PoolOK
<1>2. /\ Once(h[1]) /\ Once(h[3]) /\ Elems(h[1]) \cap Elems(h[3]) = {}
      /\ h[2] \notin Elems(h[1]) \cup Elems(h[3])
  BY <1>1, OnceParts
<1>3. Elems(h) = {h[2]} \cup Elems(h[1]) \cup Elems(h[3])
  BY <1>1, ElemsAre
<1>4. Size(h) = Size(h[1]) + 1 + Size(h[3]) /\ Size(h[1]) \in Nat /\ Size(h[3]) \in Nat
  BY <1>1, SizeIs
<1>5. Size(h) = Cardinality(Elems(h)) /\ Cardinality(Elems(h)) <= N
  BY <1>1, ElemsFew DEF Once
<1>6. Size(h[1]) + Size(h[3]) <= N
  BY <1>4, <1>5, ProcsFinite
<1>7. MergedWell(s, h[1], h[3], m)
  BY <1>1, <1>6, MergeWell
<1>8. Ordered(s, m)
  BY <1>1, <1>7, OrderedParts DEF PoolOK, MergedWell
<1>9. Elems(m) = Elems(h) \ {h[2]}
  BY <1>2, <1>3, <1>7 DEF MergedWell
<1>10. Cardinality(Elems(h) \ {h[2]}) = Cardinality(Elems(h)) - 1
  <2>1. IsFiniteSet(Elems(h)) /\ h[2] \in Elems(h)
    BY <1>1, <1>3, ElemsFew
  <2> QED BY <2>1, FS_RemoveElement
<1>11. Once(m)
  <2>1. Size(m) = Size(h[1]) + Size(h[3])
    BY <1>7 DEF MergedWell
  <2>2. Cardinality(Elems(m)) = Size(h) - 1
    BY <1>5, <1>9, <1>10
  <2> QED BY <1>4, <2>1, <2>2 DEF Once
<1> QED BY <1>1, <1>3, <1>7, <1>8, <1>9, <1>11 DEF PoolOK, MergedWell

\* The heap depends on the strides of those in it only.
LEMMA PoolKept ==
  ASSUME NEW s, NEW s1, NEW h, PoolOK(s, h), \A p \in Elems(h) : s1[p] = s[p]
  PROVE  PoolOK(s1, h)
<1> DEFINE P == {t \in Tree : (\A p \in Elems(t) : s1[p] = s[p]) /\ Ordered(s, t) => Ordered(s1, t)}
<1>1. Nil \in P
  BY NilPool DEF PoolOK
<1>2. ASSUME NEW t \in Tree, t # Nil, t[1] \in P, t[3] \in P,
             \A p \in Elems(t) : s1[p] = s[p], Ordered(s, t)
      PROVE  Ordered(s1, t)
  <2>1. /\ Ordered(s, t[1]) /\ Ordered(s, t[3])
        /\ \A c \in Roots(t[1]) \cup Roots(t[3]) : NotBehind(s, c, t[2])
    BY <1>2, OrderedParts
  <2>2. Elems(t) = {t[2]} \cup Elems(t[1]) \cup Elems(t[3]) /\ t[1] \in Tree /\ t[3] \in Tree
    BY <1>2, ElemsAre, LevelOfParts
  <2>3. Ordered(s1, t[1]) /\ Ordered(s1, t[3])
    BY <1>2, <2>1, <2>2
  <2>4. \A c \in Roots(t[1]) \cup Roots(t[3]) : s1[c] = s[c] /\ s1[t[2]] = s[t[2]]
    BY <1>2, <2>2, RootIn
  <2>5. \A c \in Roots(t[1]) \cup Roots(t[3]) : NotBehind(s1, c, t[2])
    BY <2>1, <2>4 DEF NotBehind
  <2> QED BY <1>2, <2>3, <2>5, OrderedParts
<1>3. \A t \in Tree : t # Nil /\ t[1] \in P /\ t[3] \in P => t \in P
  BY <1>2
<1> HIDE DEF P
<1>4. Tree \subseteq P
  BY <1>1, <1>3, TreeInduction
<1> QED BY <1>4 DEF P, PoolOK

\* The pool at the start: all strides are 0.
LEMMA HeapIs ==
  \A S \in SUBSET Proc : Heap[S] = IF S = {} THEN Nil
                                   ELSE LET p == CHOOSE p \in S : TRUE
                                        IN  skew_heap_insert([q \in Proc |-> 0], Heap[S \ {p}], p)
<1> DEFINE D == SUBSET Proc
           zero == [q \in Proc |-> 0]
           rank == [S \in D |-> Cardinality(S)]
           Eq(g) == g = [S \in D |-> IF S = {} THEN Nil
                                     ELSE LET p == CHOOSE p \in S : TRUE
                                          IN  skew_heap_insert(zero, g[S \ {p}], p)]
           T == CHOOSE g : Eq(g)
<1>1. \A S \in D : IsFiniteSet(S) /\ Cardinality(S) \in Nat /\ Cardinality(S) < N + 1
  BY ProcsFinite, FS_Subset, FS_CardinalityType DEF N
<1>2. rank \in [D -> Nat] /\ N + 1 \in Nat /\ \A S \in D : rank[S] < N + 1 /\ rank[S] = Cardinality(S)
  BY <1>1, ProcsFinite
<1>3. ASSUME NEW S \in D, NEW g, NEW h, \A U \in D : rank[U] < rank[S] => g[U] = h[U]
      PROVE  Body("heap", zero, S, g) = Body("heap", zero, S, h)
  <2> HIDE DEF rank, zero
  <2>1. CASE S # {}
    <3> DEFINE p == CHOOSE p \in S : TRUE
    <3>1. p \in S
      BY <2>1
    <3>2. S \ {p} \in D /\ Cardinality(S \ {p}) = Cardinality(S) - 1
      BY <1>1, <3>1, FS_RemoveElement
    <3>3. rank[S \ {p}] < rank[S]
      BY <1>1, <1>2, <3>2
    <3>4. g[S \ {p}] = h[S \ {p}]
      BY <1>3, <3>2, <3>3
    <3> QED BY <2>1, <3>4 DEF Body
  <2>2. CASE S = {}
    BY <2>2 DEF Body
  <2> QED BY <2>1, <2>2
<1>4. \E g : Solves("heap", zero, D, g)
  <2> HIDE DEF D, rank, zero
  <2> QED BY <1>2, <1>3, RecursionExists
<1>5. ASSUME NEW g PROVE Solves("heap", zero, D, g) <=> Eq(g)
  BY DEF Solves, Body
<1> HIDE DEF Eq
<1>6. \E g : Eq(g)
  BY <1>4, <1>5
<1>7. Eq(T)
  BY ONLY <1>6
<1>8. Heap = T
  BY DEF Heap, Eq, T
<1> HIDE DEF T
<1> QED BY <1>7, <1>8 DEF Eq

LEMMA HeapWell ==
  \A S \in SUBSET Proc : PoolOK([q \in Proc |-> 0], Heap[S]) /\ Elems(Heap[S]) = S
<1> DEFINE D == SUBSET Proc
           zero == [q \in Proc |-> 0]
           rank == [S \in D |-> Cardinality(S)]
           P == {S \in D : PoolOK(zero, Heap[S]) /\ Elems(Heap[S]) = S}
<1>1. \A S \in D : IsFiniteSet(S) /\ Cardinality(S) \in Nat
  BY ProcsFinite, FS_Subset, FS_CardinalityType
<1>2. rank \in [D -> Nat] /\ \A S \in D : rank[S] = Cardinality(S)
  BY <1>1
<1>3. zero \in [Proc -> Circle]
  BY HalfIs DEF Circle
<1>4. ASSUME NEW S \in D, \A U \in D : rank[U] < rank[S] => U \in P
      PROVE  PoolOK(zero, Heap[S]) /\ Elems(Heap[S]) = S
  <2>1. CASE S # {}
    <3> DEFINE p == CHOOSE p \in S : TRUE
    <3>1. p \in S /\ p \in Proc
      BY <2>1
    <3>2. S \ {p} \in D /\ Cardinality(S \ {p}) = Cardinality(S) - 1
      BY <1>1, <3>1, FS_RemoveElement
    <3>3. rank[S \ {p}] < rank[S]
      <4> HIDE DEF rank
      <4> QED BY <1>1, <1>2, <3>2
    <3>4. PoolOK(zero, Heap[S \ {p}]) /\ Elems(Heap[S \ {p}]) = S \ {p}
      BY <1>4, <3>2, <3>3
    <3>5. Heap[S] = skew_heap_insert(zero, Heap[S \ {p}], p)
      BY <2>1, HeapIs
    <3> HIDE DEF p, zero
    <3>6. /\ PoolOK(zero, skew_heap_insert(zero, Heap[S \ {p}], p))
          /\ Elems(skew_heap_insert(zero, Heap[S \ {p}], p)) = (S \ {p}) \cup {p}
      BY <1>3, <3>1, <3>4, PoolInsert
    <3> QED BY <3>1, <3>5, <3>6
  <2>2. CASE S = {}
    BY <2>2, HeapIs, NilPool
  <2> QED BY <2>1, <2>2
<1>5. \A S \in D : (\A U \in D : rank[U] < rank[S] => U \in P) => S \in P
  BY <1>4
<1> HIDE DEF P, rank, D
<1>6. D \subseteq P
  BY <1>2, <1>5, RankInduction
<1> QED BY <1>6 DEF P, D

-----------------------------------------------------------------------------
(***************************************************************************)
(* The scheduler.                                                          *)
(***************************************************************************)
SInv ==
  /\ stride \in [Proc -> Circle]
  /\ priority \in [Proc -> Nat]
  /\ current \in Proc \cup {Idle}
  /\ asleep \subseteq Proc
  /\ PoolOK(stride, heap)
  /\ Elems(heap) \cap asleep = {}
  /\ current \notin Elems(heap) \cup asleep

LEMMA QueuedIs == Queued = Elems(heap)
BY DEF Queued, Elems

LEMMA PoolProcs == \A s, h : PoolOK(s, h) => Elems(h) \subseteq Proc /\ Idle \notin Elems(h)
BY ElemsFew, StrideAssumption DEF PoolOK

\* The heap of the invariant is the one of the run.
LEMMA SInvOrdered == SInv => HeapOrdered
<1> SUFFICES ASSUME SInv PROVE HeapOrdered
  OBVIOUS
<1>1. Len(Listed[heap]) = Cardinality(Queued)
  BY QueuedIs DEF SInv, PoolOK, Once, Size
<1>2. Queued \cap asleep = {} /\ current \notin Queued \cup asleep
  BY QueuedIs DEF SInv
<1>3. \A a \in Nodes[heap], i \in {1, 3} :
        a[i] # Nil => (stride[a[i][2]] - stride[a[2]]) % (2 * Half) <= Half
  BY DEF SInv, PoolOK, Ordered, NotBehind
<1> QED BY <1>1, <1>2, <1>3 DEF HeapOrdered

LEMMA MovedType ==
  ASSUME stride \in [Proc -> Circle], priority \in [Proc -> Nat], NEW p \in Proc
  PROVE  /\ Moved(p) \in [Proc -> Circle]
         /\ Pass(p) \in 0..BIG_STRIDE
         /\ Moved(p)[p] = Shares!Plus(stride[p], Pass(p))
         /\ \A q \in Proc : q # p => Moved(p)[q] = stride[q]
<1>1. Pass(p) \in 0..BIG_STRIDE
  BY PassRange
<1>2. (stride[p] + Pass(p)) % (2 * Half) = Shares!Plus(stride[p], Pass(p))
      /\ Shares!Plus(stride[p], Pass(p)) \in Circle
  <2>1. stride[p] \in Circle
    OBVIOUS
  <2> QED BY <1>1, <2>1, Sum
<1> QED BY <1>1, <1>2 DEF Moved

\* What stride_pick_next and stride_dequeue leave.
LEMMA PickOK ==
  ASSUME stride \in [Proc -> Circle], priority \in [Proc -> Nat],
         NEW pool, PoolOK(stride, pool), PickFrom(pool), Elems(pool) \cap asleep' = {}
  PROVE  /\ stride' \in [Proc -> Circle]
         /\ current' \in Proc \cup {Idle}
         /\ PoolOK(stride', heap')
         /\ Elems(heap') \subseteq Elems(pool)
         /\ current' \in Elems(pool) \cup {Idle}
         /\ current' \notin Elems(heap')
         /\ pool = Nil => stride' = stride
         /\ pool # Nil => stride' = Moved(pool[2]) /\ pool[2] \in Elems(pool)
<1>1. CASE pool = Nil
  <2>1. current' = Idle /\ heap' = Nil /\ stride' = stride
    BY <1>1 DEF PickFrom
  <2>2. PoolOK(stride', heap') /\ Elems(heap') = {}
    BY <2>1, NilPool
  <2> QED BY <1>1, <2>1, <2>2
<1>2. CASE pool # Nil
  <2>1. /\ current' = pool[2] /\ stride' = Moved(pool[2])
        /\ heap' = skew_heap_merge(stride, pool[1], pool[3])
    BY <1>2 DEF PickFrom
  <2>2. /\ PoolOK(stride, heap') /\ Elems(heap') = Elems(pool) \ {pool[2]}
        /\ pool[2] \in Elems(pool) /\ pool[2] \in Proc
    BY <1>2, <2>1, PoolRemove
  <2>3. /\ stride' \in [Proc -> Circle]
        /\ \A q \in Proc : q # pool[2] => stride'[q] = stride[q]
    BY <2>1, <2>2, MovedType
  <2>4. \A q \in Elems(heap') : stride'[q] = stride[q]
    BY <2>2, <2>3, PoolProcs
  <2>5. PoolOK(stride', heap')
    BY <2>2, <2>4, PoolKept
  <2> QED BY <1>2, <2>1, <2>2, <2>3, <2>5
<1> QED BY <1>1, <1>2

\* schedule()
LEMMA SwitchOK ==
  ASSUME SInv, NEW left, Switch(left), UNCHANGED <<priority, asleep>>
  PROVE  /\ SInv'
         /\ \/ stride' = stride
            \/ \E pool : /\ PoolOK(stride, pool) /\ pool # Nil
                         /\ Elems(pool) = Queued \cup ({current} \ {Idle})
                         /\ stride' = Moved(pool[2])
<1>1. PICK pool : /\ PickFrom(pool) /\ PoolOK(stride, pool)
                  /\ Elems(pool) = Queued \cup ({current} \ {Idle})
  <2>1. CASE current = Idle
    BY <2>1, QueuedIs DEF Switch, SInv
  <2>2. CASE current # Idle
    <3> DEFINE pool == skew_heap_insert(stride, heap, current)
    <3>1. current \in Proc /\ current \notin Elems(heap)
      BY <2>2 DEF SInv
    <3>2. PoolOK(stride, pool) /\ Elems(pool) = Elems(heap) \cup {current}
      BY <3>1, PoolInsert DEF SInv
    <3>3. PickFrom(pool)
      BY <2>2 DEF Switch
    <3> QED BY <2>2, <3>2, <3>3, QueuedIs
  <2> QED BY <2>1, <2>2
<1>2. Elems(pool) \cap asleep' = {}
  BY <1>1, QueuedIs DEF SInv
<1>3. /\ stride' \in [Proc -> Circle]
      /\ current' \in Proc \cup {Idle}
      /\ PoolOK(stride', heap')
      /\ Elems(heap') \subseteq Elems(pool)
      /\ current' \in Elems(pool) \cup {Idle}
      /\ current' \notin Elems(heap')
      /\ pool = Nil => stride' = stride
      /\ pool # Nil => stride' = Moved(pool[2])
  BY <1>1, <1>2, PickOK DEF SInv
<1>4. SInv'
  <2>1. Idle \notin asleep'
    BY StrideAssumption DEF SInv
  <2> QED BY <1>2, <1>3, <2>1 DEF SInv
<1> QED BY <1>1, <1>3, <1>4

\* A process leaves the processor for good, or to sleep.
LEMMA LeaveOK ==
  ASSUME SInv, current # Idle, PickFrom(heap), UNCHANGED priority,
         asleep' \in {asleep, asleep \cup {current}}
  PROVE  SInv' /\ current \notin Elems(heap') \cup ({current'} \ {Idle})
<1>1. Elems(heap) \cap asleep' = {} /\ current \in Proc
  BY DEF SInv
<1>2. /\ stride' \in [Proc -> Circle]
      /\ current' \in Proc \cup {Idle}
      /\ PoolOK(stride', heap')
      /\ Elems(heap') \subseteq Elems(heap)
      /\ current' \in Elems(heap) \cup {Idle}
      /\ current' \notin Elems(heap')
  BY <1>1, PickOK DEF SInv
<1>3. Idle \notin asleep'
  BY <1>1, StrideAssumption DEF SInv
<1> QED BY <1>1, <1>2, <1>3 DEF SInv

\* Every step keeps the heap; where nobody sleeps, comes or goes, strides are moved by
\* picks from a pool of all processes only.
LEMMA NextOK ==
  ASSUME SInv, Next
  PROVE  /\ SInv'
         /\ \/ asleep # {} \/ asleep' # {} \/ Alive # Proc \/ Alive' # Proc
            \/ stride' = stride
            \/ \E pool : /\ PoolOK(stride, pool) /\ pool # Nil /\ Elems(pool) = Proc
                         /\ stride' = Moved(pool[2])
<1>1. ASSUME NEW left, Switch(left), UNCHANGED <<priority, asleep>>
      PROVE  /\ SInv'
             /\ \/ asleep # {} \/ Alive # Proc
                \/ stride' = stride
                \/ \E pool : /\ PoolOK(stride, pool) /\ pool # Nil /\ Elems(pool) = Proc
                             /\ stride' = Moved(pool[2])
  <2>1. asleep = {} /\ Alive = Proc => Queued \cup ({current} \ {Idle}) = Proc
    BY DEF Alive
  <2> QED BY <1>1, <2>1, SwitchOK
<1>2. CASE Tick
  <2>1. UNCHANGED <<priority, asleep>>
    BY <1>2 DEF Tick
  <2>2. CASE Switch(Ticked)
    BY <1>1, <2>1, <2>2
  <2>3. CASE UNCHANGED <<heap, stride, current>>
    BY <2>1, <2>3 DEF SInv
  <2> QED BY <1>2, <2>2, <2>3 DEF Tick
<1>3. CASE Yield
  BY <1>1, <1>3 DEF Yield
<1>4. CASE Sleep
  BY <1>4, LeaveOK DEF Sleep
<1>5. CASE Exit
  <2>1. SInv' /\ current \notin Elems(heap') \cup ({current'} \ {Idle}) /\ asleep' = asleep /\ current \in Proc
    BY <1>5, LeaveOK DEF Exit, SInv
  <2>2. current \notin asleep'
    BY <2>1 DEF SInv
  <2>3. Alive' = Elems(heap') \cup asleep' \cup ({current'} \ {Idle})
    BY QueuedIs DEF Alive, Queued, Elems
  <2>4. Alive' # Proc
    BY <2>1, <2>2, <2>3
  <2> QED BY <2>1, <2>4
<1>6. ASSUME NEW p \in Proc, Wake(p) PROVE SInv' /\ asleep # {}
  <2>1. /\ p \in asleep /\ asleep' = asleep \ {p} /\ heap' = skew_heap_insert(stride, heap, p)
        /\ UNCHANGED <<stride, priority, current>> /\ p \notin Elems(heap)
    BY <1>6 DEF Wake, SInv
  <2>2. PoolOK(stride, heap') /\ Elems(heap') = Elems(heap) \cup {p}
    BY <2>1, PoolInsert DEF SInv
  <2> QED BY <2>1, <2>2 DEF SInv
<1>7. ASSUME NEW p \in Proc, Fork(p) PROVE SInv' /\ Alive # Proc
  <2>1. /\ p \notin Elems(heap) /\ p \notin asleep /\ p # current /\ p # Idle /\ Alive # Proc
        /\ stride' = [stride EXCEPT ![p] = 0]
        /\ priority' = [priority EXCEPT ![p] = 0]
        /\ heap' = skew_heap_insert(stride', heap, p)
        /\ UNCHANGED <<current, asleep>>
    BY <1>7, QueuedIs, StrideAssumption DEF Fork, Alive
  <2>2. stride' \in [Proc -> Circle] /\ priority' \in [Proc -> Nat]
    <3>1. 0 \in Circle
      BY HalfIs DEF Circle
    <3> QED BY <2>1, <3>1 DEF SInv
  <2>3. PoolOK(stride', heap)
    <3>1. \A q \in Elems(heap) : stride'[q] = stride[q]
      BY <2>1, PoolProcs DEF SInv
    <3> QED BY <3>1, PoolKept DEF SInv
  <2>4. PoolOK(stride', heap') /\ Elems(heap') = Elems(heap) \cup {p}
    <3>1. p \in Proc /\ p \notin Elems(heap) /\ heap' = skew_heap_insert(stride', heap, p)
      BY <1>7, <2>1
    <3> QED BY ONLY <2>2, <2>3, <3>1, PoolInsert
  <2>5. /\ current' = current /\ asleep' = asleep /\ current \in Proc \cup {Idle}
        /\ asleep \subseteq Proc /\ Elems(heap) \cap asleep = {}
        /\ current \notin Elems(heap) \cup asleep
        /\ p \notin asleep /\ p # current /\ Alive # Proc
    BY <2>1 DEF SInv
  <2> QED BY ONLY <2>2, <2>4, <2>5 DEF SInv
<1>8. ASSUME NEW n \in Priorities, lab6_set_priority(n) PROVE SInv' /\ stride' = stride
  <2>1. /\ priority' = [priority EXCEPT ![current] = IF n = 0 THEN 1 ELSE n] /\ n \in Nat
        /\ UNCHANGED <<heap, stride, current, asleep>>
    BY <1>8, StrideAssumption DEF lab6_set_priority
  <2> QED BY <2>1 DEF SInv
<1> QED BY <1>2, <1>3, <1>4, <1>5, <1>6, <1>7, <1>8 DEF Next

-----------------------------------------------------------------------------
(***************************************************************************)
(* Shares.                                                                 *)
(***************************************************************************)
\* Wrapped strides differ as the passes do, but for a whole turn; passes are within
\* half a turn of each other.
Turned(x, y, a, b) == \/ x - y = a - b
                      \/ x - y = a - b + 2 * Half
                      \/ x - y = a - b - 2 * Half

Spread ==
  \A p, q \in Proc : pass[p] - pass[q] <= Half - 1 /\ Turned(shown[p], shown[q], pass[p], pass[q])

ShareInv ==
  /\ shown \in [Proc -> Circle]
  /\ pass \in [Proc -> Nat]
  /\ Spread

\* Two places on the circle that are less than half a turn apart: the sign of the
\* wrapped difference tells which is behind, also when it is half a turn at most.
LEMMA Comparison ==
  ASSUME NEW x \in Circle, NEW y \in Circle, NEW a \in Nat, NEW b \in Nat,
         a - b <= Half - 1, b - a <= Half - 1, Turned(x, y, a, b)
  PROVE  /\ Shares!Behind(x, y) <=> a < b
         /\ Shares!Minus(x, y) <= Half => b <= a
BY HalfIs DEF Shares!Behind, Shares!Minus, Turned, Circle

LEMMA ShareFollows == ShareInv => Share
<1> SUFFICES ASSUME ShareInv, NEW p \in Proc, NEW q \in Proc
             PROVE  /\ pass[p] - pass[q] <= Shares!BIG_STRIDE
                    /\ Shares!Behind(shown[p], shown[q]) <=> pass[p] < pass[q]
  BY DEF Share, Shares!Share
<1>1. /\ shown[p] \in Circle /\ shown[q] \in Circle /\ pass[p] \in Nat /\ pass[q] \in Nat
      /\ pass[p] - pass[q] <= Half - 1 /\ pass[q] - pass[p] <= Half - 1
      /\ Turned(shown[p], shown[q], pass[p], pass[q])
  BY DEF ShareInv, Spread
<1>2. Shares!Behind(shown[p], shown[q]) <=> pass[p] < pass[q]
  BY <1>1, Comparison
<1> QED BY <1>1, <1>2 DEF Shares!BIG_STRIDE

\* A pick of one that has had least keeps the spread.
LEMMA SpreadKept ==
  ASSUME ShareInv, NEW p \in Proc, NEW d \in 0..BIG_STRIDE, \A q \in Proc : pass[p] <= pass[q],
         shown' = [shown EXCEPT ![p] = Shares!Plus(@, d)],
         pass' = [pass EXCEPT ![p] = @ + d]
  PROVE  ShareInv'
<1>1. /\ \A q \in Proc : shown[q] \in Circle /\ pass[q] \in Nat
      /\ d \in Nat /\ d <= Half - 1
  BY HalfIs DEF ShareInv, BIG_STRIDE
<1>2. /\ Shares!Plus(shown[p], d) \in Circle
      /\ \/ Shares!Plus(shown[p], d) = shown[p] + d
         \/ Shares!Plus(shown[p], d) = shown[p] + d - 2 * Half
  <2>1. Shares!Plus(shown[p], d) \in Circle
    BY <1>1, Sum
  <2> QED BY <2>1 DEF Shares!Plus
<1>3. /\ \A q \in Proc : q # p => shown'[q] = shown[q] /\ pass'[q] = pass[q]
      /\ shown'[p] = Shares!Plus(shown[p], d) /\ pass'[p] = pass[p] + d
  BY DEF ShareInv
<1>4. shown' \in [Proc -> Circle] /\ pass' \in [Proc -> Nat]
  <2>1. pass[p] + d \in Nat
    BY <1>1
  <2> QED BY <1>2, <2>1 DEF ShareInv
<1>5. ASSUME NEW x \in Circle, NEW y \in Circle, NEW x1 \in Circle, NEW a \in Nat, NEW b \in Nat,
             a - b <= Half - 1, b - a <= Half - 1, a <= b, Turned(x, y, a, b),
             x1 = x + d \/ x1 = x + d - 2 * Half
      PROVE  /\ (a + d) - b <= Half - 1 /\ b - (a + d) <= Half - 1
             /\ Turned(x1, y, a + d, b) /\ Turned(y, x1, b, a + d)
  BY <1>1, <1>5, HalfIs DEF Turned, Circle
<1>6. ASSUME NEW q \in Proc, q # p
      PROVE  /\ pass'[p] - pass'[q] <= Half - 1 /\ pass'[q] - pass'[p] <= Half - 1
             /\ Turned(shown'[p], shown'[q], pass'[p], pass'[q])
             /\ Turned(shown'[q], shown'[p], pass'[q], pass'[p])
  <2>1. /\ pass[p] - pass[q] <= Half - 1 /\ pass[q] - pass[p] <= Half - 1 /\ pass[p] <= pass[q]
        /\ Turned(shown[p], shown[q], pass[p], pass[q])
    BY DEF ShareInv, Spread
  <2>2. /\ shown'[q] = shown[q] /\ pass'[q] = pass[q] /\ pass'[p] = pass[p] + d
        /\ shown'[p] = Shares!Plus(shown[p], d)
    BY <1>3, <1>6
  <2> QED BY <1>1, <1>2, <1>5, <2>1, <2>2
<1>7. ASSUME NEW q \in Proc
      PROVE  pass'[q] - pass'[q] <= Half - 1 /\ Turned(shown'[q], shown'[q], pass'[q], pass'[q])
  <2>1. shown'[q] \in Circle /\ pass'[q] \in Nat
    BY <1>4
  <2> QED BY <2>1, HalfIs DEF Turned, Circle
<1>8. ASSUME NEW q \in Proc, NEW r \in Proc
      PROVE  pass'[q] - pass'[r] <= Half - 1 /\ Turned(shown'[q], shown'[r], pass'[q], pass'[r])
  <2>1. CASE q = r
    BY <1>7, <2>1
  <2>2. CASE q = p \/ r = p
    BY <1>6, <1>7, <2>2
  <2>3. CASE q # p /\ r # p
    BY <1>3, <2>3 DEF ShareInv, Spread
  <2> QED BY <2>1, <2>2, <2>3
<1> QED BY <1>4, <1>8 DEF ShareInv, Spread

\* In a heap, none has had less than the root.
LEMMA RootHasLeast ==
  ASSUME ShareInv, NEW t \in Tree, Ordered(shown, t), t # Nil
  PROVE  \A q \in Elems(t) : pass[t[2]] <= pass[q]
<1> DEFINE P == {u \in Tree : Ordered(shown, u) /\ u # Nil => \A q \in Elems(u) : pass[u[2]] <= pass[q]}
<1>1. Nil \in P
  BY InTree
<1>2. ASSUME NEW u \in Tree, u # Nil, u[1] \in P, u[3] \in P, Ordered(shown, u)
      PROVE  \A q \in Elems(u) : pass[u[2]] <= pass[q]
  <2>1. /\ Ordered(shown, u[1]) /\ Ordered(shown, u[3])
        /\ \A c \in Roots(u[1]) \cup Roots(u[3]) : NotBehind(shown, c, u[2])
    BY <1>2, OrderedParts
  <2>2. u[1] \in Tree /\ u[3] \in Tree /\ u[2] \in Proc
    BY <1>2, LevelOfParts
  <2>3. \A c \in Roots(u[1]) \cup Roots(u[3]) : c \in Proc /\ pass[u[2]] <= pass[c]
    <3> SUFFICES ASSUME NEW c \in Roots(u[1]) \cup Roots(u[3])
                 PROVE  c \in Proc /\ pass[u[2]] <= pass[c]
      OBVIOUS
    <3>1. c \in Proc /\ NotBehind(shown, c, u[2])
      BY <2>1, <2>2, RootIn
    <3>2. /\ shown[c] \in Circle /\ shown[u[2]] \in Circle /\ pass[c] \in Nat /\ pass[u[2]] \in Nat
          /\ pass[c] - pass[u[2]] <= Half - 1 /\ pass[u[2]] - pass[c] <= Half - 1
          /\ Turned(shown[c], shown[u[2]], pass[c], pass[u[2]])
      BY <2>2, <3>1 DEF ShareInv, Spread
    <3>3. Shares!Minus(shown[c], shown[u[2]]) <= Half
      BY <3>1, <3>2, Difference DEF NotBehind
    <3> QED BY <3>1, <3>2, <3>3, Comparison
  <2>4. \A v \in {u[1], u[3]} : \A q \in Elems(v) : v # Nil /\ v[2] \in Roots(v) /\ pass[v[2]] <= pass[q]
    <3> SUFFICES ASSUME NEW v \in {u[1], u[3]}, NEW q \in Elems(v)
                 PROVE  v # Nil /\ v[2] \in Roots(v) /\ pass[v[2]] <= pass[q]
      OBVIOUS
    <3>1. v # Nil
      BY NilElems
    <3> QED BY <1>2, <2>1, <3>1 DEF Roots
  <2>5. Elems(u) = {u[2]} \cup Elems(u[1]) \cup Elems(u[3])
    BY <1>2, ElemsAre
  <2>6. \A q \in Elems(u[1]) \cup Elems(u[3]) : pass[u[2]] <= pass[q]
    <3> SUFFICES ASSUME NEW v \in {u[1], u[3]}, NEW q \in Elems(v) PROVE pass[u[2]] <= pass[q]
      OBVIOUS
    <3>1. v[2] \in Roots(u[1]) \cup Roots(u[3]) /\ pass[v[2]] <= pass[q]
      BY <2>4
    <3>2. v[2] \in Proc /\ pass[u[2]] <= pass[v[2]] /\ q \in Proc
      BY <2>2, <2>3, <3>1, ElemsFew
    <3>3. pass[u[2]] \in Nat /\ pass[v[2]] \in Nat /\ pass[q] \in Nat
      BY <2>2, <3>2 DEF ShareInv
    <3> QED BY <3>1, <3>2, <3>3
  <2>7. pass[u[2]] \in Nat
    BY <2>2 DEF ShareInv
  <2> QED BY <2>5, <2>6, <2>7
<1>3. \A u \in Tree : u # Nil /\ u[1] \in P /\ u[3] \in P => u \in P
  BY <1>2
<1> HIDE DEF P
<1>4. Tree \subseteq P
  BY <1>1, <1>3, TreeInduction
<1> QED BY <1>4 DEF P

-----------------------------------------------------------------------------
(***************************************************************************)
(* The scheduler and its histories.                                        *)
(***************************************************************************)
IInv ==
  /\ SInv
  /\ ShareInv
  /\ closed => asleep = {} /\ Alive = Proc
  /\ watched => closed /\ shown = stride

LEMMA InitWithOK ==
  ASSUME NEW started, started \subseteq Proc, InitWith(started)
  PROVE  SInv /\ asleep = {} /\ Alive = started /\ stride = [p \in Proc |-> 0]
<1>1. /\ current \in started /\ current \in Proc /\ stride = [p \in Proc |-> 0] /\ asleep = {}
      /\ heap = Heap[started \ {current}] /\ priority = [p \in Proc |-> 0]
  BY DEF InitWith
<1>2. PoolOK(stride, heap) /\ Elems(heap) = started \ {current}
  <2>1. started \ {current} \in SUBSET Proc
    OBVIOUS
  <2> QED BY <1>1, <2>1, HeapWell
<1>3. stride \in [Proc -> Circle]
  BY <1>1, HalfIs DEF Circle
<1>4. SInv
  BY <1>1, <1>2, <1>3 DEF SInv
<1>5. Alive = started
  <2>1. current # Idle
    BY <1>1, StrideAssumption
  <2> QED BY <1>1, <1>2, <2>1, QueuedIs DEF Alive
<1> QED BY <1>1, <1>4, <1>5

LEMMA InitOK == SchedInit => IInv /\ Shares!Init
<1> SUFFICES ASSUME SchedInit PROVE IInv /\ Shares!Init
  OBVIOUS
<1>1. Shares!Init /\ watched = closed /\ closed \in BOOLEAN
  BY DEF SchedInit
<1>2. SInv /\ stride = [p \in Proc |-> 0] /\ (closed => asleep = {} /\ Alive = Proc)
  <2>1. CASE closed = TRUE
    BY <2>1, InitWithOK DEF SchedInit
  <2>2. CASE closed = FALSE
    BY <2>2, InitWithOK, StrideAssumption DEF SchedInit, Init
  <2> QED BY <1>1, <2>1, <2>2
<1>3. ShareInv
  <2>1. shown = [p \in Proc |-> 0] /\ pass = [p \in Proc |-> 0]
    BY <1>1 DEF Shares!Init
  <2> QED BY <2>1, HalfIs DEF ShareInv, Spread, Turned, Circle
<1>4. shown = stride
  BY <1>1, <1>2 DEF Shares!Init
<1> QED BY <1>1, <1>2, <1>3, <1>4 DEF IInv

\* What a step does to the histories while they are kept: nothing, or what stride_pick_next
\* does with a process that none is behind.
LEMMA WatchedStep ==
  ASSUME IInv, SchedNext, watched'
  PROVE  UNCHANGED Shares!ssvars \/ (Shares!Next /\ ShareInv')
<1>1. /\ watched /\ closed /\ closed' = closed /\ shown = stride
      /\ asleep = {} /\ asleep' = {} /\ Alive = Proc /\ Alive' = Proc
  BY DEF IInv, SchedNext
<1>2. /\ shown' = stride'
      /\ pass' = [p \in Proc |-> pass[p] + Passed(p)]
      /\ \A p \in Proc : Passed(p) # 0 => pass[p] < MaxPass
  BY DEF SchedNext
<1>3. stride \in [Proc -> Circle] /\ priority \in [Proc -> Nat] /\ pass \in [Proc -> Nat]
  BY DEF IInv, SInv, ShareInv
<1>4. \A p \in Proc : stride'[p] = stride[p] => Passed(p) = 0
  <2> SUFFICES ASSUME NEW p \in Proc, stride'[p] = stride[p] PROVE Passed(p) = 0
    OBVIOUS
  <2>1. stride[p] \in Circle
    BY <1>3
  <2> QED BY <2>1, HalfIs DEF Passed, Shares!Minus, Circle
<1>5. CASE stride' = stride
  <2>1. \A p \in Proc : pass[p] \in Nat /\ Passed(p) = 0
    BY <1>3, <1>4, <1>5
  <2>2. pass' = pass
    BY <1>2, <1>3, <2>1
  <2> QED BY <1>1, <1>2, <1>5, <2>2 DEF Shares!ssvars
<1>6. ASSUME NEW pool, PoolOK(stride, pool), pool # Nil, Elems(pool) = Proc, stride' = Moved(pool[2])
      PROVE  UNCHANGED Shares!ssvars \/ (Shares!Next /\ ShareInv')
  <2> DEFINE p == pool[2]
             d == Pass(p)
  <2>1. p \in Proc /\ pool \in Tree /\ Ordered(stride, pool)
    BY <1>6, LevelOfParts DEF PoolOK
  <2>2. /\ d \in 0..BIG_STRIDE /\ stride'[p] = Shares!Plus(stride[p], d)
        /\ \A q \in Proc : q # p => stride'[q] = stride[q]
        /\ stride' \in [Proc -> Circle]
    BY <1>3, <1>6, <2>1, MovedType
  <2>3. \A q \in Proc : pass[p] <= pass[q]
    BY <1>1, <1>6, <2>1, RootHasLeast DEF IInv
  <2>4. \A q \in Proc : ~Shares!Behind(shown[q], shown[p])
    <3> TAKE q \in Proc
    <3>1. pass[p] <= pass[q] /\ pass[p] \in Nat /\ pass[q] \in Nat
      BY <1>3, <2>1, <2>3
    <3>2. Shares!Behind(shown[q], shown[p]) <=> pass[q] < pass[p]
      BY <2>1, ShareFollows DEF IInv, Share, Shares!Share
    <3> QED BY <3>1, <3>2
  <2> HIDE DEF p, d
  <2>5. Passed(p) = d
    <3>1. ASSUME NEW x \in Circle, NEW e \in 0..BIG_STRIDE PROVE Shares!Minus(Shares!Plus(x, e), x) = e
      BY <3>1, HalfIs DEF Shares!Minus, Shares!Plus, Circle, BIG_STRIDE
    <3>2. stride[p] \in Circle
      BY <1>3, <2>1
    <3> QED BY <2>2, <3>1, <3>2 DEF Passed
  <2>6. /\ shown' = [shown EXCEPT ![p] = Shares!Plus(@, d)]
    BY <1>1, <1>2, <1>3, <2>1, <2>2
  <2>7. pass' = [pass EXCEPT ![p] = @ + d]
    <3>1. \A q \in Proc : pass[q] \in Nat /\ (q # p => Passed(q) = 0)
      BY <1>3, <1>4, <2>2
    <3>2. \A q \in Proc : pass'[q] = IF q = p THEN pass[p] + d ELSE pass[q]
      BY <1>2, <2>5, <3>1
    <3> QED BY <1>2, <1>3, <3>2
  <2>8. CASE d = 0
    <3>1. shown[p] \in Circle /\ pass[p] \in Nat /\ shown \in [Proc -> Circle]
      BY <1>1, <1>3, <2>1
    <3>2. Shares!Plus(shown[p], 0) = shown[p] /\ pass[p] + 0 = pass[p]
      BY <3>1, HalfIs DEF Shares!Plus, Circle
    <3>3. shown' = shown /\ pass' = pass
      BY <1>3, <2>6, <2>7, <2>8, <3>1, <3>2
    <3> QED BY <3>3 DEF Shares!ssvars
  <2>9. CASE d # 0
    <3>1. pass[p] < MaxPass
      BY <1>2, <2>1, <2>5, <2>9
    <3>2. Shares!BIG_STRIDE = BIG_STRIDE
      BY DEF Shares!BIG_STRIDE, BIG_STRIDE
    <3>3. Shares!Pick(p, d)
      BY <2>4, <2>6, <2>7, <3>1 DEF Shares!Pick
    <3>4. Shares!Next
      BY <2>1, <2>2, <3>2, <3>3 DEF Shares!Next
    <3>5. ShareInv'
      BY <2>1, <2>2, <2>3, <2>6, <2>7, SpreadKept DEF IInv
    <3> QED BY <3>4, <3>5
  <2> QED BY <2>8, <2>9
<1> QED BY <1>1, <1>5, <1>6, NextOK DEF IInv, SchedNext

LEMMA StepOK == IInv /\ [SchedNext]_svars => IInv' /\ [watched' => Shares!Next]_(Shares!ssvars)
<1> SUFFICES ASSUME IInv, [SchedNext]_svars
             PROVE  IInv' /\ [watched' => Shares!Next]_(Shares!ssvars)
  OBVIOUS
<1>1. CASE SchedNext
  <2>1. SInv' /\ (closed' => asleep' = {} /\ Alive' = Proc)
    BY <1>1, NextOK DEF IInv, SchedNext
  <2>2. CASE watched'
    <3>1. UNCHANGED Shares!ssvars \/ (Shares!Next /\ ShareInv')
      BY <1>1, <2>2, WatchedStep
    <3>2. ShareInv'
      BY <3>1 DEF Shares!ssvars, IInv, ShareInv, Spread
    <3>3. closed' /\ shown' = stride'
      BY <1>1, <2>2 DEF IInv, SchedNext
    <3> QED BY <2>1, <3>1, <3>2, <3>3 DEF IInv
  <2>3. CASE ~watched'
    <3>1. shown' = [p \in Proc |-> 0] /\ pass' = [p \in Proc |-> 0]
      BY <1>1, <2>3 DEF SchedNext
    <3>2. ShareInv'
      BY <3>1, HalfIs DEF ShareInv, Spread, Turned, Circle
    <3> QED BY <2>1, <2>3, <3>2 DEF IInv
  <2> QED BY <2>2, <2>3
<1>2. CASE UNCHANGED svars
  <2>1. /\ heap' = heap /\ stride' = stride /\ priority' = priority /\ current' = current /\ asleep' = asleep
        /\ closed' = closed /\ watched' = watched /\ shown' = shown /\ pass' = pass
    BY <1>2 DEF svars, vars
  <2>2. SInv' /\ ShareInv'
    BY <2>1 DEF IInv, SInv, ShareInv, Spread
  <2>3. Alive' = Alive
    BY <2>1 DEF Alive, Queued
  <2> QED BY <2>1, <2>2, <2>3 DEF IInv, Shares!ssvars
<1> QED BY <1>1, <1>2

LEMMA Inductive == SchedSpec => []IInv
<1>1. SchedInit => IInv
  BY InitOK
<1>2. IInv /\ [SchedNext]_svars => IInv'
  BY StepOK
<1> QED BY <1>1, <1>2, PTL DEF SchedSpec

\* The run pool is a heap of the runnable processes, each of them in it once and none
\* behind its parent, although strides wrap around, sleepers come back with old ones and
\* new processes begin with 0 (skew_heap_merge, stride_enqueue, stride_dequeue).
THEOREM HeapOrderedCorrect == SchedSpec => []HeapOrdered
<1>1. IInv => HeapOrdered
  BY SInvOrdered DEF IInv
<1> QED BY <1>1, Inductive, PTL

\* Each process gets its share, and the comparison of wrapped strides tells which
\* of two has had less (proc_stride_comp_f, stride_pick_next).
THEOREM ShareCorrect == SchedSpec => []Share
<1>1. IInv => Share
  BY ShareFollows DEF IInv
<1> QED BY <1>1, Inductive, PTL

\* The root of the skew heap is a process that none is behind, and nothing but a pick
\* moves a stride: the scheduler implements StrideShare (stride_pick_next).
THEOREM ImplementsShareCorrect == SchedSpec => ImplementsShare
<1>1. SchedInit => Shares!Init
  BY InitOK
<1>2. IInv /\ [SchedNext]_svars => [watched' => Shares!Next]_(Shares!ssvars)
  BY StepOK
<1> QED BY <1>1, <1>2, Inductive, PTL DEF SchedSpec, ImplementsShare
=============================================================================
