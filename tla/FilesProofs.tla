---------------------------- MODULE FilesProofs ----------------------------
(***************************************************************************)
(* Proofs about Files, for every number of processes, tables, descriptors, *)
(* files and blocks.  The file system is reasoned about one inode at a     *)
(* time: every call of it is a Put, and FsOK, which relates an inode in    *)
(* memory, the one on the disk, its blocks and its users, survives a Put   *)
(* that trades unused blocks for claimed ones.  The loops over descriptors *)
(* and inodes are folds, taken apart by induction over finite sets.        *)
(***************************************************************************)
EXTENDS Files, FiniteSetTheorems, NaturalsInduction, WellFoundedInduction, TLAPS

-----------------------------------------------------------------------------
(***************************************************************************)
(* Numbers.                                                                *)
(***************************************************************************)

\* A nonempty set of numbers has a least one.
LEMMA LeastNumber ==
  ASSUME NEW S \in SUBSET Nat, S # {}
  PROVE  \E x \in S : \A y \in S : x <= y
<1>1. IsWellFoundedOn(OpToRel(<, Nat), Nat)
  BY NatLessThanWellFounded
<1>2. PICK R : IsWellFoundedOn(R, Nat) /\ R = {ss \in Nat \X Nat : ss[1] < ss[2]}
  BY <1>1 DEF OpToRel
<1>3. PICK x \in S : \A y \in S : <<y, x>> \notin R
  BY <1>2, WFMin
<1>4. ASSUME NEW y \in S PROVE x <= y
  <2>1. x \in Nat /\ y \in Nat /\ <<y, x>> \notin R
    BY <1>3
  <2>2. ~ (y < x)
    BY <1>2, <2>1
  <2> QED BY <2>1, <2>2
<1> QED BY <1>4

\* A set of numbers up to k that has one has a greatest one.
LEMMA GreatestNumber ==
  ASSUME NEW k \in Nat, NEW S \in SUBSET (0..k), S # {}
  PROVE  \E x \in S : \A y \in S : y <= x
<1> DEFINE M == {y \in Nat : k - y \in S}
<1>1. M \in SUBSET Nat /\ M # {}
  <2>1. PICK x \in S : TRUE
    OBVIOUS
  <2>2. x \in 0..k
    OBVIOUS
  <2>3. k - x \in Nat /\ k - (k - x) = x
    BY <2>2
  <2> QED BY <2>1, <2>3
<1>2. PICK m \in M : \A y \in M : m <= y
  <2> HIDE DEF M
  <2> QED BY <1>1, LeastNumber
<1>3. ASSUME NEW y \in S PROVE y <= k - m
  <2>1. y \in 0..k
    OBVIOUS
  <2>2. k - y \in Nat /\ k - (k - y) = y
    BY <2>1
  <2>3. k - y \in M
    BY <2>2
  <2>4. m <= k - y /\ m \in Nat
    BY <1>2, <2>3
  <2> QED BY ONLY <2>1, <2>4, k \in Nat
<1> QED BY <1>2, <1>3

\* Induction, for a set of numbers: those that a formula holds of.
LEMMA SetInduction ==
  ASSUME NEW S, 0 \in S, \A n \in Nat : n \in S => n + 1 \in S
  PROVE  Nat \subseteq S
<1> SUFFICES ASSUME Nat \ S # {} PROVE FALSE
  OBVIOUS
<1>1. PICK x \in Nat \ S : \A y \in Nat \ S : x <= y
  BY LeastNumber
<1>2. x # 0 /\ x - 1 \in Nat /\ x = (x - 1) + 1
  OBVIOUS
<1>3. x - 1 \notin S
  BY <1>2
<1> QED BY <1>1, <1>2, <1>3

\* The member that a fold takes.
Pick(s) == CHOOSE x \in s : TRUE

\* Induction over the subsets of a finite set, in the order in which a fold takes them.
LEMMA SubsetInduction ==
  ASSUME NEW S, IsFiniteSet(S), NEW Z, {} \in Z,
         \A s \in SUBSET S : \A x \in s : x = Pick(s) /\ s \ {x} \in Z => s \in Z
  PROVE  SUBSET S \subseteq Z
<1> DEFINE K == {k \in Nat : \A s \in SUBSET S : Cardinality(s) <= k => s \in Z}
<1>1. \A s \in SUBSET S : IsFiniteSet(s) /\ Cardinality(s) \in Nat
  BY FS_Subset, FS_CardinalityType
<1>2. 0 \in K
  <2>1. \A s \in SUBSET S : Cardinality(s) <= 0 => s = {}
    BY <1>1, FS_EmptySet
  <2> QED BY <2>1
<1>3. ASSUME NEW k \in Nat, k \in K PROVE k + 1 \in K
  <2> SUFFICES ASSUME NEW s \in SUBSET S, Cardinality(s) <= k + 1, s # {}
               PROVE  s \in Z
    OBVIOUS
  <2>1. PICK x \in s : x = Pick(s)
    BY DEF Pick
  <2> DEFINE u == s \ {x}
  <2>2. u \in SUBSET S /\ Cardinality(u) = Cardinality(s) - 1
    BY <1>1, FS_RemoveElement
  <2>3. Cardinality(u) <= k
    BY <1>1, <2>2
  <2>4. u \in Z
    BY <1>3, <2>2, <2>3
  <2> QED BY <2>1, <2>4
<1> HIDE DEF K
<1>4. Nat \subseteq K
  BY <1>2, <1>3, SetInduction
<1>5. ASSUME NEW s \in SUBSET S PROVE s \in Z
  <2>1. Cardinality(s) \in K /\ Cardinality(s) <= Cardinality(s)
    BY <1>1, <1>4
  <2> QED BY <2>1 DEF K
<1> QED BY <1>5

-----------------------------------------------------------------------------
(***************************************************************************)
(* Folds.                                                                  *)
(***************************************************************************)

\* What the folds of the model do with a member: fd_array_dup of its inode,
\* fd_array_close, sfs_fsync, or add it up.
Applied(kind, x, g) ==
  CASE kind = "dup"   -> Shared(g, x)
    [] kind = "close" -> vfs_close(g, x)
    [] kind = "sync"  -> Fsync(g, x)
    [] kind = "sum"   -> x + g

\* it[s] is the fold over s, for the subsets s of S; the members stand for of[x].
FoldsAs(it, kind, of, base, S) ==
  it = [s \in SUBSET S |-> IF s = {} THEN base
                           ELSE Applied(kind, of[Pick(s)], it[s \ {Pick(s)}])]

\* The recursive function that a fold is defined by exists.
LEMMA FoldExists ==
  ASSUME NEW S, IsFiniteSet(S), NEW base, NEW kind, NEW of
  PROVE  \E it : FoldsAs(it, kind, of, base, S)
<1> DEFINE Small(k) == {s \in SUBSET S : Cardinality(s) <= k}
           Solves(h, k) == h = [s \in Small(k) |->
                              IF s = {} THEN base
                              ELSE Applied(kind, of[Pick(s)], h[s \ {Pick(s)}])]
           Solved == {k \in Nat : \E h : Solves(h, k)}
<1>1. \A s \in SUBSET S : IsFiniteSet(s) /\ Cardinality(s) \in Nat
  BY FS_Subset, FS_CardinalityType
<1>2. \A s \in SUBSET S : s # {} => /\ Pick(s) \in s /\ s \ {Pick(s)} \in SUBSET S
                                    /\ Cardinality(s \ {Pick(s)}) = Cardinality(s) - 1
  <2> SUFFICES ASSUME NEW s \in SUBSET S, s # {}
               PROVE  /\ Pick(s) \in s /\ s \ {Pick(s)} \in SUBSET S
                      /\ Cardinality(s \ {Pick(s)}) = Cardinality(s) - 1
    OBVIOUS
  <2>1. Pick(s) \in s
    BY DEF Pick
  <2> QED BY <1>1, <2>1, FS_RemoveElement
<1>3. 0 \in Solved
  <2>1. \A s \in Small(0) : s = {}
    BY <1>1, FS_EmptySet
  <2> DEFINE h == [s \in Small(0) |-> base]
  <2>2. Solves(h, 0)
    BY <2>1
  <2> QED BY <2>2
<1>4. ASSUME NEW k \in Nat, k \in Solved PROVE k + 1 \in Solved
  <2>1. PICK h : Solves(h, k)
    BY <1>4
  <2> DEFINE g == [s \in Small(k + 1) |->
                     IF s \in Small(k) THEN h[s]
                     ELSE Applied(kind, of[Pick(s)], h[s \ {Pick(s)}])]
  <2>2. \A s \in Small(k + 1) : s # {} =>
          /\ s \ {Pick(s)} \in Small(k) /\ s \ {Pick(s)} \in Small(k + 1)
    BY <1>1, <1>2
  <2>3. \A s \in Small(k) : s \in Small(k + 1) /\ g[s] = h[s]
    BY <1>1
  <2>4. {} \in Small(k)
    BY FS_EmptySet
  <2>5. \A s \in Small(k) : h[s] = IF s = {} THEN base
                                   ELSE Applied(kind, of[Pick(s)], h[s \ {Pick(s)}])
    BY <2>1
  <2>6. \A s \in Small(k + 1) : g[s] = IF s \in Small(k) THEN h[s]
                     ELSE Applied(kind, of[Pick(s)], h[s \ {Pick(s)}])
    OBVIOUS
  <2>7. DOMAIN g = Small(k + 1) /\ g = [s \in DOMAIN g |-> g[s]]
    OBVIOUS
  <2> HIDE DEF g, Small
  <2>8. \A s \in Small(k + 1) : g[s] = IF s = {} THEN base
                                   ELSE Applied(kind, of[Pick(s)], g[s \ {Pick(s)}])
    BY <2>2, <2>3, <2>4, <2>5, <2>6
  <2>9. Solves(g, k + 1)
    BY <2>7, <2>8
  <2> QED BY <2>9
<1> HIDE DEF Solved
<1>5. Cardinality(S) \in Solved
  BY <1>1, <1>3, <1>4, SetInduction
<1>6. PICK h : Solves(h, Cardinality(S))
  BY <1>5 DEF Solved
<1>7. \A s \in SUBSET S : Cardinality(s) <= Cardinality(S)
  BY FS_Subset
<1>8. Small(Cardinality(S)) = SUBSET S
  BY <1>7
<1> QED BY <1>6, <1>8 DEF FoldsAs

\* The equations of a fold, for a set and what it takes out of it.
LEMMA FoldSteps ==
  ASSUME NEW S, NEW base, NEW kind, NEW of, NEW it, FoldsAs(it, kind, of, base, S)
  PROVE  /\ it[{}] = base
         /\ \A s \in SUBSET S : \A x \in s :
              x = Pick(s) => it[s] = Applied(kind, of[x], it[s \ {x}])
<1>1. \A s \in SUBSET S : it[s] = IF s = {} THEN base
                                  ELSE Applied(kind, of[Pick(s)], it[s \ {Pick(s)}])
  BY DEF FoldsAs
<1> QED BY <1>1

\* fd_array_close of the descriptors S.
LEMMA CloseFold ==
  ASSUME NEW S, IsFiniteSet(S), NEW f, NEW array, NEW of, \A x \in S : of[x] = array[x].node
  PROVE  \E it : FoldsAs(it, "close", of, f, S) /\ CloseAll(f, array, S) = it[S]
<1> DEFINE Eq(it) == it = [s \in SUBSET S |->
                             IF s = {} THEN f
                             ELSE vfs_close(it[s \ {CHOOSE x \in s : TRUE}],
                                            array[CHOOSE x \in s : TRUE].node)]
           it == CHOOSE it : Eq(it)
<1>1. CloseAll(f, array, S) = it[S]
  BY DEF CloseAll, FoldSet, MapThenFoldSet
<1>2. PICK h : FoldsAs(h, "close", of, f, S)
  BY FoldExists
<1>3. \A s \in SUBSET S : s # {} => of[CHOOSE x \in s : TRUE] = array[CHOOSE x \in s : TRUE].node
  OBVIOUS
<1>4. ASSUME NEW h1 PROVE FoldsAs(h1, "close", of, f, S) <=> Eq(h1)
  BY <1>3 DEF FoldsAs, Applied, Pick
<1> HIDE DEF Eq
<1>5. \E h1 : Eq(h1)
  BY <1>2, <1>4
<1>6. Eq(it)
  BY ONLY <1>5
<1> HIDE DEF it
<1> QED BY <1>1, <1>4, <1>6

\* fd_array_dup of the descriptors S.
LEMMA DupFold ==
  ASSUME NEW S, IsFiniteSet(S), NEW f, NEW array, NEW of, \A x \in S : of[x] = array[x].node
  PROVE  \E it : FoldsAs(it, "dup", of, f, S) /\ DupAll(f, array, S) = it[S]
<1> DEFINE Eq(it) == it = [s \in SUBSET S |->
                             IF s = {} THEN f
                             ELSE Shared(it[s \ {CHOOSE x \in s : TRUE}],
                                         array[CHOOSE x \in s : TRUE].node)]
           it == CHOOSE it : Eq(it)
<1>1. DupAll(f, array, S) = it[S]
  BY DEF DupAll, FoldSet, MapThenFoldSet
<1>2. PICK h : FoldsAs(h, "dup", of, f, S)
  BY FoldExists
<1>3. \A s \in SUBSET S : s # {} => of[CHOOSE x \in s : TRUE] = array[CHOOSE x \in s : TRUE].node
  OBVIOUS
<1>4. ASSUME NEW h1 PROVE FoldsAs(h1, "dup", of, f, S) <=> Eq(h1)
  BY <1>3 DEF FoldsAs, Applied, Pick
<1> HIDE DEF Eq
<1>5. \E h1 : Eq(h1)
  BY <1>2, <1>4
<1>6. Eq(it)
  BY ONLY <1>5
<1> HIDE DEF it
<1> QED BY <1>1, <1>4, <1>6

\* sfs_fsync of the inodes S.
LEMMA SyncFold ==
  ASSUME NEW S, IsFiniteSet(S), NEW f, NEW of, \A x \in S : of[x] = x
  PROVE  \E it : FoldsAs(it, "sync", of, f, S) /\ SyncAll(f, S) = it[S]
<1> DEFINE Eq(it) == it = [s \in SUBSET S |->
                             IF s = {} THEN f
                             ELSE Fsync(it[s \ {CHOOSE x \in s : TRUE}],
                                        CHOOSE x \in s : TRUE)]
           it == CHOOSE it : Eq(it)
<1>1. SyncAll(f, S) = it[S]
  BY DEF SyncAll, FoldSet, MapThenFoldSet
<1>2. PICK h : FoldsAs(h, "sync", of, f, S)
  BY FoldExists
<1>3. \A s \in SUBSET S : s # {} => of[CHOOSE x \in s : TRUE] = CHOOSE x \in s : TRUE
  OBVIOUS
<1>4. ASSUME NEW h1 PROVE FoldsAs(h1, "sync", of, f, S) <=> Eq(h1)
  BY <1>3 DEF FoldsAs, Applied, Pick
<1> HIDE DEF Eq
<1>5. \E h1 : Eq(h1)
  BY <1>2, <1>4
<1>6. Eq(it)
  BY ONLY <1>5
<1> HIDE DEF it
<1> QED BY <1>1, <1>4, <1>6

\* The sum of v over all inodes.
Total(v) == (CHOOSE it : FoldsAs(it, "sum", v, 0, Node))[Node]

\* There are finitely many inodes.
LEMMA NodesFinite == IsFiniteSet(Node)
BY SfsAssumption, FS_AddElement DEF Node

\* Sums of values that differ at n only.
LEMMA SumsDiffer ==
  ASSUME NEW v \in [Node -> Nat], NEW w \in [Node -> Nat], NEW n \in Node,
         \A x \in Node \ {n} : w[x] = v[x],
         NEW h, FoldsAs(h, "sum", v, 0, Node), NEW g, FoldsAs(g, "sum", w, 0, Node)
  PROVE  h[Node] \in Nat /\ g[Node] \in Nat /\ g[Node] - h[Node] = w[n] - v[n]
<1> DEFINE Z == {s \in SUBSET Node : /\ h[s] \in Nat /\ g[s] \in Nat
                                     /\ g[s] - h[s] = IF n \in s THEN w[n] - v[n] ELSE 0}
<1>1. {} \in Z
  <2>1. h[{}] = 0 /\ g[{}] = 0
    BY FoldSteps
  <2> QED BY <2>1
<1>2. ASSUME NEW s \in SUBSET Node, NEW x \in s, x = Pick(s), s \ {x} \in Z PROVE s \in Z
  <2>1. h[s] = Applied("sum", v[x], h[s \ {x}]) /\ g[s] = Applied("sum", w[x], g[s \ {x}])
    BY <1>2, FoldSteps
  <2> DEFINE a == h[s \ {x}]
             b == g[s \ {x}]
  <2>2. h[s] = v[x] + a /\ g[s] = w[x] + b
    BY <2>1 DEF Applied
  <2>3. /\ a \in Nat /\ b \in Nat /\ v[x] \in Nat /\ w[x] \in Nat /\ v[n] \in Nat /\ w[n] \in Nat
        /\ b - a = IF n \in s \ {x} THEN w[n] - v[n] ELSE 0
    BY <1>2
  <2> HIDE DEF a, b
  <2>4. h[s] \in Nat /\ g[s] \in Nat
    BY <2>2, <2>3
  <2>5. CASE x = n
    <3>1. b - a = 0
      BY <2>3, <2>5
    <3>2. g[s] - h[s] = w[n] - v[n]
      BY ONLY <2>2, <2>3, <2>5, <3>1
    <3> QED BY <2>4, <2>5, <3>2
  <2>6. CASE x # n
    <3>1. w[x] = v[x] /\ b - a = IF n \in s THEN w[n] - v[n] ELSE 0
      BY <2>3, <2>6
    <3>2. g[s] - h[s] = b - a
      BY ONLY <2>2, <2>3, <3>1
    <3> QED BY <2>4, <3>1, <3>2
  <2> QED BY <2>5, <2>6
<1> HIDE DEF Z
<1>3. Node \in Z
  BY <1>1, <1>2, NodesFinite, SubsetInduction
<1> QED BY <1>3 DEF Z

\* A total is what adding up one inode after the other comes to.
LEMMA TotalIs ==
  ASSUME NEW v
  PROVE  \E it : FoldsAs(it, "sum", v, 0, Node) /\ Total(v) = it[Node]
<1>1. \E it : FoldsAs(it, "sum", v, 0, Node)
  BY NodesFinite, FoldExists
<1> DEFINE it == CHOOSE it : FoldsAs(it, "sum", v, 0, Node)
<1>2. FoldsAs(it, "sum", v, 0, Node)
  BY ONLY <1>1
<1> QED BY <1>2 DEF Total

\* Changing the share of one inode changes the total by as much.
LEMMA TotalChange ==
  ASSUME NEW v \in [Node -> Nat], NEW w \in [Node -> Nat], NEW n \in Node,
         \A x \in Node \ {n} : w[x] = v[x]
  PROVE  Total(v) \in Nat /\ Total(w) \in Nat /\ Total(w) - Total(v) = w[n] - v[n]
BY TotalIs, SumsDiffer

\* MapThenSumSet of what the inodes claim is this sum.
LEMMA TotalClaimed ==
  ASSUME NEW v \in [Node -> Nat], \A n \in Node : v[n] = Claimed(n)
  PROVE  MapThenSumSet(Claimed, Node) = Total(v)
<1> DEFINE Eq(it) == it = [s \in SUBSET Node |->
                             IF s = {} THEN 0
                             ELSE Claimed(CHOOSE x \in s : TRUE)
                                    + it[s \ {CHOOSE x \in s : TRUE}]]
           it == CHOOSE it : Eq(it)
<1>1. MapThenSumSet(Claimed, Node) = it[Node]
  BY DEF MapThenSumSet, MapThenFoldSet
<1>2. PICK h : FoldsAs(h, "sum", v, 0, Node) /\ Total(v) = h[Node]
  BY TotalIs
<1>3. \A s \in SUBSET Node : s # {} => v[CHOOSE x \in s : TRUE] = Claimed(CHOOSE x \in s : TRUE)
  OBVIOUS
<1>4. ASSUME NEW h1 PROVE FoldsAs(h1, "sum", v, 0, Node) <=> Eq(h1)
  <2>1. ASSUME NEW s \in SUBSET Node, s # {}
        PROVE  Applied("sum", v[Pick(s)], h1[s \ {Pick(s)}])
                 = Claimed(CHOOSE x \in s : TRUE) + h1[s \ {CHOOSE x \in s : TRUE}]
    <3>1. v[Pick(s)] = Claimed(CHOOSE x \in s : TRUE)
      BY <1>3, <2>1 DEF Pick
    <3>2. Applied("sum", v[Pick(s)], h1[s \ {Pick(s)}]) = v[Pick(s)] + h1[s \ {Pick(s)}]
      BY DEF Applied
    <3> QED BY ONLY <3>1, <3>2 DEF Pick
  <2>2. [s \in SUBSET Node |-> IF s = {} THEN 0
                               ELSE Applied("sum", v[Pick(s)], h1[s \ {Pick(s)}])]
        = [s \in SUBSET Node |-> IF s = {} THEN 0
                                 ELSE Claimed(CHOOSE x \in s : TRUE)
                                        + h1[s \ {CHOOSE x \in s : TRUE}]]
    BY ONLY <2>1
  <2> QED BY <2>2 DEF FoldsAs
<1> HIDE DEF Eq
<1>5. \E h1 : Eq(h1)
  BY <1>2, <1>4
<1>6. Eq(it)
  BY ONLY <1>5
<1> HIDE DEF it
<1>7. FoldsAs(it, "sum", v, 0, Node)
  BY <1>4, <1>6
<1>8. Root \in Node /\ v[Root] - v[Root] = 0
  BY DEF Node
<1>9. it[Node] \in Nat /\ h[Node] \in Nat /\ it[Node] - h[Node] = 0
  BY <1>2, <1>7, <1>8, SumsDiffer
<1> QED BY <1>1, <1>2, <1>9

-----------------------------------------------------------------------------
(***************************************************************************)
(* File systems as records.                                                *)
(***************************************************************************)
Entries == SUBSET (NDIRECT..MaxSize - 1)

\* A file system with the inode in memory, the one on the disk and the entries of n
\* replaced, and so many unused blocks.
Put(f, n, m, d, e, u) ==
  [mem |-> [f.mem EXCEPT ![n] = m], disk |-> [f.disk EXCEPT ![n] = d],
   entries |-> [f.entries EXCEPT ![n] = e], unused |-> u, saved |-> f.saved, ok |-> f.ok]

\* The fields of a file system, and that they are all of it.
LEMMA FsParts ==
  ASSUME NEW f \in FileSystem
  PROVE  /\ f.mem \in [Node -> Inode \cup {Gone}]
         /\ f.disk \in [Node -> DiskInode]
         /\ f.entries \in [Node -> Entries]
         /\ f.unused \in Nat /\ f.saved \in Nat /\ f.ok \in BOOLEAN
         /\ f = [mem |-> f.mem, disk |-> f.disk, entries |-> f.entries,
                 unused |-> f.unused, saved |-> f.saved, ok |-> f.ok]
BY DEF FileSystem, Entries

\* A record with such fields is a file system.
LEMMA FsMake ==
  ASSUME NEW M \in [Node -> Inode \cup {Gone}], NEW D \in [Node -> DiskInode],
         NEW E \in [Node -> Entries], NEW u \in Nat, NEW s \in Nat, NEW b \in BOOLEAN,
         NEW g, g = [mem |-> M, disk |-> D, entries |-> E, unused |-> u, saved |-> s, ok |-> b]
  PROVE  /\ g \in FileSystem
         /\ g.mem = M /\ g.disk = D /\ g.entries = E /\ g.unused = u /\ g.saved = s /\ g.ok = b
BY DEF FileSystem, Entries

\* The fields of a Put.
LEMMA PutIs ==
  ASSUME NEW f \in FileSystem, NEW n \in Node, NEW m \in Inode \cup {Gone},
         NEW d \in DiskInode, NEW e \in Entries, NEW u \in Nat
  PROVE  /\ Put(f, n, m, d, e, u) \in FileSystem
         /\ Put(f, n, m, d, e, u).mem = [f.mem EXCEPT ![n] = m]
         /\ Put(f, n, m, d, e, u).disk = [f.disk EXCEPT ![n] = d]
         /\ Put(f, n, m, d, e, u).entries = [f.entries EXCEPT ![n] = e]
         /\ Put(f, n, m, d, e, u).unused = u
         /\ Put(f, n, m, d, e, u).saved = f.saved /\ Put(f, n, m, d, e, u).ok = f.ok
<1> DEFINE M == [f.mem EXCEPT ![n] = m]
           D == [f.disk EXCEPT ![n] = d]
           E == [f.entries EXCEPT ![n] = e]
<1>1. /\ M \in [Node -> Inode \cup {Gone}] /\ D \in [Node -> DiskInode]
      /\ E \in [Node -> Entries] /\ f.saved \in Nat /\ f.ok \in BOOLEAN
  BY FsParts
<1>2. Put(f, n, m, d, e, u) = [mem |-> M, disk |-> D, entries |-> E, unused |-> u,
                               saved |-> f.saved, ok |-> f.ok]
  BY DEF Put
<1> HIDE DEF M, D, E
<1>3. /\ Put(f, n, m, d, e, u) \in FileSystem
      /\ Put(f, n, m, d, e, u).mem = M /\ Put(f, n, m, d, e, u).disk = D
      /\ Put(f, n, m, d, e, u).entries = E /\ Put(f, n, m, d, e, u).unused = u
      /\ Put(f, n, m, d, e, u).saved = f.saved /\ Put(f, n, m, d, e, u).ok = f.ok
  BY <1>1, <1>2, FsMake
<1> QED BY <1>3 DEF M, D, E

\* A put of what is there.
LEMMA PutSame ==
  ASSUME NEW f \in FileSystem, NEW n \in Node, NEW m
  PROVE  Put(f, n, m, f.disk[n], f.entries[n], f.unused) = [f EXCEPT !.mem = [f.mem EXCEPT ![n] = m]]
<1> DEFINE M == [f.mem EXCEPT ![n] = m]
<1>1. f.disk = [f.disk EXCEPT ![n] = f.disk[n]] /\ f.entries = [f.entries EXCEPT ![n] = f.entries[n]]
  BY FsParts
<1>2. f = [mem |-> f.mem, disk |-> f.disk, entries |-> f.entries,
           unused |-> f.unused, saved |-> f.saved, ok |-> f.ok]
  BY FsParts
<1> HIDE DEF M
<1>3. [f EXCEPT !.mem = M] = [mem |-> M, disk |-> f.disk, entries |-> f.entries,
                              unused |-> f.unused, saved |-> f.saved, ok |-> f.ok]
  BY ONLY <1>2
<1> QED BY <1>1, <1>3 DEF Put, M

-----------------------------------------------------------------------------
(***************************************************************************)
(* The invariant of an inode and of the file system.                       *)
(***************************************************************************)
View(m, d) == IF m = Gone THEN d ELSE m.din

Claim(d, e) == Least(d.blocks, NDIRECT) + Cardinality(e) + (IF d.indirect THEN 1 ELSE 0)

\* What is on the disk for an inode v in memory that is not marked dirty: all of it
\* but for blocks that were entered in the indirect block, which has them.
Matches(d, v) ==
  /\ d.size = v.size /\ d.indirect = v.indirect
  /\ d.blocks <= v.blocks /\ (d.blocks = v.blocks \/ d.blocks >= NDIRECT)

\* An inode with k descriptors open and o other references.
NodeOK(m, d, e, k, o) ==
  /\ IF m = Gone THEN k = 0 /\ o = 0 ELSE m.open = k /\ m.ref = k + o
  /\ NDIRECT..View(m, d).blocks - 1 \subseteq e
  /\ View(m, d).blocks > NDIRECT => View(m, d).indirect
  /\ m # Gone /\ ~m.dirty => Matches(d, m.din)

Claims(f) == [n \in Node |-> Claim(Din(f, n), f.entries[n])]
Sizes(f)  == [n \in Node |-> Din(f, n).size]

\* f with num[n] descriptors open on n and oth[n] other references to it.
FsOK(f, num, oth) ==
  /\ f \in FileSystem
  /\ num \in [Node -> Nat] /\ oth \in [Node -> Nat]
  /\ \A n \in Node : NodeOK(f.mem[n], f.disk[n], f.entries[n], num[n], oth[n])
  /\ f.unused + Total(Claims(f)) = Capacity

\* How many blocks an inode claims is a number.
LEMMA ClaimType ==
  ASSUME NEW d \in DiskInode, NEW e \in Entries
  PROVE  Claim(d, e) \in Nat /\ IsFiniteSet(e) /\ Cardinality(e) \in Nat
<1>1. IsFiniteSet(NDIRECT..MaxSize - 1)
  <2>1. NDIRECT \in Int /\ MaxSize - 1 \in Int
    BY SfsAssumption
  <2> QED BY <2>1, FS_Interval
<1>2. IsFiniteSet(e) /\ Cardinality(e) \in Nat
  BY <1>1, FS_Subset, FS_CardinalityType DEF Entries
<1>3. d.blocks \in Nat /\ NDIRECT \in Nat
  BY SfsAssumption DEF DiskInode
<1>4. Least(d.blocks, NDIRECT) \in Nat
  BY <1>3 DEF Least
<1> QED BY <1>2, <1>4 DEF Claim

\* The inode as the system sees it.
LEMMA ViewType ==
  ASSUME NEW f \in FileSystem, NEW n \in Node
  PROVE  /\ f.mem[n] \in Inode \cup {Gone} /\ f.disk[n] \in DiskInode /\ f.entries[n] \in Entries
         /\ Din(f, n) = View(f.mem[n], f.disk[n]) /\ Din(f, n) \in DiskInode
<1>1. f.mem[n] \in Inode \cup {Gone} /\ f.disk[n] \in DiskInode /\ f.entries[n] \in Entries
  BY FsParts
<1> QED BY <1>1 DEF Din, View, Inode

\* So are the claims of all inodes.
LEMMA ClaimsType ==
  ASSUME NEW f \in FileSystem
  PROVE  Claims(f) \in [Node -> Nat]
<1>1. ASSUME NEW n \in Node PROVE Claim(Din(f, n), f.entries[n]) \in Nat
  BY ViewType, ClaimType
<1> QED BY <1>1 DEF Claims

\* Changing one inode: what is claimed and what is unused must go together.
LEMMA PutOK ==
  ASSUME NEW f, NEW num, NEW oth, FsOK(f, num, oth), NEW n \in Node,
         NEW m \in Inode \cup {Gone}, NEW d \in DiskInode, NEW e \in Entries, NEW u \in Nat,
         NEW k \in Nat, NEW o \in Nat, NodeOK(m, d, e, k, o),
         u + Claim(View(m, d), e) = f.unused + Claim(Din(f, n), f.entries[n])
  PROVE  /\ FsOK(Put(f, n, m, d, e, u), [num EXCEPT ![n] = k], [oth EXCEPT ![n] = o])
         /\ Din(Put(f, n, m, d, e, u), n) = View(m, d)
         /\ \A x \in Node \ {n} : Din(Put(f, n, m, d, e, u), x) = Din(f, x)
<1> DEFINE g == Put(f, n, m, d, e, u)
<1>1. f \in FileSystem
  BY DEF FsOK
<1>2. /\ g \in FileSystem
      /\ g.mem = [f.mem EXCEPT ![n] = m] /\ g.disk = [f.disk EXCEPT ![n] = d]
      /\ g.entries = [f.entries EXCEPT ![n] = e] /\ g.unused = u
  BY <1>1, PutIs
<1> HIDE DEF g
<1>3. /\ g.mem[n] = m /\ g.disk[n] = d /\ g.entries[n] = e
      /\ \A x \in Node \ {n} : g.mem[x] = f.mem[x] /\ g.disk[x] = f.disk[x]
                               /\ g.entries[x] = f.entries[x]
  BY <1>1, <1>2, FsParts
<1>4. Din(g, n) = View(m, d) /\ \A x \in Node \ {n} : Din(g, x) = Din(f, x)
  BY <1>3 DEF Din, View
<1>5. Claims(f) \in [Node -> Nat] /\ Claims(g) \in [Node -> Nat]
  BY <1>1, <1>2, ClaimsType
<1>6. \A x \in Node \ {n} : Claims(g)[x] = Claims(f)[x]
  BY <1>3, <1>4 DEF Claims
<1>7. Claims(g)[n] = Claim(View(m, d), e) /\ Claims(f)[n] = Claim(Din(f, n), f.entries[n])
  BY <1>3, <1>4 DEF Claims
<1>8. /\ Total(Claims(f)) \in Nat /\ Total(Claims(g)) \in Nat
      /\ Total(Claims(g)) - Total(Claims(f)) = Claims(g)[n] - Claims(f)[n]
  BY <1>5, <1>6, TotalChange
<1>9. g.unused + Total(Claims(g)) = Capacity
  <2>1. /\ f.unused + Total(Claims(f)) = Capacity /\ f.unused \in Nat
        /\ Claims(f)[n] \in Nat /\ Claims(g)[n] \in Nat
    BY <1>1, <1>5, FsParts DEF FsOK
  <2>2. u + Claims(g)[n] = f.unused + Claims(f)[n]
    BY <1>7
  <2> QED BY ONLY <1>2, <1>8, <2>1, <2>2, u \in Nat
<1>10. /\ [num EXCEPT ![n] = k] \in [Node -> Nat] /\ [oth EXCEPT ![n] = o] \in [Node -> Nat]
       /\ \A x \in Node : NodeOK(g.mem[x], g.disk[x], g.entries[x], [num EXCEPT ![n] = k][x],
                                 [oth EXCEPT ![n] = o][x])
  BY <1>3 DEF FsOK
<1>11. FsOK(g, [num EXCEPT ![n] = k], [oth EXCEPT ![n] = o])
  BY <1>2, <1>9, <1>10 DEF FsOK
<1> QED BY <1>4, <1>11 DEF g

-----------------------------------------------------------------------------
(***************************************************************************)
(* References.                                                             *)
(***************************************************************************)
\* The sizes of files are those they were, for the inodes S.
SameSizes(f, g, S) == \A x \in S : Din(g, x).size = Din(f, x).size

\* The parts of an inode.
LEMMA InodeParts ==
  ASSUME NEW f, NEW num, NEW oth, FsOK(f, num, oth), NEW n \in Node, f.mem[n] # Gone
  PROVE  /\ f.mem[n] \in Inode /\ f.mem[n].din \in DiskInode /\ f.mem[n].dirty \in BOOLEAN
         /\ f.mem[n] = [din |-> f.mem[n].din, ref |-> num[n] + oth[n], open |-> num[n],
                        dirty |-> f.mem[n].dirty]
         /\ num[n] + oth[n] # 0
         /\ Din(f, n) = f.mem[n].din
<1>1. f.mem[n] \in Inode
  BY ViewType DEF FsOK
<1>2. f.mem[n].open = num[n] /\ f.mem[n].ref = num[n] + oth[n]
  BY DEF FsOK, NodeOK
<1>3. f.mem[n].ref # 0
  BY <1>1 DEF Inode
<1> QED BY <1>1, <1>2, <1>3 DEF Inode, Din

\* An inode in memory whose counts change.
LEMMA Recount ==
  ASSUME NEW f, NEW num, NEW oth, FsOK(f, num, oth), NEW n \in Node, f.mem[n] # Gone,
         NEW k \in Nat, NEW o \in Nat, k + o # 0, NEW g,
         g = [f EXCEPT !.mem = [f.mem EXCEPT ![n] =
                [din |-> f.mem[n].din, ref |-> k + o, open |-> k, dirty |-> f.mem[n].dirty]]]
  PROVE  /\ FsOK(g, [num EXCEPT ![n] = k], [oth EXCEPT ![n] = o])
         /\ SameSizes(f, g, Node)
<1> DEFINE m == [din |-> f.mem[n].din, ref |-> k + o, open |-> k, dirty |-> f.mem[n].dirty]
           d == f.disk[n]
           e == f.entries[n]
<1>1. f \in FileSystem
  BY DEF FsOK
<1>2. /\ m \in Inode /\ m # Gone
      /\ m.din = f.mem[n].din /\ m.ref = k + o /\ m.open = k /\ m.dirty = f.mem[n].dirty
  <2>1. f.mem[n].din \in DiskInode /\ f.mem[n].dirty \in BOOLEAN
    BY InodeParts
  <2>2. k + o \in Nat \ {0}
    OBVIOUS
  <2>3. m \in Inode
    BY <2>1, <2>2 DEF Inode
  <2> QED BY <2>3, GoneAssumption
<1>3. d \in DiskInode /\ e \in Entries /\ f.unused \in Nat
  BY <1>1, ViewType, FsParts
<1>4. g = Put(f, n, m, d, e, f.unused)
  BY <1>1, PutSame
<1> HIDE DEF m
<1>5. View(m, d) = View(f.mem[n], d) /\ View(m, d) = Din(f, n)
  BY <1>1, <1>2, ViewType DEF View
<1>6. NodeOK(m, d, e, k, o)
  <2>1. NodeOK(f.mem[n], d, e, num[n], oth[n])
    BY DEF FsOK
  <2> HIDE DEF d, e
  <2> QED BY <1>2, <1>5, <2>1 DEF NodeOK
<1>7. /\ FsOK(g, [num EXCEPT ![n] = k], [oth EXCEPT ![n] = o])
      /\ Din(g, n) = View(m, d)
      /\ \A x \in Node \ {n} : Din(g, x) = Din(f, x)
  BY <1>2, <1>3, <1>4, <1>5, <1>6, PutOK
<1> QED BY <1>5, <1>7 DEF SameSizes

\* inode_ref_inc: one more reference that is not a descriptor.
LEMMA RefIncOK ==
  ASSUME NEW f, NEW num, NEW oth, FsOK(f, num, oth), NEW n \in Node, f.mem[n] # Gone
  PROVE  /\ FsOK(RefInc(f, n), num, [oth EXCEPT ![n] = oth[n] + 1])
         /\ SameSizes(f, RefInc(f, n), Node)
<1>1. num \in [Node -> Nat] /\ oth \in [Node -> Nat]
  BY DEF FsOK
<1>2. num[n] \in Nat /\ oth[n] + 1 \in Nat /\ num[n] + (oth[n] + 1) = (num[n] + oth[n]) + 1
      /\ num[n] + (oth[n] + 1) # 0
  BY <1>1
<1>3. [f.mem[n] EXCEPT !.ref = @ + 1] =
        [din |-> f.mem[n].din, ref |-> (num[n] + oth[n]) + 1, open |-> num[n], dirty |-> f.mem[n].dirty]
  <2>1. f.mem[n] = [din |-> f.mem[n].din, ref |-> num[n] + oth[n], open |-> num[n],
                    dirty |-> f.mem[n].dirty]
    BY InodeParts
  <2> QED BY ONLY <2>1
<1>4. RefInc(f, n) = [f EXCEPT !.mem = [f.mem EXCEPT ![n] = [f.mem[n] EXCEPT !.ref = @ + 1]]]
  BY DEF RefInc
<1>5. num = [num EXCEPT ![n] = num[n]]
  BY <1>1
<1> QED BY <1>2, <1>3, <1>4, <1>5, Recount

\* inode_open_inc: a reference becomes a descriptor's.
LEMMA OpenIncOK ==
  ASSUME NEW f, NEW num, NEW oth, FsOK(f, num, oth), NEW n \in Node, f.mem[n] # Gone,
         oth[n] # 0
  PROVE  /\ FsOK(OpenInc(f, n), [num EXCEPT ![n] = num[n] + 1], [oth EXCEPT ![n] = oth[n] - 1])
         /\ SameSizes(f, OpenInc(f, n), Node)
<1>1. num \in [Node -> Nat] /\ oth \in [Node -> Nat]
  BY DEF FsOK
<1>2. num[n] + 1 \in Nat /\ oth[n] - 1 \in Nat
      /\ (num[n] + 1) + (oth[n] - 1) = num[n] + oth[n]
      /\ (num[n] + 1) + (oth[n] - 1) # 0
  BY <1>1
<1>3. [f.mem[n] EXCEPT !.open = @ + 1] =
        [din |-> f.mem[n].din, ref |-> num[n] + oth[n], open |-> num[n] + 1, dirty |-> f.mem[n].dirty]
  <2>1. f.mem[n] = [din |-> f.mem[n].din, ref |-> num[n] + oth[n], open |-> num[n],
                    dirty |-> f.mem[n].dirty]
    BY InodeParts
  <2> QED BY ONLY <2>1
<1>4. OpenInc(f, n) = [f EXCEPT !.mem = [f.mem EXCEPT ![n] = [f.mem[n] EXCEPT !.open = @ + 1]]]
  BY DEF OpenInc
<1> QED BY <1>2, <1>3, <1>4, Recount

\* fd_array_dup: one more descriptor on an inode that is in memory.
LEMMA SharedOK ==
  ASSUME NEW f, NEW num, NEW oth, FsOK(f, num, oth), NEW n \in Node, f.mem[n] # Gone
  PROVE  /\ FsOK(Shared(f, n), [num EXCEPT ![n] = num[n] + 1], oth)
         /\ SameSizes(f, Shared(f, n), Node)
<1> DEFINE g == RefInc(f, n)
           o1 == [oth EXCEPT ![n] = oth[n] + 1]
<1>1. num \in [Node -> Nat] /\ oth \in [Node -> Nat]
  BY DEF FsOK
<1>2. FsOK(g, num, o1) /\ SameSizes(f, g, Node)
  BY RefIncOK
<1>3. o1[n] # 0 /\ [o1 EXCEPT ![n] = o1[n] - 1] = oth
  <2>1. oth[n] \in Nat /\ o1[n] = oth[n] + 1
    BY <1>1
  <2>2. o1[n] # 0 /\ o1[n] - 1 = oth[n]
    BY ONLY <2>1
  <2>3. [o1 EXCEPT ![n] = oth[n]] = oth
    BY <1>1
  <2> QED BY <2>2, <2>3
<1>4. g.mem[n] # Gone
  <2>1. NodeOK(g.mem[n], g.disk[n], g.entries[n], num[n], o1[n])
    BY <1>2 DEF FsOK
  <2> HIDE DEF g, o1
  <2> QED BY <1>3, <2>1 DEF NodeOK
<1>5. Shared(f, n) = OpenInc(g, n)
  BY DEF Shared
<1> HIDE DEF g, o1
<1>6. /\ FsOK(OpenInc(g, n), [num EXCEPT ![n] = num[n] + 1], [o1 EXCEPT ![n] = o1[n] - 1])
      /\ SameSizes(g, OpenInc(g, n), Node)
  BY <1>2, <1>3, <1>4, OpenIncOK
<1> QED BY <1>2, <1>3, <1>5, <1>6 DEF SameSizes

\* While there is a reference the inode is in memory.
LEMMA InMemory ==
  ASSUME NEW f, NEW num, NEW oth, FsOK(f, num, oth), NEW n \in Node, num[n] # 0 \/ oth[n] # 0
  PROVE  f.mem[n] # Gone
BY DEF FsOK, NodeOK

\* sfs_load_inode: one more reference, whether or not the inode was in memory.
LEMMA LoadOK ==
  ASSUME NEW f, NEW num, NEW oth, FsOK(f, num, oth), NEW n \in Node
  PROVE  /\ FsOK(Load(f, n), num, [oth EXCEPT ![n] = oth[n] + 1])
         /\ SameSizes(f, Load(f, n), Node)
<1>1. CASE f.mem[n] # Gone
  BY <1>1, RefIncOK DEF Load
<1>2. CASE f.mem[n] = Gone
  <2> DEFINE d == f.disk[n]
             e == f.entries[n]
             m == [din |-> d, ref |-> 1, open |-> 0, dirty |-> FALSE]
  <2>1. f \in FileSystem /\ num \in [Node -> Nat] /\ oth \in [Node -> Nat]
    BY DEF FsOK
  <2>2. d \in DiskInode /\ e \in Entries /\ f.unused \in Nat /\ Din(f, n) = View(Gone, d)
    BY <1>2, <2>1, ViewType, FsParts
  <2>3. NodeOK(Gone, d, e, num[n], oth[n])
    BY <1>2 DEF FsOK
  <2>4. num[n] = 0 /\ oth[n] = 0
    BY <2>3 DEF NodeOK
  <2>5. m \in Inode /\ m # Gone
    <3>1. m \in Inode
      BY <2>2 DEF Inode
    <3> QED BY <3>1, GoneAssumption
  <2>6. Load(f, n) = Put(f, n, m, d, e, f.unused)
    <3>1. Load(f, n) = [f EXCEPT !.mem = [f.mem EXCEPT ![n] = m]]
      BY <1>2 DEF Load
    <3> HIDE DEF m
    <3> QED BY <2>1, <3>1, PutSame
  <2>7. m.din = d /\ m.ref = 1 /\ m.open = 0 /\ m.dirty = FALSE
    OBVIOUS
  <2>8. d.blocks \in Nat
    BY <2>2 DEF DiskInode
  <2> HIDE DEF m, d, e
  <2>9. View(m, d) = d /\ View(Gone, d) = d
    BY <2>5, <2>7 DEF View
  <2>10. NodeOK(m, d, e, 0, 1)
    BY <2>3, <2>5, <2>7, <2>8, <2>9 DEF NodeOK, Matches
  <2>11. /\ FsOK(Load(f, n), [num EXCEPT ![n] = 0], [oth EXCEPT ![n] = 1])
         /\ Din(Load(f, n), n) = View(m, d)
         /\ \A x \in Node \ {n} : Din(Load(f, n), x) = Din(f, x)
    BY <2>2, <2>5, <2>6, <2>9, <2>10, PutOK DEF e
  <2>12. num = [num EXCEPT ![n] = 0] /\ oth[n] + 1 = 1
    BY <2>1, <2>4
  <2> QED BY <2>2, <2>9, <2>11, <2>12 DEF SameSizes
<1> QED BY <1>1, <1>2

\* sfs_fsync changes the inode n only, and then the disk has all of it.
LEMMA FsyncOK ==
  ASSUME NEW f, NEW num, NEW oth, FsOK(f, num, oth), NEW n \in Node, f.mem[n] # Gone
  PROVE  /\ FsOK(Fsync(f, n), num, oth) /\ SameSizes(f, Fsync(f, n), Node)
         /\ Fsync(f, n).mem[n] # Gone /\ ~Fsync(f, n).mem[n].dirty
         /\ \A x \in Node \ {n} : Fsync(f, n).mem[x] = f.mem[x]
         /\ Fsync(f, n).unused = f.unused
<1>1. CASE ~f.mem[n].dirty
  BY <1>1 DEF Fsync, SameSizes
<1>2. CASE f.mem[n].dirty
  <2> DEFINE v == f.mem[n].din
             m == [din |-> v, ref |-> num[n] + oth[n], open |-> num[n], dirty |-> FALSE]
             e == f.entries[n]
  <2>1. f \in FileSystem /\ num \in [Node -> Nat] /\ oth \in [Node -> Nat]
    BY DEF FsOK
  <2>2. /\ v \in DiskInode /\ num[n] + oth[n] # 0 /\ Din(f, n) = v
        /\ f.mem[n] = [din |-> v, ref |-> num[n] + oth[n], open |-> num[n], dirty |-> f.mem[n].dirty]
    BY InodeParts
  <2>3. e \in Entries /\ f.unused \in Nat
    BY <2>1, ViewType, FsParts
  <2>4. m \in Inode /\ m # Gone
    <3>1. num[n] + oth[n] \in Nat \ {0} /\ num[n] \in Nat
      BY <2>1, <2>2
    <3>2. m \in Inode
      BY <2>2, <3>1 DEF Inode
    <3> QED BY <3>2, GoneAssumption
  <2>5. m.din = v /\ m.ref = num[n] + oth[n] /\ m.open = num[n] /\ m.dirty = FALSE
    OBVIOUS
  <2>6. Fsync(f, n) = Put(f, n, m, v, e, f.unused)
    <3>1. [f.mem[n] EXCEPT !.dirty = FALSE] = m
      <4>1. f.mem[n] = [din |-> f.mem[n].din, ref |-> num[n] + oth[n], open |-> num[n],
                        dirty |-> f.mem[n].dirty]
        BY InodeParts
      <4> DEFINE no == FALSE
      <4> HIDE DEF no
      <4>2. [f.mem[n] EXCEPT !.dirty = no] =
              [din |-> f.mem[n].din, ref |-> num[n] + oth[n], open |-> num[n], dirty |-> no]
        BY ONLY <4>1
      <4> USE DEF no
      <4> QED BY <4>2
    <3>2. Fsync(f, n) = [f EXCEPT !.mem = [f.mem EXCEPT ![n] = [f.mem[n] EXCEPT !.dirty = FALSE]],
                                  !.disk = [f.disk EXCEPT ![n] = v]]
      BY <1>2 DEF Fsync
    <3> DEFINE M == [f.mem EXCEPT ![n] = m]
               D == [f.disk EXCEPT ![n] = v]
    <3>3. Fsync(f, n) = [f EXCEPT !.mem = M, !.disk = D]
      BY ONLY <3>1, <3>2
    <3>4. Put(f, n, m, v, e, f.unused) =
            [mem |-> M, disk |-> D, entries |-> f.entries, unused |-> f.unused,
             saved |-> f.saved, ok |-> f.ok]
      <4>1. f.entries = [f.entries EXCEPT ![n] = e]
        BY <2>1, FsParts
      <4> HIDE DEF m, v, e
      <4> QED BY <4>1 DEF Put
    <3>5. f = [mem |-> f.mem, disk |-> f.disk, entries |-> f.entries,
               unused |-> f.unused, saved |-> f.saved, ok |-> f.ok]
      BY <2>1, FsParts
    <3> HIDE DEF M, D
    <3> DEFINE h == [f EXCEPT !.mem = M]
    <3>6. h = [mem |-> M, disk |-> f.disk, entries |-> f.entries, unused |-> f.unused,
               saved |-> f.saved, ok |-> f.ok]
      BY ONLY <3>5
    <3>7. [f EXCEPT !.mem = M, !.disk = D] = [h EXCEPT !.disk = D]
      OBVIOUS
    <3> HIDE DEF h
    <3>8. [h EXCEPT !.disk = D] =
            [mem |-> M, disk |-> D, entries |-> f.entries, unused |-> f.unused,
             saved |-> f.saved, ok |-> f.ok]
      BY ONLY <3>6
    <3> QED BY ONLY <3>3, <3>4, <3>7, <3>8
  <2>7. NodeOK(f.mem[n], f.disk[n], e, num[n], oth[n])
    BY DEF FsOK
  <2> HIDE DEF m
  <2>8. View(m, v) = v /\ View(f.mem[n], f.disk[n]) = v
    BY <2>4, <2>5 DEF View
  <2>9. v.blocks \in Nat
    BY <2>2 DEF DiskInode
  <2>10. NodeOK(m, v, e, num[n], oth[n])
    <3> HIDE DEF v, e
    <3> QED BY <2>4, <2>5, <2>7, <2>8, <2>9 DEF NodeOK, Matches
  <2>11. f.unused + Claim(View(m, v), e) = f.unused + Claim(Din(f, n), e)
    BY <2>2, <2>8
  <2>12. num = [num EXCEPT ![n] = num[n]] /\ oth = [oth EXCEPT ![n] = oth[n]]
         /\ num[n] \in Nat /\ oth[n] \in Nat
    BY <2>1
  <2>13. /\ FsOK(Fsync(f, n), num, oth)
         /\ Din(Fsync(f, n), n) = View(m, v)
         /\ \A x \in Node \ {n} : Din(Fsync(f, n), x) = Din(f, x)
    <3> HIDE DEF v
    <3> QED BY <2>2, <2>3, <2>4, <2>6, <2>10, <2>11, <2>12, PutOK
  <2>14. SameSizes(f, Fsync(f, n), Node)
    BY <2>2, <2>8, <2>13 DEF SameSizes
  <2>15. Fsync(f, n).mem = [f.mem EXCEPT ![n] = m] /\ Fsync(f, n).unused = f.unused
    <3>1. /\ Put(f, n, m, v, e, f.unused).mem = [f.mem EXCEPT ![n] = m]
          /\ Put(f, n, m, v, e, f.unused).unused = f.unused
      <4> HIDE DEF v, e
      <4> QED BY DEF Put
    <3> QED BY <2>6, <3>1
  <2>16. f.mem \in [Node -> Inode \cup {Gone}]
    BY <2>1, FsParts
  <2> QED BY <2>4, <2>5, <2>13, <2>14, <2>15, <2>16
<1> QED BY <1>1, <1>2

\* inode_open_dec, with the sync of sfs_close: a descriptor's reference is another one.
LEMMA OpenDecOK ==
  ASSUME NEW f, NEW num, NEW oth, FsOK(f, num, oth), NEW n \in Node, num[n] # 0
  PROVE  /\ FsOK(OpenDec(f, n), [num EXCEPT ![n] = num[n] - 1], [oth EXCEPT ![n] = oth[n] + 1])
         /\ SameSizes(f, OpenDec(f, n), Node)
<1> DEFINE g == [f EXCEPT !.mem[n].open = @ - 1]
           num1 == [num EXCEPT ![n] = num[n] - 1]
           oth1 == [oth EXCEPT ![n] = oth[n] + 1]
<1>1. num \in [Node -> Nat] /\ oth \in [Node -> Nat]
  BY DEF FsOK
<1>2. num[n] - 1 \in Nat /\ oth[n] + 1 \in Nat
      /\ (num[n] - 1) + (oth[n] + 1) = num[n] + oth[n]
      /\ (num[n] - 1) + (oth[n] + 1) # 0
  BY <1>1
<1>3. f.mem[n] # Gone
  BY InMemory
<1>4. [f.mem[n] EXCEPT !.open = @ - 1] =
        [din |-> f.mem[n].din, ref |-> num[n] + oth[n], open |-> num[n] - 1, dirty |-> f.mem[n].dirty]
  <2>1. f.mem[n] = [din |-> f.mem[n].din, ref |-> num[n] + oth[n], open |-> num[n],
                    dirty |-> f.mem[n].dirty]
    BY <1>3, InodeParts
  <2> QED BY ONLY <2>1
<1>5. g = [f EXCEPT !.mem = [f.mem EXCEPT ![n] = [f.mem[n] EXCEPT !.open = @ - 1]]]
  OBVIOUS
<1>6. FsOK(g, num1, oth1) /\ SameSizes(f, g, Node)
  <2> HIDE DEF g
  <2> QED BY <1>2, <1>3, <1>4, <1>5, Recount
<1>7. OpenDec(f, n) = IF g.mem[n].open = 0 THEN Fsync(g, n) ELSE g
  BY DEF OpenDec
<1>8. oth1[n] # 0
  BY <1>1
<1> HIDE DEF g, num1, oth1
<1>9. g.mem[n] # Gone
  BY <1>6, <1>8, InMemory
<1>10. FsOK(Fsync(g, n), num1, oth1) /\ SameSizes(g, Fsync(g, n), Node)
  BY <1>6, <1>9, FsyncOK
<1>11. FsOK(OpenDec(f, n), num1, oth1) /\ SameSizes(f, OpenDec(f, n), Node)
  BY <1>6, <1>7, <1>10 DEF SameSizes
<1> QED BY <1>11 DEF num1, oth1

\* inode_ref_dec, with the sync and the drop of sfs_reclaim: one reference less.
LEMMA RefDecOK ==
  ASSUME NEW f, NEW num, NEW oth, FsOK(f, num, oth), NEW n \in Node, oth[n] # 0
  PROVE  /\ FsOK(RefDec(f, n), num, [oth EXCEPT ![n] = oth[n] - 1])
         /\ SameSizes(f, RefDec(f, n), Node)
<1>1. num \in [Node -> Nat] /\ oth \in [Node -> Nat]
  BY DEF FsOK
<1>2. f.mem[n] # Gone
  BY InMemory
<1>3. f.mem[n] = [din |-> f.mem[n].din, ref |-> num[n] + oth[n], open |-> num[n],
                  dirty |-> f.mem[n].dirty]
  BY <1>2, InodeParts
<1>4. CASE f.mem[n].ref # 1
  <2>1. /\ num[n] \in Nat /\ oth[n] - 1 \in Nat /\ num[n] + (oth[n] - 1) = (num[n] + oth[n]) - 1
        /\ num[n] + (oth[n] - 1) # 0
    <3>1. num[n] + oth[n] # 1 /\ num[n] \in Nat /\ oth[n] \in Nat
      BY <1>1, <1>3, <1>4
    <3> QED BY ONLY <3>1, oth[n] # 0
  <2>2. [f.mem[n] EXCEPT !.ref = @ - 1] =
        [din |-> f.mem[n].din, ref |-> (num[n] + oth[n]) - 1, open |-> num[n], dirty |-> f.mem[n].dirty]
    BY ONLY <1>3
  <2>3. RefDec(f, n) = [f EXCEPT !.mem = [f.mem EXCEPT ![n] = [f.mem[n] EXCEPT !.ref = @ - 1]]]
    BY <1>4 DEF RefDec
  <2>4. num = [num EXCEPT ![n] = num[n]]
    BY <1>1
  <2> QED BY <1>2, <2>1, <2>2, <2>3, <2>4, Recount
<1>5. CASE f.mem[n].ref = 1
  <2> DEFINE g == Fsync(f, n)
             d == g.disk[n]
             v == g.mem[n].din
             e == g.entries[n]
  <2>1. FsOK(g, num, oth) /\ SameSizes(f, g, Node) /\ g.mem[n] # Gone /\ ~g.mem[n].dirty
    BY <1>2, FsyncOK
  <2>2. RefDec(f, n) = [g EXCEPT !.mem = [g.mem EXCEPT ![n] = Gone]]
    BY <1>5 DEF RefDec
  <2>3. num[n] = 0 /\ oth[n] = 1
    <3>1. num[n] + oth[n] = 1 /\ num[n] \in Nat /\ oth[n] \in Nat
      BY <1>1, <1>3, <1>5
    <3> QED BY ONLY <3>1, oth[n] # 0
  <2> HIDE DEF g
  <2>4. g \in FileSystem /\ NodeOK(g.mem[n], d, e, num[n], oth[n])
    BY <2>1 DEF FsOK
  <2>5. /\ d \in DiskInode /\ e \in Entries /\ g.unused \in Nat /\ Din(g, n) = v
        /\ v \in DiskInode
    BY <2>1, <2>4, ViewType, FsParts, InodeParts
  <2>6. RefDec(f, n) = Put(g, n, Gone, d, e, g.unused)
    BY <2>2, <2>4, PutSame
  <2>7. View(g.mem[n], d) = v /\ View(Gone, d) = d
    BY <2>1 DEF View
  <2> HIDE DEF d, v, e
  <2>8. Matches(d, v) /\ NDIRECT..v.blocks - 1 \subseteq e /\ (v.blocks > NDIRECT => v.indirect)
    BY <2>1, <2>4, <2>7 DEF NodeOK, v
  <2>9. d.blocks \in Nat /\ v.blocks \in Nat /\ NDIRECT \in Nat
    BY <2>5, SfsAssumption DEF DiskInode
  <2>10. NodeOK(Gone, d, e, 0, 0)
    <3>1. NDIRECT..d.blocks - 1 \subseteq e
      BY <2>8, <2>9 DEF Matches
    <3>2. d.blocks > NDIRECT => d.indirect
      BY <2>8, <2>9 DEF Matches
    <3> QED BY <2>7, <3>1, <3>2 DEF NodeOK
  <2>11. Claim(d, e) = Claim(v, e)
    <3>1. Least(d.blocks, NDIRECT) = Least(v.blocks, NDIRECT)
      BY <2>8, <2>9 DEF Matches, Least
    <3> QED BY <2>8, <3>1 DEF Claim, Matches
  <2>12. g.unused + Claim(View(Gone, d), e) = g.unused + Claim(Din(g, n), g.entries[n])
    BY <2>5, <2>7, <2>11 DEF e
  <2>13. /\ FsOK(RefDec(f, n), [num EXCEPT ![n] = 0], [oth EXCEPT ![n] = 0])
         /\ Din(RefDec(f, n), n) = View(Gone, d)
         /\ \A x \in Node \ {n} : Din(RefDec(f, n), x) = Din(g, x)
    BY <2>1, <2>5, <2>6, <2>10, <2>12, PutOK
  <2>14. d.size = v.size
    BY <2>8 DEF Matches
  <2>15. SameSizes(f, RefDec(f, n), Node)
    BY <2>1, <2>5, <2>7, <2>13, <2>14 DEF SameSizes
  <2>16. num = [num EXCEPT ![n] = 0] /\ oth[n] - 1 = 0
    BY <1>1, <2>3
  <2> QED BY <2>13, <2>15, <2>16
<1> QED BY <1>4, <1>5

\* vfs_close: one descriptor less.
LEMMA CloseOK ==
  ASSUME NEW f, NEW num, NEW oth, FsOK(f, num, oth), NEW n \in Node, num[n] # 0
  PROVE  /\ FsOK(vfs_close(f, n), [num EXCEPT ![n] = num[n] - 1], oth)
         /\ SameSizes(f, vfs_close(f, n), Node)
<1> DEFINE g == OpenDec(f, n)
           num1 == [num EXCEPT ![n] = num[n] - 1]
           oth1 == [oth EXCEPT ![n] = oth[n] + 1]
<1>1. oth \in [Node -> Nat]
  BY DEF FsOK
<1>2. FsOK(g, num1, oth1) /\ SameSizes(f, g, Node)
  BY OpenDecOK
<1>3. oth1[n] # 0 /\ [oth1 EXCEPT ![n] = oth1[n] - 1] = oth
  <2>1. oth[n] \in Nat /\ oth1[n] = oth[n] + 1
    BY <1>1
  <2>2. oth1[n] # 0 /\ oth1[n] - 1 = oth[n]
    BY ONLY <2>1
  <2>3. [oth1 EXCEPT ![n] = oth[n]] = oth
    BY <1>1
  <2> QED BY <2>2, <2>3
<1>4. vfs_close(f, n) = RefDec(g, n)
  BY DEF vfs_close
<1> HIDE DEF g, num1, oth1
<1>5. FsOK(RefDec(g, n), num1, oth) /\ SameSizes(g, RefDec(g, n), Node)
  BY <1>2, <1>3, RefDecOK
<1> QED BY <1>2, <1>4, <1>5 DEF SameSizes, num1

-----------------------------------------------------------------------------
(***************************************************************************)
(* Blocks.                                                                 *)
(***************************************************************************)
\* The interval from a up to b, b not included, has b - a members.
LEMMA Interval ==
  ASSUME NEW a \in Nat, NEW b \in Nat, a <= b
  PROVE  IsFiniteSet(a..b - 1) /\ Cardinality(a..b - 1) = b - a
<1>1. a \in Int /\ b - 1 \in Int
  OBVIOUS
<1>2. IsFiniteSet(a..b - 1) /\ Cardinality(a..b - 1) = IF a > b - 1 THEN 0 ELSE (b - 1) - a + 1
  BY <1>1, FS_Interval
<1> QED BY <1>2

\* A finite set in two parts that have no member in common.
LEMMA TwoParts ==
  ASSUME NEW S, NEW T, IsFiniteSet(S), IsFiniteSet(T), S \cap T = {},
         NEW U, \A x : x \in U <=> x \in S \/ x \in T
  PROVE  IsFiniteSet(U) /\ Cardinality(U) = Cardinality(S) + Cardinality(T)
<1>1. U = S \cup T
  OBVIOUS
<1>2. /\ IsFiniteSet(S \cup T)
      /\ Cardinality(S \cup T) = Cardinality(S) + Cardinality(T) - Cardinality(S \cap T)
  BY FS_Union
<1>3. Cardinality(S \cap T) = 0
  BY FS_EmptySet
<1>4. Cardinality(S) \in Nat /\ Cardinality(T) \in Nat
  BY FS_CardinalityType
<1> QED BY <1>1, <1>2, <1>3, <1>4

\* No length needs more blocks than it has bytes.
LEMMA BlocksBound ==
  ASSUME NEW len \in Nat
  PROVE  Blocks(len) \in Nat /\ Blocks(len) <= len
<1>1. B \in Nat \ {0}
  BY SfsAssumption
<1>2. (len + B - 1) \div B \in Nat /\ (len + B - 1) \div B <= len
  <2> DEFINE q == (len + B - 1) \div B
  <2>1. q \in Int /\ B * q <= len + B - 1 /\ len + B - 1 < B * (q + 1)
    BY <1>1
  <2> HIDE DEF q
  <2>2. q >= 0
    <3>1. ASSUME q <= 0 - 1 PROVE FALSE
      <4>1. B * (q + 1) <= 0
        BY <1>1, <2>1, <3>1
      <4> QED BY ONLY <1>1, <2>1, <4>1, len \in Nat
    <3> QED BY ONLY <2>1, <3>1
  <2>3. q <= len
    <3>1. ASSUME q >= len + 1 PROVE FALSE
      <4>1. B * q >= B * (len + 1)
        BY ONLY <1>1, <2>1, <3>1, len \in Nat
      <4>2. B * (len + 1) = B * len + B /\ B * len >= len
        BY ONLY <1>1, len \in Nat
      <4>3. B * q \in Int /\ B * (len + 1) \in Int /\ B * len \in Int
        BY <1>1, <2>1
      <4> QED BY ONLY <1>1, <2>1, <4>1, <4>2, <4>3, len \in Nat
    <3> QED BY ONLY <2>1, <3>1, len \in Nat
  <2> QED BY <2>1, <2>2, <2>3 DEF q
<1> QED BY <1>2 DEF Blocks

\* What a number of blocks costs is a number, and none cost nothing.
LEMMA CostType ==
  ASSUME NEW f, NEW num, NEW oth, FsOK(f, num, oth), NEW n \in Node, f.mem[n] # Gone
  PROVE  /\ \A g \in Nat : Cost(f, n, g) \in Nat /\ IsFiniteSet(Lacking(f, n, g))
         /\ Cost(f, n, 0) = 0
<1> DEFINE v == f.mem[n].din
<1>1. v \in DiskInode /\ v.blocks \in Nat /\ NDIRECT \in Nat
  BY InodeParts, SfsAssumption DEF DiskInode
<1>2. v.blocks > NDIRECT => v.indirect
  <2>1. NodeOK(f.mem[n], f.disk[n], f.entries[n], num[n], oth[n])
    BY DEF FsOK
  <2> QED BY <2>1 DEF NodeOK, View
<1>3. ASSUME NEW g \in Nat PROVE Cost(f, n, g) \in Nat /\ IsFiniteSet(Lacking(f, n, g))
  <2>1. v.blocks \in Int /\ v.blocks + g - 1 \in Int
    BY <1>1
  <2>2. IsFiniteSet(v.blocks..v.blocks + g - 1)
    BY <2>1, FS_Interval
  <2>3. IsFiniteSet(Lacking(f, n, g))
    <3>1. Lacking(f, n, g) \subseteq v.blocks..v.blocks + g - 1
      BY DEF Lacking, Added
    <3> QED BY <2>2, <3>1, FS_Subset
  <2>4. Cardinality(Lacking(f, n, g)) \in Nat
    BY <2>3, FS_CardinalityType
  <2> QED BY <2>3, <2>4 DEF Cost
<1>4. Cost(f, n, 0) = 0
  <2>1. Lacking(f, n, 0) = {}
    BY <1>1 DEF Lacking, Added
  <2>2. ~NewIndirect(v, 0)
    BY <1>1, <1>2 DEF NewIndirect
  <2> QED BY <2>1, <2>2, FS_EmptySet DEF Cost
<1> QED BY <1>3, <1>4

\* sfs_bmap_load_nolock gets some number of blocks, and pays for them.
LEMMA LoadedOK ==
  ASSUME NEW f, NEW num, NEW oth, FsOK(f, num, oth), NEW n \in Node, f.mem[n] # Gone,
         NEW k \in Nat
  PROVE  Loaded(f, n, k) \in 0..k /\ Cost(f, n, Loaded(f, n, k)) <= f.unused
<1> DEFINE S == {g \in 0..k : Cost(f, n, g) <= f.unused}
<1>1. f.unused \in Nat
  BY FsParts DEF FsOK
<1>2. \A g \in Nat : Cost(f, n, g) \in Nat
  BY CostType
<1>3. 0 \in S
  BY <1>1, CostType
<1>4. PICK g \in S : \A h \in S : h <= g
  <2> HIDE DEF S
  <2>1. S \in SUBSET (0..k)
    BY DEF S
  <2> QED BY <1>3, <2>1, GreatestNumber
<1>5. g \in 0..k /\ Cost(f, n, g) <= f.unused
  OBVIOUS
<1>6. g < k => Cost(f, n, g + 1) > f.unused
  <2> SUFFICES ASSUME g < k, Cost(f, n, g + 1) <= f.unused PROVE FALSE
    BY <1>1, <1>2, <1>5
  <2>1. g + 1 \in S
    BY <1>5
  <2>2. g + 1 <= g
    BY <1>4, <2>1
  <2> QED BY <1>5, <2>2
<1> QED BY <1>5, <1>6 DEF Loaded

\* The inode in memory of n, with another inode on the disk d and another mark.
Marked(num, oth, n, d, b) ==
  [din |-> d, ref |-> num[n] + oth[n], open |-> num[n], dirty |-> b]

\* An inode in memory is referred to.
LEMMA Referred ==
  ASSUME NEW f, NEW num, NEW oth, FsOK(f, num, oth), NEW n \in Node, f.mem[n] # Gone
  PROVE  num[n] + oth[n] # 0
<1>1. NodeOK(f.mem[n], f.disk[n], f.entries[n], num[n], oth[n]) /\ f.mem[n] \in Inode
  BY ViewType DEF FsOK
<1> QED BY <1>1 DEF NodeOK, Inode

\* The fields of an inode in memory whose counts are right.
LEMMA MarkedType ==
  ASSUME NEW f, NEW num, NEW oth, FsOK(f, num, oth), NEW n \in Node, f.mem[n] # Gone,
         NEW d \in DiskInode, NEW b \in BOOLEAN
  PROVE  /\ Marked(num, oth, n, d, b) \in Inode /\ Marked(num, oth, n, d, b) # Gone
         /\ Marked(num, oth, n, d, b).din = d /\ Marked(num, oth, n, d, b).dirty = b
         /\ Marked(num, oth, n, d, b).open = num[n]
         /\ Marked(num, oth, n, d, b).ref = num[n] + oth[n]
         /\ \A dd : View(Marked(num, oth, n, d, b), dd) = d
<1> DEFINE m == Marked(num, oth, n, d, b)
<1>1. num[n] + oth[n] \in Nat \ {0} /\ num[n] \in Nat
  <2>1. num[n] \in Nat /\ oth[n] \in Nat
    BY DEF FsOK
  <2>2. num[n] + oth[n] # 0
    BY Referred
  <2> QED BY <2>1, <2>2
<1>2. m \in Inode
  BY <1>1 DEF Inode, Marked
<1>3. m # Gone
  BY <1>2, GoneAssumption
<1>4. m.din = d /\ m.dirty = b /\ m.open = num[n] /\ m.ref = num[n] + oth[n]
  BY DEF Marked
<1> HIDE DEF m
<1>5. \A dd : View(m, dd) = d
  BY <1>3, <1>4 DEF View
<1> QED BY <1>2, <1>3, <1>4, <1>5 DEF m

\* The blocks of d that are not direct are in the indirect block, which has entries e.
Indexed(d, e) ==
  /\ NDIRECT..d.blocks - 1 \subseteq e
  /\ d.blocks > NDIRECT => d.indirect

\* The inode of n is in memory, and it is d.
Loads(g, n, d) == g.mem[n] # Gone /\ g.mem[n].din = d

\* What n may become, with u blocks unused then.
Fits(f, n, d, b, e, u) ==
  /\ d \in DiskInode /\ b \in BOOLEAN /\ e \in Entries /\ u \in Nat
  /\ Indexed(d, e) /\ (~b => Matches(f.disk[n], d))
  /\ u + Claim(d, e) = f.unused + Claim(f.mem[n].din, f.entries[n])

\* A change of what n has on the disk, when its inode is in memory.
LEMMA Resized ==
  ASSUME NEW f, NEW num, NEW oth, FsOK(f, num, oth), NEW n \in Node, f.mem[n] # Gone,
         NEW d, NEW b, NEW e, NEW u, Fits(f, n, d, b, e, u),
         NEW g, g = Put(f, n, Marked(num, oth, n, d, b), f.disk[n], e, u)
  PROVE  /\ FsOK(g, num, oth) /\ Loads(g, n, d)
         /\ SameSizes(f, g, Node \ {n})
<1> DEFINE m == Marked(num, oth, n, d, b)
           dd == f.disk[n]
<1>0. /\ d \in DiskInode /\ b \in BOOLEAN /\ e \in Entries /\ u \in Nat
      /\ Indexed(d, e) /\ (~b => Matches(f.disk[n], d))
      /\ u + Claim(d, e) = f.unused + Claim(f.mem[n].din, f.entries[n])
  BY DEF Fits
<1>1. /\ m \in Inode /\ m # Gone /\ m.din = d /\ m.dirty = b
      /\ m.open = num[n] /\ m.ref = num[n] + oth[n] /\ View(m, dd) = d
  BY <1>0, MarkedType
<1>2. f \in FileSystem /\ num \in [Node -> Nat] /\ oth \in [Node -> Nat]
  BY DEF FsOK
<1>3. dd \in DiskInode /\ Din(f, n) = f.mem[n].din
  BY <1>2, ViewType DEF Din
<1> HIDE DEF m
<1>4. NodeOK(m, dd, e, num[n], oth[n])
  BY <1>0, <1>1 DEF NodeOK, Indexed
<1>5. u + Claim(View(m, dd), e) = f.unused + Claim(Din(f, n), f.entries[n])
  BY <1>0, <1>1, <1>3
<1>6. num = [num EXCEPT ![n] = num[n]] /\ oth = [oth EXCEPT ![n] = oth[n]]
      /\ num[n] \in Nat /\ oth[n] \in Nat
  BY <1>2
<1>7. g = Put(f, n, m, dd, e, u)
  BY DEF m
<1> HIDE DEF dd
<1>8. /\ FsOK(g, num, oth)
      /\ Din(g, n) = View(m, dd)
      /\ \A x \in Node \ {n} : Din(g, x) = Din(f, x)
  BY <1>0, <1>1, <1>3, <1>4, <1>5, <1>6, <1>7, PutOK
<1>9. g.mem[n] = m
  <2>1. g.mem = [f.mem EXCEPT ![n] = m]
    BY <1>7 DEF Put
  <2>2. f.mem \in [Node -> Inode \cup {Gone}]
    BY <1>2, FsParts
  <2> QED BY <2>1, <2>2
<1> QED BY <1>1, <1>8, <1>9 DEF SameSizes, Loads

\* The inode in memory, part by part.
LEMMA DinParts ==
  ASSUME NEW f, NEW num, NEW oth, FsOK(f, num, oth), NEW n \in Node, f.mem[n] # Gone
  PROVE  /\ f.mem[n] = Marked(num, oth, n, f.mem[n].din, f.mem[n].dirty)
         /\ f.mem[n].dirty \in BOOLEAN /\ f.mem[n].din \in DiskInode
         /\ f.mem[n].din.size \in 0..MaxSize /\ f.mem[n].din.blocks \in Nat
         /\ f.mem[n].din.indirect \in BOOLEAN
         /\ f.mem[n].din = [size |-> f.mem[n].din.size, blocks |-> f.mem[n].din.blocks,
                            indirect |-> f.mem[n].din.indirect]
         /\ f.entries[n] \in Entries /\ f.unused \in Nat
         /\ Indexed(f.mem[n].din, f.entries[n])
         /\ ~f.mem[n].dirty => Matches(f.disk[n], f.mem[n].din)
<1>1. /\ f.mem[n].din \in DiskInode /\ f.mem[n].dirty \in BOOLEAN
      /\ f.mem[n] = Marked(num, oth, n, f.mem[n].din, f.mem[n].dirty)
  BY InodeParts DEF Marked
<1>2. f.entries[n] \in Entries /\ f.unused \in Nat
  BY FsParts DEF FsOK
<1>3. NodeOK(f.mem[n], f.disk[n], f.entries[n], num[n], oth[n])
  BY DEF FsOK
<1>4. /\ Indexed(f.mem[n].din, f.entries[n])
      /\ ~f.mem[n].dirty => Matches(f.disk[n], f.mem[n].din)
  BY <1>3 DEF NodeOK, View, Indexed
<1>5. /\ f.mem[n].din.size \in 0..MaxSize /\ f.mem[n].din.blocks \in Nat
      /\ f.mem[n].din.indirect \in BOOLEAN
      /\ f.mem[n].din = [size |-> f.mem[n].din.size, blocks |-> f.mem[n].din.blocks,
                         indirect |-> f.mem[n].din.indirect]
  BY <1>1 DEF DiskInode
<1> QED BY <1>1, <1>2, <1>4, <1>5

\* The size of a file changes in memory, and the inode is marked dirty.
LEMMA SizedOK ==
  ASSUME NEW f, NEW num, NEW oth, FsOK(f, num, oth), NEW n \in Node, f.mem[n] # Gone,
         NEW s \in 0..MaxSize
  PROVE  /\ FsOK(Sized(f, n, s), num, oth) /\ Sized(f, n, s).mem[n] # Gone
         /\ Sized(f, n, s).mem[n].din.size = s
         /\ SameSizes(f, Sized(f, n, s), Node \ {n})
<1> DEFINE v == f.mem[n].din
           d == [size |-> s, blocks |-> v.blocks, indirect |-> v.indirect]
           yes == TRUE
           m == Marked(num, oth, n, d, yes)
           e == f.entries[n]
<1>1. /\ f.mem[n] = Marked(num, oth, n, v, f.mem[n].dirty)
      /\ v.blocks \in Nat /\ v.indirect \in BOOLEAN
      /\ v = [size |-> v.size, blocks |-> v.blocks, indirect |-> v.indirect]
      /\ e \in Entries /\ f.unused \in Nat
      /\ Indexed(v, e)
  BY DinParts
<1>2. d \in DiskInode /\ d.size = s /\ d.blocks = v.blocks /\ d.indirect = v.indirect
  BY <1>1 DEF DiskInode
<1>3. Claim(d, e) = Claim(v, e)
  BY <1>2 DEF Claim
<1>4. Sized(f, n, s) = [f EXCEPT !.mem = [f.mem EXCEPT ![n] = m]]
  <2> HIDE DEF yes
  <2>1. [v EXCEPT !.size = s] = d
    BY ONLY <1>1
  <2>2. [f.mem[n] EXCEPT !.din.size = s, !.dirty = yes] = m
    <3>1. f.mem[n] = [din |-> f.mem[n].din, ref |-> num[n] + oth[n], open |-> num[n],
                      dirty |-> f.mem[n].dirty]
      BY <1>1 DEF Marked
    <3>2. [f.mem[n] EXCEPT !.din.size = s] =
             [din |-> [f.mem[n].din EXCEPT !.size = s], ref |-> num[n] + oth[n],
              open |-> num[n], dirty |-> f.mem[n].dirty]
      BY ONLY <3>1
    <3> DEFINE w == [f.mem[n] EXCEPT !.din.size = s]
    <3>3. w = [din |-> d, ref |-> num[n] + oth[n], open |-> num[n], dirty |-> f.mem[n].dirty]
      BY <2>1, <3>2
    <3>4. [f.mem[n] EXCEPT !.din.size = s, !.dirty = yes] = [w EXCEPT !.dirty = yes]
      OBVIOUS
    <3> HIDE DEF w, d
    <3>5. [w EXCEPT !.dirty = yes] =
             [din |-> d, ref |-> num[n] + oth[n], open |-> num[n], dirty |-> yes]
      BY ONLY <3>3
    <3> QED BY <3>4, <3>5 DEF Marked
  <2>3. Sized(f, n, s) =
          [f EXCEPT !.mem = [f.mem EXCEPT ![n] = [f.mem[n] EXCEPT !.din.size = s, !.dirty = yes]]]
    <3>1. f.mem \in [Node -> Inode \cup {Gone}]
      BY FsParts DEF FsOK
    <3> QED BY <3>1 DEF Sized, yes
  <2> QED BY ONLY <2>2, <2>3
<1>5. Sized(f, n, s) = Put(f, n, m, f.disk[n], e, f.unused)
  <2>1. f \in FileSystem
    BY DEF FsOK
  <2> HIDE DEF m
  <2> QED BY <1>4, <2>1, PutSame
<1>6. /\ f.unused + Claim(d, e) = f.unused + Claim(v, e)
      /\ Indexed(d, e)
      /\ (~yes => Matches(f.disk[n], d)) /\ d \in DiskInode /\ yes \in BOOLEAN
      /\ e \in Entries /\ f.unused \in Nat
  BY <1>1, <1>2, <1>3 DEF Indexed
<1> DEFINE u == f.unused
           h == Sized(f, n, s)
<1>7. h = Put(f, n, Marked(num, oth, n, d, yes), f.disk[n], e, u)
  BY <1>5
<1> HIDE DEF d, yes, e, u, h
<1>8. FsOK(h, num, oth) /\ Loads(h, n, d) /\ SameSizes(f, h, Node \ {n})
  <2>1. Fits(f, n, d, yes, e, u)
    BY <1>6 DEF Fits, u, e
  <2> QED BY <1>7, <2>1, Resized
<1> QED BY <1>2, <1>8 DEF h, Loads

\* An inode in memory, and a file system, part by part.
OnDiskAs(s, a, i) == [size |-> s, blocks |-> a, indirect |-> i]

Parts(s, a, i, r, k, b) ==
  [din |-> [size |-> s, blocks |-> a, indirect |-> i], ref |-> r, open |-> k, dirty |-> b]

Whole(M, D, E, u, s, b) ==
  [mem |-> M, disk |-> D, entries |-> E, unused |-> u, saved |-> s, ok |-> b]

\* Writing one part of an inode in memory.
LEMMA PartWritten ==
  ASSUME NEW m, NEW s, NEW a, NEW i, NEW r, NEW k, NEW b, m = Parts(s, a, i, r, k, b), NEW x
  PROVE  /\ [m EXCEPT !.din.size = x] = Parts(x, a, i, r, k, b)
         /\ [m EXCEPT !.din.blocks = x] = Parts(s, x, i, r, k, b)
         /\ [m EXCEPT !.din.indirect = x] = Parts(s, a, x, r, k, b)
         /\ [m EXCEPT !.dirty = x] = Parts(s, a, i, r, k, x)
<1> DEFINE d == [size |-> s, blocks |-> a, indirect |-> i]
<1>1. m = [din |-> d, ref |-> r, open |-> k, dirty |-> b]
  BY DEF Parts
<1>2. /\ [d EXCEPT !.size = x] = [size |-> x, blocks |-> a, indirect |-> i]
      /\ [d EXCEPT !.blocks = x] = [size |-> s, blocks |-> x, indirect |-> i]
      /\ [d EXCEPT !.indirect = x] = [size |-> s, blocks |-> a, indirect |-> x]
  OBVIOUS
<1> HIDE DEF d
<1>3. \A y : [m EXCEPT !.din = y] = [din |-> y, ref |-> r, open |-> k, dirty |-> b]
  BY <1>1
<1>4. [m EXCEPT !.dirty = x] = [din |-> d, ref |-> r, open |-> k, dirty |-> x]
  BY <1>1
<1>5. m.din = d
  BY <1>1
<1>6. /\ [m EXCEPT !.din.size = x] = [m EXCEPT !.din = [m.din EXCEPT !.size = x]]
      /\ [m EXCEPT !.din.blocks = x] = [m EXCEPT !.din = [m.din EXCEPT !.blocks = x]]
      /\ [m EXCEPT !.din.indirect = x] = [m EXCEPT !.din = [m.din EXCEPT !.indirect = x]]
  OBVIOUS
<1>7. /\ [m EXCEPT !.din.size = x] = [m EXCEPT !.din = [size |-> x, blocks |-> a, indirect |-> i]]
      /\ [m EXCEPT !.din.blocks = x] = [m EXCEPT !.din = [size |-> s, blocks |-> x, indirect |-> i]]
      /\ [m EXCEPT !.din.indirect = x] = [m EXCEPT !.din = [size |-> s, blocks |-> a, indirect |-> x]]
  BY ONLY <1>2, <1>5, <1>6
<1> QED BY <1>3, <1>4, <1>7 DEF Parts, d

\* Writing one part of a file system.
LEMMA WholeWritten ==
  ASSUME NEW g, NEW M, NEW D, NEW E, NEW u, NEW s, NEW b, g = Whole(M, D, E, u, s, b), NEW x
  PROVE  /\ [g EXCEPT !.mem = x] = Whole(x, D, E, u, s, b)
         /\ [g EXCEPT !.entries = x] = Whole(M, D, x, u, s, b)
         /\ [g EXCEPT !.unused = x] = Whole(M, D, E, x, s, b)
         /\ [g EXCEPT !.ok = x] = Whole(M, D, E, u, s, x)
         /\ g.mem = M /\ g.entries = E /\ g.unused = u
BY DEF Whole

\* Writing one part of the inode in memory of n.
With(F, n, x) == [F EXCEPT ![n] = x]

SetSize(f, n, x)     == [f EXCEPT !.mem[n].din.size = x]
SetBlocks(f, n, x)   == [f EXCEPT !.mem[n].din.blocks = x]
SetIndirect(f, n, x) == [f EXCEPT !.mem[n].din.indirect = x]
SetDirty(f, n, x)    == [f EXCEPT !.mem[n].dirty = x]
SetEntries(f, n, x)  == [f EXCEPT !.entries[n] = x]
SetUnused(f, x)      == [f EXCEPT !.unused = x]

\* Writing one field after the other of an inode, its entries and the free blocks.
LEMMA InodeWritten ==
  ASSUME NEW n \in Node, NEW M0, DOMAIN M0 = Node, NEW D, NEW E, NEW u, NEW sv, NEW ok,
         NEW s, NEW a, NEW i, NEW r, NEW k, NEW b,
         NEW g, g = Whole(With(M0, n, Parts(s, a, i, r, k, b)), D, E, u, sv, ok), NEW x
  PROVE  /\ SetSize(g, n, x) =
              Whole(With(M0, n, Parts(x, a, i, r, k, b)), D, E, u, sv, ok)
         /\ SetBlocks(g, n, x) =
              Whole(With(M0, n, Parts(s, x, i, r, k, b)), D, E, u, sv, ok)
         /\ SetIndirect(g, n, x) =
              Whole(With(M0, n, Parts(s, a, x, r, k, b)), D, E, u, sv, ok)
         /\ SetDirty(g, n, x) =
              Whole(With(M0, n, Parts(s, a, i, r, k, x)), D, E, u, sv, ok)
         /\ SetEntries(g, n, x) =
              Whole(With(M0, n, Parts(s, a, i, r, k, b)), D, With(E, n, x), u, sv, ok)
         /\ SetUnused(g, x) =
              Whole(With(M0, n, Parts(s, a, i, r, k, b)), D, E, x, sv, ok)
<1> DEFINE m == Parts(s, a, i, r, k, b)
           M == [M0 EXCEPT ![n] = m]
<1>0. g = Whole(M, D, E, u, sv, ok)
  BY DEF With
<1>1. g.mem = M
  BY <1>0, WholeWritten
<1>2. M[n] = m /\ \A y : [M EXCEPT ![n] = y] = [M0 EXCEPT ![n] = y]
  OBVIOUS
<1> HIDE DEF M
<1>3. /\ [m EXCEPT !.din.size = x] = Parts(x, a, i, r, k, b)
      /\ [m EXCEPT !.din.blocks = x] = Parts(s, x, i, r, k, b)
      /\ [m EXCEPT !.din.indirect = x] = Parts(s, a, x, r, k, b)
      /\ [m EXCEPT !.dirty = x] = Parts(s, a, i, r, k, x)
  BY PartWritten
<1>4. /\ [g EXCEPT !.mem[n].din.size = x] =
           [g EXCEPT !.mem = [g.mem EXCEPT ![n] = [g.mem[n] EXCEPT !.din.size = x]]]
      /\ [g EXCEPT !.mem[n].din.blocks = x] =
           [g EXCEPT !.mem = [g.mem EXCEPT ![n] = [g.mem[n] EXCEPT !.din.blocks = x]]]
      /\ [g EXCEPT !.mem[n].din.indirect = x] =
           [g EXCEPT !.mem = [g.mem EXCEPT ![n] = [g.mem[n] EXCEPT !.din.indirect = x]]]
      /\ [g EXCEPT !.mem[n].dirty = x] =
           [g EXCEPT !.mem = [g.mem EXCEPT ![n] = [g.mem[n] EXCEPT !.dirty = x]]]
  OBVIOUS
<1>5. \A y : [g EXCEPT !.mem = y] = Whole(y, D, E, u, sv, ok)
  BY <1>0, WholeWritten
<1> HIDE DEF m
<1>6. /\ [g.mem EXCEPT ![n] = [g.mem[n] EXCEPT !.din.size = x]] = [M EXCEPT ![n] = Parts(x, a, i, r, k, b)]
      /\ [g.mem EXCEPT ![n] = [g.mem[n] EXCEPT !.din.blocks = x]] = [M EXCEPT ![n] = Parts(s, x, i, r, k, b)]
      /\ [g.mem EXCEPT ![n] = [g.mem[n] EXCEPT !.din.indirect = x]] = [M EXCEPT ![n] = Parts(s, a, x, r, k, b)]
      /\ [g.mem EXCEPT ![n] = [g.mem[n] EXCEPT !.dirty = x]] = [M EXCEPT ![n] = Parts(s, a, i, r, k, x)]
  <2>1. M[n] = m
    BY <1>2
  <2> QED BY ONLY <1>1, <1>3, <2>1
<1>7. \A y : [M EXCEPT ![n] = y] = [M0 EXCEPT ![n] = y]
  BY ONLY DOMAIN M0 = Node, n \in Node DEF M
<1>8. \A y : [g EXCEPT !.mem = [M EXCEPT ![n] = y]] = Whole([M0 EXCEPT ![n] = y], D, E, u, sv, ok)
  BY ONLY <1>5, <1>7
<1>9. /\ [g EXCEPT !.mem[n].din.size = x] = Whole([M0 EXCEPT ![n] = Parts(x, a, i, r, k, b)], D, E, u, sv, ok)
      /\ [g EXCEPT !.mem[n].din.blocks = x] = Whole([M0 EXCEPT ![n] = Parts(s, x, i, r, k, b)], D, E, u, sv, ok)
      /\ [g EXCEPT !.mem[n].din.indirect = x] = Whole([M0 EXCEPT ![n] = Parts(s, a, x, r, k, b)], D, E, u, sv, ok)
      /\ [g EXCEPT !.mem[n].dirty = x] = Whole([M0 EXCEPT ![n] = Parts(s, a, i, r, k, x)], D, E, u, sv, ok)
  BY ONLY <1>4, <1>6, <1>8
<1>10. /\ [g EXCEPT !.entries[n] = x] = Whole(M, D, [E EXCEPT ![n] = x], u, sv, ok)
       /\ [g EXCEPT !.unused = x] = Whole(M, D, E, x, sv, ok)
  <2>1. g.entries = E /\ \A y : [g EXCEPT !.entries = y] = Whole(M, D, y, u, sv, ok)
    BY <1>0, WholeWritten
  <2>2. [g EXCEPT !.entries[n] = x] = [g EXCEPT !.entries = [g.entries EXCEPT ![n] = x]]
    OBVIOUS
  <2>3. [g EXCEPT !.unused = x] = Whole(M, D, E, x, sv, ok)
    BY <1>0, WholeWritten
  <2> QED BY ONLY <2>1, <2>2, <2>3
<1> QED BY <1>9, <1>10 DEF SetSize, SetBlocks, SetIndirect, SetDirty, SetEntries, SetUnused, With, M, m

\* Writing the parts that the calls on blocks write, one after the other.
Grown(f, n, a, i, b, e, u) ==
  [f EXCEPT !.mem[n].din.blocks = a, !.mem[n].din.indirect = i, !.mem[n].dirty = b,
            !.entries[n] = e, !.unused = u]

Shrunk(f, n, a, i, b, e, u) ==
  [f EXCEPT !.mem[n].din.blocks = a, !.entries[n] = e, !.unused = u,
            !.mem[n].din.size = i, !.mem[n].dirty = b]

\* The writes of a file that grows, and of one that shrinks, are each one Put.
LEMMA Rewritten ==
  ASSUME NEW f, NEW num, NEW oth, FsOK(f, num, oth), NEW n \in Node, f.mem[n] # Gone,
         NEW a, NEW i, NEW b, NEW e, NEW u
  PROVE  /\ Grown(f, n, a, i, b, e, u)
            = Put(f, n, Marked(num, oth, n, OnDiskAs(f.mem[n].din.size, a, i), b),
                  f.disk[n], e, u)
         /\ Shrunk(f, n, a, i, b, e, u)
            = Put(f, n, Marked(num, oth, n, OnDiskAs(i, a, f.mem[n].din.indirect), b),
                  f.disk[n], e, u)
<1>0. /\ f.mem[n] = Marked(num, oth, n, f.mem[n].din, f.mem[n].dirty)
      /\ f.mem[n].din = [size |-> f.mem[n].din.size, blocks |-> f.mem[n].din.blocks,
                         indirect |-> f.mem[n].din.indirect]
  BY DinParts
<1> DEFINE m  == f.mem[n]
           v  == m.din
           r  == num[n] + oth[n]
           k  == num[n]
           In(x) == With(f.mem, n, x)
           E  == f.entries
           E1 == With(f.entries, n, e)
           D  == f.disk
           D1 == [f.disk EXCEPT ![n] = f.disk[n]]
<1>1. m = Parts(v.size, v.blocks, v.indirect, r, k, m.dirty)
  <2>1. m = Marked(num, oth, n, v, m.dirty)
    BY <1>0
  <2>2. v = [size |-> v.size, blocks |-> v.blocks, indirect |-> v.indirect]
    BY <1>0
  <2> HIDE DEF m, v
  <2> QED BY ONLY <2>1, <2>2 DEF Marked, Parts, r, k
<1>2. /\ DOMAIN f.mem = Node /\ f.mem = In(m) /\ D = D1 /\ DOMAIN D = Node
      /\ f = Whole(In(Parts(v.size, v.blocks, v.indirect, r, k, m.dirty)), D, E,
                   f.unused, f.saved, f.ok)
  <2>1. f \in FileSystem
    BY DEF FsOK
  <2>2. f = Whole(f.mem, D, E, f.unused, f.saved, f.ok)
    BY <2>1, FsParts DEF Whole
  <2>3. f.mem \in [Node -> Inode \cup {Gone}] /\ f.disk \in [Node -> DiskInode]
    BY <2>1, FsParts
  <2>4. f.mem = In(m)
    BY <2>3 DEF With
  <2> HIDE DEF v, r, k
  <2>5. f = Whole(In(Parts(v.size, v.blocks, v.indirect, r, k, m.dirty)), D, E,
                  f.unused, f.saved, f.ok)
    BY ONLY <1>1, <2>2, <2>4
  <2> QED BY <2>3, <2>4, <2>5
<1> HIDE DEF m, v, r, k
<1> DEFINE f1 == SetBlocks(f, n, a)
<1>3. f1 = Whole(In(Parts(v.size, a, v.indirect, r, k, m.dirty)), D, E, f.unused, f.saved, f.ok)
  BY <1>2, InodeWritten
<1> HIDE DEF f1
<1>4. [f EXCEPT !.mem[n].din.blocks = a, !.mem[n].din.indirect = i, !.mem[n].dirty = b,
                !.entries[n] = e, !.unused = u]
      = Whole(In(Parts(v.size, a, i, r, k, b)), D, E1, u, f.saved, f.ok)
  <2> DEFINE f2 == SetIndirect(f1, n, i)
             f3 == SetDirty(f2, n, b)
             f4 == SetEntries(f3, n, e)
             f5 == SetUnused(f4, u)
  <2>1. f2 = Whole(In(Parts(v.size, a, i, r, k, m.dirty)), D, E, f.unused, f.saved, f.ok)
    BY <1>2, <1>3, InodeWritten
  <2> HIDE DEF f2
  <2>2. f3 = Whole(In(Parts(v.size, a, i, r, k, b)), D, E, f.unused, f.saved, f.ok)
    BY <1>2, <2>1, InodeWritten
  <2> HIDE DEF f3
  <2>3. f4 = Whole(In(Parts(v.size, a, i, r, k, b)), D, E1, f.unused, f.saved, f.ok)
    BY <1>2, <2>2, InodeWritten
  <2> HIDE DEF f4
  <2>4. f5 = Whole(In(Parts(v.size, a, i, r, k, b)), D, E1, u, f.saved, f.ok)
    BY <1>2, <2>3, InodeWritten
  <2>5. [f EXCEPT !.mem[n].din.blocks = a, !.mem[n].din.indirect = i, !.mem[n].dirty = b,
                  !.entries[n] = e, !.unused = u] = f5
    BY DEF f4, f3, f2, f1, SetBlocks, SetIndirect, SetDirty, SetEntries, SetUnused
  <2> QED BY <2>4, <2>5
<1>5. [f EXCEPT !.mem[n].din.blocks = a, !.entries[n] = e, !.unused = u,
                !.mem[n].din.size = i, !.mem[n].dirty = b]
      = Whole(In(Parts(i, a, v.indirect, r, k, b)), D, E1, u, f.saved, f.ok)
  <2> DEFINE f2 == SetEntries(f1, n, e)
             f3 == SetUnused(f2, u)
             f4 == SetSize(f3, n, i)
             f5 == SetDirty(f4, n, b)
  <2>1. f2 = Whole(In(Parts(v.size, a, v.indirect, r, k, m.dirty)), D, E1, f.unused, f.saved, f.ok)
    BY <1>2, <1>3, InodeWritten
  <2> HIDE DEF f2
  <2>2. f3 = Whole(In(Parts(v.size, a, v.indirect, r, k, m.dirty)), D, E1, u, f.saved, f.ok)
    BY <1>2, <2>1, InodeWritten
  <2> HIDE DEF f3
  <2>3. f4 = Whole(In(Parts(i, a, v.indirect, r, k, m.dirty)), D, E1, u, f.saved, f.ok)
    BY <1>2, <2>2, InodeWritten
  <2> HIDE DEF f4
  <2>4. f5 = Whole(In(Parts(i, a, v.indirect, r, k, b)), D, E1, u, f.saved, f.ok)
    BY <1>2, <2>3, InodeWritten
  <2>5. [f EXCEPT !.mem[n].din.blocks = a, !.entries[n] = e, !.unused = u,
                  !.mem[n].din.size = i, !.mem[n].dirty = b] = f5
    BY DEF f4, f3, f2, f1, SetBlocks, SetSize, SetDirty, SetEntries, SetUnused
  <2> QED BY <2>4, <2>5
<1>6. \A y, z : Whole(In(Parts(y, a, z, r, k, b)), D, E1, u, f.saved, f.ok)
                = Put(f, n, Marked(num, oth, n, OnDiskAs(y, a, z), b),
                      f.disk[n], e, u)
  BY <1>2 DEF Whole, Put, Marked, Parts, With, OnDiskAs, r, k
<1> QED BY <1>4, <1>5, <1>6 DEF v, m, Grown, Shrunk

\* Extended is one Put: the inode, its entries and the unused blocks.
ExtendedPut(f, num, oth, n, g) ==
  LET v == f.mem[n].din
  IN  Put(f, n, Marked(num, oth, n,
                  OnDiskAs(v.size, v.blocks + g, v.indirect \/ NewIndirect(v, g)),
                  f.mem[n].dirty \/ (g > 0 /\ v.blocks < NDIRECT) \/ NewIndirect(v, g)),
          f.disk[n], f.entries[n] \cup {i \in Added(v, g) : i >= NDIRECT},
          f.unused - Cost(f, n, g))

LEMMA ExtendedIs ==
  ASSUME NEW f, NEW num, NEW oth, FsOK(f, num, oth), NEW n \in Node, f.mem[n] # Gone,
         NEW g
  PROVE  Extended(f, n, g) = ExtendedPut(f, num, oth, n, g)
<1> DEFINE v == f.mem[n].din
           a == v.blocks + g
           i == v.indirect \/ NewIndirect(v, g)
           b == f.mem[n].dirty \/ (g > 0 /\ v.blocks < NDIRECT) \/ NewIndirect(v, g)
           e == f.entries[n] \cup {j \in Added(v, g) : j >= NDIRECT}
           u == f.unused - Cost(f, n, g)
<1>1. Extended(f, n, g) =
        Grown(f, n, a, i, b, e, u)
  BY DEF Extended, Grown
<1> HIDE DEF a, i, b, e, u
<1>2. Grown(f, n, a, i, b, e, u) =
        Put(f, n, Marked(num, oth, n, OnDiskAs(f.mem[n].din.size, a, i), b), f.disk[n], e, u)
  BY Rewritten
<1> QED BY <1>1, <1>2 DEF ExtendedPut, v, a, i, b, e, u

\* What a file claims grows by what the blocks cost.
LEMMA ClaimGrows ==
  ASSUME NEW f, NEW num, NEW oth, FsOK(f, num, oth), NEW n \in Node, f.mem[n] # Gone,
         NEW g \in Nat, g = 0 \/ f.mem[n].din.blocks + g <= MaxSize,
         NEW d \in DiskInode, NEW e, d.blocks = f.mem[n].din.blocks + g,
         d.indirect <=> (f.mem[n].din.indirect \/ NewIndirect(f.mem[n].din, g)),
         e = f.entries[n] \cup {j \in Added(f.mem[n].din, g) : j >= NDIRECT}
  PROVE  /\ e \in Entries
         /\ Claim(d, e) = Claim(f.mem[n].din, f.entries[n]) + Cost(f, n, g)
<1> DEFINE v == f.mem[n].din
           w == v.blocks + g
           old == f.entries[n]
           A == Added(v, g)
           L == {j \in A : j < NDIRECT}
           H == {j \in A : j >= NDIRECT}
           N == H \ old
           lo == Least(v.blocks, NDIRECT)
           hi == Least(w, NDIRECT)
<1>1. /\ v \in DiskInode /\ v.blocks \in Nat /\ v.indirect \in BOOLEAN /\ old \in Entries
      /\ NDIRECT \in Nat /\ MaxSize \in Nat /\ w \in Nat
  <2>1. v \in DiskInode /\ v.blocks \in Nat /\ v.indirect \in BOOLEAN /\ old \in Entries
    BY DinParts
  <2> HIDE DEF v, old
  <2> QED BY <2>1, SfsAssumption
<1>2. A = v.blocks..w - 1
  BY <1>1 DEF Added
<1>3. e \in Entries
  <2>1. ASSUME NEW j \in H PROVE j \in NDIRECT..MaxSize - 1
    <3>1. j \in Int /\ v.blocks <= j /\ j <= w - 1 /\ j >= NDIRECT
      BY <1>1, <1>2
    <3> HIDE DEF v, w
    <3>2. w <= MaxSize
      BY <1>1, <3>1 DEF w, v
    <3> QED BY <1>1, <3>1, <3>2
  <2>2. e = old \cup H
    OBVIOUS
  <2> HIDE DEF H, old
  <2> QED BY <1>1, <2>1, <2>2 DEF Entries
<1>4. IsFiniteSet(A)
  <2>1. v.blocks <= w
    BY <1>1
  <2> QED BY <1>1, <1>2, <2>1, Interval
<1>5. IsFiniteSet(old) /\ IsFiniteSet(L) /\ IsFiniteSet(N)
  <2>1. IsFiniteSet(old)
    BY <1>1, ClaimType
  <2> HIDE DEF A
  <2>2. L \subseteq A /\ N \subseteq A
    OBVIOUS
  <2> QED BY <1>4, <2>1, <2>2, FS_Subset
<1>6. Cardinality(e) = Cardinality(old) + Cardinality(N)
  <2>1. old \cap N = {} /\ \A x : x \in e <=> x \in old \/ x \in N
    OBVIOUS
  <2> HIDE DEF old, N
  <2> QED BY <1>5, <2>1, TwoParts
<1>7. Cardinality(Lacking(f, n, g)) = Cardinality(L) + Cardinality(N)
  <2>1. \A x \in old : x >= NDIRECT /\ x \in Int
    BY <1>1 DEF Entries
  <2>2. \A x \in A : x \in Int
    BY <1>1, <1>2
  <2>3. Lacking(f, n, g) = A \ old
    BY DEF Lacking
  <2> HIDE DEF A, old
  <2>4. L \cap N = {} /\ \A x : x \in A \ old <=> x \in L \/ x \in N
    BY <1>1, <2>1, <2>2
  <2> HIDE DEF L, N
  <2>5. Cardinality(A \ old) = Cardinality(L) + Cardinality(N)
    BY <1>5, <2>4, TwoParts
  <2> QED BY <2>3, <2>5
<1>8. Cardinality(L) = hi - lo /\ lo \in Nat /\ hi \in Nat
  <2>1. lo \in Nat /\ hi \in Nat /\ lo <= hi
    BY <1>1 DEF Least
  <2>2. ASSUME NEW x PROVE x \in L <=> x \in lo..hi - 1
    <3>1. v.blocks \in Nat /\ w \in Nat /\ v.blocks <= w /\ NDIRECT \in Nat
      BY <1>1
    <3>2. x \in L <=> x \in Int /\ v.blocks <= x /\ x <= w - 1 /\ x < NDIRECT
      BY <1>2, <3>1
    <3>3. x \in lo..hi - 1 <=> x \in Int /\ lo <= x /\ x <= hi - 1
      <4> HIDE DEF lo, hi
      <4> QED BY <2>1
    <3> HIDE DEF v, w, L
    <3>4. ASSUME x \in Int
          PROVE  (v.blocks <= x /\ x <= w - 1 /\ x < NDIRECT) <=> (lo <= x /\ x <= hi - 1)
      BY <3>1, <3>4 DEF Least
    <3> QED BY <3>2, <3>3, <3>4
  <2>3. L = lo..hi - 1
    <3> HIDE DEF L, lo, hi
    <3> QED BY ONLY <2>2
  <2>4. Cardinality(lo..hi - 1) = hi - lo
    <3> HIDE DEF lo, hi
    <3> QED BY <2>1, Interval
  <2> HIDE DEF L, lo, hi
  <2> QED BY <2>1, <2>3, <2>4
<1>9. Cardinality(old) \in Nat /\ Cardinality(N) \in Nat
  <2> HIDE DEF old, N
  <2> QED BY <1>5, FS_CardinalityType
<1>10. Claim(d, e) = hi + Cardinality(e) + (IF v.indirect \/ NewIndirect(v, g) THEN 1 ELSE 0)
  BY DEF Claim
<1>11. Claim(v, old) = lo + Cardinality(old) + (IF v.indirect THEN 1 ELSE 0)
  BY DEF Claim
<1>12. Cost(f, n, g) = Cardinality(L) + Cardinality(N) + (IF NewIndirect(v, g) THEN 1 ELSE 0)
  <2> HIDE DEF L, N
  <2> QED BY <1>7 DEF Cost
<1>13. NewIndirect(v, g) => ~v.indirect
  BY DEF NewIndirect
<1> HIDE DEF v, w, old, A, L, H, N, lo, hi
<1>14. Claim(d, e) = Claim(v, old) + Cost(f, n, g)
  BY <1>6, <1>8, <1>9, <1>10, <1>11, <1>12, <1>13
<1> QED BY <1>3, <1>14 DEF v, old

\* sfs_bmap_load_nolock: blocks that can be paid for are added.
LEMMA ExtendedOK ==
  ASSUME NEW f, NEW num, NEW oth, FsOK(f, num, oth), NEW n \in Node, f.mem[n] # Gone,
         NEW g \in Nat, g = 0 \/ f.mem[n].din.blocks + g <= MaxSize,
         Cost(f, n, g) <= f.unused
  PROVE  /\ FsOK(Extended(f, n, g), num, oth) /\ Extended(f, n, g).mem[n] # Gone
         /\ Extended(f, n, g).mem[n].din.size = f.mem[n].din.size
         /\ SameSizes(f, Extended(f, n, g), Node)
<1> DEFINE v == f.mem[n].din
           d == OnDiskAs(v.size, v.blocks + g, v.indirect \/ NewIndirect(v, g))
           b == f.mem[n].dirty \/ (g > 0 /\ v.blocks < NDIRECT) \/ NewIndirect(v, g)
           e == f.entries[n] \cup {j \in Added(v, g) : j >= NDIRECT}
           u == f.unused - Cost(f, n, g)
           h == Extended(f, n, g)
<1>1. /\ v \in DiskInode /\ v.size \in 0..MaxSize /\ v.blocks \in Nat /\ v.indirect \in BOOLEAN
      /\ f.mem[n].dirty \in BOOLEAN /\ f.unused \in Nat /\ NDIRECT \in Nat
      /\ Indexed(v, f.entries[n]) /\ (~f.mem[n].dirty => Matches(f.disk[n], v))
  BY DinParts, SfsAssumption
<1>2. /\ d \in DiskInode /\ d.size = v.size /\ d.blocks = v.blocks + g
      /\ (d.indirect <=> (v.indirect \/ NewIndirect(v, g)))
  <2>1. NewIndirect(v, g) \in BOOLEAN
    BY DEF NewIndirect
  <2>2. (v.indirect \/ NewIndirect(v, g)) \in BOOLEAN /\ v.blocks + g \in Nat
    BY <1>1, <2>1
  <2> HIDE DEF v
  <2> QED BY <1>1, <2>2 DEF DiskInode, OnDiskAs
<1>3. h = Put(f, n, Marked(num, oth, n, d, b), f.disk[n], e, u)
  <2>1. Extended(f, n, g) = ExtendedPut(f, num, oth, n, g)
    BY ExtendedIs
  <2> QED BY ONLY <2>1 DEF ExtendedPut
<1>4. e \in Entries /\ Claim(d, e) = Claim(v, f.entries[n]) + Cost(f, n, g)
  <2> HIDE DEF d
  <2> QED BY <1>2, ClaimGrows
<1>5. u \in Nat
  <2>1. Cost(f, n, g) \in Nat
    BY CostType
  <2> QED BY <1>1, <2>1
<1>6. b \in BOOLEAN
  BY DEF NewIndirect
<1>7. Indexed(d, e)
  <2>1. ASSUME NEW j \in NDIRECT..v.blocks + g - 1 PROVE j \in e
    <3>1. j \in NDIRECT..v.blocks - 1 \/ (j \in Added(v, g) /\ j >= NDIRECT)
      BY <1>1 DEF Added
    <3> QED BY <1>1, <3>1 DEF Indexed
  <2>2. d.blocks = v.blocks + g /\ v.blocks + g \in Nat
    BY <1>1, <1>2
  <2>3. d.blocks > NDIRECT => d.indirect
    BY <1>2 DEF NewIndirect
  <2> HIDE DEF d, v, e
  <2> QED BY <1>1, <2>1, <2>2, <2>3 DEF Indexed
<1>9. ~b => Matches(f.disk[n], d)
  <2> SUFFICES ASSUME ~b PROVE Matches(f.disk[n], d)
    OBVIOUS
  <2>1. /\ ~f.mem[n].dirty /\ ~(g > 0 /\ v.blocks < NDIRECT) /\ ~NewIndirect(v, g)
        /\ Matches(f.disk[n], v)
    BY <1>1
  <2>2. f.disk[n].blocks \in Nat /\ f.disk[n].indirect \in BOOLEAN
    <3>1. f.disk[n] \in DiskInode
      BY ViewType DEF FsOK
    <3> QED BY <3>1 DEF DiskInode
  <2>3. d.indirect \in BOOLEAN
    BY <1>2 DEF DiskInode
  <2>4. d.indirect = v.indirect
    BY <1>1, <1>2, <2>1, <2>3
  <2> HIDE DEF d, v, b, e, u, h
  <2> QED BY <1>1, <1>2, <2>1, <2>2, <2>4 DEF Matches
<1>10. u + Claim(d, e) = f.unused + Claim(v, f.entries[n])
  <2>1. Cost(f, n, g) \in Nat /\ Claim(v, f.entries[n]) \in Nat
    BY <1>1, CostType, ClaimType, DinParts
  <2> QED BY <1>1, <1>4, <2>1
<1> HIDE DEF d, b, e, u, h
<1>11. FsOK(h, num, oth) /\ Loads(h, n, d) /\ SameSizes(f, h, Node \ {n})
  <2>1. Fits(f, n, d, b, e, u)
    BY <1>2, <1>4, <1>5, <1>6, <1>7, <1>9, <1>10 DEF Fits
  <2> QED BY <2>1, <1>3, Resized
<1>12. Din(h, n) = d /\ Din(f, n) = v
  BY <1>11 DEF Din, Loads
<1>13. SameSizes(f, h, Node)
  BY <1>2, <1>11, <1>12 DEF SameSizes
<1> QED BY <1>2, <1>11, <1>13 DEF h, Loads

\* What a file claims shrinks by the blocks it gives back.
LEMMA ClaimShrinks ==
  ASSUME NEW v \in DiskInode, NEW d \in DiskInode, NEW old \in Entries, NEW e,
         Indexed(v, old), d.blocks <= v.blocks, d.indirect = v.indirect,
         e = old \ (d.blocks..v.blocks - 1)
  PROVE  /\ e \in Entries /\ Indexed(d, e)
         /\ Claim(v, old) = Claim(d, e) + (v.blocks - d.blocks)
<1> DEFINE x == v.blocks
           y == d.blocks
           R == Greatest(y, NDIRECT)..x - 1
<1>1. /\ x \in Nat /\ y \in Nat /\ NDIRECT \in Nat /\ y <= x
      /\ \A j \in old : j \in Int /\ j >= NDIRECT
  BY SfsAssumption DEF DiskInode, Entries
<1>2. e \in Entries
  BY DEF Entries
<1>3. Indexed(d, e)
  <2>1. ASSUME NEW j \in NDIRECT..y - 1 PROVE j \in e
    BY <1>1 DEF Indexed
  <2>2. y > NDIRECT => d.indirect
    BY <1>1 DEF Indexed
  <2> HIDE DEF x
  <2> QED BY <2>1, <2>2 DEF Indexed
<1>4. IsFiniteSet(old) /\ IsFiniteSet(e) /\ Cardinality(e) \in Nat /\ Cardinality(old) \in Nat
  BY <1>2, ClaimType
<1>5. Greatest(y, NDIRECT) \in Nat
  BY <1>1 DEF Greatest
<1>6. CASE x <= NDIRECT
  <2>1. \A j \in old : j \notin y..x - 1
    BY <1>1, <1>6
  <2>2. e = old
    BY <2>1
  <2>3. Least(x, NDIRECT) = x /\ Least(y, NDIRECT) = y
    BY <1>1, <1>6 DEF Least
  <2>4. Claim(d, e) = y + Cardinality(old) + (IF v.indirect THEN 1 ELSE 0)
    BY <2>2, <2>3 DEF Claim
  <2>5. Claim(v, old) = x + Cardinality(old) + (IF v.indirect THEN 1 ELSE 0)
    BY <2>3 DEF Claim
  <2> HIDE DEF x, y
  <2>6. Claim(v, old) = Claim(d, e) + (x - y)
    BY ONLY <1>1, <1>4, <2>4, <2>5
  <2> QED BY <1>2, <1>3, <2>6 DEF x, y
<1>7. CASE x > NDIRECT
  <2>1. Greatest(y, NDIRECT) <= x
    BY <1>1, <1>7 DEF Greatest
  <2>2. IsFiniteSet(R) /\ Cardinality(R) = x - Greatest(y, NDIRECT)
    <3> HIDE DEF x, y
    <3> QED BY <1>1, <1>5, <2>1, Interval
  <2>3. \A j : j \in R => j \in old /\ j \notin e
    BY <1>1 DEF Greatest, Indexed
  <2>4. \A j \in old : j \in e \/ j \in R
    BY <1>1 DEF Greatest
  <2>5. e \cap R = {} /\ \A j : j \in old <=> j \in e \/ j \in R
    BY <2>3, <2>4
  <2> HIDE DEF R
  <2>6. Cardinality(old) = Cardinality(e) + Cardinality(R)
    BY <1>4, <2>2, <2>5, TwoParts
  <2>7. Least(x, NDIRECT) = NDIRECT /\ Least(y, NDIRECT) + Greatest(y, NDIRECT) = y + NDIRECT
    BY <1>1, <1>7 DEF Least, Greatest
  <2>8. Claim(d, e) = Least(y, NDIRECT) + Cardinality(e) + (IF v.indirect THEN 1 ELSE 0)
    BY DEF Claim
  <2>9. Claim(v, old) = NDIRECT + Cardinality(old) + (IF v.indirect THEN 1 ELSE 0)
    BY <2>7 DEF Claim
  <2>10. Least(y, NDIRECT) \in Nat
    BY <1>1 DEF Least
  <2> HIDE DEF x, y
  <2>11. Claim(v, old) = Claim(d, e) + (x - y)
    BY ONLY <1>1, <1>4, <1>5, <2>2, <2>6, <2>7, <2>8, <2>9, <2>10
  <2> QED BY <1>2, <1>3, <2>11 DEF x, y
<1> QED BY <1>1, <1>6, <1>7

\* sfs_bmap_truncate_nolock
LEMMA ReducedOK ==
  ASSUME NEW f, NEW num, NEW oth, FsOK(f, num, oth), NEW n \in Node, f.mem[n] # Gone,
         NEW len \in 0..MaxSize, Blocks(len) <= f.mem[n].din.blocks
  PROVE  /\ FsOK(Reduced(f, n, len), num, oth) /\ Reduced(f, n, len).mem[n] # Gone
         /\ SameSizes(f, Reduced(f, n, len), Node \ {n})
<1> DEFINE v == f.mem[n].din
           k == v.blocks - Blocks(len)
           a == v.blocks - k
           d == OnDiskAs(len, a, v.indirect)
           e == f.entries[n] \ (v.blocks - k..v.blocks - 1)
           u == f.unused + k
           yes == TRUE
           h == Reduced(f, n, len)
<1>1. /\ v \in DiskInode /\ v.blocks \in Nat /\ v.indirect \in BOOLEAN
      /\ f.entries[n] \in Entries /\ f.unused \in Nat /\ Indexed(v, f.entries[n])
  BY DinParts
<1>2. Blocks(len) \in Nat
  <2>1. len \in Nat
    BY SfsAssumption
  <2> QED BY <2>1, BlocksBound
<1>3. k \in Nat /\ a = Blocks(len) /\ a \in Nat /\ a <= v.blocks /\ v.blocks - a = k
  <2>1. Blocks(len) <= v.blocks
    OBVIOUS
  <2> HIDE DEF v
  <2> QED BY <1>1, <1>2, <2>1
<1>4. d \in DiskInode /\ d.blocks = a /\ d.indirect = v.indirect
  <2> HIDE DEF v, a
  <2> QED BY <1>1, <1>3 DEF OnDiskAs, DiskInode
<1>5. h = Shrunk(f, n, a, len, yes, e, u)
  BY DEF Reduced, Sized, Shrunk
<1> HIDE DEF a, e, u, yes, h
<1>6. h = Put(f, n, Marked(num, oth, n, d, yes), f.disk[n], e, u)
  BY <1>5, Rewritten
<1>7. /\ e \in Entries /\ Indexed(d, e)
      /\ Claim(v, f.entries[n]) = Claim(d, e) + k
  <2>1. e = f.entries[n] \ (d.blocks..v.blocks - 1)
    BY <1>4 DEF e, a
  <2>2. d.blocks <= v.blocks /\ v.blocks - d.blocks = k
    BY <1>3, <1>4
  <2> HIDE DEF d, v, k
  <2>3. /\ e \in Entries /\ Indexed(d, e)
        /\ Claim(v, f.entries[n]) = Claim(d, e) + (v.blocks - d.blocks)
    BY <1>1, <1>4, <2>1, <2>2, ClaimShrinks
  <2> QED BY <2>2, <2>3
<1>8. u \in Nat /\ u + Claim(d, e) = f.unused + Claim(v, f.entries[n])
  <2>1. Claim(d, e) \in Nat
    BY <1>4, <1>7, ClaimType
  <2> HIDE DEF d, v, k
  <2> QED BY <1>1, <1>3, <1>7, <2>1 DEF u
<1>9. yes \in BOOLEAN /\ (~yes => Matches(f.disk[n], d))
  BY DEF yes
<1> HIDE DEF d
<1>10. FsOK(h, num, oth) /\ Loads(h, n, d) /\ SameSizes(f, h, Node \ {n})
  <2>1. Fits(f, n, d, yes, e, u)
    BY <1>4, <1>7, <1>8, <1>9 DEF Fits
  <2> QED BY <1>6, <2>1, Resized
<1> QED BY <1>10 DEF h, Loads

\* What a call on the file n leaves: all counts and blocks, and the other files' sizes.
Touched(f, g, num, oth, n) == FsOK(g, num, oth) /\ SameSizes(f, g, Node \ {n})

\* sfs_truncfile of a file that needs more blocks.
LEMMA EnlargedOK ==
  ASSUME NEW f, NEW num, NEW oth, FsOK(f, num, oth), NEW n \in Node, f.mem[n] # Gone,
         NEW len \in 0..MaxSize, Blocks(len) > f.mem[n].din.blocks
  PROVE  Touched(f, Enlarged(f, n, len), num, oth, n)
<1> DEFINE v == f.mem[n].din
           k == Blocks(len) - v.blocks
           l == Loaded(f, n, k)
           g == Extended(f, n, l)
<1>1. v.blocks \in Nat
  BY DinParts
<1>2. Blocks(len) \in Nat /\ Blocks(len) <= MaxSize
  <2>1. len \in Nat /\ len <= MaxSize /\ MaxSize \in Nat
    BY SfsAssumption
  <2>2. Blocks(len) \in Nat /\ Blocks(len) <= len
    BY <2>1, BlocksBound
  <2> QED BY ONLY <2>1, <2>2
<1>3. k \in Nat /\ v.blocks + k = Blocks(len)
  <2> HIDE DEF v
  <2> QED BY <1>1, <1>2 DEF v
<1>4. l \in 0..k /\ Cost(f, n, l) <= f.unused
  <2> HIDE DEF k
  <2> QED BY <1>3, LoadedOK
<1> HIDE DEF l
<1>5. l \in Nat /\ v.blocks + l <= MaxSize
  <2> HIDE DEF v, k
  <2> QED BY <1>1, <1>2, <1>3, <1>4, SfsAssumption
<1>6. FsOK(g, num, oth) /\ g.mem[n] # Gone /\ SameSizes(f, g, Node)
  BY <1>4, <1>5, ExtendedOK
<1>7. Enlarged(f, n, len) = IF l = k THEN Sized(g, n, len) ELSE g
  BY DEF Enlarged, l
<1> HIDE DEF g, k
<1>8. FsOK(Sized(g, n, len), num, oth) /\ SameSizes(g, Sized(g, n, len), Node \ {n})
  BY <1>6, SizedOK
<1> QED BY <1>6, <1>7, <1>8 DEF SameSizes, Touched

\* A failed assertion.
LEMMA FailedOK ==
  ASSUME NEW f, NEW num, NEW oth, FsOK(f, num, oth)
  PROVE  FsOK([f EXCEPT !.ok = FALSE], num, oth) /\ SameSizes(f, [f EXCEPT !.ok = FALSE], Node)
<1> DEFINE no == FALSE
           g == [f EXCEPT !.ok = no]
<1>1. f \in FileSystem
  BY DEF FsOK
<1>2. no \in BOOLEAN
  OBVIOUS
<1> HIDE DEF no
<1>3. f = Whole(f.mem, f.disk, f.entries, f.unused, f.saved, f.ok)
  BY <1>1, FsParts DEF Whole
<1>4. g = Whole(f.mem, f.disk, f.entries, f.unused, f.saved, no)
  <2>1. f = [mem |-> f.mem, disk |-> f.disk, entries |-> f.entries, unused |-> f.unused,
             saved |-> f.saved, ok |-> f.ok]
    BY <1>3 DEF Whole
  <2>2. g = [mem |-> f.mem, disk |-> f.disk, entries |-> f.entries, unused |-> f.unused,
             saved |-> f.saved, ok |-> no]
    BY ONLY <2>1
  <2> HIDE DEF g
  <2> QED BY <2>2 DEF Whole
<1> HIDE DEF g
<1>5. /\ g \in FileSystem
      /\ g.mem = f.mem /\ g.disk = f.disk /\ g.entries = f.entries /\ g.unused = f.unused
  <2>1. g = [mem |-> f.mem, disk |-> f.disk, entries |-> f.entries, unused |-> f.unused,
             saved |-> f.saved, ok |-> no]
    BY <1>4 DEF Whole
  <2> QED BY <1>1, <1>2, <2>1, FsParts, FsMake
<1>6. \A n \in Node : Din(g, n) = Din(f, n)
  BY <1>5 DEF Din
<1>7. Claims(g) = Claims(f)
  BY <1>5, <1>6 DEF Claims
<1>8. FsOK(g, num, oth) /\ SameSizes(f, g, Node)
  BY <1>5, <1>6, <1>7 DEF FsOK, SameSizes
<1> QED BY <1>8 DEF g, no

\* sfs_truncfile
LEMMA TruncateOK ==
  ASSUME NEW f, NEW num, NEW oth, FsOK(f, num, oth), NEW n \in Node, f.mem[n] # Gone,
         NEW len \in 0..MaxSize
  PROVE  Touched(f, Truncate(f, n, len), num, oth, n)
<1> DEFINE d == f.mem[n].din
<1>1. d.blocks \in Nat
  BY DinParts
<1>2. Blocks(len) \in Nat
  <2>1. len \in Nat
    BY SfsAssumption
  <2> QED BY <2>1, BlocksBound
<1>3. CASE d.size = len /\ Blocks(len) = d.blocks
  <2>1. Truncate(f, n, len) = f
    BY <1>3 DEF Truncate
  <2> QED BY <2>1 DEF Touched, SameSizes
<1>4. CASE d.size = len /\ Blocks(len) # d.blocks
  <2>1. Truncate(f, n, len) = [f EXCEPT !.ok = FALSE]
    BY <1>4 DEF Truncate
  <2>2. FsOK([f EXCEPT !.ok = FALSE], num, oth) /\ SameSizes(f, [f EXCEPT !.ok = FALSE], Node)
    BY FailedOK
  <2> QED BY ONLY <2>1, <2>2 DEF Touched, SameSizes
<1>5. CASE d.size # len /\ Blocks(len) > d.blocks
  <2>1. Truncate(f, n, len) = Enlarged(f, n, len)
    BY <1>1, <1>2, <1>5 DEF Truncate
  <2>2. Touched(f, Enlarged(f, n, len), num, oth, n)
    BY <1>5, EnlargedOK
  <2> QED BY <2>1, <2>2
<1>6. CASE d.size # len /\ Blocks(len) <= d.blocks
  <2>1. Truncate(f, n, len) = Reduced(f, n, len)
    BY <1>1, <1>2, <1>6 DEF Truncate
  <2>2. FsOK(Reduced(f, n, len), num, oth) /\ SameSizes(f, Reduced(f, n, len), Node \ {n})
    BY <1>6, ReducedOK
  <2> QED BY <2>1, <2>2 DEF Touched
<1> HIDE DEF d
<1>7. Blocks(len) > d.blocks \/ Blocks(len) <= d.blocks
  BY <1>1, <1>2
<1> QED BY <1>3, <1>4, <1>5, <1>6, <1>7

\* sfs_io_nolock, between two positions.
LEMMA IoOK ==
  ASSUME NEW f, NEW num, NEW oth, FsOK(f, num, oth), NEW n \in Node, f.mem[n] # Gone,
         NEW pos \in Nat, NEW end \in Nat, pos < end, end <= MaxSize
  PROVE  /\ Touched(f, Io(f, n, pos, end), num, oth, n)
         /\ Reached(f, n, pos, end) \in Nat
<1> DEFINE v == f.mem[n].din
           k == Greatest(0, Blocks(end) - v.blocks)
           l == Loaded(f, n, k)
           g == Extended(f, n, l)
           to == Reached(f, n, pos, end)
<1>1. v.blocks \in Nat /\ v.size \in 0..MaxSize /\ MaxSize \in Nat /\ B \in Nat
  BY DinParts, SfsAssumption
<1>2. Blocks(end) \in Nat /\ Blocks(end) <= MaxSize
  <2>1. Blocks(end) \in Nat /\ Blocks(end) <= end
    BY BlocksBound
  <2> QED BY ONLY <1>1, <2>1, end <= MaxSize, end \in Nat
<1>3. k \in Nat /\ (k = 0 \/ v.blocks + k = Blocks(end))
  <2> HIDE DEF v
  <2>1. v.blocks \in Nat
    BY <1>1
  <2> QED BY ONLY <1>2, <2>1 DEF Greatest, k
<1>4. l \in 0..k /\ Cost(f, n, l) <= f.unused
  <2> HIDE DEF k
  <2> QED BY <1>3, LoadedOK
<1> HIDE DEF l
<1>5. l \in Nat /\ (l = 0 \/ v.blocks + l <= MaxSize)
  <2>1. v.blocks \in Nat /\ MaxSize \in Nat
    BY <1>1
  <2> HIDE DEF v, k
  <2> QED BY ONLY <1>2, <1>3, <1>4, <2>1
<1>6. FsOK(g, num, oth) /\ g.mem[n] # Gone /\ SameSizes(f, g, Node)
  BY <1>4, <1>5, ExtendedOK
<1>7. IoBlocks(f, n, end) = l
  BY DEF IoBlocks, l
<1>8. to \in Nat /\ to <= MaxSize
  <2>1. to = Greatest(pos, Least(end, (v.blocks + l) * B))
    BY <1>7 DEF Reached
  <2>2. (v.blocks + l) * B \in Nat
    <3>1. v.blocks \in Nat /\ B \in Nat /\ l \in Nat
      BY <1>1, <1>5
    <3>2. v.blocks + l \in Nat
      BY ONLY <3>1
    <3> QED BY ONLY <3>1, <3>2
  <2> DEFINE z == (v.blocks + l) * B
  <2> HIDE DEF z, to
  <2>3. to = Greatest(pos, Least(end, z)) /\ z \in Nat /\ MaxSize \in Nat
    BY <1>1, <2>1, <2>2 DEF z
  <2> QED BY ONLY <2>3, pos \in Nat, end \in Nat, pos < end, end <= MaxSize DEF Greatest, Least
<1> HIDE DEF g, k
<1>9. CASE pos \div B > v.blocks
  <2>1. Io(f, n, pos, end) = [f EXCEPT !.ok = FALSE]
    <3>1. ~(pos \div B <= v.blocks)
      <4>1. pos \div B \in Int
        BY SfsAssumption
      <4> HIDE DEF v
      <4> QED BY <1>1, <1>9, <4>1
    <3> HIDE DEF to
    <3> QED BY <1>9, <3>1 DEF Io
  <2>2. FsOK([f EXCEPT !.ok = FALSE], num, oth) /\ SameSizes(f, [f EXCEPT !.ok = FALSE], Node)
    BY FailedOK
  <2>3. Touched(f, Io(f, n, pos, end), num, oth, n)
    BY ONLY <2>1, <2>2 DEF Touched, SameSizes
  <2> QED BY <1>8, <2>3
<1>10. CASE ~(pos \div B > v.blocks)
  <2>1. Io(f, n, pos, end) = IF to > v.size THEN Sized(g, n, to) ELSE g
    <3>1. pos \div B <= v.blocks
      <4>1. pos \div B \in Int
        BY SfsAssumption
      <4> HIDE DEF v
      <4> QED BY <1>1, <1>10, <4>1
    <3>2. Extended(f, n, IoBlocks(f, n, end)) = g
      BY <1>7 DEF g
    <3> HIDE DEF to
    <3> QED BY <1>10, <3>1, <3>2 DEF Io, to
  <2>2. FsOK(Sized(g, n, to), num, oth) /\ SameSizes(g, Sized(g, n, to), Node \ {n})
    <3>1. to \in 0..MaxSize
      BY <1>1, <1>8
    <3> HIDE DEF to
    <3> QED BY <1>6, <3>1, SizedOK
  <2> HIDE DEF to
  <2>3. Touched(f, Io(f, n, pos, end), num, oth, n)
    BY <1>6, <2>1, <2>2 DEF Touched, SameSizes
  <2> QED BY <1>8, <2>3 DEF to
<1> QED BY <1>9, <1>10

-----------------------------------------------------------------------------
(***************************************************************************)
(* Descriptors.                                                            *)
(***************************************************************************)
Array == [FD -> OpenFile \cup {None}]

\* The fd_arrays of all tables, and how many of their descriptors are open on n.
Arrays == [Table -> Array \cup {None}]

Users(T, n) ==
  {x \in Table \X FD : T[x[1]] # None /\ T[x[1]][x[2]] # None /\ T[x[1]][x[2]].node = n}

Num(T) == [n \in Node |-> Cardinality(Users(T, n))]

\* Descriptors are counted by numbers.
LEMMA NumType ==
  ASSUME NEW T
  PROVE  /\ Num(T) \in [Node -> Nat]
         /\ \A n : IsFiniteSet(Users(T, n)) /\ Cardinality(Users(T, n)) \in Nat
<1>1. IsFiniteSet(FD)
  <2>1. 0 \in Int /\ NFD - 1 \in Int
    BY FilesAssumption
  <2>2. IsFiniteSet(0..NFD - 1)
    BY <2>1, FS_Interval
  <2> QED BY <2>2 DEF FD
<1>2. IsFiniteSet(Table \X FD)
  BY <1>1, FilesAssumption, FS_Product
<1>3. \A n : IsFiniteSet(Users(T, n)) /\ Cardinality(Users(T, n)) \in Nat
  <2>1. \A n : Users(T, n) \subseteq Table \X FD
    BY DEF Users
  <2> QED BY <1>2, <2>1, FS_Subset, FS_CardinalityType
<1> QED BY <1>3 DEF Num

\* None is no table and no file.
LEMMA Nones ==
  /\ None \notin Array /\ None \notin OpenFile /\ None \notin Table
  /\ \A file \in OpenFile : file.node \in Node
<1>1. None \notin Proc \cup Table \cup OpenFile /\ None \notin [FD -> OpenFile \cup {None}]
  BY FilesAssumption
<1> QED BY <1>1 DEF Array, OpenFile

\* A table with another array.
Place(T, t, a) == [T EXCEPT ![t] = a]

\* The arrays after one is replaced.
LEMMA PlaceType ==
  ASSUME NEW T \in Arrays, NEW t \in Table, NEW a \in Array \cup {None}
  PROVE  /\ Place(T, t, a) \in Arrays /\ Place(T, t, a)[t] = a
         /\ \A s \in Table \ {t} : Place(T, t, a)[s] = T[s]
BY DEF Place, Arrays

\* Changing the array of one table: if no descriptor is opened on n or closed, the
\* count of n stays.
LEMMA SameUsers ==
  ASSUME NEW T \in Arrays, NEW t \in Table, NEW a \in Array \cup {None}, NEW n,
         \A fd \in FD : (a # None /\ a[fd] # None /\ a[fd].node = n)
                          <=> (T[t] # None /\ T[t][fd] # None /\ T[t][fd].node = n)
  PROVE  Users(Place(T, t, a), n) = Users(T, n)
<1> DEFINE P == Place(T, t, a)
<1>1. P[t] = a /\ \A s \in Table \ {t} : P[s] = T[s]
  BY PlaceType
<1> HIDE DEF P
<1>2. ASSUME NEW s \in Table, NEW fd \in FD
      PROVE  (P[s] # None /\ P[s][fd] # None /\ P[s][fd].node = n)
               <=> (T[s] # None /\ T[s][fd] # None /\ T[s][fd].node = n)
  BY <1>1
<1>3. Users(P, n) = Users(T, n)
  BY <1>2 DEF Users
<1> QED BY <1>3 DEF P

\* An array with another file at fd.
Slot(a, fd, file) == [a EXCEPT ![fd] = file]

\* The descriptors after one is replaced.
LEMMA SlotType ==
  ASSUME NEW a \in Array, NEW fd \in FD, NEW file \in OpenFile \cup {None}
  PROVE  /\ Slot(a, fd, file) \in Array /\ Slot(a, fd, file)[fd] = file
         /\ \A e \in FD \ {fd} : Slot(a, fd, file)[e] = a[e]
BY DEF Slot, Array

\* Opening a descriptor.
LEMMA OpenedOne ==
  ASSUME NEW T \in Arrays, NEW t \in Table, T[t] # None, NEW fd \in FD, T[t][fd] = None,
         NEW file \in OpenFile
  PROVE  Num(Place(T, t, Slot(T[t], fd, file))) =
           [Num(T) EXCEPT ![file.node] = Num(T)[file.node] + 1]
<1> DEFINE a == Slot(T[t], fd, file)
           P == Place(T, t, a)
           n == file.node
<1>1. T[t] \in Array /\ file # None /\ n \in Node
  BY Nones DEF Arrays
<1>2. a \in Array /\ a # None /\ a[fd] = file /\ \A e \in FD \ {fd} : a[e] = T[t][e]
  BY <1>1, SlotType, Nones
<1> HIDE DEF a
<1>3. P[t] = a /\ \A s \in Table \ {t} : P[s] = T[s]
  BY <1>2, PlaceType
<1>4. ASSUME NEW x \in Node \ {n} PROVE Users(P, x) = Users(T, x)
  <2>1. \A e \in FD : (a # None /\ a[e] # None /\ a[e].node = x)
                          <=> (T[t] # None /\ T[t][e] # None /\ T[t][e].node = x)
    BY <1>2
  <2> QED BY <1>2, <2>1, SameUsers
<1>5. <<t, fd>> \notin Users(T, n)
  BY DEF Users
<1>6. Users(P, n) = Users(T, n) \cup {<<t, fd>>}
  <2> HIDE DEF P
  <2>1. ASSUME NEW s \in Table, NEW e \in FD, ~(s = t /\ e = fd)
        PROVE  (P[s] # None /\ P[s][e] # None /\ P[s][e].node = n)
                 <=> (T[s] # None /\ T[s][e] # None /\ T[s][e].node = n)
    BY <1>2, <1>3, <2>1
  <2>2. P[t] # None /\ P[t][fd] # None /\ P[t][fd].node = n
    BY <1>1, <1>2, <1>3
  <2> HIDE DEF n
  <2>3. ASSUME NEW x \in Table \X FD, x # <<t, fd>> PROVE x \in Users(P, n) <=> x \in Users(T, n)
    BY <2>1, <2>3 DEF Users
  <2>4. <<t, fd>> \in Users(P, n)
    BY <2>2 DEF Users
  <2>5. Users(P, n) \subseteq Table \X FD /\ Users(T, n) \subseteq Table \X FD
    BY DEF Users
  <2> QED BY <2>3, <2>4, <2>5
<1>7. Cardinality(Users(P, n)) = Cardinality(Users(T, n)) + 1
  <2>1. IsFiniteSet(Users(T, n))
    BY NumType
  <2> HIDE DEF P, n
  <2> QED BY <1>5, <1>6, <2>1, FS_AddElement
<1>8. Num(P) = [Num(T) EXCEPT ![n] = Num(T)[n] + 1]
  <2> HIDE DEF P, n
  <2>1. \A x \in Node \ {n} : Cardinality(Users(P, x)) = Cardinality(Users(T, x))
    BY <1>4
  <2> QED BY <1>1, <1>7, <2>1 DEF Num
<1> QED BY <1>8 DEF P, a

\* Closing a descriptor.
LEMMA ClosedOne ==
  ASSUME NEW T \in Arrays, NEW t \in Table, T[t] # None, NEW fd \in FD, T[t][fd] # None
  PROVE  /\ Num(Place(T, t, Slot(T[t], fd, None))) =
              [Num(T) EXCEPT ![T[t][fd].node] = Num(T)[T[t][fd].node] - 1]
         /\ Num(T)[T[t][fd].node] # 0
         /\ T[t][fd].node \in Node
<1> DEFINE file == T[t][fd]
           a == Slot(T[t], fd, None)
           P == Place(T, t, a)
<1>1. T[t] \in Array /\ file \in OpenFile
  BY Nones DEF Arrays, Array
<1>2. a \in Array /\ a # None /\ a[fd] = None
  BY <1>1, SlotType, Nones
<1>3. P \in Arrays /\ P[t] = a
  BY <1>2, PlaceType
<1>4. Num(Place(P, t, Slot(P[t], fd, file))) =
        [Num(P) EXCEPT ![file.node] = Num(P)[file.node] + 1]
  <2>1. P \in Arrays /\ P[t] # None /\ P[t][fd] = None /\ file \in OpenFile
    BY <1>1, <1>2, <1>3
  <2> HIDE DEF P, a, file
  <2> QED BY <2>1, OpenedOne
<1>5. Place(P, t, Slot(P[t], fd, file)) = T
  <2>1. Slot(P[t], fd, file) = T[t]
    BY <1>1, <1>3 DEF Slot, Array
  <2> HIDE DEF a, file
  <2>2. Place(P, t, T[t]) = T
    BY DEF Place, Arrays
  <2> QED BY <2>1, <2>2
<1>6. Num(P) \in [Node -> Nat] /\ file.node \in Node
  BY <1>1, NumType, Nones
<1>7. Num(T) = [Num(P) EXCEPT ![file.node] = Num(P)[file.node] + 1]
  BY <1>4, <1>5
<1>8. /\ Num(P) = [Num(T) EXCEPT ![file.node] = Num(T)[file.node] - 1]
      /\ Num(T)[file.node] # 0
  <2> HIDE DEF P, file
  <2>1. Num(T)[file.node] = Num(P)[file.node] + 1 /\ Num(P)[file.node] \in Nat
    BY <1>6, <1>7
  <2>2. Num(T)[file.node] - 1 = Num(P)[file.node] /\ Num(T)[file.node] # 0
    BY ONLY <2>1
  <2>3. [[Num(P) EXCEPT ![file.node] = Num(P)[file.node] + 1]
           EXCEPT ![file.node] = Num(P)[file.node]] = Num(P)
    BY <1>6
  <2> QED BY <1>7, <2>2, <2>3
<1> QED BY <1>6, <1>8 DEF P, a

\* Moving the position of a file.
LEMMA MovedOne ==
  ASSUME NEW T \in Arrays, NEW t \in Table, T[t] # None, NEW fd \in FD, T[t][fd] # None,
         NEW file \in OpenFile, file.node = T[t][fd].node
  PROVE  Num(Place(T, t, Slot(T[t], fd, file))) = Num(T)
<1> DEFINE a == Slot(T[t], fd, file)
<1>1. T[t] \in Array /\ file # None
  BY Nones DEF Arrays
<1>2. a \in Array /\ a # None /\ a[fd] = file /\ \A e \in FD \ {fd} : a[e] = T[t][e]
  BY <1>1, SlotType, Nones
<1> HIDE DEF a
<1>3. ASSUME NEW x \in Node PROVE Users(Place(T, t, a), x) = Users(T, x)
  <2>1. \A e \in FD : (a # None /\ a[e] # None /\ a[e].node = x)
                          <=> (T[t] # None /\ T[t][e] # None /\ T[t][e].node = x)
    BY <1>1, <1>2
  <2> QED BY <1>2, <2>1, SameUsers
<1> QED BY <1>3 DEF Num, a

\* A table without open descriptors that is created or freed.
Empty(a) == a = None \/ \A fd \in FD : a[fd] = None

\* Such a table changes no count.
LEMMA EmptyPlaced ==
  ASSUME NEW T \in Arrays, NEW t \in Table, NEW a \in Array \cup {None}, Empty(a), Empty(T[t])
  PROVE  Num(Place(T, t, a)) = Num(T)
<1>1. ASSUME NEW x \in Node PROVE Users(Place(T, t, a), x) = Users(T, x)
  <2>1. \A e \in FD : (a # None /\ a[e] # None /\ a[e].node = x)
                          <=> (T[t] # None /\ T[t][e] # None /\ T[t][e].node = x)
    BY DEF Empty
  <2> QED BY <2>1, SameUsers
<1> QED BY <1>1 DEF Num

\* An array whose descriptors s are closed, and one that has only those open.
Without(a, s) == [fd \in FD |-> IF fd \in s THEN None ELSE a[fd]]
Only(a, s)    == [fd \in FD |-> IF fd \in s THEN a[fd] ELSE None]

\* Both are arrays.
LEMMA PartType ==
  ASSUME NEW a \in Array, NEW s
  PROVE  /\ Without(a, s) \in Array /\ Without(a, s) # None
         /\ Only(a, s) \in Array /\ Only(a, s) # None
<1>1. Without(a, s) \in Array /\ Only(a, s) \in Array
  BY DEF Without, Only, Array
<1> QED BY <1>1, Nones

\* FD is finite, and so are the sets of descriptors.
LEMMA DescriptorsFinite == \A S \in SUBSET FD : IsFiniteSet(S)
<1>1. IsFiniteSet(FD)
  <2>1. 0 \in Int /\ NFD - 1 \in Int
    BY FilesAssumption
  <2>2. IsFiniteSet(0..NFD - 1)
    BY <2>1, FS_Interval
  <2> QED BY <2>2 DEF FD
<1> QED BY <1>1, FS_Subset

\* fd_array_close of some descriptors of a table.
LEMMA CloseAllOK ==
  ASSUME NEW T \in Arrays, NEW t \in Table, T[t] # None, NEW S \in SUBSET FD,
         \A fd \in S : T[t][fd] # None, NEW f, NEW oth, FsOK(f, Num(T), oth)
  PROVE  /\ FsOK(CloseAll(f, T[t], S), Num(Place(T, t, Without(T[t], S))), oth)
         /\ SameSizes(f, CloseAll(f, T[t], S), Node)
<1> DEFINE a == T[t]
           of == [fd \in S |-> a[fd].node]
           At(s) == Place(T, t, Without(a, s))
<1>1. a \in Array /\ IsFiniteSet(S)
  BY DescriptorsFinite DEF Arrays
<1>2. \A x \in S : of[x] = a[x].node
  OBVIOUS
<1> HIDE DEF of
<1>3. PICK it : FoldsAs(it, "close", of, f, S) /\ CloseAll(f, a, S) = it[S]
  <2> HIDE DEF a
  <2> QED BY <1>1, <1>2, CloseFold
<1>4. /\ it[{}] = f
      /\ \A s \in SUBSET S : \A x \in s :
           x = Pick(s) => it[s] = Applied("close", of[x], it[s \ {x}])
  BY <1>3, FoldSteps
<1> DEFINE Good(s) == FsOK(it[s], Num(At(s)), oth) /\ SameSizes(f, it[s], Node)
           Z == {s \in SUBSET S : Good(s)}
<1>5. Good({})
  <2>1. Without(a, {}) = a
    BY <1>1 DEF Without, Array
  <2>2. At({}) = T
    BY <2>1 DEF Place, Arrays
  <2> HIDE DEF At
  <2> QED BY <1>4, <2>2 DEF SameSizes
<1>6. ASSUME NEW s \in SUBSET S, NEW x \in s, x = Pick(s), Good(s \ {x}) PROVE Good(s)
  <2> DEFINE u == s \ {x}
             P == At(u)
             n == a[x].node
  <2>1. /\ P \in Arrays /\ P[t] = Without(a, u) /\ P[t] # None /\ x \in FD
        /\ P[t][x] = a[x] /\ a[x] # None
    <3>1. Without(a, u) \in Array /\ Without(a, u) # None
      BY <1>1, PartType
    <3>2. P \in Arrays /\ P[t] = Without(a, u)
      <4> HIDE DEF a, u
      <4> QED BY <3>1, PlaceType
    <3>3. Without(a, u)[x] = a[x] /\ x \in FD /\ x \in S
      BY DEF Without
    <3> QED BY <3>1, <3>2, <3>3
  <2>2. At(s) = Place(P, t, Slot(P[t], x, None))
    <3>1. Slot(Without(a, u), x, None) = Without(a, s)
      BY DEF Slot, Without
    <3> HIDE DEF u, a
    <3>2. Place(P, t, Without(a, s)) = Place(T, t, Without(a, s))
      BY DEF Place, Arrays
    <3> QED BY <2>1, <3>1, <3>2
  <2>3. it[s] = vfs_close(it[u], n)
    BY <1>2, <1>4, <1>6 DEF Applied
  <2>4. FsOK(it[u], Num(P), oth) /\ SameSizes(f, it[u], Node)
    BY <1>6
  <2> HIDE DEF P, u, At
  <2>5. /\ Num(At(s)) = [Num(P) EXCEPT ![n] = Num(P)[n] - 1]
        /\ Num(P)[n] # 0 /\ n \in Node
    <3>1. /\ Num(Place(P, t, Slot(P[t], x, None))) =
               [Num(P) EXCEPT ![P[t][x].node] = Num(P)[P[t][x].node] - 1]
          /\ Num(P)[P[t][x].node] # 0
          /\ P[t][x].node \in Node
      BY <2>1, ClosedOne
    <3>2. P[t][x].node = n
      BY <2>1
    <3> HIDE DEF n
    <3> QED BY ONLY <2>2, <3>1, <3>2
  <2> HIDE DEF n
  <2>6. /\ FsOK(vfs_close(it[u], n), [Num(P) EXCEPT ![n] = Num(P)[n] - 1], oth)
        /\ SameSizes(it[u], vfs_close(it[u], n), Node)
    BY <2>4, <2>5, CloseOK
  <2> QED BY <2>3, <2>4, <2>5, <2>6 DEF SameSizes
<1> HIDE DEF Good
<1>7. S \in Z
  <2>1. {} \in Z
    BY <1>5
  <2>2. \A s \in SUBSET S : \A x \in s : x = Pick(s) /\ s \ {x} \in Z => s \in Z
    BY <1>6
  <2> HIDE DEF Z
  <2>3. SUBSET S \subseteq Z
    BY <1>1, <2>1, <2>2, SubsetInduction
  <2> QED BY <2>3
<1>8. Good(S)
  BY <1>7
<1> QED BY <1>3, <1>8 DEF Good

\* fd_array_dup of the open descriptors of a table r into another one.
LEMMA DupAllOK ==
  ASSUME NEW T \in Arrays, NEW r \in Table, T[r] # None, NEW t \in Table, T[t] = None,
         NEW S \in SUBSET FD, \A fd \in S : T[r][fd] # None,
         NEW f, NEW oth, FsOK(f, Num(T), oth)
  PROVE  /\ FsOK(DupAll(f, T[r], S), Num(Place(T, t, Only(T[r], S))), oth)
         /\ SameSizes(f, DupAll(f, T[r], S), Node)
<1> DEFINE a == T[r]
           of == [fd \in S |-> a[fd].node]
           At(s) == Place(T, t, Only(a, s))
<1>1. a \in Array /\ IsFiniteSet(S) /\ \A x \in S : a[x] \in OpenFile
  <2>1. a \in Array /\ IsFiniteSet(S)
    BY DescriptorsFinite DEF Arrays
  <2> QED BY <2>1 DEF Array
<1>2. \A x \in S : of[x] = a[x].node
  OBVIOUS
<1> HIDE DEF of
<1>3. PICK it : FoldsAs(it, "dup", of, f, S) /\ DupAll(f, a, S) = it[S]
  <2> HIDE DEF a
  <2> QED BY <1>1, <1>2, DupFold
<1>4. /\ it[{}] = f
      /\ \A s \in SUBSET S : \A x \in s :
           x = Pick(s) => it[s] = Applied("dup", of[x], it[s \ {x}])
  BY <1>3, FoldSteps
<1> DEFINE Good(s) == FsOK(it[s], Num(At(s)), oth) /\ SameSizes(f, it[s], Node)
           Z == {s \in SUBSET S : Good(s)}
<1>5. Good({})
  <2>1. Only(a, {}) \in Array
    BY <1>1, PartType
  <2>2. Empty(Only(a, {})) /\ Empty(T[t])
    BY DEF Empty, Only
  <2>3. Num(At({})) = Num(T)
    <3> HIDE DEF a
    <3> QED BY <2>1, <2>2, EmptyPlaced
  <2> HIDE DEF At
  <2> QED BY <1>4, <2>3 DEF SameSizes
<1>6. ASSUME NEW s \in SUBSET S, NEW x \in s, x = Pick(s), Good(s \ {x}) PROVE Good(s)
  <2> DEFINE u == s \ {x}
             P == At(u)
             file == a[x]
             n == file.node
  <2>1. /\ P \in Arrays /\ P[t] = Only(a, u) /\ P[t] # None /\ x \in FD
        /\ P[t][x] = None /\ file # None /\ file \in OpenFile /\ P[r] = a
    <3>1. Only(a, u) \in Array /\ Only(a, u) # None
      BY <1>1, PartType
    <3>2. P \in Arrays /\ P[t] = Only(a, u) /\ P[r] = a
      <4>1. r # t
        OBVIOUS
      <4> HIDE DEF u
      <4> QED BY <3>1, <4>1, PlaceType
    <3>3. Only(a, u)[x] = None /\ x \in FD /\ x \in S
      BY DEF Only
    <3> QED BY <1>1, <3>1, <3>2, <3>3
  <2>2. At(s) = Place(P, t, Slot(P[t], x, file))
    <3>1. Slot(Only(a, u), x, file) = Only(a, s)
      BY DEF Slot, Only
    <3> HIDE DEF u, a, file
    <3>2. Place(P, t, Only(a, s)) = Place(T, t, Only(a, s))
      BY DEF Place, Arrays
    <3> QED BY <2>1, <3>1, <3>2
  <2>3. it[s] = Shared(it[u], n)
    BY <1>2, <1>4, <1>6 DEF Applied
  <2>4. FsOK(it[u], Num(P), oth) /\ SameSizes(f, it[u], Node)
    BY <1>6
  <2> HIDE DEF P, u, At
  <2>5. Num(P)[n] # 0 /\ n \in Node
    <3>1. P[r] # None /\ P[r][x] # None /\ P[r][x].node = n
      BY <2>1
    <3>2. Num(P)[P[r][x].node] # 0 /\ P[r][x].node \in Node
      <4> HIDE DEF n, file, a
      <4> QED BY <2>1, <3>1, ClosedOne
    <3> QED BY ONLY <3>1, <3>2
  <2>6. Num(At(s)) = [Num(P) EXCEPT ![n] = Num(P)[n] + 1]
    <3> HIDE DEF file
    <3>1. Num(Place(P, t, Slot(P[t], x, file))) =
            [Num(P) EXCEPT ![file.node] = Num(P)[file.node] + 1]
      BY <2>1, OpenedOne
    <3> QED BY <2>2, <3>1
  <2> HIDE DEF n
  <2>7. it[u].mem[n] # Gone
    BY <2>4, <2>5, InMemory
  <2>8. /\ FsOK(Shared(it[u], n), [Num(P) EXCEPT ![n] = Num(P)[n] + 1], oth)
        /\ SameSizes(it[u], Shared(it[u], n), Node)
    BY <2>4, <2>5, <2>7, SharedOK
  <2> QED BY <2>3, <2>4, <2>6, <2>8 DEF SameSizes
<1> HIDE DEF Good
<1>7. S \in Z
  <2>1. {} \in Z
    BY <1>5
  <2>2. \A s \in SUBSET S : \A x \in s : x = Pick(s) /\ s \ {x} \in Z => s \in Z
    BY <1>6
  <2> HIDE DEF Z
  <2>3. SUBSET S \subseteq Z
    BY <1>1, <2>1, <2>2, SubsetInduction
  <2> QED BY <2>3
<1>8. Good(S)
  BY <1>7
<1> QED BY <1>3, <1>8 DEF Good

-----------------------------------------------------------------------------
(***************************************************************************)
(* The machine goes off and on.                                            *)
(***************************************************************************)
\* sfs_sync writes every inode that is in memory.
LEMMA SyncAllOK ==
  ASSUME NEW f, NEW num, NEW oth, FsOK(f, num, oth), NEW S \in SUBSET Node,
         \A n \in S : f.mem[n] # Gone
  PROVE  /\ FsOK(SyncAll(f, S), num, oth) /\ SameSizes(f, SyncAll(f, S), Node)
         /\ \A n \in S : ~SyncAll(f, S).mem[n].dirty
         /\ \A n \in Node \ S : SyncAll(f, S).mem[n] = f.mem[n]
         /\ SyncAll(f, S).unused = f.unused
<1> DEFINE of == [x \in S |-> x]
<1>1. IsFiniteSet(S) /\ \A x \in S : of[x] = x
  BY NodesFinite, FS_Subset
<1> HIDE DEF of
<1>2. PICK it : FoldsAs(it, "sync", of, f, S) /\ SyncAll(f, S) = it[S]
  BY <1>1, SyncFold
<1>3. /\ it[{}] = f
      /\ \A s \in SUBSET S : \A x \in s :
           x = Pick(s) => it[s] = Applied("sync", of[x], it[s \ {x}])
  BY <1>2, FoldSteps
<1> DEFINE Good(s) == /\ FsOK(it[s], num, oth) /\ SameSizes(f, it[s], Node)
                      /\ \A n \in s : ~it[s].mem[n].dirty
                      /\ \A n \in S : it[s].mem[n] # Gone
                      /\ \A n \in Node \ s : it[s].mem[n] = f.mem[n]
                      /\ it[s].unused = f.unused
           Z == {s \in SUBSET S : Good(s)}
<1>4. Good({})
  BY <1>3 DEF SameSizes
<1>5. ASSUME NEW s \in SUBSET S, NEW x \in s, x = Pick(s), Good(s \ {x}) PROVE Good(s)
  <2> DEFINE u == s \ {x}
             g == it[u]
             h == Fsync(g, x)
  <2>1. it[s] = h
    BY <1>1, <1>3, <1>5 DEF Applied
  <2>2. /\ FsOK(g, num, oth) /\ SameSizes(f, g, Node) /\ (\A n \in u : ~g.mem[n].dirty)
        /\ (\A n \in S : g.mem[n] # Gone) /\ (\A n \in Node \ u : g.mem[n] = f.mem[n])
        /\ g.unused = f.unused /\ x \in S /\ x \in Node
    BY <1>5
  <2> HIDE DEF g
  <2>3. /\ FsOK(h, num, oth) /\ SameSizes(g, h, Node) /\ h.mem[x] # Gone /\ ~h.mem[x].dirty
        /\ \A n \in Node \ {x} : h.mem[n] = g.mem[n]
        /\ h.unused = g.unused
    BY <2>2, FsyncOK
  <2> HIDE DEF h
  <2>4. SameSizes(f, h, Node)
    BY <2>2, <2>3 DEF SameSizes
  <2>5. /\ \A n \in s : ~h.mem[n].dirty
        /\ \A n \in S : h.mem[n] # Gone
        /\ \A n \in Node \ s : h.mem[n] = f.mem[n]
    <3>1. \A n \in s : n \in u \/ n = x
      OBVIOUS
    <3>2. \A n \in Node \ s : n \in Node \ u /\ n # x
      OBVIOUS
    <3> HIDE DEF u
    <3> QED BY <2>2, <2>3, <3>1, <3>2
  <2> QED BY <2>1, <2>2, <2>3, <2>4, <2>5
<1> HIDE DEF Good
<1>6. S \in Z
  <2>1. {} \in Z
    BY <1>4
  <2>2. \A s \in SUBSET S : \A x \in s : x = Pick(s) /\ s \ {x} \in Z => s \in Z
    BY <1>5
  <2> HIDE DEF Z
  <2>3. SUBSET S \subseteq Z
    BY <1>1, <2>1, <2>2, SubsetInduction
  <2> QED BY <2>3
<1>7. Good(S)
  BY <1>6
<1> QED BY <1>2, <1>7 DEF Good

Nothing == [n \in Node |-> 0]

\* An inode that is on the disk but for what the indirect block has may be dropped.
LEMMA Dropped ==
  ASSUME NEW m \in Inode \cup {Gone}, NEW d \in DiskInode, NEW e, NEW k, NEW o,
         NodeOK(m, d, e, k, o), m # Gone => ~m.dirty
  PROVE  /\ NodeOK(Gone, d, e, 0, 0)
         /\ Claim(d, e) = Claim(View(m, d), e) /\ d.size = View(m, d).size
<1> DEFINE v == View(m, d)
<1>1. CASE m = Gone
  BY <1>1 DEF NodeOK, View
<1>2. CASE m # Gone
  <2>1. v = m.din /\ v \in DiskInode
    BY <1>2 DEF View, Inode
  <2>2. Matches(d, v) /\ NDIRECT..v.blocks - 1 \subseteq e /\ (v.blocks > NDIRECT => v.indirect)
    BY <1>2, <2>1 DEF NodeOK
  <2> HIDE DEF v
  <2>3. d.blocks \in Nat /\ v.blocks \in Nat /\ NDIRECT \in Nat
    BY <2>1, SfsAssumption DEF DiskInode
  <2>4. NodeOK(Gone, d, e, 0, 0)
    <3>1. NDIRECT..d.blocks - 1 \subseteq e
      BY <2>2, <2>3 DEF Matches
    <3>2. d.blocks > NDIRECT => d.indirect
      BY <2>2, <2>3 DEF Matches
    <3> QED BY <3>1, <3>2 DEF NodeOK, View
  <2>5. Claim(d, e) = Claim(v, e)
    <3>1. Least(d.blocks, NDIRECT) = Least(v.blocks, NDIRECT)
      BY <2>2, <2>3 DEF Matches, Least
    <3> QED BY <2>2, <3>1 DEF Claim, Matches
  <2> QED BY <2>2, <2>4, <2>5 DEF Matches, v
<1> QED BY <1>1, <1>2

\* sfs_sync, and then the machine stops: the disk has all.
LEMMA StoppedOK ==
  ASSUME NEW f, NEW num, NEW oth, FsOK(f, num, oth)
  PROVE  LET g == OnDisk(sfs_sync(f))
         IN  /\ FsOK(g, Nothing, Nothing) /\ SameSizes(f, g, Node)
             /\ g.saved = g.unused /\ g.mem = [n \in Node |-> Gone]
<1> DEFINE S == {n \in Node : f.mem[n] # Gone}
           h == SyncAll(f, S)
           M == [n \in Node |-> Gone]
           g == OnDisk(sfs_sync(f))
<1>1. /\ FsOK(h, num, oth) /\ SameSizes(f, h, Node)
      /\ \A n \in S : ~h.mem[n].dirty
      /\ \A n \in Node \ S : h.mem[n] = f.mem[n]
      /\ h.unused = f.unused
  <2>1. S \in SUBSET Node /\ \A n \in S : f.mem[n] # Gone
    OBVIOUS
  <2> HIDE DEF S
  <2> QED BY <2>1, SyncAllOK
<1>2. \A n \in Node : h.mem[n] # Gone => ~h.mem[n].dirty
  <2> HIDE DEF h
  <2> QED BY <1>1
<1>3. g = [h EXCEPT !.saved = f.unused, !.mem = M]
  BY DEF OnDisk, sfs_sync
<1> HIDE DEF h
<1>4. h \in FileSystem
  BY <1>1 DEF FsOK
<1>5. g = [mem |-> M, disk |-> h.disk, entries |-> h.entries, unused |-> h.unused,
           saved |-> f.unused, ok |-> h.ok]
  <2>1. h = [mem |-> h.mem, disk |-> h.disk, entries |-> h.entries, unused |-> h.unused,
             saved |-> h.saved, ok |-> h.ok]
    BY <1>4, FsParts
  <2> DEFINE x == [h EXCEPT !.saved = f.unused]
             s == f.unused
  <2>2. x = [mem |-> h.mem, disk |-> h.disk, entries |-> h.entries, unused |-> h.unused,
             saved |-> s, ok |-> h.ok]
    <3>1. [h EXCEPT !.saved = s] =
             [mem |-> h.mem, disk |-> h.disk, entries |-> h.entries, unused |-> h.unused,
              saved |-> s, ok |-> h.ok]
      <4> HIDE DEF s
      <4> QED BY ONLY <2>1
    <3> QED BY <3>1
  <2>3. g = [x EXCEPT !.mem = M]
    BY <1>3
  <2> HIDE DEF x, M, g, s
  <2>4. [x EXCEPT !.mem = M] =
          [mem |-> M, disk |-> h.disk, entries |-> h.entries, unused |-> h.unused,
           saved |-> s, ok |-> h.ok]
    BY ONLY <2>2
  <2> QED BY <2>3, <2>4 DEF s
<1> HIDE DEF g
<1>6. /\ g \in FileSystem /\ g.mem = M /\ g.disk = h.disk /\ g.entries = h.entries
      /\ g.unused = h.unused /\ g.saved = f.unused
  <2>1. M \in [Node -> Inode \cup {Gone}]
    OBVIOUS
  <2>2. f.unused \in Nat
    BY FsParts DEF FsOK
  <2> HIDE DEF M
  <2> QED BY <1>4, <1>5, <2>1, <2>2, FsParts, FsMake
<1>7. ASSUME NEW n \in Node
      PROVE  /\ NodeOK(g.mem[n], g.disk[n], g.entries[n], 0, 0)
             /\ Claim(Din(g, n), g.entries[n]) = Claim(Din(h, n), h.entries[n])
             /\ Din(g, n).size = Din(h, n).size
  <2>1. NodeOK(h.mem[n], h.disk[n], h.entries[n], num[n], oth[n])
    BY <1>1 DEF FsOK
  <2>2. /\ h.mem[n] \in Inode \cup {Gone} /\ h.disk[n] \in DiskInode
        /\ Din(h, n) = View(h.mem[n], h.disk[n])
    BY <1>4, ViewType
  <2>3. /\ NodeOK(Gone, h.disk[n], h.entries[n], 0, 0)
        /\ Claim(h.disk[n], h.entries[n]) = Claim(View(h.mem[n], h.disk[n]), h.entries[n])
        /\ h.disk[n].size = View(h.mem[n], h.disk[n]).size
    BY <1>2, <2>1, <2>2, Dropped
  <2>4. g.mem[n] = Gone /\ Din(g, n) = h.disk[n]
    BY <1>6 DEF Din
  <2> QED BY <1>6, <2>2, <2>3, <2>4
<1>8. Claims(g) = Claims(h)
  BY <1>7 DEF Claims
<1>9. g.unused + Total(Claims(g)) = Capacity
  BY <1>1, <1>6, <1>8 DEF FsOK
<1>10. FsOK(g, Nothing, Nothing)
  BY <1>6, <1>7, <1>9 DEF FsOK, Nothing
<1>11. SameSizes(f, g, Node)
  BY <1>1, <1>7 DEF SameSizes
<1> QED BY <1>1, <1>6, <1>10, <1>11 DEF g

\* fs_init and user_main: the root gets its three references.
LEMMA BootedOK ==
  ASSUME NEW f, FsOK(f, Nothing, Nothing), f.saved = f.unused
  PROVE  /\ FsOK(Booted(f), Nothing, [Nothing EXCEPT ![Root] = 3])
         /\ SameSizes(f, Booted(f), Node)
<1> DEFINE O(k) == [Nothing EXCEPT ![Root] = k]
           f1 == Load(f, Root)
           f2 == RefInc(f1, Root)
           f3 == RefInc(f2, Root)
<1>1. Root \in Node
  BY DEF Node
<1>2. sfs_do_mount(f) = f
  <2>1. f = [mem |-> f.mem, disk |-> f.disk, entries |-> f.entries,
             unused |-> f.unused, saved |-> f.saved, ok |-> f.ok]
    BY FsParts DEF FsOK
  <2> DEFINE s == f.saved
  <2>2. s = f.unused
    OBVIOUS
  <2>3. [f EXCEPT !.unused = s] =
          [mem |-> f.mem, disk |-> f.disk, entries |-> f.entries,
           unused |-> s, saved |-> f.saved, ok |-> f.ok]
    <3> HIDE DEF s
    <3> QED BY ONLY <2>1
  <2> HIDE DEF s
  <2>4. [f EXCEPT !.unused = s] = f
    BY ONLY <2>1, <2>2, <2>3
  <2> QED BY <2>4 DEF sfs_do_mount, s
<1>3. Booted(f) = f3
  BY <1>2 DEF Booted
<1>4. \A k, l : /\ O(k)[Root] = k /\ [O(k) EXCEPT ![Root] = l] = O(l)
                /\ Nothing[Root] = 0
  BY <1>1 DEF Nothing
<1>5. FsOK(f1, Nothing, O(1)) /\ SameSizes(f, f1, Node)
  <2>1. FsOK(f1, Nothing, [Nothing EXCEPT ![Root] = Nothing[Root] + 1]) /\ SameSizes(f, f1, Node)
    BY <1>1, LoadOK
  <2>2. Nothing[Root] + 1 = 1
    BY <1>4
  <2> HIDE DEF f1
  <2> QED BY ONLY <2>1, <2>2
<1> HIDE DEF f1, O
<1>6. FsOK(f2, Nothing, O(2)) /\ SameSizes(f1, f2, Node)
  <2>1. f1.mem[Root] # Gone
    <3>1. O(1)[Root] # 0
      BY <1>4
    <3> QED BY <1>1, <1>5, <3>1, InMemory
  <2>2. FsOK(f2, Nothing, [O(1) EXCEPT ![Root] = O(1)[Root] + 1]) /\ SameSizes(f1, f2, Node)
    BY <1>1, <1>5, <2>1, RefIncOK
  <2>3. [O(1) EXCEPT ![Root] = O(1)[Root] + 1] = O(2)
    <3>1. O(1)[Root] + 1 = 2
      BY <1>4
    <3> QED BY <1>4, <3>1
  <2> QED BY <2>2, <2>3
<1> HIDE DEF f2
<1>7. FsOK(f3, Nothing, O(3)) /\ SameSizes(f2, f3, Node)
  <2>1. f2.mem[Root] # Gone
    <3>1. O(2)[Root] # 0
      BY <1>4
    <3> QED BY <1>1, <1>6, <3>1, InMemory
  <2>2. FsOK(f3, Nothing, [O(2) EXCEPT ![Root] = O(2)[Root] + 1]) /\ SameSizes(f2, f3, Node)
    BY <1>1, <1>6, <2>1, RefIncOK
  <2>3. [O(2) EXCEPT ![Root] = O(2)[Root] + 1] = O(3)
    <3>1. O(2)[Root] + 1 = 3
      BY <1>4
    <3> QED BY <1>4, <3>1
  <2> QED BY <2>2, <2>3
<1> HIDE DEF f3
<1>8. SameSizes(f, f3, Node)
  BY <1>5, <1>6, <1>7 DEF SameSizes
<1> QED BY <1>3, <1>7, <1>8 DEF O

\* Nothing adds up to 0.
LEMMA TotalNothing == Total(Nothing) = 0
<1>1. PICK it : FoldsAs(it, "sum", Nothing, 0, Node) /\ Total(Nothing) = it[Node]
  BY TotalIs
<1> DEFINE Z == {s \in SUBSET Node : it[s] = 0}
<1>2. {} \in Z
  BY <1>1, FoldSteps
<1>3. ASSUME NEW s \in SUBSET Node, NEW x \in s, x = Pick(s), s \ {x} \in Z PROVE s \in Z
  <2>1. it[s] = Applied("sum", Nothing[x], it[s \ {x}])
    BY <1>1, <1>3, FoldSteps
  <2>2. Nothing[x] = 0 /\ it[s \ {x}] = 0
    BY <1>3 DEF Nothing
  <2> QED BY <2>1, <2>2 DEF Applied
<1> HIDE DEF Z
<1>4. SUBSET Node \subseteq Z
  BY <1>2, <1>3, NodesFinite, SubsetInduction
<1>5. Node \in Z
  BY <1>4
<1> QED BY <1>1, <1>5 DEF Z

\* mksfs leaves a disk on which nothing is used but the root's inode.
LEMMA EmptyDiskOK == FsOK(EmptyDisk, Nothing, Nothing) /\ EmptyDisk.saved = EmptyDisk.unused
<1> DEFINE M == [n \in Node |-> Gone]
           D == [n \in Node |-> EmptyInode]
           E == [n \in Node |-> {}]
           f == EmptyDisk
<1>1. EmptyInode \in DiskInode /\ EmptyInode.blocks = 0 /\ EmptyInode.indirect = FALSE
  <2>1. 0 \in 0..MaxSize
    BY SfsAssumption
  <2> QED BY <2>1 DEF EmptyInode, DiskInode
<1>2. /\ M \in [Node -> Inode \cup {Gone}] /\ D \in [Node -> DiskInode] /\ E \in [Node -> Entries]
      /\ Capacity \in Nat
  BY <1>1, FilesAssumption DEF Entries
<1>3. f = [mem |-> M, disk |-> D, entries |-> E, unused |-> Capacity, saved |-> Capacity, ok |-> TRUE]
  BY DEF EmptyDisk
<1> DEFINE yes == TRUE
<1>4. yes \in BOOLEAN /\ f = [mem |-> M, disk |-> D, entries |-> E, unused |-> Capacity,
                              saved |-> Capacity, ok |-> yes]
  BY <1>3
<1> HIDE DEF M, D, E, f, yes
<1>5. /\ f \in FileSystem
      /\ f.mem = M /\ f.disk = D /\ f.entries = E /\ f.unused = Capacity /\ f.saved = Capacity
  BY <1>2, <1>4, FsMake
<1>6. ASSUME NEW n \in Node
      PROVE  NodeOK(f.mem[n], f.disk[n], f.entries[n], 0, 0) /\ Claim(Din(f, n), f.entries[n]) = 0
  <2>1. f.mem[n] = Gone /\ f.disk[n] = EmptyInode /\ f.entries[n] = {}
    BY <1>5 DEF M, D, E
  <2>2. NDIRECT..0 - 1 = {} /\ ~(0 > NDIRECT) /\ Least(0, NDIRECT) = 0
    BY SfsAssumption DEF Least
  <2>3. NodeOK(Gone, EmptyInode, {}, 0, 0)
    BY <1>1, <2>2 DEF NodeOK, View
  <2>4. Claim(EmptyInode, {}) = 0
    BY <1>1, <2>2, FS_EmptySet DEF Claim
  <2> QED BY <2>1, <2>3, <2>4 DEF Din
<1>7. Claims(f) = Nothing
  BY <1>6 DEF Claims, Nothing
<1>8. f.unused + Total(Claims(f)) = Capacity
  BY <1>2, <1>5, <1>7, TotalNothing
<1>9. FsOK(f, Nothing, Nothing)
  BY <1>5, <1>6, <1>8 DEF FsOK, Nothing
<1> QED BY <1>5, <1>9 DEF f

-----------------------------------------------------------------------------
(***************************************************************************)
(* The inductive invariant.                                                *)
(***************************************************************************)
\* The tables in memory.
Held(T) == {t \in Table : T[t] # None}

\* What refers to an inode and is not a descriptor, while the machine runs.
Others(T, l) ==
  [n \in Node |-> l[n] + IF n = Root THEN 2 + Cardinality(Held(T)) ELSE 0]

\* Living processes have tables of their own.
TablesOK(fp, T) ==
  /\ fp \in [Proc -> Table \cup {None}] /\ T \in Arrays
  /\ \A p \in Proc : fp[p] # None => T[fp[p]] # None
  /\ \A p, q \in Proc : fp[p] # None /\ fp[p] = fp[q] => p = q

Running(f, T, l) == f.mem[Root] # Gone /\ FsOK(f, Num(T), Others(T, l))

Stopped(f, T, l) ==
  /\ f.mem[Root] = Gone /\ FsOK(f, Nothing, Nothing) /\ f.saved = f.unused
  /\ Held(T) = {} /\ l = Nothing

\* The inductive invariant.
Consistent(f, fp, T, l) ==
  /\ TablesOK(fp, T) /\ l \in [Node -> Nat]
  /\ Running(f, T, l) \/ Stopped(f, T, l)

IInv == Consistent(fs, filesp, fds, lost)

\* The size of an inode changes only while a descriptor is open on it.
Safe(f, g, T) == \A n \in Node : Din(g, n).size # Din(f, n).size => Num(T)[n] # 0

\* How many tables there are.
LEMMA HeldFinite ==
  ASSUME NEW T
  PROVE  IsFiniteSet(Held(T)) /\ Cardinality(Held(T)) \in Nat
<1>1. Held(T) \subseteq Table
  BY DEF Held
<1> QED BY <1>1, FilesAssumption, FS_Subset, FS_CardinalityType

\* The other references are counted by numbers, and the root has some.
LEMMA OthersType ==
  ASSUME NEW T, NEW l \in [Node -> Nat]
  PROVE  /\ Others(T, l) \in [Node -> Nat] /\ Others(T, l)[Root] # 0
<1>1. Cardinality(Held(T)) \in Nat /\ Root \in Node
  BY HeldFinite DEF Node
<1>2. ASSUME NEW n \in Node
      PROVE  /\ l[n] + (IF n = Root THEN 2 + Cardinality(Held(T)) ELSE 0) \in Nat
             /\ n = Root => l[n] + (IF n = Root THEN 2 + Cardinality(Held(T)) ELSE 0) # 0
  <2>1. l[n] \in Nat
    OBVIOUS
  <2> QED BY ONLY <1>1, <2>1
<1> QED BY <1>1, <1>2 DEF Others

\* While the machine runs the root is in memory.
LEMMA RunningIs ==
  ASSUME NEW f, NEW T, NEW l \in [Node -> Nat], FsOK(f, Num(T), Others(T, l))
  PROVE  Running(f, T, l)
<1>1. Root \in Node
  BY DEF Node
<1> QED BY <1>1, OthersType, InMemory DEF Running

\* A machine with a living process is running.
LEMMA LiveRuns ==
  ASSUME NEW f, NEW fp, NEW T, NEW l, Consistent(f, fp, T, l), NEW p \in Proc, fp[p] # None
  PROVE  /\ FsOK(f, Num(T), Others(T, l)) /\ T \in Arrays /\ l \in [Node -> Nat]
         /\ fp[p] \in Table /\ T[fp[p]] \in Array /\ T[fp[p]] # None
         /\ TablesOK(fp, T)
<1>1. TablesOK(fp, T) /\ l \in [Node -> Nat]
  BY DEF Consistent
<1>2. fp[p] \in Table /\ T \in Arrays /\ T[fp[p]] # None
  BY <1>1 DEF TablesOK
<1>3. T[fp[p]] \in Array
  BY <1>2 DEF Arrays
<1>4. Held(T) # {}
  BY <1>2 DEF Held
<1>5. FsOK(f, Num(T), Others(T, l))
  BY <1>4 DEF Consistent, Running, Stopped
<1> QED BY <1>1, <1>2, <1>3, <1>5

\* Replacing the array of a table in memory changes neither who has which table, nor
\* what else refers to inodes.
LEMMA Replaced ==
  ASSUME NEW fp, NEW T, TablesOK(fp, T), NEW t \in Table, T[t] # None, NEW a \in Array, NEW l
  PROVE  TablesOK(fp, Place(T, t, a)) /\ Others(Place(T, t, a), l) = Others(T, l)
<1>1. T \in Arrays /\ a # None
  BY Nones DEF TablesOK
<1>2. /\ Place(T, t, a) \in Arrays /\ Place(T, t, a)[t] = a
      /\ \A s \in Table \ {t} : Place(T, t, a)[s] = T[s]
  BY <1>1, PlaceType
<1> DEFINE P == Place(T, t, a)
<1> HIDE DEF P
<1>3. \A s \in Table : P[s] # None <=> T[s] # None
  BY <1>1, <1>2 DEF P
<1>4. Held(P) = Held(T)
  BY <1>3 DEF Held
<1>5. TablesOK(fp, P)
  <2>1. P \in Arrays
    BY <1>2 DEF P
  <2>2. ASSUME NEW p \in Proc, fp[p] # None PROVE P[fp[p]] # None
    <3>1. fp[p] \in Table /\ T[fp[p]] # None
      BY <2>2 DEF TablesOK
    <3> QED BY <1>3, <3>1
  <2> QED BY <2>1, <2>2 DEF TablesOK
<1>6. Others(P, l) = Others(T, l)
  BY <1>4 DEF Others
<1> QED BY <1>5, <1>6 DEF P

\* The invariant of a machine that runs.
LEMMA Concluded ==
  ASSUME NEW g, NEW fp, NEW T, NEW l, TablesOK(fp, T), l \in [Node -> Nat],
         FsOK(g, Num(T), Others(T, l))
  PROVE  Consistent(g, fp, T, l)
BY RunningIs DEF Consistent

\* A call that changes no size is safe.
LEMMA SafeAll ==
  ASSUME NEW f, NEW g, NEW T, SameSizes(f, g, Node)
  PROVE  Safe(f, g, T)
BY DEF Safe, SameSizes

\* So is one that changes only the size of a file that is open after it.
LEMMA SafeBut ==
  ASSUME NEW f, NEW g, NEW T, NEW n, SameSizes(f, g, Node \ {n}), Num(T)[n] # 0
  PROVE  Safe(f, g, T)
BY DEF Safe, SameSizes

-----------------------------------------------------------------------------
(***************************************************************************)
(* What the invariant says of the properties.                              *)
(***************************************************************************)
\* The model counts the same descriptors.
LEMMA OpenOnIs ==
  ASSUME NEW n
  PROVE  OpenOn(n) = Users(fds, n)
<1>1. ASSUME NEW x \in OpenOn(n) PROVE x \in Users(fds, n)
  <2>1. PICK t \in Table \ FreeTables :
          x \in {<<t, fd>> : fd \in {e \in Opened(t) : fds[t][e].node = n}}
    BY DEF OpenOn
  <2>2. PICK fd \in FD : x = <<t, fd>> /\ fds[t][fd] # None /\ fds[t][fd].node = n
    BY <2>1 DEF Opened
  <2> QED BY <2>1, <2>2 DEF Users, FreeTables
<1>2. ASSUME NEW x \in Users(fds, n) PROVE x \in OpenOn(n)
  <2>1. PICK t \in Table, fd \in FD :
          x = <<t, fd>> /\ fds[t] # None /\ fds[t][fd] # None /\ fds[t][fd].node = n
    BY DEF Users
  <2>2. t \in Table \ FreeTables /\ fd \in Opened(t)
    BY <2>1 DEF FreeTables, Opened
  <2>3. x \in {<<t, e>> : e \in {e \in Opened(t) : fds[t][e].node = n}}
    BY <2>1, <2>2
  <2> QED BY <2>2, <2>3 DEF OpenOn
<1> QED BY <1>1, <1>2

\* The invariant says that the counts are exact,
LEMMA CountsImplied == IInv => CountsExact
<1> SUFFICES ASSUME IInv, NEW n \in Node
             PROVE  IF fs.mem[n] = Gone THEN Cardinality(OpenOn(n)) = 0 /\ OtherRefs(n) = 0
                    ELSE /\ fs.mem[n].open = Cardinality(OpenOn(n))
                         /\ fs.mem[n].ref = Cardinality(OpenOn(n)) + OtherRefs(n)
  BY DEF CountsExact
<1>1. Table \ FreeTables = Held(fds) /\ OpenOn(n) = Users(fds, n)
  BY OpenOnIs DEF Held, FreeTables
<1>2. lost \in [Node -> Nat]
  BY DEF IInv, Consistent
<1>3. CASE Running(fs, fds, lost)
  <2>1. On /\ FsOK(fs, Num(fds), Others(fds, lost))
    BY <1>3 DEF Running, On
  <2>2. Others(fds, lost)[n] = OtherRefs(n)
    BY <1>1, <2>1 DEF Others, OtherRefs
  <2>3. Num(fds)[n] = Cardinality(OpenOn(n))
    BY <1>1 DEF Num
  <2>4. NodeOK(fs.mem[n], fs.disk[n], fs.entries[n], Num(fds)[n], Others(fds, lost)[n])
    BY <2>1 DEF FsOK
  <2> QED BY <2>2, <2>3, <2>4 DEF NodeOK
<1>4. CASE Stopped(fs, fds, lost)
  <2>1. ~On /\ FsOK(fs, Nothing, Nothing) /\ Held(fds) = {} /\ lost = Nothing
    BY <1>4 DEF Stopped, On
  <2>2. OtherRefs(n) = 0
    BY <2>1 DEF OtherRefs, Nothing
  <2>3. Cardinality(OpenOn(n)) = 0
    <3>1. Users(fds, n) = {}
      BY <2>1 DEF Users, Held
    <3> QED BY <1>1, <3>1, FS_EmptySet
  <2>4. fs.mem[n] = Gone
    <3> SUFFICES ASSUME fs.mem[n] # Gone PROVE FALSE
      OBVIOUS
    <3>1. Nothing[n] + Nothing[n] # 0
      BY <2>1, Referred
    <3> QED BY <3>1 DEF Nothing
  <2> QED BY <2>2, <2>3, <2>4
<1> QED BY <1>3, <1>4 DEF IInv, Consistent

\* and that all blocks are accounted for,
LEMMA SpaceImplied == IInv => SpaceExact
<1> SUFFICES ASSUME IInv PROVE SpaceExact
  OBVIOUS
<1>1. fs \in FileSystem /\ fs.unused + Total(Claims(fs)) = Capacity
  BY DEF IInv, Consistent, Running, Stopped, FsOK
<1>2. Claims(fs) \in [Node -> Nat]
  BY <1>1, ClaimsType
<1>3. \A n \in Node : Claims(fs)[n] = Claimed(n)
  BY DEF Claims, Claimed, Claim
<1>4. MapThenSumSet(Claimed, Node) = Total(Claims(fs))
  BY <1>2, <1>3, TotalClaimed
<1> QED BY <1>1, <1>4 DEF SpaceExact

\* The size of a file changes only while somebody has it open.
Quiet == \A n \in Node :
           Din(fs, n)'.size # Din(fs, n).size => fs'.mem[n] # Gone /\ fs'.mem[n].open > 0

\* and, of a step, that a file whose size changed is open.
LEMMA SafeImplied ==
  ASSUME IInv', Safe(fs, fs', fds')
  PROVE  Quiet
<1>1. Consistent(fs', filesp', fds', lost')
  BY DEF IInv
<1> SUFFICES ASSUME NEW n \in Node, Din(fs', n).size # Din(fs, n).size
             PROVE  fs'.mem[n] # Gone /\ fs'.mem[n].open > 0
  BY DEF Quiet, Din
<1>2. Num(fds')[n] # 0 /\ Num(fds')[n] \in Nat
  BY NumType DEF Safe
<1>3. CASE Running(fs', fds', lost')
  <2>1. NodeOK(fs'.mem[n], fs'.disk[n], fs'.entries[n], Num(fds')[n], Others(fds', lost')[n])
    BY <1>3 DEF Running, FsOK
  <2> QED BY <1>2, <2>1 DEF NodeOK
<1>4. CASE Stopped(fs', fds', lost')
  <2>1. Users(fds', n) = {}
    BY <1>4 DEF Stopped, Users, Held
  <2>2. Num(fds')[n] = 0
    BY <2>1, FS_EmptySet DEF Num
  <2> QED BY <1>2, <2>2
<1> QED BY <1>1, <1>3, <1>4 DEF Consistent

-----------------------------------------------------------------------------
(***************************************************************************)
(* The calls.                                                              *)
(***************************************************************************)
\* What every call leaves: the invariant, and the sizes of the files that are closed.
Fine == Consistent(fs', filesp', fds', lost') /\ Safe(fs, fs', fds')

\* A living process that has fd open.
LEMMA UsesIs ==
  ASSUME IInv, NEW p \in Proc, NEW fd \in FD, Uses(p, fd)
  PROVE  /\ FsOK(fs, Num(fds), Others(fds, lost)) /\ fds \in Arrays /\ lost \in [Node -> Nat]
         /\ filesp[p] \in Table /\ fds[filesp[p]] \in Array /\ fds[filesp[p]] # None
         /\ TablesOK(filesp, fds)
         /\ FileOf(p, fd) = fds[filesp[p]][fd] /\ FileOf(p, fd) # None
         /\ FileOf(p, fd) \in OpenFile /\ FileOf(p, fd).node \in Node
         /\ Num(fds)[FileOf(p, fd).node] # 0 /\ fs.mem[FileOf(p, fd).node] # Gone
<1>1. filesp[p] # None /\ fds[filesp[p]][fd] # None /\ Consistent(fs, filesp, fds, lost)
  BY DEF Uses, Live, Opened, IInv
<1>2. /\ FsOK(fs, Num(fds), Others(fds, lost)) /\ fds \in Arrays /\ lost \in [Node -> Nat]
      /\ filesp[p] \in Table /\ fds[filesp[p]] \in Array /\ fds[filesp[p]] # None
      /\ TablesOK(filesp, fds)
  BY <1>1, LiveRuns
<1>3. FileOf(p, fd) = fds[filesp[p]][fd] /\ FileOf(p, fd) \in OpenFile
  BY <1>1, <1>2 DEF FileOf, Array
<1>4. FileOf(p, fd).node \in Node
  BY <1>3, Nones
<1>5. Num(fds)[fds[filesp[p]][fd].node] # 0
  BY <1>1, <1>2, ClosedOne
<1>6. fs.mem[FileOf(p, fd).node] # Gone
  BY <1>2, <1>3, <1>4, <1>5, InMemory
<1> QED BY <1>1, <1>2, <1>3, <1>4, <1>5, <1>6

\* Entering a file in the table of a process.
LEMMA SetFileIs ==
  ASSUME NEW p, NEW fd, NEW file, SetFile(p, fd, file)
  PROVE  fds' = Place(fds, filesp[p], Slot(fds[filesp[p]], fd, file))
BY DEF SetFile, Place, Slot

\* The invariant after a call that gives one table another array.
LEMMA Changed ==
  ASSUME NEW g, NEW fp, NEW T, NEW l \in [Node -> Nat], TablesOK(fp, T),
         NEW t \in Table, T[t] # None, NEW a \in Array,
         FsOK(g, Num(Place(T, t, a)), Others(T, l))
  PROVE  Consistent(g, fp, Place(T, t, a), l)
<1>1. TablesOK(fp, Place(T, t, a)) /\ Others(Place(T, t, a), l) = Others(T, l)
  BY Replaced
<1> DEFINE P == Place(T, t, a)
<1>2. FsOK(g, Num(P), Others(P, l)) /\ TablesOK(fp, P)
  BY <1>1
<1> HIDE DEF P
<1>3. Consistent(g, fp, P, l)
  BY <1>2, Concluded
<1> QED BY <1>3 DEF P

\* file_close: the descriptor and its reference go together.
LEMMA CloseFine ==
  ASSUME IInv, NEW p \in Proc, NEW fd \in FD, file_close(p, fd)
  PROVE  Fine
<1> DEFINE t == filesp[p]
           n == FileOf(p, fd).node
           a == Slot(fds[t], fd, None)
           num1 == [Num(fds) EXCEPT ![n] = Num(fds)[n] - 1]
<1>1. /\ Uses(p, fd) /\ fs' = vfs_close(fs, n) /\ SetFile(p, fd, None)
      /\ filesp' = filesp /\ lost' = lost
  BY DEF file_close
<1>2. /\ FsOK(fs, Num(fds), Others(fds, lost)) /\ fds \in Arrays /\ lost \in [Node -> Nat]
      /\ t \in Table /\ fds[t] \in Array /\ fds[t] # None
      /\ TablesOK(filesp, fds)
      /\ FileOf(p, fd) = fds[t][fd] /\ FileOf(p, fd) # None
      /\ n \in Node /\ Num(fds)[n] # 0
  BY <1>1, UsesIs
<1>3. fds' = Place(fds, t, a)
  BY <1>1, SetFileIs
<1>4. a \in Array
  BY <1>2, SlotType
<1>5. Num(Place(fds, t, a)) = num1
  BY <1>2, ClosedOne
<1> HIDE DEF a, n, t
<1>6. FsOK(vfs_close(fs, n), num1, Others(fds, lost)) /\ SameSizes(fs, vfs_close(fs, n), Node)
  BY <1>2, CloseOK
<1>7. Consistent(fs', filesp, Place(fds, t, a), lost)
  <2>1. FsOK(fs', Num(Place(fds, t, a)), Others(fds, lost))
    BY <1>1, <1>5, <1>6
  <2> QED BY <1>2, <1>4, <2>1, Changed
<1>8. Safe(fs, fs', fds')
  BY <1>1, <1>6, SafeAll
<1> QED BY <1>1, <1>3, <1>7, <1>8 DEF Fine

\* file_fsync.
LEMMA FsyncFine ==
  ASSUME IInv, NEW p \in Proc, NEW fd \in FD, file_fsync(p, fd)
  PROVE  Fine
<1> DEFINE n == FileOf(p, fd).node
<1>1. Uses(p, fd) /\ fs' = Fsync(fs, n) /\ filesp' = filesp /\ fds' = fds /\ lost' = lost
  BY DEF file_fsync
<1>2. /\ FsOK(fs, Num(fds), Others(fds, lost)) /\ lost \in [Node -> Nat]
      /\ TablesOK(filesp, fds) /\ n \in Node /\ fs.mem[n] # Gone
  BY <1>1, UsesIs
<1> HIDE DEF n
<1>3. FsOK(Fsync(fs, n), Num(fds), Others(fds, lost)) /\ SameSizes(fs, Fsync(fs, n), Node)
  BY <1>2, FsyncOK
<1>4. Consistent(fs', filesp, fds, lost)
  BY <1>1, <1>2, <1>3, Concluded
<1>5. Safe(fs, fs', fds')
  BY <1>1, <1>3, SafeAll
<1> QED BY <1>1, <1>4, <1>5 DEF Fine

\* file_dup: the descriptor and its reference come together.
LEMMA DupFine ==
  ASSUME IInv, NEW p \in Proc, NEW fd1 \in FD, NEW fd2 \in FD, file_dup(p, fd1, fd2)
  PROVE  Fine
<1> DEFINE t == filesp[p]
           file == FileOf(p, fd1)
           n == file.node
           a == Slot(fds[t], fd2, file)
           num1 == [Num(fds) EXCEPT ![n] = Num(fds)[n] + 1]
<1>1. /\ Uses(p, fd1) /\ fd2 \notin Opened(t) /\ fs' = Shared(fs, n) /\ SetFile(p, fd2, file)
      /\ filesp' = filesp /\ lost' = lost
  BY DEF file_dup
<1>2. /\ FsOK(fs, Num(fds), Others(fds, lost)) /\ fds \in Arrays /\ lost \in [Node -> Nat]
      /\ t \in Table /\ fds[t] \in Array /\ fds[t] # None
      /\ TablesOK(filesp, fds)
      /\ file \in OpenFile /\ n \in Node /\ fs.mem[n] # Gone
  BY <1>1, UsesIs
<1>3. fds' = Place(fds, t, a)
  BY <1>1, SetFileIs
<1>4. a \in Array
  BY <1>2, SlotType
<1>5. Num(Place(fds, t, a)) = num1
  <2>1. fds[t][fd2] = None
    BY <1>1 DEF Opened
  <2> HIDE DEF file, t
  <2> QED BY <1>2, <2>1, OpenedOne
<1> HIDE DEF a, n, t, file
<1>6. FsOK(Shared(fs, n), num1, Others(fds, lost)) /\ SameSizes(fs, Shared(fs, n), Node)
  BY <1>2, SharedOK
<1>7. Consistent(fs', filesp, Place(fds, t, a), lost)
  <2>1. FsOK(fs', Num(Place(fds, t, a)), Others(fds, lost))
    BY <1>1, <1>5, <1>6
  <2> QED BY <1>2, <1>4, <2>1, Changed
<1>8. Safe(fs, fs', fds')
  BY <1>1, <1>6, SafeAll
<1> QED BY <1>1, <1>3, <1>7, <1>8 DEF Fine

\* A call that moves a descriptor and may change its file.
LEMMA MovedFine ==
  ASSUME IInv, NEW p \in Proc, NEW fd \in FD, Uses(p, fd), NEW file \in OpenFile,
         file.node = FileOf(p, fd).node,
         Touched(fs, fs', Num(fds), Others(fds, lost), file.node),
         SetFile(p, fd, file), filesp' = filesp, lost' = lost
  PROVE  Fine
<1> DEFINE t == filesp[p]
           n == file.node
           a == Slot(fds[t], fd, file)
<1>1. /\ fds \in Arrays /\ lost \in [Node -> Nat]
      /\ t \in Table /\ fds[t] \in Array /\ fds[t] # None
      /\ TablesOK(filesp, fds)
      /\ FileOf(p, fd) = fds[t][fd] /\ FileOf(p, fd) # None
      /\ Num(fds)[n] # 0
  BY UsesIs
<1>2. fds' = Place(fds, t, a)
  BY SetFileIs
<1>3. a \in Array
  BY <1>1, SlotType
<1>4. Num(Place(fds, t, a)) = Num(fds)
  BY <1>1, MovedOne
<1> HIDE DEF a, n, t
<1>5. FsOK(fs', Num(fds), Others(fds, lost)) /\ SameSizes(fs, fs', Node \ {n})
  BY DEF Touched, n
<1>6. Consistent(fs', filesp, Place(fds, t, a), lost)
  BY <1>1, <1>3, <1>4, <1>5, Changed
<1>7. Safe(fs, fs', fds')
  BY <1>1, <1>2, <1>4, <1>5, SafeBut
<1> QED BY <1>2, <1>6, <1>7 DEF Fine

\* A file whose position is another one.
Sought(file, pos) == [file EXCEPT !.pos = pos]

\* It is a file of the same inode.
LEMMA SoughtType ==
  ASSUME NEW file \in OpenFile, NEW pos \in Nat
  PROVE  Sought(file, pos) \in OpenFile /\ Sought(file, pos).node = file.node
BY DEF Sought, OpenFile

\* Where a read or a write ends.
LEMMA EndsOK ==
  ASSUME NEW pos \in Nat, NEW len \in 1..MaxLen, NEW f, NEW n, f.mem[n].din.size \in 0..MaxSize
  PROVE  /\ WriteEnd(pos, len) \in Nat /\ WriteEnd(pos, len) <= MaxSize
         /\ ReadEnd(f, n, pos, len) \in Nat
         /\ pos < ReadEnd(f, n, pos, len) => ReadEnd(f, n, pos, len) <= MaxSize
<1> DEFINE size == f.mem[n].din.size
<1>1. size \in Nat /\ size <= MaxSize /\ MaxSize \in Nat /\ pos + len \in Nat
  BY SfsAssumption, FilesAssumption
<1> HIDE DEF size
<1>2. WriteEnd(pos, len) \in Nat /\ WriteEnd(pos, len) <= MaxSize
  BY <1>1 DEF WriteEnd, Least
<1>3. /\ ReadEnd(f, n, pos, len) = Greatest(pos, Least(pos + len, size))
  BY DEF ReadEnd, size
<1>4. Least(pos + len, size) \in Nat /\ Least(pos + len, size) <= MaxSize
  BY <1>1 DEF Least
<1>5. /\ Greatest(pos, Least(pos + len, size)) \in Nat
      /\ pos < Greatest(pos, Least(pos + len, size)) => Greatest(pos, Least(pos + len, size)) <= MaxSize
  BY <1>4 DEF Greatest
<1> QED BY <1>2, <1>3, <1>5

\* A read or a write between pos and end.
LEMMA IoFine ==
  ASSUME IInv, NEW p \in Proc, NEW fd \in FD, Uses(p, fd), NEW end \in Nat, end <= MaxSize,
         FileOf(p, fd).pos < end,
         fs' = Io(fs, FileOf(p, fd).node, FileOf(p, fd).pos, end),
         SetFile(p, fd, Sought(FileOf(p, fd),
                   Reached(fs, FileOf(p, fd).node, FileOf(p, fd).pos, end))),
         filesp' = filesp, lost' = lost
  PROVE  Fine
<1> DEFINE file == FileOf(p, fd)
           n == file.node
           pos == file.pos
           to == Reached(fs, n, pos, end)
<1>1. /\ FsOK(fs, Num(fds), Others(fds, lost))
      /\ file \in OpenFile /\ n \in Node /\ fs.mem[n] # Gone
  BY UsesIs
<1>2. pos \in Nat /\ pos < end
  BY <1>1 DEF OpenFile
<1>3. Touched(fs, fs', Num(fds), Others(fds, lost), n) /\ to \in Nat
  <2>1. fs' = Io(fs, n, pos, end)
    OBVIOUS
  <2> HIDE DEF n, pos
  <2> QED BY <1>1, <1>2, <2>1, IoOK
<1>4. SetFile(p, fd, Sought(file, to))
  OBVIOUS
<1> HIDE DEF to
<1>5. Sought(file, to) \in OpenFile /\ Sought(file, to).node = n
  BY <1>1, <1>3, SoughtType
<1> HIDE DEF n
<1> QED BY <1>3, <1>4, <1>5, MovedFine DEF n

\* file_read, which may take blocks for a part of the file that has none.
LEMMA ReadFine ==
  ASSUME IInv, NEW p \in Proc, NEW fd \in FD, NEW len \in 1..MaxLen, file_read(p, fd, len)
  PROVE  Fine
<1> DEFINE file == FileOf(p, fd)
           n == file.node
           pos == file.pos
           end == ReadEnd(fs, n, pos, len)
<1>1. /\ Uses(p, fd) /\ pos < end /\ fs' = Io(fs, n, pos, end)
      /\ SetFile(p, fd, Sought(file, Reached(fs, n, pos, end)))
      /\ filesp' = filesp /\ lost' = lost
  BY DEF file_read, OnFile, Sought
<1>2. /\ FsOK(fs, Num(fds), Others(fds, lost))
      /\ file \in OpenFile /\ n \in Node /\ fs.mem[n] # Gone
  BY <1>1, UsesIs
<1>3. pos \in Nat
  BY <1>2 DEF OpenFile
<1>4. fs.mem[n].din.size \in 0..MaxSize
  BY <1>2, DinParts
<1>5. end \in Nat /\ end <= MaxSize
  <2> HIDE DEF n, pos
  <2> QED BY <1>1, <1>3, <1>4, EndsOK
<1> HIDE DEF end
<1> QED BY <1>1, <1>5, IoFine

\* file_write, also when the disk runs full in the middle of it.
LEMMA WriteFine ==
  ASSUME IInv, NEW p \in Proc, NEW fd \in FD, NEW len \in 1..MaxLen, file_write(p, fd, len)
  PROVE  Fine
<1> DEFINE file == FileOf(p, fd)
           n == file.node
           pos == file.pos
           end == WriteEnd(pos, len)
<1>1. /\ Uses(p, fd) /\ pos < end /\ fs' = Io(fs, n, pos, end)
      /\ SetFile(p, fd, Sought(file, Reached(fs, n, pos, end)))
      /\ filesp' = filesp /\ lost' = lost
  BY DEF file_write, OnFile, Sought
<1>2. /\ FsOK(fs, Num(fds), Others(fds, lost))
      /\ file \in OpenFile /\ n \in Node /\ fs.mem[n] # Gone
  BY <1>1, UsesIs
<1>3. pos \in Nat
  BY <1>2 DEF OpenFile
<1>4. fs.mem[n].din.size \in 0..MaxSize
  BY <1>2, DinParts
<1>5. end \in Nat /\ end <= MaxSize
  <2> HIDE DEF n, pos
  <2> QED BY <1>1, <1>3, <1>4, EndsOK
<1> HIDE DEF end
<1> QED BY <1>1, <1>5, IoFine

\* file_seek, which may enlarge the file.
LEMMA SeekFine ==
  ASSUME IInv, NEW p \in Proc, NEW fd \in FD, NEW pos \in Seeks, file_seek(p, fd, pos)
  PROVE  Fine
<1> DEFINE file == FileOf(p, fd)
           n == file.node
           new == IF pos > fs'.mem[n].din.size THEN file ELSE Sought(file, pos)
<1>1. /\ Uses(p, fd)
      /\ fs' = IF pos > fs.mem[n].din.size THEN Truncate(fs, n, pos) ELSE fs
      /\ SetFile(p, fd, new) /\ filesp' = filesp /\ lost' = lost
  BY DEF file_seek, OnFile, Sought
<1>2. /\ FsOK(fs, Num(fds), Others(fds, lost))
      /\ file \in OpenFile /\ n \in Node /\ fs.mem[n] # Gone
  BY <1>1, UsesIs
<1>3. pos \in Nat /\ pos \in 0..MaxSize
  <2>1. pos \in 0..MaxSize - 1 /\ MaxSize \in Nat
    BY FilesAssumption, SfsAssumption
  <2> QED BY ONLY <2>1
<1>4. new \in OpenFile /\ new.node = n
  BY <1>2, <1>3, SoughtType
<1> HIDE DEF n, new
<1>5. Touched(fs, fs', Num(fds), Others(fds, lost), n)
  <2>1. Touched(fs, Truncate(fs, n, pos), Num(fds), Others(fds, lost), n)
    BY <1>2, <1>3, TruncateOK
  <2>2. Touched(fs, fs, Num(fds), Others(fds, lost), n)
    BY <1>2 DEF Touched, SameSizes
  <2> QED BY <1>1, <2>1, <2>2
<1>6. new.node = FileOf(p, fd).node /\ Touched(fs, fs', Num(fds), Others(fds, lost), new.node)
  BY <1>4, <1>5 DEF n
<1> QED BY <1>1, <1>4, <1>6, MovedFine

\* There is a first free descriptor, if any is free.
LEMMA FirstFreeIs ==
  ASSUME NEW t, Opened(t) # FD
  PROVE  FirstFree(t) \in FD /\ fds[t][FirstFree(t)] = None
<1> DEFINE S == FD \ Opened(t)
<1>1. S \in SUBSET Nat /\ S # {}
  <2>1. FD \subseteq Nat
    BY FilesAssumption DEF FD
  <2>2. Opened(t) \subseteq FD
    BY DEF Opened
  <2> QED BY <2>1, <2>2
<1>2. FirstFree(t) = CHOOSE fd \in S : \A e \in S : fd <= e
  BY DEF FirstFree
<1> HIDE DEF S
<1>3. \E fd \in S : \A e \in S : fd <= e
  BY <1>1, LeastNumber
<1>4. FirstFree(t) \in S
  BY <1>2, <1>3
<1> QED BY <1>4 DEF S, Opened

\* An inode that is loaded and opened.
LEMMA LoadOpenOK ==
  ASSUME NEW f, NEW num, NEW oth, FsOK(f, num, oth), NEW n \in Node
  PROVE  /\ FsOK(OpenInc(Load(f, n), n), [num EXCEPT ![n] = num[n] + 1], oth)
         /\ SameSizes(f, OpenInc(Load(f, n), n), Node)
<1> DEFINE g == Load(f, n)
           h == OpenInc(g, n)
           oth1 == [oth EXCEPT ![n] = oth[n] + 1]
<1>1. oth \in [Node -> Nat]
  BY DEF FsOK
<1>2. FsOK(g, num, oth1) /\ SameSizes(f, g, Node)
  BY LoadOK
<1>3. oth1[n] # 0 /\ [oth1 EXCEPT ![n] = oth1[n] - 1] = oth
  <2>1. oth[n] \in Nat /\ oth1[n] = oth[n] + 1
    BY <1>1
  <2>2. oth1[n] # 0 /\ oth1[n] - 1 = oth[n]
    BY ONLY <2>1
  <2>3. [oth1 EXCEPT ![n] = oth[n]] = oth
    BY <1>1
  <2> HIDE DEF oth1
  <2> QED BY <2>2, <2>3
<1> HIDE DEF g, oth1
<1>4. g.mem[n] # Gone
  BY <1>2, <1>3, InMemory
<1>5. FsOK(h, [num EXCEPT ![n] = num[n] + 1], [oth1 EXCEPT ![n] = oth1[n] - 1]) /\ SameSizes(g, h, Node)
  BY <1>2, <1>3, <1>4, OpenIncOK
<1>6. FsOK(h, [num EXCEPT ![n] = num[n] + 1], oth)
  BY <1>3, <1>5
<1>7. SameSizes(f, h, Node)
  BY <1>2, <1>5 DEF SameSizes
<1> QED BY <1>6, <1>7 DEF h, g

\* What file_open enters in the table.
NewFile(n, pos, r, w) == [node |-> n, pos |-> pos, readable |-> r, writable |-> w]

\* It is a file of that inode.
LEMMA NewFileType ==
  ASSUME NEW n \in Node, NEW pos \in Nat, NEW r \in BOOLEAN, NEW w \in BOOLEAN
  PROVE  NewFile(n, pos, r, w) \in OpenFile /\ NewFile(n, pos, r, w).node = n
BY DEF NewFile, OpenFile

\* file_open of a file, with or without emptying it.
LEMMA OpenFine ==
  ASSUME IInv, NEW p \in Proc, NEW n \in Node, NEW fl, Open(p, n, fl)
  PROVE  Fine
<1> DEFINE t == filesp[p]
           fd == FirstFree(t)
           r == "O_WRONLY" \notin fl
           w == Writes(fl)
           pos == IF "O_APPEND" \in fl THEN fs'.mem[n].din.size ELSE 0
           file == NewFile(n, pos, r, w)
           a == Slot(fds[t], fd, file)
           num1 == [Num(fds) EXCEPT ![n] = Num(fds)[n] + 1]
           oth == Others(fds, lost)
           f == OpenInc(Load(fs, n), n)
<1>1. /\ filesp[p] # None /\ Opened(t) # FD
      /\ fs' = IF fl \cap {"O_TRUNC", "O_CREAT"} # {} THEN Truncate(f, n, 0) ELSE f
      /\ SetFile(p, fd, file) /\ filesp' = filesp /\ lost' = lost
  BY DEF Open, CanOpen, AfterOpen, NewFile, Live
<1>2. /\ FsOK(fs, Num(fds), oth) /\ fds \in Arrays /\ lost \in [Node -> Nat]
      /\ t \in Table /\ fds[t] \in Array /\ fds[t] # None
      /\ TablesOK(filesp, fds)
  BY <1>1, LiveRuns DEF IInv
<1>3. fd \in FD /\ fds[t][fd] = None
  BY <1>1, FirstFreeIs
<1> HIDE DEF oth
<1>4. FsOK(f, num1, oth) /\ SameSizes(fs, f, Node)
  BY <1>2, LoadOpenOK
<1>5. num1 \in [Node -> Nat] /\ num1[n] # 0
  <2>1. Num(fds) \in [Node -> Nat]
    BY NumType
  <2>2. Num(fds)[n] + 1 \in Nat /\ Num(fds)[n] + 1 # 0
    BY <2>1
  <2> QED BY <2>1, <2>2
<1> HIDE DEF f, num1
<1>6. f.mem[n] # Gone
  BY <1>4, <1>5, InMemory
<1>7. Touched(f, fs', num1, oth, n)
  <2>1. 0 \in 0..MaxSize
    BY SfsAssumption
  <2>2. Touched(f, Truncate(f, n, 0), num1, oth, n)
    BY <1>4, <1>6, <2>1, TruncateOK
  <2>3. Touched(f, f, num1, oth, n)
    BY <1>4 DEF Touched, SameSizes
  <2> QED BY <1>1, <2>2, <2>3
<1>8. FsOK(fs', num1, oth) /\ SameSizes(fs, fs', Node \ {n})
  BY <1>4, <1>7 DEF Touched, SameSizes
<1>9. pos \in Nat
  <2>1. fs'.mem[n] # Gone
    BY <1>5, <1>8, InMemory
  <2>2. fs'.mem[n].din.size \in 0..MaxSize
    BY <1>8, <2>1, DinParts
  <2>3. fs'.mem[n].din.size \in Nat
    BY ONLY <2>2, SfsAssumption
  <2> QED BY <2>3
<1>10. file \in OpenFile /\ file.node = n
  <2>1. r \in BOOLEAN /\ w \in BOOLEAN
    BY DEF Writes
  <2> HIDE DEF pos, r, w
  <2> QED BY <1>9, <2>1, NewFileType
<1> HIDE DEF file
<1>11. fds' = Place(fds, t, a)
  BY <1>1, SetFileIs
<1> HIDE DEF fd, t
<1>12. a \in Array
  BY <1>2, <1>3, <1>10, SlotType
<1>13. Num(Place(fds, t, a)) = num1
  <2>1. Num(Place(fds, t, a)) = [Num(fds) EXCEPT ![file.node] = Num(fds)[file.node] + 1]
    BY <1>2, <1>3, <1>10, OpenedOne
  <2> QED BY <1>10, <2>1 DEF num1
<1> HIDE DEF a
<1>14. Consistent(fs', filesp, Place(fds, t, a), lost)
  <2>1. FsOK(fs', Num(Place(fds, t, a)), Others(fds, lost))
    BY <1>8, <1>13 DEF oth
  <2> QED BY <1>2, <1>12, <2>1, Changed
<1>15. Safe(fs, fs', fds')
  BY <1>5, <1>8, <1>11, <1>13, SafeBut
<1> QED BY <1>1, <1>11, <1>14, <1>15 DEF Fine

\* One more reference to n.
OneMore(l, n) == [l EXCEPT ![n] = l[n] + 1]

\* A reference that was lost is one of the others.
LEMMA OneLost ==
  ASSUME NEW T, NEW l \in [Node -> Nat], NEW n \in Node
  PROVE  /\ OneMore(l, n) \in [Node -> Nat]
         /\ Others(T, OneMore(l, n)) = OneMore(Others(T, l), n)
<1> DEFINE l1 == OneMore(l, n)
           c == Cardinality(Held(T))
<1>1. c \in Nat /\ l[n] \in Nat /\ l1 \in [Node -> Nat] /\ l1[n] = l[n] + 1
      /\ \A x \in Node \ {n} : l1[x] = l[x]
  BY HeldFinite DEF OneMore
<1> HIDE DEF l1, c
<1>2. \A x \in Node : Others(T, l)[x] = l[x] + IF x = Root THEN 2 + c ELSE 0
  BY DEF Others, c
<1>3. \A x \in Node : Others(T, l1)[x] = l1[x] + IF x = Root THEN 2 + c ELSE 0
  BY DEF Others, c
<1>4. Others(T, l1)[n] = Others(T, l)[n] + 1
  <2>1. (l[n] + 1) + (IF n = Root THEN 2 + c ELSE 0) = (l[n] + IF n = Root THEN 2 + c ELSE 0) + 1
    BY <1>1
  <2> QED BY <1>1, <1>2, <1>3, <2>1
<1>5. \A x \in Node \ {n} : Others(T, l1)[x] = Others(T, l)[x]
  BY <1>1, <1>2, <1>3
<1>6. DOMAIN Others(T, l) = Node /\ DOMAIN Others(T, l1) = Node
      /\ Others(T, l) = [x \in Node |-> Others(T, l)[x]]
      /\ Others(T, l1) = [x \in Node |-> Others(T, l1)[x]]
  BY DEF Others
<1>7. Others(T, l1) = OneMore(Others(T, l), n)
  BY <1>4, <1>5, <1>6 DEF OneMore
<1> QED BY <1>1, <1>7 DEF l1

\* file_open with O_CREAT and O_EXCL: the reference of vfs_lookup is lost.
LEMMA OpenExclFine ==
  ASSUME IInv, NEW p \in Proc, NEW n \in Node, NEW fl, OpenExcl(p, n, fl)
  PROVE  Fine
<1> DEFINE l == OneMore(lost, n)
           oth1 == OneMore(Others(fds, lost), n)
<1>1. filesp[p] # None /\ fs' = Load(fs, n) /\ lost' = l /\ filesp' = filesp /\ fds' = fds
  BY DEF OpenExcl, CanOpen, Live, OneMore
<1>2. FsOK(fs, Num(fds), Others(fds, lost)) /\ lost \in [Node -> Nat] /\ TablesOK(filesp, fds)
  BY <1>1, LiveRuns DEF IInv
<1>3. l \in [Node -> Nat] /\ Others(fds, l) = oth1
  BY <1>2, OneLost
<1>4. FsOK(Load(fs, n), Num(fds), oth1) /\ SameSizes(fs, Load(fs, n), Node)
  BY <1>2, LoadOK DEF OneMore
<1> HIDE DEF l, oth1
<1>5. Consistent(fs', filesp, fds, l)
  <2>1. FsOK(fs', Num(fds), Others(fds, l))
    BY <1>1, <1>3, <1>4
  <2> QED BY <1>2, <1>3, <2>1, Concluded
<1>6. Safe(fs, fs', fds')
  BY <1>1, <1>4, SafeAll
<1> QED BY <1>1, <1>5, <1>6 DEF Fine

\* A table more in memory: its working directory refers to the root.
LEMMA TableAdded ==
  ASSUME NEW T \in Arrays, NEW t \in Table, T[t] = None, NEW a \in Array, NEW l \in [Node -> Nat]
  PROVE  Others(Place(T, t, a), l) = OneMore(Others(T, l), Root)
<1> DEFINE P == Place(T, t, a)
           c == Cardinality(Held(T))
<1>1. P[t] = a /\ a # None /\ \A s \in Table \ {t} : P[s] = T[s]
  BY PlaceType, Nones
<1> HIDE DEF P
<1>2. Held(P) = Held(T) \cup {t} /\ t \notin Held(T)
  BY <1>1 DEF Held
<1>3. Cardinality(Held(P)) = c + 1 /\ c \in Nat
  <2>1. IsFiniteSet(Held(T)) /\ Cardinality(Held(T)) \in Nat
    BY HeldFinite
  <2> QED BY <1>2, <2>1, FS_AddElement
<1> HIDE DEF c
<1>4. \A x \in Node : Others(T, l)[x] = l[x] + IF x = Root THEN 2 + c ELSE 0
  BY DEF Others, c
<1>5. \A x \in Node : Others(P, l)[x] = l[x] + IF x = Root THEN 2 + (c + 1) ELSE 0
  BY <1>3 DEF Others
<1>6. Root \in Node /\ l[Root] \in Nat
  BY DEF Node
<1>7. Others(P, l)[Root] = Others(T, l)[Root] + 1
  <2>1. l[Root] + (2 + (c + 1)) = (l[Root] + (2 + c)) + 1
    BY <1>3, <1>6
  <2> QED BY <1>4, <1>5, <1>6, <2>1
<1>8. \A x \in Node \ {Root} : Others(P, l)[x] = Others(T, l)[x]
  BY <1>4, <1>5
<1>9. /\ Others(T, l) = [x \in Node |-> Others(T, l)[x]]
      /\ Others(P, l) = [x \in Node |-> Others(P, l)[x]]
  BY DEF Others
<1>10. Others(P, l) = OneMore(Others(T, l), Root)
  BY <1>7, <1>8, <1>9 DEF OneMore
<1> QED BY <1>10 DEF P

\* A table less.
LEMMA TableRemoved ==
  ASSUME NEW T \in Arrays, NEW t \in Table, T[t] # None, NEW l \in [Node -> Nat]
  PROVE  /\ Place(T, t, None) \in Arrays
         /\ Others(Place(T, t, None), l) =
              [Others(T, l) EXCEPT ![Root] = Others(T, l)[Root] - 1]
<1> DEFINE P == Place(T, t, None)
<1>1. P \in Arrays /\ P[t] = None /\ T[t] \in Array
  BY PlaceType DEF Arrays
<1>2. Place(P, t, T[t]) = T
  BY DEF Place, Arrays
<1> HIDE DEF P
<1>3. Others(T, l) = OneMore(Others(P, l), Root)
  BY <1>1, <1>2, TableAdded
<1>4. Others(P, l) \in [Node -> Nat] /\ Root \in Node
  BY OthersType DEF Node
<1> DEFINE o == Others(P, l)
           u == Others(T, l)
<1>5. o \in [Node -> Nat] /\ u = [o EXCEPT ![Root] = o[Root] + 1] /\ Root \in Node
  BY <1>3, <1>4 DEF OneMore
<1> HIDE DEF o, u
<1>6. u[Root] - 1 = o[Root]
  BY <1>5
<1>7. [u EXCEPT ![Root] = o[Root]] = o
  BY <1>5
<1>8. o = [u EXCEPT ![Root] = u[Root] - 1]
  BY <1>6, <1>7
<1> QED BY <1>1, <1>8 DEF o, u, P

\* copy_files: every descriptor is shared, and the working directory.
LEMMA ForkFine ==
  ASSUME IInv, NEW p \in Proc, NEW q \in Proc, NEW t \in Table, Fork(p, q, t)
  PROVE  Fine
<1> DEFINE r == filesp[p]
           S == Opened(r)
           a == fds[r]
           oth == Others(fds, lost)
           f == RefInc(fs, Root)
           P == Place(fds, t, a)
           fp == [filesp EXCEPT ![q] = t]
<1>1. /\ filesp[p] # None /\ filesp[q] = None /\ fds[t] = None
      /\ filesp' = fp /\ fds' = P /\ fs' = DupAll(f, a, S) /\ lost' = lost
  BY DEF Fork, Live, FreeTables, Place
<1>2. /\ FsOK(fs, Num(fds), oth) /\ fds \in Arrays /\ lost \in [Node -> Nat]
      /\ r \in Table /\ a \in Array /\ a # None
      /\ TablesOK(filesp, fds)
  BY <1>1, LiveRuns DEF IInv
<1>3. Root \in Node /\ oth[Root] # 0
  BY <1>2, OthersType DEF Node
<1>4. FsOK(f, Num(fds), OneMore(oth, Root)) /\ SameSizes(fs, f, Node)
  <2> HIDE DEF oth
  <2>1. fs.mem[Root] # Gone
    BY <1>2, <1>3, InMemory
  <2> QED BY <1>2, <1>3, <2>1, RefIncOK DEF OneMore
<1>5. S \in SUBSET FD /\ (\A fd \in S : a[fd] # None) /\ Only(a, S) = a
  <2>1. S \in SUBSET FD /\ (\A fd \in S : a[fd] # None) /\ (\A fd \in FD \ S : a[fd] = None)
    BY DEF Opened
  <2> HIDE DEF a, S
  <2> QED BY <1>2, <2>1 DEF Only, Array
<1>6. FsOK(fs', Num(P), OneMore(oth, Root)) /\ SameSizes(f, fs', Node)
  <2> HIDE DEF f, oth, S
  <2>1. /\ FsOK(DupAll(f, fds[r], S), Num(Place(fds, t, Only(fds[r], S))), OneMore(oth, Root))
        /\ SameSizes(f, DupAll(f, fds[r], S), Node)
    BY <1>1, <1>2, <1>4, <1>5, DupAllOK
  <2> QED BY <1>1, <1>5, <2>1
<1>7. Others(P, lost) = OneMore(oth, Root)
  BY <1>1, <1>2, TableAdded
<1>8. P \in Arrays /\ P[t] = a /\ \A s \in Table \ {t} : P[s] = fds[s]
  BY <1>2, PlaceType
<1> HIDE DEF P, a
<1>9. TablesOK(fp, P)
  <2>1. fp \in [Proc -> Table \cup {None}] /\ fp[q] = t /\ \A x \in Proc \ {q} : fp[x] = filesp[x]
    BY <1>2 DEF TablesOK
  <2> HIDE DEF fp
  <2>2. ASSUME NEW x \in Proc \ {q}, filesp[x] # None
        PROVE  filesp[x] \in Table /\ filesp[x] # t /\ P[filesp[x]] # None
    <3>1. filesp[x] \in Table /\ fds[filesp[x]] # None
      BY <1>2, <2>2 DEF TablesOK
    <3> QED BY <1>1, <1>8, <3>1
  <2>3. \A x \in Proc : fp[x] # None => P[fp[x]] # None
    BY <1>2, <1>8, <2>1, <2>2
  <2>4. ASSUME NEW x \in Proc, NEW y \in Proc, fp[x] # None, fp[x] = fp[y] PROVE x = y
    <3>1. CASE x # q /\ y # q
      BY <1>2, <2>1, <2>4, <3>1 DEF TablesOK
    <3>2. CASE x = q /\ y # q
      BY <2>1, <2>2, <2>4, <3>2
    <3>3. CASE x # q /\ y = q
      BY <2>1, <2>2, <2>4, <3>3
    <3> QED BY <3>1, <3>2, <3>3
  <2> QED BY <1>8, <2>1, <2>3, <2>4 DEF TablesOK
<1> HIDE DEF fp, oth
<1>10. Consistent(fs', fp, P, lost)
  BY <1>2, <1>6, <1>7, <1>9, Concluded
<1>11. Safe(fs, fs', fds')
  <2>1. SameSizes(fs, fs', Node)
    BY <1>4, <1>6 DEF SameSizes
  <2> QED BY <2>1, SafeAll
<1> QED BY <1>1, <1>10, <1>11 DEF Fine

\* A process that has no table any more.
Freed(fp, p) == [fp EXCEPT ![p] = None]

\* The tables of the others stay as they are.
LEMMA FreedOK ==
  ASSUME NEW fp, NEW T, TablesOK(fp, T), NEW p \in Proc
  PROVE  TablesOK(Freed(fp, p), T)
<1>1. /\ Freed(fp, p) \in [Proc -> Table \cup {None}] /\ Freed(fp, p)[p] = None
      /\ \A x \in Proc \ {p} : Freed(fp, p)[x] = fp[x]
  BY DEF TablesOK, Freed
<1> QED BY <1>1 DEF TablesOK

\* put_files: every descriptor is closed, and the table and its reference go.
LEMMA ExitFine ==
  ASSUME IInv, NEW p \in Proc, Exit(p)
  PROVE  Fine
<1> DEFINE t == filesp[p]
           S == Opened(t)
           a == fds[t]
           w == Without(a, S)
           oth == Others(fds, lost)
           oth1 == [oth EXCEPT ![Root] = oth[Root] - 1]
           f == RefDec(fs, Root)
           P == Place(fds, t, None)
           W == Place(fds, t, w)
           fp == Freed(filesp, p)
<1>1. /\ filesp[p] # None
      /\ filesp' = fp /\ fds' = P /\ fs' = CloseAll(f, a, S) /\ lost' = lost
  BY DEF Exit, Live, Place, Freed
<1>2. /\ FsOK(fs, Num(fds), oth) /\ fds \in Arrays /\ lost \in [Node -> Nat]
      /\ t \in Table /\ a \in Array /\ a # None
      /\ TablesOK(filesp, fds)
  BY <1>1, LiveRuns DEF IInv
<1>3. Root \in Node /\ oth[Root] # 0
  BY <1>2, OthersType DEF Node
<1>4. FsOK(f, Num(fds), oth1) /\ SameSizes(fs, f, Node)
  <2> HIDE DEF oth
  <2> QED BY <1>2, <1>3, RefDecOK
<1>5. S \in SUBSET FD /\ (\A fd \in S : a[fd] # None) /\ Empty(w) /\ w \in Array
  <2>1. S \in SUBSET FD /\ (\A fd \in S : a[fd] # None) /\ (\A fd \in FD \ S : a[fd] = None)
    BY DEF Opened
  <2> HIDE DEF a, S
  <2>2. w \in Array
    BY <1>2, PartType
  <2>3. \A fd \in FD : w[fd] = None
    BY <2>1 DEF Without
  <2> QED BY <2>1, <2>2, <2>3 DEF Empty
<1>6. FsOK(fs', Num(W), oth1) /\ SameSizes(f, fs', Node)
  <2> HIDE DEF f, oth1, S
  <2>1. /\ FsOK(CloseAll(f, fds[t], S), Num(Place(fds, t, Without(fds[t], S))), oth1)
        /\ SameSizes(f, CloseAll(f, fds[t], S), Node)
    BY <1>1, <1>2, <1>4, <1>5, CloseAllOK
  <2> QED BY <1>1, <2>1
<1>7. P \in Arrays /\ Others(P, lost) = oth1
  BY <1>1, <1>2, TableRemoved
<1>8. Num(P) = Num(W)
  <2> HIDE DEF w
  <2>1. W \in Arrays /\ W[t] = w
    BY <1>2, <1>5, PlaceType
  <2>2. Place(W, t, None) = P
    BY <1>2 DEF Place, Arrays
  <2> HIDE DEF W, P
  <2>3. Empty(None)
    BY DEF Empty
  <2>4. Num(Place(W, t, None)) = Num(W)
    BY <1>2, <1>5, <2>1, <2>3, EmptyPlaced
  <2> QED BY <2>2, <2>4
<1>9. P[t] = None /\ \A s \in Table \ {t} : P[s] = fds[s]
  BY <1>2, PlaceType
<1> HIDE DEF P, W, a, oth1
<1>10. TablesOK(fp, P)
  <2>1. TablesOK(fp, fds) /\ fp[p] = None /\ \A x \in Proc \ {p} : fp[x] = filesp[x]
    BY <1>2, FreedOK DEF Freed, TablesOK
  <2> HIDE DEF fp
  <2>2. ASSUME NEW x \in Proc, fp[x] # None
        PROVE  P[fp[x]] # None
    <3>1. x # p /\ fp[x] = filesp[x] /\ fp[x] \in Table /\ fds[fp[x]] # None
      BY <2>1, <2>2 DEF TablesOK
    <3>2. fp[x] # t
      BY <1>1, <1>2, <3>1 DEF TablesOK
    <3> QED BY <1>9, <3>1, <3>2
  <2> QED BY <1>7, <2>1, <2>2 DEF TablesOK
<1> HIDE DEF fp
<1>11. Consistent(fs', fp, P, lost)
  BY <1>2, <1>6, <1>7, <1>8, <1>10, Concluded
<1>12. Safe(fs, fs', fds')
  <2>1. SameSizes(fs, fs', Node)
    BY <1>4, <1>6 DEF SameSizes
  <2> QED BY <2>1, SafeAll
<1> QED BY <1>1, <1>11, <1>12 DEF Fine

\* files_closeall of the table of a living process.
Closed(t) == CloseAll(fs, fds[t], {fd \in Opened(t) : fd >= STD})

\* It leaves the descriptors below STD.
LEMMA ClosedOK ==
  ASSUME NEW t \in Table, fds \in Arrays, fds[t] # None, FsOK(fs, Num(fds), Others(fds, lost))
  PROVE  /\ Kept(t) \in Array
         /\ FsOK(Closed(t), Num(Place(fds, t, Kept(t))), Others(fds, lost))
         /\ SameSizes(fs, Closed(t), Node)
<1> DEFINE S == {fd \in Opened(t) : fd >= STD}
<1>1. S \in SUBSET FD /\ \A fd \in S : fds[t][fd] # None
  BY DEF Opened
<1>2. fds[t] \in Array
  BY DEF Arrays
<1>3. Kept(t) = Without(fds[t], S)
  <2>1. ASSUME NEW fd \in FD
        PROVE  (IF fd < STD THEN fds[t][fd] ELSE None) = (IF fd \in S THEN None ELSE fds[t][fd])
    <3>1. fd \in Int /\ STD \in Int
      BY FilesAssumption DEF FD
    <3>2. fd \in S <=> fds[t][fd] # None /\ ~(fd < STD)
      BY <3>1 DEF Opened
    <3> QED BY <3>2
  <2> HIDE DEF S
  <2> QED BY <2>1 DEF Kept, Without
<1>4. Closed(t) = CloseAll(fs, fds[t], S)
  BY DEF Closed
<1> HIDE DEF S
<1>5. Kept(t) \in Array
  BY <1>2, <1>3, PartType
<1>6. /\ FsOK(CloseAll(fs, fds[t], S), Num(Place(fds, t, Without(fds[t], S))), Others(fds, lost))
      /\ SameSizes(fs, CloseAll(fs, fds[t], S), Node)
  BY <1>1, CloseAllOK
<1> QED BY <1>3, <1>4, <1>5, <1>6

\* do_execve: the program's inode is as before.
LEMMA ExecFine ==
  ASSUME IInv, NEW p \in Proc, NEW n \in File, Exec(p, n)
  PROVE  Fine
<1> DEFINE t == filesp[p]
           a == Kept(t)
           oth == Others(fds, lost)
           f == Closed(t)
           g == OpenInc(Load(f, n), n)
           P == Place(fds, t, a)
           num1 == [Num(P) EXCEPT ![n] = Num(P)[n] + 1]
<1>1. /\ filesp[p] # None
      /\ filesp' = filesp /\ fds' = P /\ fs' = vfs_close(g, n) /\ lost' = lost
  BY DEF Exec, Live, Place, Closed
<1>2. /\ FsOK(fs, Num(fds), oth) /\ fds \in Arrays /\ lost \in [Node -> Nat]
      /\ t \in Table /\ fds[t] \in Array /\ fds[t] # None
      /\ TablesOK(filesp, fds) /\ n \in Node
  BY <1>1, LiveRuns DEF IInv, Node
<1>3. a \in Array /\ FsOK(f, Num(P), oth) /\ SameSizes(fs, f, Node)
  BY <1>2, ClosedOK
<1> HIDE DEF f, oth, P
<1>4. FsOK(g, num1, oth) /\ SameSizes(f, g, Node)
  BY <1>2, <1>3, LoadOpenOK
<1>5. num1[n] # 0 /\ [num1 EXCEPT ![n] = num1[n] - 1] = Num(P)
  <2>1. Num(P) \in [Node -> Nat]
    BY NumType
  <2>2. Num(P)[n] \in Nat /\ num1[n] = Num(P)[n] + 1
    BY <1>2, <2>1
  <2>3. num1[n] # 0 /\ num1[n] - 1 = Num(P)[n]
    BY ONLY <2>2
  <2>4. [num1 EXCEPT ![n] = Num(P)[n]] = Num(P)
    BY <2>1
  <2> HIDE DEF num1
  <2> QED BY <2>3, <2>4
<1> HIDE DEF g, num1
<1>6. FsOK(fs', Num(P), oth) /\ SameSizes(g, fs', Node)
  <2>1. /\ FsOK(vfs_close(g, n), [num1 EXCEPT ![n] = num1[n] - 1], oth)
        /\ SameSizes(g, vfs_close(g, n), Node)
    BY <1>2, <1>4, <1>5, CloseOK
  <2> QED BY <1>1, <1>5, <2>1
<1>7. Consistent(fs', filesp, P, lost)
  BY <1>2, <1>3, <1>6, Changed DEF P, oth
<1>8. Safe(fs, fs', fds')
  <2>1. SameSizes(fs, fs', Node)
    BY <1>3, <1>4, <1>6 DEF SameSizes
  <2> QED BY <2>1, SafeAll
<1> QED BY <1>1, <1>7, <1>8 DEF Fine

\* do_execve that fails: the program stays open in a table that nobody has.
LEMMA ExecFailsFine ==
  ASSUME IInv, NEW p \in Proc, NEW n \in File, ExecFails(p, n)
  PROVE  Fine
<1> DEFINE t == filesp[p]
           a == Kept(t)
           oth == Others(fds, lost)
           f == Closed(t)
           g == OpenInc(Load(f, n), n)
           P == Place(fds, t, a)
           S == {fd \in FD : a[fd] = None}
           fd == CHOOSE fd \in FD : a[fd] = None /\ \A e \in FD : e < fd => a[e] # None
           file == NewFile(n, 0, TRUE, FALSE)
           b == Slot(a, fd, file)
           Q == Place(fds, t, b)
           num1 == [Num(P) EXCEPT ![n] = Num(P)[n] + 1]
<1>1. /\ filesp[p] # None
      /\ filesp' = Freed(filesp, p) /\ fds' = Q /\ fs' = g /\ lost' = lost
  BY DEF ExecFails, Live, Place, Slot, NewFile, Freed, Closed
<1>2. /\ FsOK(fs, Num(fds), oth) /\ fds \in Arrays /\ lost \in [Node -> Nat]
      /\ t \in Table /\ fds[t] \in Array /\ fds[t] # None
      /\ TablesOK(filesp, fds) /\ n \in Node
  BY <1>1, LiveRuns DEF IInv, Node
<1>3. a \in Array /\ FsOK(f, Num(P), oth) /\ SameSizes(fs, f, Node)
  BY <1>2, ClosedOK
<1>4. fd \in FD /\ a[fd] = None
  <2>1. STD \in FD /\ a[STD] = None
    BY FilesAssumption DEF Kept, FD
  <2> HIDE DEF a
  <2>2. S \in SUBSET Nat /\ S # {}
    BY <2>1, FilesAssumption DEF FD
  <2>3. PICK x \in S : \A y \in S : x <= y
    <3> HIDE DEF S
    <3> QED BY <2>2, LeastNumber
  <2>4. x \in FD /\ a[x] = None /\ \A e \in FD : e < x => a[e] # None
    <3>1. x \in FD /\ a[x] = None
      OBVIOUS
    <3>2. ASSUME NEW e \in FD, e < x, a[e] = None PROVE FALSE
      <4>1. e \in S /\ x \in S
        BY <3>2
      <4>2. x <= e /\ e \in Nat /\ x \in Nat
        BY <2>2, <2>3, <4>1
      <4> QED BY ONLY <3>2, <4>2
    <3> QED BY <3>1, <3>2
  <2> QED BY <2>4
<1>5. file \in OpenFile /\ file.node = n
  BY <1>2, NewFileType
<1> HIDE DEF fd, file
<1>6. b \in Array
  BY <1>3, <1>4, <1>5, SlotType
<1> HIDE DEF a, f, oth
<1>7. FsOK(g, num1, oth) /\ SameSizes(f, g, Node)
  BY <1>2, <1>3, LoadOpenOK
<1>8. Num(Q) = num1
  <2>1. P \in Arrays /\ P[t] = a /\ a # None
    BY <1>2, <1>3, PlaceType, Nones
  <2>2. Place(P, t, b) = Q
    <3> HIDE DEF b
    <3> QED BY <1>2 DEF Place, Arrays
  <2> HIDE DEF P
  <2>3. /\ Num(Place(P, t, Slot(P[t], fd, file))) =
             [Num(P) EXCEPT ![file.node] = Num(P)[file.node] + 1]
    BY <1>2, <1>4, <1>5, <2>1, OpenedOne
  <2> HIDE DEF Q
  <2> QED BY <1>5, <2>1, <2>2, <2>3
<1> HIDE DEF b, g, num1
<1>9. TablesOK(Freed(filesp, p), Q) /\ Others(Q, lost) = oth
  <2>1. TablesOK(filesp, Q) /\ Others(Q, lost) = oth
    BY <1>2, <1>6, Replaced DEF oth
  <2> HIDE DEF Q
  <2> QED BY <2>1, FreedOK
<1> HIDE DEF Q
<1>10. Consistent(fs', Freed(filesp, p), Q, lost)
  BY <1>1, <1>2, <1>7, <1>8, <1>9, Concluded
<1>11. Safe(fs, fs', fds')
  <2>1. SameSizes(fs, fs', Node)
    BY <1>1, <1>3, <1>7 DEF SameSizes
  <2> QED BY <2>1, SafeAll
<1> QED BY <1>1, <1>10, <1>11 DEF Fine

\* The tables of a machine that has just started.
LEMMA FreshOK ==
  ASSUME NEW p \in Proc, NEW t \in Table
  PROVE  /\ TablesOK(FilesOf(p, t), files_create(t))
         /\ Num(files_create(t)) = Nothing
         /\ Others(files_create(t), Nothing) = [Nothing EXCEPT ![Root] = 3]
<1> DEFINE T == files_create(t)
           a == [fd \in FD |-> None]
           fp == FilesOf(p, t)
<1>1. a \in Array /\ a # None /\ t # None
  <2>1. a \in Array
    BY DEF Array
  <2> QED BY <2>1, Nones
<1>2. T[t] = a /\ \A s \in Table \ {t} : T[s] = None
  BY DEF files_create
<1>3. T \in Arrays
  BY <1>1 DEF files_create, Arrays
<1>4. fp \in [Proc -> Table \cup {None}] /\ fp[p] = t /\ \A q \in Proc \ {p} : fp[q] = None
  BY DEF FilesOf
<1>5. \A s \in Table, fd \in FD : T[s] = None \/ T[s][fd] = None
  BY <1>2
<1> HIDE DEF T, fp, a
<1>6. TablesOK(fp, T)
  BY <1>1, <1>2, <1>3, <1>4 DEF TablesOK
<1>7. Num(T) = Nothing
  <2>1. ASSUME NEW n \in Node PROVE Cardinality(Users(T, n)) = 0
    <3>1. Users(T, n) = {}
      BY <1>5 DEF Users
    <3> QED BY <3>1, FS_EmptySet
  <2> QED BY <2>1 DEF Num, Nothing
<1>8. Held(T) = {t}
  BY <1>1, <1>2 DEF Held
<1>9. Cardinality(Held(T)) = 1
  BY <1>8, FS_Singleton
<1>10. Others(T, Nothing) = [Nothing EXCEPT ![Root] = 3]
  <2>1. Root \in Node
    BY DEF Node
  <2>2. ASSUME NEW n \in Node
        PROVE  Nothing[n] + (IF n = Root THEN 2 + 1 ELSE 0) = IF n = Root THEN 3 ELSE 0
    BY DEF Nothing
  <2> QED BY <1>9, <2>1, <2>2 DEF Others, Nothing
<1> QED BY <1>6, <1>7, <1>10 DEF T, fp

\* A start of the machine from a disk that is in order.
LEMMA StartOK ==
  ASSUME NEW p \in Proc, NEW t \in Table, NEW f, FsOK(f, Nothing, Nothing), f.saved = f.unused
  PROVE  /\ Consistent(Booted(f), FilesOf(p, t), files_create(t), Nothing)
         /\ SameSizes(f, Booted(f), Node)
<1>1. /\ FsOK(Booted(f), Nothing, [Nothing EXCEPT ![Root] = 3])
      /\ SameSizes(f, Booted(f), Node)
  BY BootedOK
<1>2. /\ TablesOK(FilesOf(p, t), files_create(t))
      /\ Num(files_create(t)) = Nothing
      /\ Others(files_create(t), Nothing) = [Nothing EXCEPT ![Root] = 3]
  BY FreshOK
<1>3. Nothing \in [Node -> Nat]
  BY DEF Nothing
<1> QED BY <1>1, <1>2, <1>3, Concluded

\* The first start is a start from an empty disk.
LEMMA InitOK == Init => IInv
<1> SUFFICES ASSUME Init PROVE IInv
  OBVIOUS
<1>1. PICK p \in Proc, t \in Table : filesp = FilesOf(p, t) /\ fds = files_create(t)
  BY DEF Init
<1>2. fs = Booted(EmptyDisk) /\ lost = Nothing
  BY DEF Init, Nothing
<1>3. Consistent(Booted(EmptyDisk), FilesOf(p, t), files_create(t), Nothing)
  BY EmptyDiskOK, StartOK
<1> QED BY <1>1, <1>2, <1>3 DEF IInv

\* A restart finds a stopped machine, whose disk is in order.
LEMMA BootFine ==
  ASSUME IInv, NEW p \in Proc, NEW t \in Table, Boot(p, t)
  PROVE  Fine
<1>1. fs.mem[Root] = Gone /\ fs' = Booted(fs) /\ filesp' = FilesOf(p, t)
      /\ fds' = files_create(t) /\ lost' = lost
  BY DEF Boot, On
<1>2. FsOK(fs, Nothing, Nothing) /\ fs.saved = fs.unused /\ lost = Nothing
  BY <1>1 DEF IInv, Consistent, Running, Stopped
<1>3. /\ Consistent(Booted(fs), FilesOf(p, t), files_create(t), Nothing)
      /\ SameSizes(fs, Booted(fs), Node)
  BY <1>2, StartOK
<1>4. Safe(fs, fs', fds')
  BY <1>1, <1>3, SafeAll
<1> QED BY <1>1, <1>2, <1>3, <1>4 DEF Fine

\* The last sync leaves such a disk.
LEMMA ShutdownFine ==
  ASSUME IInv, Shutdown
  PROVE  Fine
<1> DEFINE g == OnDisk(sfs_sync(fs))
           T == [t \in Table |-> None]
<1>1. /\ fs.mem[Root] # Gone /\ (\A p \in Proc : filesp[p] = None)
      /\ fs' = g /\ fds' = T /\ lost' = Nothing /\ filesp' = filesp
  BY DEF Shutdown, On, Live, Nothing
<1>2. FsOK(fs, Num(fds), Others(fds, lost)) /\ TablesOK(filesp, fds)
  BY <1>1 DEF IInv, Consistent, Running, Stopped
<1>3. /\ FsOK(g, Nothing, Nothing) /\ SameSizes(fs, g, Node)
      /\ g.saved = g.unused /\ g.mem = [n \in Node |-> Gone]
  BY <1>2, StoppedOK
<1> HIDE DEF g
<1>4. g.mem[Root] = Gone
  BY <1>3 DEF Node
<1>5. TablesOK(filesp, T) /\ Held(T) = {}
  <2>1. T \in Arrays
    BY DEF Arrays
  <2>2. Held(T) = {}
    BY DEF Held
  <2> HIDE DEF T
  <2> QED BY <1>1, <1>2, <2>1, <2>2 DEF TablesOK
<1> HIDE DEF T
<1>6. Consistent(g, filesp, T, Nothing)
  <2>1. Nothing \in [Node -> Nat]
    BY DEF Nothing
  <2>2. Stopped(g, T, Nothing)
    BY <1>3, <1>4, <1>5 DEF Stopped
  <2> QED BY <1>5, <2>1, <2>2 DEF Consistent
<1>7. Safe(fs, fs', fds')
  BY <1>1, <1>3, SafeAll
<1> QED BY <1>1, <1>6, <1>7 DEF Fine

\* Every call keeps the invariant, and the sizes of the files that nobody has open.
LEMMA StepFine ==
  ASSUME IInv, Next
  PROVE  Fine
<1>1. ASSUME NEW p \in Proc, Calls(p) PROVE Fine
  <2>1. ASSUME NEW n \in Node, NEW fl \in Flags[n], Open(p, n, fl) \/ OpenExcl(p, n, fl)
        PROVE  Fine
    BY <2>1, OpenFine, OpenExclFine
  <2>2. ASSUME NEW fd \in FD, file_close(p, fd) \/ file_fsync(p, fd) PROVE Fine
    BY <2>2, CloseFine, FsyncFine
  <2>3. ASSUME NEW fd \in FD, NEW len \in 1..MaxLen, file_read(p, fd, len) \/ file_write(p, fd, len)
        PROVE  Fine
    BY <2>3, ReadFine, WriteFine
  <2>4. ASSUME NEW fd \in FD, NEW pos \in Seeks, file_seek(p, fd, pos) PROVE Fine
    BY <2>4, SeekFine
  <2>5. ASSUME NEW fd1 \in FD, NEW fd2 \in FD, file_dup(p, fd1, fd2) PROVE Fine
    BY <2>5, DupFine
  <2>6. ASSUME NEW q \in Proc, NEW t \in Table, Fork(p, q, t) PROVE Fine
    BY <2>6, ForkFine
  <2>7. ASSUME Exit(p) PROVE Fine
    BY <2>7, ExitFine
  <2>8. ASSUME NEW n \in File, Exec(p, n) \/ ExecFails(p, n) PROVE Fine
    BY <2>8, ExecFine, ExecFailsFine
  <2> QED BY <1>1, <2>1, <2>2, <2>3, <2>4, <2>5, <2>6, <2>7, <2>8 DEF Calls
<1>2. ASSUME NEW p \in Proc, NEW t \in Table, Boot(p, t) PROVE Fine
  BY <1>2, BootFine
<1>3. ASSUME Shutdown PROVE Fine
  BY <1>3, ShutdownFine
<1> QED BY <1>1, <1>2, <1>3 DEF Next

-----------------------------------------------------------------------------
(***************************************************************************)
(* The theorems.                                                           *)
(***************************************************************************)
\* The invariant is inductive, and its steps are quiet.
LEMMA StepOK == IInv /\ [Next]_vars => IInv' /\ [Quiet]_vars
<1> SUFFICES ASSUME IInv, [Next]_vars PROVE IInv' /\ [Quiet]_vars
  OBVIOUS
<1>1. CASE Next
  <2>1. Fine
    BY <1>1, StepFine
  <2>2. IInv' /\ Safe(fs, fs', fds')
    BY <2>1 DEF Fine, IInv
  <2> QED BY <2>2, SafeImplied
<1>2. CASE UNCHANGED vars
  BY <1>2 DEF vars, IInv
<1> QED BY <1>1, <1>2

\* The inductive invariant: counts, blocks and tables go together.
THEOREM InvariantCorrect == Spec => []IInv
<1>1. Init => IInv
  BY InitOK
<1>2. IInv /\ [Next]_vars => IInv'
  BY StepOK
<1> QED BY <1>1, <1>2, PTL DEF Spec

\* The reference and the open count of every inode (inode.c:50-102) are exactly its
\* descriptors and its other references, in every order of open, close, dup, fork,
\* exec, exit, shutdown and boot.
THEOREM CountsExactCorrect == Spec => []CountsExact
<1>1. IInv => CountsExact
  BY CountsImplied
<1> QED BY <1>1, InvariantCorrect, PTL

\* No block is lost and none is given away twice, also when the disk runs full in the
\* middle of a call, and the super block tells the truth after every restart.
THEOREM SpaceExactCorrect == Spec => []SpaceExact
<1>1. IInv => SpaceExact
  BY SpaceImplied
<1> QED BY <1>1, InvariantCorrect, PTL

\* The size of a file changes only while somebody has it open: nothing written is lost
\* when it is closed, dropped from memory and loaded again.
THEOREM SavedWhenClosedCorrect == Spec => SavedWhenClosed
<1>1. IInv /\ [Next]_vars => [Quiet]_vars
  BY StepOK
<1> QED BY <1>1, InvariantCorrect, PTL DEF Spec, SavedWhenClosed, Quiet
=============================================================================
