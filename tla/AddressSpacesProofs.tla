------------------------ MODULE AddressSpacesProofs ------------------------
(***************************************************************************)
(* Every frame has one owner and the free list is exact: proofs about      *)
(* modules Pmm and AddressSpaces for every size of the memory and of the   *)
(* address spaces, every set of processes and every set of images.         *)
(*                                                                         *)
(* Neither property is inductive.  MemoryInv says more: where the lists of *)
(* default_pmm.c lead (Exact), and that each place which may refer to a    *)
(* frame (Slot) has one that is not free, not in the hands of a call, and  *)
(* in no other place (Owned).  The proof goes from the links of the list   *)
(* to default_alloc_pages and default_free_pages, from there to the        *)
(* operations on page tables, their loops and the system calls (Running),  *)
(* then to check_swap, which puts the list aside and works with a few      *)
(* frames of its own (Tested), and to the boot before it.                  *)
(***************************************************************************)
EXTENDS AddressSpaces, FiniteSetTheorems, NaturalsInduction, WellFoundedInduction, TLAPS

-----------------------------------------------------------------------------
(***************************************************************************)
(* Numbers.                                                                *)
(***************************************************************************)

\* A nonempty set of numbers has a least one.
LEMMA LeastNumber ==
  ASSUME NEW S \in SUBSET Nat, S # {}
  PROVE  \E x \in S : \A y \in S : x <= y
<1>1. IsWellFoundedOn(OpToRel(<, Nat), Nat)
  BY NatLessThanWellFounded
<1>2. PICK R : IsWellFoundedOn(R, Nat) /\ R = {ss \in Nat \X Nat : ss[1] < ss[2]}
  BY <1>1 DEF OpToRel
<1>3. PICK x \in S : \A y \in S : <<y, x>> \notin R
  BY <1>2, WFMin
<1>4. ASSUME NEW y \in S PROVE x <= y
  <2>1. x \in Nat /\ y \in Nat /\ <<y, x>> \notin R
    BY <1>3
  <2>2. ~ (y < x)
    BY <1>2, <2>1
  <2> QED BY <2>1, <2>2
<1> QED BY <1>4

\* Induction, for a set of numbers: those that a formula holds of.
LEMMA SetInduction ==
  ASSUME NEW S, 0 \in S, \A n \in Nat : n \in S => n + 1 \in S
  PROVE  Nat \subseteq S
<1> SUFFICES ASSUME Nat \ S # {} PROVE FALSE
  OBVIOUS
<1>1. PICK x \in Nat \ S : \A y \in Nat \ S : x <= y
  BY LeastNumber
<1>2. x # 0 /\ x - 1 \in Nat /\ x = (x - 1) + 1
  OBVIOUS
<1>3. x - 1 \notin S
  BY <1>2
<1> QED BY <1>1, <1>2, <1>3

\* The numbers of frames.
LEMMA Frames ==
  /\ NFrames \in Nat \ {0} /\ Frame \subseteq Nat /\ free_list \notin Frame
  /\ free_list \in Int /\ Link = Frame \cup {free_list} /\ IsFiniteSet(Frame)
  /\ \A a \in Frame : a < NFrames /\ free_list < a
  /\ \A S \in SUBSET Frame : IsFiniteSet(S) /\ Cardinality(S) \in Nat /\ Cardinality(S) <= NFrames
<1>1. NFrames \in Nat \ {0}
  BY PmmAssumption
<1>2. IsFiniteSet(Frame) /\ Cardinality(Frame) = NFrames
  <2>1. 0 \in Int /\ NFrames - 1 \in Int /\ 0 <= NFrames - 1
    BY <1>1
  <2>2. IsFiniteSet(0..NFrames - 1) /\ Cardinality(0..NFrames - 1) = NFrames - 1 - 0 + 1
    BY <2>1, FS_Interval
  <2> QED BY <1>1, <2>2 DEF Frame
<1>3. \A S \in SUBSET Frame : IsFiniteSet(S) /\ Cardinality(S) \in Nat /\ Cardinality(S) <= NFrames
  BY <1>2, FS_Subset, FS_CardinalityType
<1> QED BY <1>1, <1>2, <1>3 DEF Frame, free_list, Link

-----------------------------------------------------------------------------
(***************************************************************************)
(* Walks.                                                                  *)
(***************************************************************************)
\* What from gives, on lists of which k elements are visited at most.
Way(next, k, g) ==
  g = [x \in Link \X (0..k) |->
         IF x[1] = free_list \/ x[2] = 0 THEN <<>>
         ELSE <<x[1]>> \o g[<<next[x[1]], x[2] - 1>>]]

\* What Way says at each element.
WaySteps(next, k, g) ==
  \A e \in Link : \A n \in 0..k :
    g[<<e, n>>] = IF e = free_list \/ n = 0 THEN <<>> ELSE <<e>> \o g[<<next[e], n - 1>>]

\* What a walk gives, step by step.
LEMMA WayStep ==
  ASSUME NEW next, NEW k \in Nat, NEW g, Way(next, k, g)
  PROVE  WaySteps(next, k, g)
<1> SUFFICES ASSUME NEW e \in Link, NEW n \in 0..k
             PROVE  g[<<e, n>>] = IF e = free_list \/ n = 0 THEN <<>>
                                  ELSE <<e>> \o g[<<next[e], n - 1>>]
  BY DEF WaySteps
<1>1. <<e, n>> \in Link \X (0..k)
  OBVIOUS
<1> QED BY <1>1 DEF Way

\* There is such a function,
LEMMA WayExists ==
  ASSUME NEW next \in [Link -> Link]
  PROVE  \A k \in Nat : \E g : Way(next, k, g)
<1> DEFINE K == {k \in Nat : \E g : Way(next, k, g)}
<1>1. 0 \in K
  <2> DEFINE g == [x \in Link \X (0..0) |-> <<>>]
  <2>1. \A x \in Link \X (0..0) : x[2] = 0
    OBVIOUS
  <2>2. Way(next, 0, g)
    BY <2>1 DEF Way
  <2> QED BY <2>2
<1>2. ASSUME NEW k \in Nat, k \in K PROVE k + 1 \in K
  <2>1. PICK g : Way(next, k, g)
    BY <1>2
  <2> DEFINE D == Link \X (0..k + 1)
             h == [x \in D |-> IF x[1] = free_list \/ x[2] = 0 THEN <<>>
                               ELSE <<x[1]>> \o g[<<next[x[1]], x[2] - 1>>]]
  <2>2. ASSUME NEW e \in Link, NEW n \in 0..k PROVE h[<<e, n>>] = g[<<e, n>>]
    <3>1. <<e, n>> \in D
      OBVIOUS
    <3>2. h[<<e, n>>] = IF e = free_list \/ n = 0 THEN <<>> ELSE <<e>> \o g[<<next[e], n - 1>>]
      BY <3>1
    <3> HIDE DEF h
    <3> QED BY <2>1, <3>2, WayStep DEF WaySteps
  <2>3. ASSUME NEW x \in D, x[1] # free_list, x[2] # 0
        PROVE  g[<<next[x[1]], x[2] - 1>>] = h[<<next[x[1]], x[2] - 1>>]
    <3>1. next[x[1]] \in Link /\ x[2] - 1 \in 0..k
      BY <2>3
    <3> HIDE DEF h
    <3> QED BY <2>2, <3>1
  <2>4. h = [x \in D |-> IF x[1] = free_list \/ x[2] = 0 THEN <<>>
                         ELSE <<x[1]>> \o h[<<next[x[1]], x[2] - 1>>]]
    <3>1. \A x \in D : h[x] = IF x[1] = free_list \/ x[2] = 0 THEN <<>>
                              ELSE <<x[1]>> \o h[<<next[x[1]], x[2] - 1>>]
      <4>1. \A x \in D : h[x] = IF x[1] = free_list \/ x[2] = 0 THEN <<>>
                              ELSE <<x[1]>> \o g[<<next[x[1]], x[2] - 1>>]
        OBVIOUS
      <4> HIDE DEF h, D
      <4> QED BY <2>3, <4>1
    <3>2. h = [x \in D |-> h[x]]
      OBVIOUS
    <3> HIDE DEF h, D
    <3> QED BY <3>1, <3>2
  <2>5. Way(next, k + 1, h)
    <3> HIDE DEF h
    <3> QED BY <2>4 DEF Way
  <2> QED BY <2>5
<1> HIDE DEF K
<1>3. Nat \subseteq K
  BY <1>1, <1>2, SetInduction
<1> QED BY <1>3 DEF K

\* and a walk follows one.
LEMMA WalkIs ==
  ASSUME NEW f, f.next \in [Link -> Link]
  PROVE  \E g : Way(f.next, NFrames + 1, g) /\ Walk(f) = g[<<f.next[free_list], NFrames + 1>>]
<1> DEFINE c == CHOOSE g : Way(f.next, NFrames + 1, g)
<1>1. Way(f.next, NFrames + 1, c)
  <2>1. NFrames + 1 \in Nat
    BY PmmAssumption
  <2> QED BY <2>1, WayExists
<1>2. Walk(f) = c[<<f.next[free_list], NFrames + 1>>]
  BY DEF Walk, Way
<1> HIDE DEF c
<1> QED BY <1>1, <1>2

-----------------------------------------------------------------------------
(***************************************************************************)
(* What a walk meets.                                                      *)
(***************************************************************************)
\* The elements go from one to the other in the order of their addresses,
After(B, e, x) ==
  \/ x \in B /\ e < x /\ \A b \in B : e < b => x <= b
  \/ x = free_list /\ \A b \in B : ~(e < b)

Chained(next, B) == \A e \in B \cup {free_list} : After(B, e, next[e])

\* and back.
Linked(next, prev, B) ==
  Chained(next, B) /\ \A e \in B \cup {free_list} : prev[next[e]] = e

Beyond(B, e) == {b \in B : e < b}

Sorted(w) == \A i, j \in 1..Len(w) : i < j => w[i] < w[j]

\* The sequence w has the members of S in ascending order.
InOrder(w, S) ==
  /\ w \in Seq(Frame) /\ Sorted(w) /\ Len(w) = Cardinality(S)
  /\ \A i \in 1..Len(w) : w[i] \in S
  /\ \A a \in S : \E i \in 1..Len(w) : w[i] = a

\* The empty sequence lists the empty set.
LEMMA NothingListed == InOrder(<<>>, {})
<1>1. <<>> \in Seq(Frame) /\ Len(<<>>) = 0
  OBVIOUS
<1>2. Cardinality({}) = 0
  BY FS_EmptySet
<1>3. 1..0 = {}
  OBVIOUS
<1> QED BY <1>1, <1>2, <1>3 DEF InOrder, Sorted

\* An element in front of a list of what is behind it.
LEMMA FirstListed ==
  ASSUME NEW S \in SUBSET Frame, NEW x \in Frame, x \notin S, \A b \in S : x < b,
         NEW w, InOrder(w, S)
  PROVE  InOrder(<<x>> \o w, S \cup {x})
<1> DEFINE v == <<x>> \o w
<1>1. w \in Seq(Frame) /\ Len(w) \in Nat /\ Frame \subseteq Nat /\ Len(w) = Cardinality(S)
  BY Frames DEF InOrder
<1>2. /\ v \in Seq(Frame) /\ Len(v) = Len(w) + 1 /\ v[1] = x
      /\ \A i \in 1..Len(w) : v[i + 1] = w[i]
  <2>1. <<x>> \in Seq(Frame) /\ Len(<<x>>) = 1 /\ <<x>>[1] = x
    OBVIOUS
  <2> QED BY <1>1, <2>1
<1>3. Cardinality(S \cup {x}) = Cardinality(S) + 1
  BY Frames, FS_AddElement
<1> HIDE DEF v
<1>4. \A i \in 1..Len(v) : i = 1 \/ (i - 1 \in 1..Len(w) /\ v[i] = w[i - 1])
  <2> TAKE i \in 1..Len(v)
  <2>1. CASE i = 1
    BY <2>1
  <2>2. CASE i # 1
    <3>1. i - 1 \in 1..Len(w) /\ (i - 1) + 1 = i
      BY <1>1, <1>2, <2>2
    <3> QED BY <1>2, <3>1
  <2> QED BY <2>1, <2>2
<1>5. \A i \in 1..Len(w) : w[i] \in S /\ w[i] \in Nat /\ x < w[i]
  BY <1>1 DEF InOrder
<1>6. Sorted(v)
  <2> SUFFICES ASSUME NEW i \in 1..Len(v), NEW j \in 1..Len(v), i < j PROVE v[i] < v[j]
    BY DEF Sorted
  <2>1. j # 1 /\ j - 1 \in 1..Len(w) /\ v[j] = w[j - 1]
    BY <1>1, <1>2, <1>4
  <2>2. CASE i = 1
    BY <1>2, <1>5, <2>1, <2>2
  <2>3. CASE i # 1
    <3>1. i - 1 \in 1..Len(w) /\ v[i] = w[i - 1] /\ i - 1 < j - 1
      BY <1>1, <1>2, <1>4, <2>3
    <3> QED BY <2>1, <3>1 DEF InOrder, Sorted
  <2> QED BY <2>2, <2>3
<1>7. \A i \in 1..Len(v) : v[i] \in S \cup {x}
  BY <1>2, <1>4, <1>5
<1>8. ASSUME NEW a \in S \cup {x} PROVE \E i \in 1..Len(v) : v[i] = a
  <2>1. CASE a = x
    <3>1. 1 \in 1..Len(v)
      BY <1>1, <1>2
    <3> QED BY <1>2, <2>1, <3>1
  <2>2. CASE a # x
    <3>1. PICK i \in 1..Len(w) : w[i] = a
      BY <2>2 DEF InOrder
    <3>2. i + 1 \in 1..Len(v) /\ v[i + 1] = a
      BY <1>1, <1>2, <3>1
    <3> QED BY <3>2
  <2> QED BY <2>1, <2>2
<1>9. InOrder(v, S \cup {x})
  BY <1>1, <1>2, <1>3, <1>6, <1>7, <1>8 DEF InOrder
<1> QED BY <1>9 DEF v

\* A walk along a chain meets what is beyond an element, in the order of addresses.
LEMMA WayLists ==
  ASSUME NEW next \in [Link -> Link], NEW B \in SUBSET Frame, Chained(next, B),
         NEW k \in Nat, NEW g, Way(next, k, g)
  PROVE  \A n \in 0..k : \A e \in B \cup {free_list} :
           Cardinality(Beyond(B, e)) <= n => InOrder(g[<<next[e], n>>], Beyond(B, e))
<1> DEFINE K == {n \in Nat : n <= k => \A e \in B \cup {free_list} :
                   Cardinality(Beyond(B, e)) <= n => InOrder(g[<<next[e], n>>], Beyond(B, e))}
<1>0. \A e \in Link : \A n \in 0..k :
        g[<<e, n>>] = IF e = free_list \/ n = 0 THEN <<>> ELSE <<e>> \o g[<<next[e], n - 1>>]
  <2>1. WaySteps(next, k, g)
    BY WayStep
  <2> QED BY ONLY <2>1 DEF WaySteps
<1>1. \A e \in B \cup {free_list} :
        /\ Beyond(B, e) \in SUBSET Frame /\ Cardinality(Beyond(B, e)) \in Nat
        /\ e \in Int /\ next[e] \in Link /\ After(B, e, next[e])
  <2> SUFFICES ASSUME NEW e \in B \cup {free_list}
               PROVE  /\ Beyond(B, e) \in SUBSET Frame /\ Cardinality(Beyond(B, e)) \in Nat
                      /\ e \in Int /\ next[e] \in Link /\ After(B, e, next[e])
    OBVIOUS
  <2>1. Beyond(B, e) \in SUBSET Frame
    BY DEF Beyond
  <2>2. e \in Link /\ e \in Int
    BY Frames
  <2> QED BY <2>1, <2>2, Frames DEF Chained
<1>2. ASSUME NEW n \in 0..k, NEW e \in B \cup {free_list}, next[e] = free_list
      PROVE  InOrder(g[<<next[e], n>>], Beyond(B, e))
  <2>1. Beyond(B, e) = {}
    <3>1. e \in B \cup {free_list} /\ After(B, e, free_list)
      BY <1>1, <1>2
    <3> QED BY <3>1, Frames DEF After, Beyond
  <2>2. g[<<next[e], n>>] = <<>>
    <3>1. next[e] \in Link
      BY <1>1
    <3> QED BY <1>0, <1>2, <3>1
  <2> QED BY <2>1, <2>2, NothingListed
<1>3. 0 \in K
  <2> SUFFICES ASSUME NEW e \in B \cup {free_list}, Cardinality(Beyond(B, e)) <= 0
               PROVE  InOrder(g[<<next[e], 0>>], Beyond(B, e))
    OBVIOUS
  <2>1. Beyond(B, e) = {}
    <3>1. Cardinality(Beyond(B, e)) = 0 /\ IsFiniteSet(Beyond(B, e))
      BY <1>1, Frames
    <3> QED BY <3>1, FS_EmptySet
  <2>2. next[e] = free_list
    BY <1>1, <2>1 DEF After, Beyond
  <2> QED BY <1>2, <2>2
<1>4. ASSUME NEW n \in Nat, n \in K PROVE n + 1 \in K
  <2> SUFFICES ASSUME n + 1 <= k, NEW e \in B \cup {free_list}, Cardinality(Beyond(B, e)) <= n + 1,
                      next[e] # free_list
               PROVE  InOrder(g[<<next[e], n + 1>>], Beyond(B, e))
    BY <1>2
  <2> DEFINE x == next[e]
  <2>1. x \in B /\ x \in Link /\ e < x /\ \A b \in B : e < b => x <= b
    BY <1>1 DEF After
  <2>2. g[<<x, n + 1>>] = <<x>> \o g[<<next[x], n>>]
    <3>1. n + 1 \in 0..k /\ n + 1 # 0 /\ (n + 1) - 1 = n
      OBVIOUS
    <3> QED BY <1>0, <2>1, <3>1
  <2>3. Beyond(B, e) = Beyond(B, x) \cup {x} /\ x \notin Beyond(B, x)
    <3>1. x \in Int /\ e \in Int /\ \A b \in B : b \in Int
      BY <1>1, <2>1, Frames
    <3>2. e < x /\ x \in B /\ \A b \in B : e < b => x <= b
      BY <2>1
    <3> HIDE DEF x
    <3>3. ASSUME NEW b \in B PROVE e < b <=> x < b \/ b = x
      BY <3>1, <3>2
    <3>4. ~(x < x)
      BY <3>1, <3>2
    <3> QED BY <3>2, <3>3, <3>4 DEF Beyond
  <2>4. Cardinality(Beyond(B, x)) <= n
    <3>1. Cardinality(Beyond(B, e)) = Cardinality(Beyond(B, x)) + 1
      BY <1>1, <2>1, <2>3, Frames, FS_AddElement
    <3> QED BY <1>1, <2>1, <3>1
  <2>5. InOrder(g[<<next[x], n>>], Beyond(B, x))
    BY <1>4, <2>1, <2>4
  <2>6. \A b \in Beyond(B, x) : x < b
    BY DEF Beyond
  <2> QED BY <1>1, <2>1, <2>2, <2>3, <2>5, <2>6, FirstListed
<1> HIDE DEF K
<1>5. Nat \subseteq K
  BY <1>3, <1>4, SetInduction
<1> QED BY <1>5 DEF K

\* le2page walks over a free list meet its blocks, in the order of addresses.
LEMMA WalkLists ==
  ASSUME NEW f, f.next \in [Link -> Link], NEW B \in SUBSET Frame, Chained(f.next, B)
  PROVE  InOrder(Walk(f), B)
<1>1. PICK g : Way(f.next, NFrames + 1, g) /\ Walk(f) = g[<<f.next[free_list], NFrames + 1>>]
  BY WalkIs
<1>2. Beyond(B, free_list) = B
  BY Frames DEF Beyond
<1>3. NFrames + 1 \in Nat /\ NFrames + 1 \in 0..NFrames + 1 /\ Cardinality(B) <= NFrames + 1
  BY Frames
<1> QED BY <1>1, <1>2, <1>3, WayLists

\* A frame in front of a sequence of frames.
LEMMA PutFirst ==
  ASSUME NEW e \in Frame, NEW w \in Seq(Frame)
  PROVE  <<e>> \o w \in Seq(Frame) /\ Len(<<e>> \o w) >= 1
<1>1. <<e>> \in Seq(Frame) /\ Len(<<e>>) = 1 /\ Len(w) \in Nat
  OBVIOUS
<1>2. <<e>> \o w \in Seq(Frame)
  BY <1>1
<1>3. Len(<<e>> \o w) = 1 + Len(w)
  BY <1>1
<1> QED BY <1>1, <1>2, <1>3

\* Wherever the links lead, a walk is a sequence of frames.
LEMMA WayType ==
  ASSUME NEW next \in [Link -> Link], NEW k \in Nat, NEW g, Way(next, k, g)
  PROVE  /\ \A n \in 0..k : \A e \in Link : g[<<e, n>>] \in Seq(Frame)
         /\ k # 0 => \A e \in Link : e # free_list => Len(g[<<e, k>>]) >= 1
<1>0. \A e \in Link : \A n \in 0..k :
        g[<<e, n>>] = IF e = free_list \/ n = 0 THEN <<>> ELSE <<e>> \o g[<<next[e], n - 1>>]
  <2>1. WaySteps(next, k, g)
    BY WayStep
  <2> QED BY ONLY <2>1 DEF WaySteps
<1>1. \A e \in Link : next[e] \in Link /\ (e # free_list => e \in Frame)
  BY DEF Link
<1> DEFINE K == {n \in Nat : n <= k => \A e \in Link : g[<<e, n>>] \in Seq(Frame)}
<1>3. 0 \in K
  <2>1. \A e \in Link : g[<<e, 0>>] = <<>>
    <3>1. 0 \in 0..k
      OBVIOUS
    <3> QED BY <1>0, <3>1
  <2>2. <<>> \in Seq(Frame)
    OBVIOUS
  <2> QED BY <2>1, <2>2
<1>4. ASSUME NEW n \in Nat, n \in K PROVE n + 1 \in K
  <2> SUFFICES ASSUME n + 1 <= k, NEW e \in Link PROVE g[<<e, n + 1>>] \in Seq(Frame)
    OBVIOUS
  <2>1. n + 1 \in 0..k /\ n + 1 # 0 /\ (n + 1) - 1 = n
    OBVIOUS
  <2>2. g[<<e, n + 1>>] = IF e = free_list THEN <<>> ELSE <<e>> \o g[<<next[e], n>>]
    BY <1>0, <2>1
  <2>3. CASE e = free_list
    BY <2>2, <2>3
  <2>4. CASE e # free_list
    <3>1. e \in Frame
      BY <1>1, <2>4
    <3>2. g[<<next[e], n>>] \in Seq(Frame)
      BY <1>1, <1>4, <2>1
    <3>3. <<e>> \o g[<<next[e], n>>] \in Seq(Frame)
      BY <3>1, <3>2, PutFirst
    <3> QED BY <2>2, <2>4, <3>3
  <2> QED BY <2>3, <2>4
<1> HIDE DEF K
<1>5. Nat \subseteq K
  BY <1>3, <1>4, SetInduction
<1>6. ASSUME NEW n \in 0..k, NEW e \in Link PROVE g[<<e, n>>] \in Seq(Frame)
  <2>1. n \in K /\ n <= k
    BY <1>5
  <2> QED BY <2>1 DEF K
<1>7. ASSUME k # 0, NEW e \in Link, e # free_list PROVE Len(g[<<e, k>>]) >= 1
  <2>1. k \in 0..k /\ k - 1 \in 0..k
    BY <1>7
  <2>2. g[<<e, k>>] = <<e>> \o g[<<next[e], k - 1>>]
    BY <1>0, <1>7, <2>1
  <2>3. e \in Frame /\ g[<<next[e], k - 1>>] \in Seq(Frame)
    BY <1>1, <1>6, <1>7, <2>1
  <2> QED BY <2>2, <2>3, PutFirst
<1> QED BY <1>6, <1>7

\* The same for a walk from the head of a free list.
LEMMA WalkType ==
  ASSUME NEW f, f.next \in [Link -> Link]
  PROVE  Walk(f) \in Seq(Frame) /\ (f.next[free_list] # free_list => Len(Walk(f)) >= 1)
<1>1. PICK g : Way(f.next, NFrames + 1, g) /\ Walk(f) = g[<<f.next[free_list], NFrames + 1>>]
  BY WalkIs
<1> DEFINE k == NFrames + 1
<1>2. k \in Nat /\ k # 0 /\ k \in 0..k /\ f.next[free_list] \in Link
  BY Frames
<1>3. Way(f.next, k, g) /\ Walk(f) = g[<<f.next[free_list], k>>]
  BY <1>1
<1> HIDE DEF k
<1>4. /\ \A n \in 0..k : \A e \in Link : g[<<e, n>>] \in Seq(Frame)
      /\ \A e \in Link : e # free_list => Len(g[<<e, k>>]) >= 1
  BY <1>2, <1>3, WayType
<1> QED BY <1>2, <1>3, <1>4

\* SelectInSeq finds the first place of a sequence that holds a member of S.
LEMMA SelectIs ==
  ASSUME NEW w \in Seq(Frame), NEW S, NEW i, i = SelectInSeq(w, LAMBDA a : a \in S)
  PROVE  \/ i = 0 /\ \A j \in 1..Len(w) : w[j] \notin S
         \/ i \in 1..Len(w) /\ w[i] \in S /\ \A j \in 1..Len(w) : w[j] \in S => i <= j
<1> DEFINE I == {j \in 1..Len(w) : w[j] \in S}
<1>1. i = IF I # {} THEN Min(I) ELSE 0
  BY DEF SelectInSeq
<1>2. ASSUME I # {} PROVE Min(I) \in I /\ \A j \in I : Min(I) <= j
  <2>1. I \in SUBSET Nat
    OBVIOUS
  <2>2. \E x \in I : \A y \in I : x <= y
    <3> HIDE DEF I
    <3> QED BY <1>2, <2>1, LeastNumber
  <2>3. Min(I) = CHOOSE x \in I : \A y \in I : x <= y
    BY DEF Min
  <2> HIDE DEF I
  <2> QED BY <2>2, <2>3
<1> QED BY <1>1, <1>2

-----------------------------------------------------------------------------
(***************************************************************************)
(* The first block of a list that fits.                                    *)
(***************************************************************************)
\* First stops at a block, at the head, or is lost in a list whose links are broken.
LEMMA FirstType ==
  ASSUME NEW f, f.next \in [Link -> Link], NEW S \in SUBSET Frame
  PROVE  First(f, S) \in S \cup {free_list, Lost}
<1> DEFINE w == Walk(f)
           i == SelectInSeq(w, LAMBDA a : a \in S)
<1>1. w \in Seq(Frame)
  BY WalkType
<1>2. First(f, S) = IF i # 0 THEN w[i] ELSE IF Len(w) > NFrames THEN Lost ELSE free_list
  BY DEF First
<1> HIDE DEF w
<1>3. i = 0 \/ (i \in 1..Len(w) /\ w[i] \in S)
  BY ONLY <1>1, SelectIs
<1> HIDE DEF i
<1>4. CASE i = 0
  BY <1>2, <1>4
<1>5. CASE i # 0
  BY <1>2, <1>3, <1>5
<1> QED BY <1>4, <1>5

\* In a list whose links are right it stops at the least block of S, or there is none.
LEMMA FirstIs ==
  ASSUME NEW f, f.next \in [Link -> Link], NEW B \in SUBSET Frame, Chained(f.next, B),
         NEW S \in SUBSET Frame
  PROVE  \/ First(f, S) = free_list /\ B \cap S = {}
         \/ First(f, S) \in B \cap S /\ \A b \in B \cap S : First(f, S) <= b
<1> DEFINE w == Walk(f)
           i == SelectInSeq(w, LAMBDA a : a \in S)
<1>1. InOrder(w, B)
  BY WalkLists
<1>2. First(f, S) = IF i # 0 THEN w[i] ELSE IF Len(w) > NFrames THEN Lost ELSE free_list
  BY DEF First
<1> HIDE DEF w
<1>3. w \in Seq(Frame) /\ Len(w) \in Nat /\ Len(w) <= NFrames
  BY <1>1, Frames DEF InOrder
<1>4. \/ i = 0 /\ \A j \in 1..Len(w) : w[j] \notin S
      \/ i \in 1..Len(w) /\ w[i] \in S /\ \A j \in 1..Len(w) : w[j] \in S => i <= j
  BY <1>3, SelectIs
<1> HIDE DEF i
<1>5. CASE i = 0
  <2>1. First(f, S) = free_list
    BY <1>2, <1>3, <1>5, Frames
  <2>2. \A j \in 1..Len(w) : w[j] \notin S
    BY <1>4, <1>5
  <2>3. B \cap S = {}
    BY <1>1, <2>2 DEF InOrder
  <2> QED BY <2>1, <2>3
<1>6. CASE i # 0
  <2>1. i \in 1..Len(w) /\ w[i] \in S /\ \A j \in 1..Len(w) : w[j] \in S => i <= j
    BY <1>4, <1>6
  <2>2. First(f, S) = w[i] /\ w[i] \in B
    BY <1>1, <1>2, <1>6, <2>1 DEF InOrder
  <2>3. ASSUME NEW b \in B \cap S PROVE w[i] <= b
    <3>1. PICK j \in 1..Len(w) : w[j] = b
      BY <1>1 DEF InOrder
    <3>2. i <= j
      BY <2>1, <3>1
    <3>3. i = j \/ w[i] < w[j]
      BY <1>1, <1>3, <2>1, <3>2 DEF InOrder, Sorted
    <3>4. w[i] \in Int /\ w[j] \in Int
      <4>1. w[i] \in Frame /\ w[j] \in Frame
        BY <2>1, <1>3
      <4>2. \A x \in Frame : x \in Int
        BY Frames
      <4> QED BY <4>1, <4>2
    <3> QED BY <3>1, <3>3, <3>4
  <2> QED BY <2>1, <2>2, <2>3
<1> QED BY <1>5, <1>6

-----------------------------------------------------------------------------
(***************************************************************************)
(* Links.                                                                  *)
(***************************************************************************)
\* A nonempty set of frames has a last one.
LEMMA LastOf ==
  ASSUME NEW S \in SUBSET Frame, S # {}
  PROVE  \E x \in S : \A y \in S : y <= x
<1> DEFINE T == {NFrames - x : x \in S}
<1>1. \A x \in S : x \in Nat /\ x < NFrames /\ NFrames - x \in Nat
  BY Frames
<1>2. T \in SUBSET Nat /\ T # {}
  BY <1>1
<1>3. PICK t \in T : \A u \in T : t <= u
  <2> HIDE DEF T
  <2> QED BY <1>2, LeastNumber
<1>4. PICK x \in S : t = NFrames - x
  BY <1>3
<1>5. ASSUME NEW y \in S PROVE y <= x
  <2>1. NFrames - y \in T
    OBVIOUS
  <2>2. NFrames - x <= NFrames - y
    BY <1>3, <1>4, <2>1
  <2> QED BY <1>1, <2>2, Frames
<1> QED BY <1>5

\* What precedes an element, or the head, is linked to it.
LEMMA HasPrev ==
  ASSUME NEW B \in SUBSET Frame, NEW next \in [Link -> Link], NEW prev \in [Link -> Link],
         Linked(next, prev, B), NEW x \in B \cup {free_list}
  PROVE  /\ prev[x] \in B \cup {free_list} /\ next[prev[x]] = x
         /\ x # free_list => prev[x] < x /\ \A b \in B : b < x => b <= prev[x]
         /\ x = free_list => \A b \in B : b <= prev[x]
<1> DEFINE S == {b \in B : x = free_list \/ b < x}
<1>1. x \in Int /\ free_list \in Int /\ \A b \in B : b \in Int /\ free_list < b
  BY Frames
<1>2. PICK p \in S \cup {free_list} : \A b \in S : b <= p
  <2>1. CASE S = {}
    BY <2>1
  <2>2. CASE S # {}
    <3>1. S \in SUBSET Frame
      OBVIOUS
    <3> HIDE DEF S
    <3> QED BY <2>2, <3>1, LastOf
  <2> QED BY <2>1, <2>2
<1>3. p \in B \cup {free_list} /\ p \in Int /\ (x # free_list => p < x)
  BY <1>1, <1>2
<1>4. After(B, p, next[p])
  BY <1>3 DEF Linked, Chained
<1>5. next[p] = x
  <2>1. CASE x = free_list
    <3>1. \A b \in B : b <= p
      BY <1>2, <2>1
    <3>2. \A b \in B : ~(p < b)
      BY <1>1, <1>3, <3>1
    <3> QED BY <1>4, <2>1, <3>2 DEF After
  <2>2. CASE x # free_list
    <3>1. x \in B /\ p < x
      BY <1>3, <2>2
    <3>2. next[p] \in B /\ p < next[p] /\ next[p] <= x
      BY <1>4, <3>1 DEF After
    <3>3. next[p] \in Int /\ p \in Int /\ x \in Int
      BY <1>1, <1>3, <3>2
    <3>4. ~(next[p] < x)
      <4> SUFFICES ASSUME next[p] < x PROVE FALSE
        OBVIOUS
      <4>1. next[p] \in S
        BY <3>2
      <4>2. next[p] <= p
        BY <1>2, <4>1
      <4>3. p < next[p]
        BY <3>2
      <4> HIDE DEF S
      <4> QED BY <3>3, <4>2, <4>3
    <3> QED BY <3>2, <3>3, <3>4
  <2> QED BY <2>1, <2>2
<1>6. prev[x] = p
  BY <1>3, <1>5 DEF Linked
<1>7. x # free_list => \A b \in B : b < x => b <= p
  BY <1>2
<1>8. x = free_list => \A b \in B : b <= p
  BY <1>2
<1> QED BY <1>3, <1>5, <1>6, <1>7, <1>8

\* list_del takes an element out.
LEMMA Unlinked ==
  ASSUME NEW B \in SUBSET Frame, NEW next \in [Link -> Link], NEW prev \in [Link -> Link],
         Linked(next, prev, B), NEW a \in B, NEW nx, NEW pv, NEW x, NEW y,
         nx = [[next EXCEPT ![prev[a]] = next[a]] EXCEPT ![a] = x],
         pv = [[prev EXCEPT ![next[a]] = prev[a]] EXCEPT ![a] = y]
  PROVE  Linked(nx, pv, B \ {a})
<1> DEFINE p == prev[a]
           n == next[a]
           C == B \ {a}
<1>1. /\ p \in B \cup {free_list} /\ next[p] = a /\ p < a /\ \A b \in B : b < a => b <= p
  BY HasPrev, Frames
<1>2. After(B, a, n) /\ prev[n] = a /\ n \in B \cup {free_list}
  BY DEF Linked, Chained, After
<1>3. a \in Int /\ p \in Int /\ n \in Int /\ free_list \in Int /\ \A b \in B : b \in Int /\ free_list < b
  <2>1. free_list \in Int /\ \A b \in B : b \in Int /\ free_list < b
    BY Frames
  <2> HIDE DEF p, n
  <2> QED BY <1>1, <1>2, <2>1
<1>4. p # a /\ n # a /\ p \in C \cup {free_list} /\ n \in C \cup {free_list} /\ a # free_list
  BY <1>1, <1>2, <1>3 DEF After
<1>5. /\ \A e \in Link : e # a => nx[e] = IF e = p THEN n ELSE next[e]
      /\ \A e \in Link : e # a => pv[e] = IF e = n THEN p ELSE prev[e]
  BY <1>1, <1>2, Frames
<1> HIDE DEF p, n
<1>6. ASSUME NEW e \in C \cup {free_list}
      PROVE  After(C, e, nx[e]) /\ pv[nx[e]] = e
  <2>1. e \in Link /\ e # a /\ e \in B \cup {free_list} /\ e \in Int
    BY <1>3, <1>4, Frames
  <2>2. After(B, e, next[e]) /\ prev[next[e]] = e
    BY <2>1 DEF Linked, Chained
  <2>3. CASE e = p
    <3>1. nx[e] = n /\ pv[n] = p
      BY <1>4, <1>5, <2>1, <2>3, Frames
    <3>2. ASSUME NEW b \in C PROVE p < b <=> a < b
      <4>1. ~(b < a) \/ b <= p
        BY <1>1
      <4>2. b # a /\ b \in Int
        BY <1>3
      <4> QED BY <1>1, <1>3, <4>1, <4>2
    <3>3. After(C, p, n)
      <4>1. CASE n = free_list
        BY <1>2, <1>3, <3>2, <4>1 DEF After
      <4>2. CASE n # free_list
        <5>1. n \in C /\ a < n /\ \A b \in B : a < b => n <= b
          BY <1>2, <1>4, <4>2 DEF After
        <5> QED BY <3>2, <5>1 DEF After
      <4> QED BY <4>1, <4>2
    <3> QED BY <2>3, <3>1, <3>3
  <2>4. CASE e # p
    <3>1. nx[e] = next[e] /\ next[e] # a
      <4>1. next[e] # a
        <5> SUFFICES ASSUME next[e] = a PROVE FALSE
          OBVIOUS
        <5> QED BY <2>2, <2>4 DEF p
      <4> QED BY <1>5, <2>1, <2>4, <4>1
    <3>2. next[e] # n
      BY <1>2, <2>1, <2>2
    <3>3. next[e] \in C \cup {free_list} /\ next[e] \in Link
      BY <2>2, <3>1, Frames DEF After
    <3>4. pv[next[e]] = prev[next[e]]
      BY <1>5, <3>1, <3>2, <3>3
    <3>5. After(C, e, next[e])
      BY <2>2, <3>1 DEF After
    <3> QED BY <2>2, <3>1, <3>4, <3>5
  <2> QED BY <2>3, <2>4
<1> QED BY <1>6 DEF Linked, Chained

\* list_add puts one in, between the elements it belongs between.
LEMMA Relinked ==
  ASSUME NEW B \in SUBSET Frame, NEW next \in [Link -> Link], NEW prev \in [Link -> Link],
         Linked(next, prev, B), NEW p \in B \cup {free_list}, NEW a \in Frame, p < a, a \notin B,
         next[p] = free_list \/ a < next[p],
         NEW nx, NEW pv,
         nx = [[next EXCEPT ![p] = a] EXCEPT ![a] = next[p]],
         pv = [[prev EXCEPT ![next[p]] = a] EXCEPT ![a] = p]
  PROVE  Linked(nx, pv, B \cup {a})
<1> DEFINE n == next[p]
           C == B \cup {a}
<1>1. After(B, p, n) /\ n \in B \cup {free_list} /\ prev[n] = p
  BY DEF Linked, Chained, After
<1>2. /\ free_list \in Int /\ \A b \in B : b \in Int /\ free_list < b
      /\ a \in Int /\ free_list < a
  BY Frames
<1>3. p \in Int /\ n \in Int /\ p # a /\ n # a /\ a \in Link /\ p \in Link /\ n \in Link
  <2>1. B \subseteq Link /\ free_list \in Link /\ a \in Link
    BY Frames
  <2> HIDE DEF n
  <2> QED BY <1>1, <1>2, <2>1
<1>4. n = free_list \/ a < n
  OBVIOUS
<1>5. /\ \A e \in Link : nx[e] = IF e = a THEN n ELSE IF e = p THEN a ELSE next[e]
      /\ \A e \in Link : pv[e] = IF e = a THEN p ELSE IF e = n THEN a ELSE prev[e]
  BY <1>3
<1> HIDE DEF n
<1>6. \A b \in B : (p < b <=> a < b) /\ b # a
  <2> SUFFICES ASSUME NEW b \in B, p < b PROVE a < b
    BY <1>2, <1>3
  <2>0. free_list \notin B
    BY Frames
  <2>1. n # free_list
    BY <1>1, <2>0 DEF After
  <2>2. n \in B /\ n <= b
    BY <1>1, <2>1 DEF After
  <2>3. n \in B /\ n <= b /\ a < n
    BY <1>4, <2>1, <2>2
  <2> QED BY <1>2, <1>3, <2>3
<1>7. ASSUME NEW e \in C \cup {free_list}
      PROVE  After(C, e, nx[e]) /\ pv[nx[e]] = e
  <2>0. e \in Link /\ e \in Int
    BY <1>2, Frames
  <2>1. CASE e = a
    <3>1. nx[a] = n /\ pv[n] = a
      BY <1>3, <1>5
    <3>2. After(C, a, n)
      <4>1. CASE n = free_list
        BY <1>1, <1>2, <1>6, <4>1 DEF After
      <4>2. CASE n # free_list
        <5>1. n \in B /\ a < n /\ \A b \in B : p < b => n <= b
          BY <1>1, <1>4, <4>2 DEF After
        <5>2. ~(a < a)
          BY <1>2
        <5> QED BY <1>6, <5>1, <5>2 DEF After
      <4> QED BY <4>1, <4>2
    <3> QED BY <2>1, <3>1, <3>2
  <2>2. CASE e = p
    <3>1. nx[p] = a /\ pv[a] = p
      BY <1>3, <1>5
    <3>2. \A c \in C : p < c => a <= c
      BY <1>2, <1>6
    <3>3. After(C, p, a)
      BY <3>2 DEF After
    <3> QED BY <2>2, <3>1, <3>3
  <2>3. CASE e # a /\ e # p
    <3>1. After(B, e, next[e]) /\ prev[next[e]] = e /\ e \in B \cup {free_list}
      BY <2>3 DEF Linked, Chained
    <3>2. nx[e] = next[e] /\ next[e] \in B \cup {free_list} /\ next[e] \in Link
      BY <1>5, <2>0, <2>3, <3>1, Frames DEF After
    <3>3. next[e] # n
      BY <1>1, <2>3, <3>1
    <3>4. pv[next[e]] = e
      <4>1. next[e] # a
        BY <1>2, <1>6, <3>2
      <4> QED BY <1>5, <3>1, <3>2, <3>3, <4>1
    <3>5. After(C, e, next[e])
      <4>1. e < a => next[e] # free_list /\ next[e] <= a
        <5> SUFFICES ASSUME e < a PROVE next[e] # free_list /\ next[e] <= a
          OBVIOUS
        <5>1. e < p
          <6> SUFFICES ASSUME p < e PROVE FALSE
            BY <1>3, <2>0, <2>3
          <6>1. e \in B
            BY <1>2, <1>3, <3>1
          <6>2. a < e
            BY <1>6, <6>1
          <6> QED BY <1>2, <2>0, <6>2
        <5>2. p \in B
          BY <1>2, <3>1, <5>1
        <5>3. next[e] \in B /\ next[e] <= p
          BY <3>1, <5>1, <5>2 DEF After
        <5>4. free_list \notin B /\ \A b \in B : b \in Int
          BY Frames
        <5>5. p < a /\ p \in Int /\ a \in Int
          BY <1>2, <1>3
        <5>6. next[e] # free_list /\ next[e] \in Int
          BY <5>3, <5>4
        <5>7. next[e] <= a
          BY <5>3, <5>5, <5>6
        <5> QED BY <5>6, <5>7
      <4> QED BY <1>2, <3>1, <4>1 DEF After
    <3> QED BY <3>2, <3>4, <3>5
  <2> QED BY <2>1, <2>2, <2>3
<1> QED BY <1>7 DEF Linked, Chained

-----------------------------------------------------------------------------
(***************************************************************************)
(* The allocator.                                                          *)
(***************************************************************************)
\* Blocks end within the memory.
WA == {f \in Allocator : \A a \in Frame : a + f.property[a] <= NFrames}

FreeOf(f) == UNION {a..a + f.property[a] - 1 : a \in f.flags}

\* The list links the flagged frames, which begin blocks that do not overlap.
Loose(f) ==
  /\ f \in WA /\ ~f.tail
  /\ Linked(f.next, f.prev, f.flags)
  /\ \A a \in f.flags : f.property[a] >= 1
  /\ \A a, b \in f.flags : a < b => a + f.property[a] <= b
  /\ f.nr_free = Cardinality(FreeOf(f))

\* Blocks that touch.
Touch(f, a, b) == a \in f.flags /\ b \in f.flags /\ a + f.property[a] = b

Exact(f) == Loose(f) /\ \A a, b \in Frame : ~Touch(f, a, b)

\* Frames are numbers below NFrames.
LEMMA FrameNat == \A a \in Frame : a \in Nat /\ a \in Int /\ a < NFrames
BY Frames

\* The fields of the allocator and their types.
LEMMA AllocatorFields ==
  ASSUME NEW f \in Allocator
  PROVE  /\ f.next \in [Link -> Link] /\ f.prev \in [Link -> Link] /\ f.property \in [Frame -> Nat]
         /\ f.flags \in SUBSET Frame /\ f.nr_free \in Int /\ f.ok \in BOOLEAN /\ f.tail \in BOOLEAN
BY DEF Allocator

\* __list_add changes two links each way and nothing else.
LEMMA BetweenIs ==
  ASSUME NEW f \in Allocator, NEW e \in Link, NEW p \in Link, NEW n \in Link
  PROVE  LET g == Between(f, e, p, n) IN
         /\ g \in Allocator
         /\ g.next = [[f.next EXCEPT ![p] = e] EXCEPT ![e] = n]
         /\ g.prev = [[f.prev EXCEPT ![n] = e] EXCEPT ![e] = p]
         /\ g.property = f.property /\ g.flags = f.flags /\ g.nr_free = f.nr_free
         /\ g.ok = f.ok /\ g.tail = f.tail
BY DEF Between, Allocator

\* list_del takes a block out of the links both ways.
LEMMA DelIs ==
  ASSUME NEW f \in Allocator, NEW e \in Frame
  PROVE  LET g == list_del(f, e) IN
         /\ g \in Allocator /\ g.flags = f.flags /\ g.nr_free = f.nr_free
         /\ g.ok = f.ok /\ g.tail = f.tail
         /\ f \in WA => g \in WA
         /\ ~f.tail =>
              /\ g.next = [[f.next EXCEPT ![f.prev[e]] = f.next[e]] EXCEPT ![e] = free_list]
              /\ g.prev = [[f.prev EXCEPT ![f.next[e]] = f.prev[e]] EXCEPT ![e] = free_list]
              /\ g.property = [f.property EXCEPT ![e] = 0]
<1> DEFINE g == list_del(f, e)
           h == [f EXCEPT !.next[f.prev[e]] = f.next[e], !.prev[f.next[e]] = f.prev[e]]
<1>1. e \in Link /\ free_list \in Link /\ f.prev[e] \in Link /\ f.next[e] \in Link
  BY AllocatorFields DEF Link
<1>2. /\ h \in Allocator /\ h.next = [f.next EXCEPT ![f.prev[e]] = f.next[e]]
      /\ h.prev = [f.prev EXCEPT ![f.next[e]] = f.prev[e]] /\ h.property = f.property
      /\ h.flags = f.flags /\ h.nr_free = f.nr_free /\ h.ok = f.ok /\ h.tail = f.tail
  BY <1>1 DEF Allocator
<1>3. g = IF h.tail THEN h
          ELSE [h EXCEPT !.next[e] = free_list, !.prev[e] = free_list, !.property[e] = 0]
  BY DEF list_del, Forgotten
<1> HIDE DEF h
<1>4. ASSUME f.tail PROVE g = h
  BY <1>2, <1>3, <1>4
<1>5. ASSUME ~f.tail
      PROVE  /\ g \in Allocator /\ g.flags = f.flags /\ g.nr_free = f.nr_free
             /\ g.ok = f.ok /\ g.tail = f.tail
             /\ g.next = [[f.next EXCEPT ![f.prev[e]] = f.next[e]] EXCEPT ![e] = free_list]
             /\ g.prev = [[f.prev EXCEPT ![f.next[e]] = f.prev[e]] EXCEPT ![e] = free_list]
             /\ g.property = [f.property EXCEPT ![e] = 0]
  <2>1. g = [h EXCEPT !.next[e] = free_list, !.prev[e] = free_list, !.property[e] = 0]
    BY <1>2, <1>3, <1>5
  <2>2. /\ g.flags = h.flags /\ g.nr_free = h.nr_free
        /\ g.ok = h.ok /\ g.tail = h.tail
        /\ g.next = [h.next EXCEPT ![e] = free_list]
        /\ g.prev = [h.prev EXCEPT ![e] = free_list]
        /\ g.property = [h.property EXCEPT ![e] = 0]
    BY <1>2, <2>1 DEF Allocator
  <2>3. g \in Allocator
    <3>1. /\ [h.next EXCEPT ![e] = free_list] \in [Link -> Link]
          /\ [h.prev EXCEPT ![e] = free_list] \in [Link -> Link]
          /\ [h.property EXCEPT ![e] = 0] \in [Frame -> Nat]
      BY <1>1, <1>2, AllocatorFields
    <3>2. h.flags \in SUBSET Frame /\ h.nr_free \in Int /\ h.ok \in BOOLEAN /\ h.tail \in BOOLEAN
      BY <1>2, AllocatorFields
    <3>3. g = [next |-> [h.next EXCEPT ![e] = free_list],
               prev |-> [h.prev EXCEPT ![e] = free_list],
               property |-> [h.property EXCEPT ![e] = 0],
               flags |-> h.flags, nr_free |-> h.nr_free, ok |-> h.ok, tail |-> h.tail]
      BY <1>2, <2>1 DEF Allocator
    <3> HIDE DEF g
    <3> QED BY ONLY <3>1, <3>2, <3>3 DEF Allocator
  <2> QED BY <1>2, <1>5, <2>2, <2>3
<1>6. f.tail \in BOOLEAN
  BY AllocatorFields
<1>7. g \in Allocator /\ \A a \in Frame : g.property[a] = f.property[a] \/ g.property[a] = 0
  <2>1. CASE f.tail
    BY <1>2, <1>4, <2>1
  <2>2. CASE ~f.tail
    <3>1. g \in Allocator /\ g.property = [f.property EXCEPT ![e] = 0]
      BY <1>5, <2>2
    <3> QED BY <3>1, AllocatorFields
  <2> QED BY <2>1, <2>2
<1>8. \A a \in Frame : a + 0 <= NFrames
  BY FrameNat, PmmAssumption
<1>9. f \in WA => g \in WA
  BY <1>7, <1>8 DEF WA
<1>10. g \in Allocator /\ g.flags = f.flags /\ g.nr_free = f.nr_free /\ g.ok = f.ok /\ g.tail = f.tail
  BY <1>2, <1>4, <1>5, <1>6
<1> QED BY <1>5, <1>9, <1>10

-----------------------------------------------------------------------------
(***************************************************************************)
(* Numbers of frames.                                                      *)
(***************************************************************************)
\* How many frames a block has.
LEMMA RangeSize ==
  ASSUME NEW a \in Frame, NEW n \in Nat, a + n <= NFrames
  PROVE  /\ a..a + n - 1 \in SUBSET Frame /\ Cardinality(a..a + n - 1) = n
         /\ IsFiniteSet(a..a + n - 1)
<1>1. a \in Int /\ a + n - 1 \in Int /\ a >= 0
  BY Frames
<1>2. \A x \in a..a + n - 1 : x \in Frame
  <2> SUFFICES ASSUME NEW x \in a..a + n - 1 PROVE x \in Frame
    OBVIOUS
  <2>1. x \in Int /\ 0 <= x /\ x <= NFrames - 1
    BY <1>1, Frames
  <2> QED BY <2>1 DEF Frame
<1>3. IsFiniteSet(a..a + n - 1)
      /\ Cardinality(a..a + n - 1) = IF a > a + n - 1 THEN 0 ELSE (a + n - 1) - a + 1
  BY <1>1, FS_Interval
<1>4. Cardinality(a..a + n - 1) = n
  BY <1>1, <1>3
<1> QED BY <1>2, <1>3, <1>4

\* What the frames and the blocks of a free list are.
LEMMA FreeFacts ==
  ASSUME NEW f, Loose(f)
  PROVE  /\ FreeOf(f) \in SUBSET Frame /\ f.flags \in SUBSET FreeOf(f) /\ f.flags \in SUBSET Frame
         /\ f \in Allocator /\ IsFiniteSet(FreeOf(f)) /\ f.nr_free \in Nat
         /\ \A a \in f.flags : /\ f.property[a] \in Nat /\ a + f.property[a] <= NFrames
                               /\ a..a + f.property[a] - 1 \in SUBSET FreeOf(f)
<1>1. f \in Allocator /\ f.flags \in SUBSET Frame /\ f.property \in [Frame -> Nat]
  BY AllocatorFields DEF Loose, WA
<1>2. \A a \in f.flags : f.property[a] \in Nat /\ a + f.property[a] <= NFrames
  BY <1>1 DEF Loose, WA
<1>3. \A a \in f.flags : a..a + f.property[a] - 1 \in SUBSET Frame
  BY <1>1, <1>2, RangeSize
<1>4. \A a \in f.flags : a \in a..a + f.property[a] - 1
  <2> SUFFICES ASSUME NEW a \in f.flags PROVE a \in a..a + f.property[a] - 1
    OBVIOUS
  <2>1. a \in Int /\ f.property[a] \in Nat /\ f.property[a] >= 1
    BY <1>1, <1>2, FrameNat DEF Loose
  <2> QED BY <2>1
<1>5. FreeOf(f) \in SUBSET Frame
  BY <1>3 DEF FreeOf
<1>6. f.flags \in SUBSET FreeOf(f)
  BY <1>4 DEF FreeOf
<1>7. IsFiniteSet(FreeOf(f)) /\ f.nr_free \in Nat
  BY <1>5, Frames DEF Loose
<1>8. \A a \in f.flags : a..a + f.property[a] - 1 \in SUBSET FreeOf(f)
  BY DEF FreeOf
<1> QED BY <1>1, <1>2, <1>5, <1>6, <1>7, <1>8

\* Blocks do not overlap.
LEMMA BlocksApart ==
  ASSUME NEW f, Loose(f), NEW a \in f.flags, NEW b \in f.flags, NEW x, x \in a..a + f.property[a] - 1,
         x \in b..b + f.property[b] - 1
  PROVE  a = b
<1>1. a \in Nat /\ b \in Nat /\ f.property[a] \in Nat /\ f.property[b] \in Nat /\ x \in Int
  BY FreeFacts, FrameNat
<1>2. (a < b => a + f.property[a] <= b) /\ (b < a => b + f.property[b] <= a)
  BY DEF Loose
<1> QED BY <1>1, <1>2

-----------------------------------------------------------------------------
(***************************************************************************)
(* default_alloc_pages.                                                    *)
(***************************************************************************)
\* default_alloc_pages finds a large enough block or none, whatever the list is.
LEMMA FoundType ==
  ASSUME NEW f \in WA, NEW n \in Nat
  PROVE  /\ Found(f, n) \in Frame \cup {free_list, Lost}
         /\ Found(f, n) \in Frame => f.property[Found(f, n)] >= n
<1> DEFINE S == {a \in Frame : f.property[a] >= n}
<1>1. f.next \in [Link -> Link]
  BY DEF WA, Allocator
<1>2. First(f, S) \in S \cup {free_list, Lost}
  BY <1>1, FirstType
<1>3. Found(f, n) = free_list \/ Found(f, n) = First(f, S)
  BY DEF Found
<1>4. free_list \notin Frame /\ Lost \notin Frame
  BY Frames DEF Lost, Frame
<1> QED BY <1>2, <1>3, <1>4

\* From a right list it finds the first block that is large enough.
LEMMA FoundIs ==
  ASSUME NEW f, Loose(f), NEW n \in Nat, Found(f, n) \in Frame
  PROVE  /\ Found(f, n) \in f.flags /\ f.property[Found(f, n)] >= n
         /\ \A b \in f.flags : f.property[b] >= n => Found(f, n) <= b
<1> DEFINE S == {a \in Frame : f.property[a] >= n}
<1>1. f.next \in [Link -> Link] /\ f.flags \in SUBSET Frame /\ Chained(f.next, f.flags)
  BY DEF Loose, WA, Allocator, Linked
<1>2. Found(f, n) = First(f, S)
  BY Frames DEF Found
<1> DEFINE x == First(f, S)
<1>3. x = free_list \/ (x \in f.flags \cap S /\ \A b \in f.flags \cap S : x <= b)
  BY <1>1, FirstIs
<1>4. x \in f.flags \cap S /\ \A b \in f.flags \cap S : x <= b
  BY <1>2, <1>3, Frames
<1> HIDE DEF x
<1>5. \A b \in f.flags : f.property[b] >= n => x <= b
  BY <1>1, <1>4
<1> QED BY <1>2, <1>4, <1>5 DEF x

\* When one frame is free, one is found.
LEMMA FindsOne ==
  ASSUME NEW f, Loose(f), f.nr_free # 0
  PROVE  Found(f, 1) \in f.flags
<1> DEFINE S == {a \in Frame : f.property[a] >= 1}
<1>1. f.next \in [Link -> Link] /\ f.flags \in SUBSET Frame /\ Chained(f.next, f.flags)
  BY DEF Loose, WA, Allocator, Linked
<1>2. f.nr_free \in Nat
  BY FreeFacts
<1>3. Found(f, 1) = First(f, S)
  BY <1>2 DEF Found
<1>4. f.flags \cap S # {}
  <2>1. FreeOf(f) # {}
    BY FS_EmptySet DEF Loose
  <2>2. f.flags # {}
    BY <2>1 DEF FreeOf
  <2>3. f.flags \subseteq S
    BY <1>1 DEF Loose
  <2> QED BY <2>2, <2>3
<1> DEFINE x == First(f, S)
<1>5. (x = free_list /\ f.flags \cap S = {}) \/ x \in f.flags \cap S
  BY <1>1, FirstIs
<1> HIDE DEF S
<1> QED BY <1>3, <1>4, <1>5

\* What a block that goes leaves: nothing, or the rest of it in its place.
SplitParts(f, a, n, g) ==
  /\ f.property[a] = n => g = list_del(f, a)
  /\ f.property[a] > n =>
       /\ a + n \in Frame /\ g.flags = f.flags \cup {a + n}
       /\ g.property = [list_del(f, a).property EXCEPT ![a + n] = f.property[a] - n]
       /\ g.next = [[list_del(f, a).next EXCEPT ![f.prev[a]] = a + n]
                      EXCEPT ![a + n] = list_del(f, a).next[f.prev[a]]]
       /\ g.prev = [[list_del(f, a).prev EXCEPT ![list_del(f, a).next[f.prev[a]]] = a + n]
                      EXCEPT ![a + n] = f.prev[a]]

\* A block goes, or the rest of it takes its place.
LEMMA SplitIs ==
  ASSUME NEW f \in WA, NEW a \in Frame, NEW n \in Nat, n >= 1, f.property[a] >= n
  PROVE  LET g == Split(f, a, n) IN
         /\ g \in WA /\ g.ok = f.ok /\ g.tail = f.tail /\ g.nr_free = f.nr_free
         /\ SplitParts(f, a, n, g)
<1>0. f \in Allocator /\ f.property \in [Frame -> Nat] /\ a + f.property[a] <= NFrames
  BY DEF WA, Allocator
<1> DEFINE g == Split(f, a, n)
           d == list_del(f, a)
           e == [d EXCEPT !.property[a + n] = f.property[a] - n, !.flags = @ \cup {a + n}]
<1>1. /\ d \in Allocator /\ d \in WA /\ d.flags = f.flags /\ d.nr_free = f.nr_free
      /\ d.ok = f.ok /\ d.tail = f.tail
  BY <1>0, DelIs
<1>2. CASE f.property[a] = n
  <2>1. g = d
    BY <1>2 DEF Split
  <2>2. ~(f.property[a] > n)
    BY <1>2
  <2> QED BY <1>1, <1>2, <2>1, <2>2 DEF SplitParts
<1>3. CASE f.property[a] > n
  <2>0. f.property[a] # n /\ f.property[a] \in Nat /\ f.property[a] - n \in Nat
    BY <1>0, <1>3
  <2>1. g = Between(e, a + n, f.prev[a], e.next[f.prev[a]])
    BY <2>0 DEF Split, list_add
  <2>2. a + n \in Frame /\ a + n \in Link /\ f.prev[a] \in Link /\ d.next[f.prev[a]] \in Link
    <3>1. a + n \in Int /\ 0 <= a + n /\ a + n <= NFrames - 1
      BY <1>0, <1>3, <2>0, FrameNat, PmmAssumption
    <3>2. a + n \in Frame
      BY <3>1 DEF Frame
    <3>3. f.prev[a] \in Link
      BY <1>0, AllocatorFields DEF Link
    <3> QED BY <1>1, <3>2, <3>3, AllocatorFields DEF Link
  <2>3. /\ e \in Allocator /\ e.next = d.next /\ e.prev = d.prev /\ e.flags = d.flags \cup {a + n}
        /\ e.property = [d.property EXCEPT ![a + n] = f.property[a] - n] /\ e.nr_free = d.nr_free
        /\ e.ok = d.ok /\ e.tail = d.tail
    <3> HIDE DEF d
    <3> QED BY <1>1, <2>0, <2>2 DEF Allocator
  <2> HIDE DEF d, e
  <2>4. /\ g \in Allocator /\ g.property = e.property /\ g.flags = e.flags /\ g.nr_free = e.nr_free
        /\ g.ok = e.ok /\ g.tail = e.tail
        /\ g.next = [[e.next EXCEPT ![f.prev[a]] = a + n] EXCEPT ![a + n] = e.next[f.prev[a]]]
        /\ g.prev = [[e.prev EXCEPT ![e.next[f.prev[a]]] = a + n] EXCEPT ![a + n] = f.prev[a]]
    <3> DEFINE r == a + n
               p == f.prev[a]
               q == e.next[p]
    <3>1. g = Between(e, r, p, q) /\ r \in Link /\ p \in Link /\ q \in Link /\ e \in Allocator
      BY <2>1, <2>2, <2>3
    <3> HIDE DEF r, p, q, g
    <3>2. /\ g \in Allocator
          /\ g.next = [[e.next EXCEPT ![p] = r] EXCEPT ![r] = q]
          /\ g.prev = [[e.prev EXCEPT ![q] = r] EXCEPT ![r] = p]
          /\ g.property = e.property /\ g.flags = e.flags /\ g.nr_free = e.nr_free
          /\ g.ok = e.ok /\ g.tail = e.tail
      BY ONLY <3>1, BetweenIs
    <3> QED BY <3>2 DEF r, p, q
  <2>5. g \in WA
    <3>1. \A b \in Frame : g.property[b] = d.property[b] \/ (b = a + n /\ g.property[b] = f.property[a] - n)
      BY <1>1, <2>2, <2>3, <2>4, AllocatorFields
    <3>2. (a + n) + (f.property[a] - n) <= NFrames
      BY <1>0, <2>0, FrameNat, PmmAssumption
    <3>3. \A b \in Frame : b + d.property[b] <= NFrames
      BY <1>1 DEF WA
    <3>4. \A b \in Frame : b + g.property[b] <= NFrames
      BY <3>1, <3>2, <3>3
    <3> QED BY <2>4, <3>4 DEF WA
  <2>6. f.property[a] # n
    BY <2>0
  <2>7. SplitParts(f, a, n, g)
    BY <1>1, <2>2, <2>3, <2>4, <2>6 DEF SplitParts, d
  <2> QED BY <1>1, <2>3, <2>4, <2>5, <2>7
<1>4. f.property[a] \in Nat
  BY <1>0
<1> QED BY <1>2, <1>3, <1>4

\* What default_alloc_pages does to each field.
LEMMA TakenIs ==
  ASSUME NEW f \in WA, NEW a \in Frame, NEW n \in Nat, n >= 1, f.property[a] >= n
  PROVE  LET g == Taken(f, a, n) IN
         /\ g \in WA /\ g.ok = f.ok /\ g.tail = f.tail
         /\ g.nr_free = f.nr_free - n /\ g.flags = Split(f, a, n).flags \ {a}
         /\ g.property = Split(f, a, n).property /\ g.next = Split(f, a, n).next
         /\ g.prev = Split(f, a, n).prev
<1> DEFINE g == Taken(f, a, n)
           s == Split(f, a, n)
<1>1. s \in WA /\ s.ok = f.ok /\ s.tail = f.tail /\ s.nr_free = f.nr_free
  <2>1. f \in WA /\ a \in Frame /\ n \in Nat /\ n >= 1 /\ f.property[a] >= n
    OBVIOUS
  <2> QED BY ONLY <2>1, SplitIs
<1>2. s \in Allocator
  BY <1>1 DEF WA
<1>3. g = [s EXCEPT !.nr_free = @ - n, !.flags = @ \ {a}]
  BY DEF Taken
<1> HIDE DEF s
<1>4. /\ g \in Allocator /\ g.ok = s.ok /\ g.tail = s.tail /\ g.nr_free = s.nr_free - n
      /\ g.flags = s.flags \ {a} /\ g.property = s.property /\ g.next = s.next /\ g.prev = s.prev
  <2> HIDE DEF g
  <2>1. /\ g.ok = s.ok /\ g.tail = s.tail /\ g.nr_free = s.nr_free - n
        /\ g.flags = s.flags \ {a} /\ g.property = s.property /\ g.next = s.next /\ g.prev = s.prev
    BY <1>2, <1>3 DEF Allocator
  <2>2. g \in Allocator
    <3>1. s.nr_free - n \in Int /\ s.flags \ {a} \in SUBSET Frame
      BY <1>2, AllocatorFields
    <3> QED BY <1>2, <1>3, <3>1 DEF Allocator
  <2> QED BY <2>1, <2>2
<1>5. g \in WA
  BY <1>1, <1>4 DEF WA
<1> QED BY <1>1, <1>4, <1>5 DEF s

\* What is free, and that no blocks touch, after a change of one block.
LEMMA BlockTaken ==
  ASSUME NEW f, Exact(f), NEW a \in f.flags, NEW n \in Nat, n >= 1, f.property[a] >= n,
         NEW g \in WA, ~g.tail, Linked(g.next, g.prev, g.flags), g.nr_free = f.nr_free - n,
         \/ /\ f.property[a] = n /\ g.flags = f.flags \ {a}
            /\ \A b \in f.flags \ {a} : g.property[b] = f.property[b]
         \/ /\ f.property[a] > n /\ g.flags = (f.flags \ {a}) \cup {a + n}
            /\ \A b \in f.flags \ {a} : g.property[b] = f.property[b]
            /\ g.property[a + n] = f.property[a] - n /\ a + n \notin f.flags
  PROVE  /\ Exact(g) /\ FreeOf(g) = FreeOf(f) \ (a..a + n - 1)
         /\ a..a + n - 1 \in SUBSET FreeOf(f)
<1> DEFINE B == f.flags
           len == f.property
           rest == a + n..a + len[a] - 1
<1>1. Loose(f) /\ B \in SUBSET Frame /\ a \in B /\ \A b \in B : b \in Nat /\ len[b] \in Nat /\ len[b] >= 1
  BY FreeFacts, FrameNat DEF Exact, Loose
<1>2. \A b, c \in B : b < c => b + len[b] < c
  <2> SUFFICES ASSUME NEW b \in B, NEW c \in B, b < c PROVE b + len[b] < c
    OBVIOUS
  <2>1. b + len[b] <= c
    BY DEF Exact, Loose
  <2>2. b + len[b] # c
    BY <1>1 DEF Exact, Touch
  <2> QED BY <1>1, <2>1, <2>2
<1>3. \A b \in B \ {a} : b + len[b] < a \/ a + len[a] < b
  BY <1>1, <1>2
<1>4. len[a] >= n
  OBVIOUS
<1>5. a..a + n - 1 \subseteq a..a + len[a] - 1
  BY <1>1, <1>4
<1>6. a..a + n - 1 \in SUBSET FreeOf(f)
  BY <1>5, FreeFacts, <1>1
<1>7. FreeOf(f) = (a..a + len[a] - 1) \cup UNION {b..b + len[b] - 1 : b \in B \ {a}}
  BY DEF FreeOf
<1>8. \A b \in B \ {a} : (b..b + len[b] - 1) \cap (a..a + len[a] - 1) = {}
  BY <1>1, <1>3
<1>9. (a..a + len[a] - 1) \ (a..a + n - 1) = rest
  BY <1>1, <1>4
<1>10. FreeOf(f) \ (a..a + n - 1) = rest \cup UNION {b..b + len[b] - 1 : b \in B \ {a}}
  <2>1. \A b \in B \ {a} : (b..b + len[b] - 1) \cap (a..a + n - 1) = {}
    BY <1>5, <1>8
  <2> HIDE DEF rest, B, len
  <2> QED BY <1>7, <1>9, <2>1
<1>11. UNION {b..b + g.property[b] - 1 : b \in B \ {a}} = UNION {b..b + len[b] - 1 : b \in B \ {a}}
  <2>1. \A b \in B \ {a} : b..b + g.property[b] - 1 = b..b + len[b] - 1
    OBVIOUS
  <2> HIDE DEF B, len
  <2> QED BY <2>1
<1>12. FreeOf(g) = FreeOf(f) \ (a..a + n - 1)
  <2>1. CASE f.property[a] = n /\ g.flags = B \ {a}
    <3>1. rest = {}
      BY <1>1, <2>1
    <3>2. FreeOf(g) = UNION {b..b + g.property[b] - 1 : b \in B \ {a}}
      BY <2>1 DEF FreeOf
    <3> HIDE DEF B, len, rest
    <3> QED BY <1>10, <1>11, <3>1, <3>2
  <2>2. CASE /\ f.property[a] > n /\ g.flags = (B \ {a}) \cup {a + n}
             /\ g.property[a + n] = len[a] - n
    <3>1. (a + n)..(a + n) + g.property[a + n] - 1 = rest
      <4>1. (a + n) + (len[a] - n) - 1 = a + len[a] - 1
        BY <1>1
      <4> QED BY <2>2, <4>1
    <3>2. FreeOf(g) = ((a + n)..(a + n) + g.property[a + n] - 1)
                        \cup UNION {b..b + g.property[b] - 1 : b \in B \ {a}}
      BY <2>2 DEF FreeOf
    <3> HIDE DEF B, len, rest
    <3> QED BY <1>10, <1>11, <3>1, <3>2
  <2> QED BY <2>1, <2>2
<1>13. g.nr_free = Cardinality(FreeOf(g))
  <2>1. a \in Frame /\ a + n <= NFrames
    <3>1. a + len[a] <= NFrames
      BY <1>1, FreeFacts
    <3> QED BY <1>1, <1>4, <3>1, FrameNat, PmmAssumption
  <2>2. Cardinality(a..a + n - 1) = n /\ IsFiniteSet(a..a + n - 1)
    BY <2>1, RangeSize
  <2>3. IsFiniteSet(FreeOf(f))
    BY <1>1, FreeFacts
  <2>4. (a..a + n - 1) \cap FreeOf(f) = a..a + n - 1
    BY <1>6
  <2>5. /\ Cardinality(FreeOf(f) \ (a..a + n - 1)) = Cardinality(FreeOf(f)) - Cardinality(FreeOf(f) \cap (a..a + n - 1))
    BY <2>3, FS_Difference
  <2>6. FreeOf(f) \cap (a..a + n - 1) = a..a + n - 1
    BY <1>6
  <2>7. f.nr_free = Cardinality(FreeOf(f))
    BY <1>1 DEF Loose
  <2> QED BY <1>12, <2>2, <2>5, <2>6, <2>7
<1>14. /\ \A b \in g.flags : g.property[b] >= 1
       /\ \A b, c \in g.flags : b < c => b + g.property[b] < c
       /\ \A b \in g.flags : b \in Nat /\ g.property[b] \in Nat
  <2>1. CASE g.flags = B \ {a}
    BY <1>1, <1>2, <2>1
  <2>2. CASE /\ f.property[a] > n /\ g.flags = (B \ {a}) \cup {a + n}
             /\ g.property[a + n] = len[a] - n
    <3>1. \A b \in B \ {a} : /\ g.property[b] = len[b] /\ b \in Nat /\ len[b] \in Nat /\ len[b] >= 1
                             /\ (b + len[b] < a \/ a + len[a] < b)
      BY <1>1, <1>3
    <3>2. a + n \in Nat /\ len[a] - n \in Nat /\ len[a] - n >= 1 /\ (a + n) + (len[a] - n) = a + len[a]
          /\ a < a + n /\ a + n < a + len[a] /\ a + len[a] \in Nat
      BY <1>1, <2>2
    <3>3. \A b \in B \ {a} : b < a + n => b + len[b] < a + n
      BY <3>1, <3>2, <1>1
    <3>4. \A b \in B \ {a} : a + n < b => (a + n) + (len[a] - n) < b
      BY <3>1, <3>2, <1>1
    <3>5. \A b, c \in B \ {a} : b < c => b + g.property[b] < c
      BY <1>2, <3>1
    <3>6. ~(a + n < a + n)
      BY <3>2
    <3>7. \A b \in g.flags : b \in B \ {a} \/ b = a + n
      BY <2>2
    <3> HIDE DEF B, len
    <3>8. ASSUME NEW b \in g.flags, NEW c \in g.flags, b < c PROVE b + g.property[b] < c
      <4>1. CASE b \in B \ {a} /\ c \in B \ {a}
        BY <3>5, <3>8, <4>1
      <4>2. CASE b \in B \ {a} /\ c = a + n
        BY <3>1, <3>3, <3>8, <4>2
      <4>3. CASE b = a + n /\ c \in B \ {a}
        BY <2>2, <3>4, <3>8, <4>3
      <4>4. CASE b = a + n /\ c = a + n
        BY <3>6, <3>8, <4>4
      <4> QED BY <3>7, <4>1, <4>2, <4>3, <4>4
    <3>9. \A b \in g.flags : g.property[b] >= 1 /\ b \in Nat /\ g.property[b] \in Nat
      BY <2>2, <3>1, <3>2, <3>7
    <3> QED BY <3>8, <3>9
  <2> QED BY <2>1, <2>2
<1>15. \A b, c \in g.flags : b < c => b + g.property[b] <= c
  BY <1>14
<1>16. ASSUME NEW b \in Frame, NEW c \in Frame, Touch(g, b, c) PROVE FALSE
  <2>1. b \in g.flags /\ c \in g.flags /\ b + g.property[b] = c
    BY <1>16 DEF Touch
  <2>2. b < c
    BY <1>14, <2>1
  <2> QED BY <1>14, <2>1, <2>2
<1> QED BY <1>6, <1>12, <1>13, <1>14, <1>15, <1>16 DEF Exact, Loose

\* Links are numbers.
LEMMA LinkInt == \A e \in Link : e \in Int
BY FrameNat DEF Link, free_list

\* default_alloc_pages, from an exact list.
LEMMA TakenExact ==
  ASSUME NEW f, Exact(f), NEW a \in f.flags, NEW n \in Nat, n >= 1, f.property[a] >= n
  PROVE  LET g == Taken(f, a, n) IN
         /\ Exact(g) /\ g.ok = f.ok /\ FreeOf(g) = FreeOf(f) \ (a..a + n - 1)
         /\ a..a + n - 1 \in SUBSET FreeOf(f)
<1> DEFINE g == Taken(f, a, n)
           s == Split(f, a, n)
           d == list_del(f, a)
           p == f.prev[a]
           r == a + n
           B == f.flags
<1>1. /\ f \in WA /\ f \in Allocator /\ ~f.tail /\ B \in SUBSET Frame /\ a \in Frame
      /\ f.next \in [Link -> Link] /\ f.prev \in [Link -> Link] /\ f.property \in [Frame -> Nat]
      /\ Linked(f.next, f.prev, B) /\ Loose(f)
  BY AllocatorFields DEF Exact, Loose, WA
<1>2. /\ g \in WA /\ g.ok = f.ok /\ g.tail = f.tail /\ g.nr_free = f.nr_free - n
      /\ g.flags = s.flags \ {a} /\ g.property = s.property /\ g.next = s.next /\ g.prev = s.prev
  BY <1>1, TakenIs
<1>3. /\ f.property[a] = n => s = d
      /\ f.property[a] > n =>
              /\ r \in Frame /\ s.flags = B \cup {r}
              /\ s.property = [d.property EXCEPT ![r] = f.property[a] - n]
              /\ s.next = [[d.next EXCEPT ![p] = r] EXCEPT ![r] = d.next[p]]
              /\ s.prev = [[d.prev EXCEPT ![d.next[p]] = r] EXCEPT ![r] = p]
  <2>1. SplitParts(f, a, n, s)
    BY <1>1, SplitIs
  <2> QED BY ONLY <2>1 DEF SplitParts
<1>4. /\ d.flags = B /\ d \in Allocator
      /\ d.next = [[f.next EXCEPT ![p] = f.next[a]] EXCEPT ![a] = free_list]
      /\ d.prev = [[f.prev EXCEPT ![f.next[a]] = p] EXCEPT ![a] = free_list]
      /\ d.property = [f.property EXCEPT ![a] = 0]
  BY <1>1, DelIs
<1>5. Linked(d.next, d.prev, B \ {a})
  <2> DEFINE nx == d.next
             pv == d.prev
             next == f.next
             prev == f.prev
  <2>1. /\ nx = [[next EXCEPT ![prev[a]] = next[a]] EXCEPT ![a] = free_list]
        /\ pv = [[prev EXCEPT ![next[a]] = prev[a]] EXCEPT ![a] = free_list]
        /\ next \in [Link -> Link] /\ prev \in [Link -> Link] /\ Linked(next, prev, B)
    BY <1>1, <1>4
  <2> HIDE DEF nx, pv, next, prev
  <2>2. Linked(nx, pv, B \ {a})
    BY <1>1, <2>1, Unlinked
  <2> QED BY <2>2 DEF nx, pv
<1>6. p \in B \cup {free_list} /\ p < a /\ p # a /\ a # free_list /\ a \in Link /\ p \in Link
  <2>1. p \in B \cup {free_list} /\ a # free_list /\ p < a
    <3> DEFINE next == f.next
               prev == f.prev
    <3>1. /\ B \in SUBSET Frame /\ next \in [Link -> Link] /\ prev \in [Link -> Link]
          /\ Linked(next, prev, B) /\ a \in B
      BY <1>1
    <3>2. a # free_list
      BY <1>1, Frames
    <3> HIDE DEF B, next, prev
    <3>3. prev[a] \in B \cup {free_list} /\ (a # free_list => prev[a] < a)
      BY ONLY <3>1, HasPrev
    <3> QED BY <3>2, <3>3 DEF prev
  <2>2. p \in Int /\ a \in Int
    <3> HIDE DEF p
    <3> QED BY <1>1, <2>1, LinkInt DEF Link
  <2> QED BY <1>1, <2>1, <2>2, Frames
<1>7. f.property[a] \in Nat
  BY <1>1
<1>8. CASE f.property[a] = n
  <2>1. g.flags = B \ {a} /\ Linked(g.next, g.prev, g.flags)
    <3>1. s = d
      BY <1>3, <1>8
    <3> HIDE DEF s, d, g
    <3> QED BY <1>2, <1>4, <1>5, <3>1
  <2>2. \A b \in B \ {a} : g.property[b] = f.property[b]
    BY <1>1, <1>2, <1>3, <1>4, <1>8
  <2>3. ~g.tail /\ g \in WA /\ g.nr_free = f.nr_free - n
    BY <1>1, <1>2
  <2> HIDE DEF g, s, d
  <2>4. /\ Exact(g) /\ FreeOf(g) = FreeOf(f) \ (a..a + n - 1)
        /\ a..a + n - 1 \in SUBSET FreeOf(f)
    <3>1. \/ /\ f.property[a] = n /\ g.flags = f.flags \ {a}
             /\ \A b \in f.flags \ {a} : g.property[b] = f.property[b]
          \/ /\ f.property[a] > n /\ g.flags = (f.flags \ {a}) \cup {a + n}
             /\ \A b \in f.flags \ {a} : g.property[b] = f.property[b]
             /\ g.property[a + n] = f.property[a] - n /\ a + n \notin f.flags
      BY <1>8, <2>1, <2>2
    <3>2. ~g.tail /\ g \in WA /\ g.nr_free = f.nr_free - n /\ Linked(g.next, g.prev, g.flags)
      BY <2>1, <2>3
    <3> QED BY <3>1, <3>2, BlockTaken
  <2> QED BY <1>2, <2>4 DEF g
<1>9. CASE f.property[a] > n
  <2>1. /\ r \in Frame /\ r \in Link /\ g.flags = (B \cup {r}) \ {a}
        /\ g.property = [d.property EXCEPT ![r] = f.property[a] - n]
        /\ g.next = [[d.next EXCEPT ![p] = r] EXCEPT ![r] = d.next[p]]
        /\ g.prev = [[d.prev EXCEPT ![d.next[p]] = r] EXCEPT ![r] = p]
    BY <1>2, <1>3, <1>9 DEF Link
  <2>2. r \in Int /\ a \in Int /\ a < r /\ r < a + f.property[a]
    BY <1>1, <1>7, <1>9, FrameNat
  <2>3. \A b \in B : b \in Int /\ (a < b => r < b)
    <3> TAKE b \in B
    <3>1. b \in Int
      BY <1>1, FrameNat
    <3>2. a < b => a + f.property[a] <= b
      BY <1>1 DEF Loose
    <3> QED BY <1>7, <2>2, <3>1, <3>2
  <2>4. r \notin B /\ r # a
    BY <2>2, <2>3
  <2>5. g.flags = (B \ {a}) \cup {r}
    BY <2>1, <2>4
  <2>6. d.next[p] = f.next[a]
    BY <1>1, <1>4, <1>6
  <2>7. d.next[p] = free_list \/ r < d.next[p]
    <3>1. After(B, a, f.next[a])
      BY <1>1 DEF Linked, Chained
    <3> QED BY <2>3, <2>6, <3>1 DEF After
  <2>8. p < r
    <3>1. p \in Link /\ p < a
      BY <1>6
    <3> HIDE DEF p
    <3>2. p \in Int
      BY <3>1, LinkInt
    <3> QED BY <2>2, <3>1, <3>2
  <2>9. /\ B \ {a} \in SUBSET Frame /\ p \in (B \ {a}) \cup {free_list} /\ r \notin B \ {a}
        /\ d.next \in [Link -> Link] /\ d.prev \in [Link -> Link]
    BY <1>1, <1>4, <1>6, <2>4, AllocatorFields
  <2>10. Linked(g.next, g.prev, (B \ {a}) \cup {r})
    <3> DEFINE nx == g.next
               pv == g.prev
               C == B \ {a}
    <3>1. /\ nx = [[d.next EXCEPT ![p] = r] EXCEPT ![r] = d.next[p]]
          /\ pv = [[d.prev EXCEPT ![d.next[p]] = r] EXCEPT ![r] = p]
      BY <2>1
    <3>2. Linked(d.next, d.prev, C) /\ C \in SUBSET Frame /\ p \in C \cup {free_list} /\ r \notin C
      BY <1>5, <2>9
    <3> HIDE DEF nx, pv, d, r, p, C
    <3>3. Linked(nx, pv, C \cup {r})
      BY <2>1, <2>7, <2>8, <2>9, <3>1, <3>2, Relinked
    <3> QED BY <3>3 DEF nx, pv, C
  <2>11. \A b \in B \ {a} : g.property[b] = f.property[b]
    BY <1>1, <1>4, <2>1, <2>4
  <2>12. g.property[r] = f.property[a] - n
    BY <1>4, <2>1, AllocatorFields
  <2>13. ~g.tail /\ g \in WA /\ g.nr_free = f.nr_free - n /\ Linked(g.next, g.prev, g.flags)
    BY <1>1, <1>2, <2>5, <2>10
  <2> HIDE DEF g, s, d
  <2>14. /\ Exact(g) /\ FreeOf(g) = FreeOf(f) \ (a..a + n - 1)
         /\ a..a + n - 1 \in SUBSET FreeOf(f)
    BY <1>2, <1>9, <2>4, <2>5, <2>11, <2>12, <2>13, BlockTaken
  <2> QED BY <1>2, <2>14 DEF g
<1>10. f.property[a] >= n
  OBVIOUS
<1> QED BY <1>7, <1>8, <1>9, <1>10

-----------------------------------------------------------------------------
(***************************************************************************)
(* default_free_pages.                                                     *)
(***************************************************************************)
\* Two blocks become one.
LEMMA JoinWA ==
  ASSUME NEW f \in WA, NEW a \in Frame, NEW b \in Frame, a + f.property[a] = b
  PROVE  LET g == Join(f, a, b) IN
         /\ g \in WA /\ g.ok = f.ok /\ g.tail = f.tail /\ g.nr_free = f.nr_free /\ g.flags = f.flags \ {b}
<1> DEFINE g == Join(f, a, b)
           k == f.property[a] + f.property[b]
           e == [f EXCEPT !.property[a] = @ + f.property[b], !.flags = @ \ {b}]
<1>0. f \in Allocator /\ f.property \in [Frame -> Nat] /\ f.flags \in SUBSET Frame
      /\ \A x \in Frame : x + f.property[x] <= NFrames
  BY AllocatorFields DEF WA
<1>1. k \in Nat
  BY <1>0
<1>2. e = [f EXCEPT !.property[a] = k, !.flags = f.flags \ {b}]
  BY <1>0 DEF Allocator
<1> HIDE DEF e, k
<1>3. /\ e.next = f.next /\ e.prev = f.prev /\ e.property = [f.property EXCEPT ![a] = k]
      /\ e.flags = f.flags \ {b} /\ e.nr_free = f.nr_free /\ e.ok = f.ok /\ e.tail = f.tail
  BY <1>0, <1>2 DEF Allocator
<1>4. e \in Allocator
  <2>1. [f.property EXCEPT ![a] = k] \in [Frame -> Nat] /\ f.flags \ {b} \in SUBSET Frame
    BY <1>0, <1>1
  <2> QED BY <1>0, <1>2, <2>1 DEF Allocator
<1>5. e \in WA
  <2>1. a + k <= NFrames
    <3>1. b + f.property[b] <= NFrames
      BY <1>0
    <3>2. a \in Int /\ b \in Int /\ f.property[a] \in Nat /\ f.property[b] \in Nat
      BY <1>0, FrameNat
    <3> QED BY <3>1, <3>2 DEF k
  <2>2. \A x \in Frame : e.property[x] = IF x = a THEN k ELSE f.property[x]
    BY <1>0, <1>3
  <2>3. \A x \in Frame : x + e.property[x] <= NFrames
    BY <1>0, <2>1, <2>2
  <2> QED BY <1>4, <2>3 DEF WA
<1>6. g = list_del(e, b)
  BY DEF Join, e
<1> HIDE DEF g
<1> DEFINE d == list_del(e, b)
<1>7. /\ d.flags = e.flags /\ d.nr_free = e.nr_free
      /\ d.ok = e.ok /\ d.tail = e.tail
      /\ d \in WA
  BY <1>4, <1>5, DelIs
<1> HIDE DEF d
<1>8. g = d
  BY <1>6 DEF d
<1>9. /\ g \in WA /\ g.ok = f.ok /\ g.tail = f.tail /\ g.nr_free = f.nr_free /\ g.flags = f.flags \ {b}
  BY <1>3, <1>7, <1>8
<1> QED BY <1>9 DEF g, k

\* What joining a block to the one behind it does to each field.
LEMMA JoinIs ==
  ASSUME NEW f \in WA, NEW a \in Frame, NEW b \in Frame, a + f.property[a] = b, ~f.tail
  PROVE  LET g == Join(f, a, b) IN
         /\ g.ok = f.ok /\ g.tail = f.tail /\ g.nr_free = f.nr_free /\ g.flags = f.flags \ {b}
         /\ g.next = [[f.next EXCEPT ![f.prev[b]] = f.next[b]] EXCEPT ![b] = free_list]
         /\ g.prev = [[f.prev EXCEPT ![f.next[b]] = f.prev[b]] EXCEPT ![b] = free_list]
         /\ g.property = [[f.property EXCEPT ![a] = f.property[a] + f.property[b]] EXCEPT ![b] = 0]
<1> DEFINE g == Join(f, a, b)
           k == f.property[a] + f.property[b]
           e == [f EXCEPT !.property[a] = @ + f.property[b], !.flags = @ \ {b}]
<1>0. f \in Allocator /\ f.property \in [Frame -> Nat] /\ f.flags \in SUBSET Frame
      /\ \A x \in Frame : x + f.property[x] <= NFrames
  BY AllocatorFields DEF WA
<1>1. k \in Nat
  BY <1>0
<1>2. e = [f EXCEPT !.property[a] = k, !.flags = f.flags \ {b}]
  BY <1>0 DEF Allocator
<1> HIDE DEF e, k
<1>3. /\ e.next = f.next /\ e.prev = f.prev /\ e.property = [f.property EXCEPT ![a] = k]
      /\ e.flags = f.flags \ {b} /\ e.nr_free = f.nr_free /\ e.ok = f.ok /\ e.tail = f.tail
  BY <1>0, <1>2 DEF Allocator
<1>4. e \in Allocator
  <2>1. [f.property EXCEPT ![a] = k] \in [Frame -> Nat] /\ f.flags \ {b} \in SUBSET Frame
    BY <1>0, <1>1
  <2> QED BY <1>0, <1>2, <2>1 DEF Allocator
<1>6. g = list_del(e, b)
  BY DEF Join, e
<1> HIDE DEF g
<1> DEFINE d == list_del(e, b)
<1>7. /\ d.flags = e.flags /\ d.nr_free = e.nr_free
      /\ d.ok = e.ok /\ d.tail = e.tail
      /\ d.next = [[e.next EXCEPT ![e.prev[b]] = e.next[b]] EXCEPT ![b] = free_list]
      /\ d.prev = [[e.prev EXCEPT ![e.next[b]] = e.prev[b]] EXCEPT ![b] = free_list]
      /\ d.property = [e.property EXCEPT ![b] = 0]
  BY <1>0, <1>3, <1>4, DelIs
<1> HIDE DEF d
<1>8. g = d
  BY <1>6 DEF d
<1>9. /\ g.ok = f.ok /\ g.tail = f.tail /\ g.nr_free = f.nr_free /\ g.flags = f.flags \ {b}
  BY <1>3, <1>7, <1>8
<1>10. /\ g.next = [[f.next EXCEPT ![f.prev[b]] = f.next[b]] EXCEPT ![b] = free_list]
       /\ g.prev = [[f.prev EXCEPT ![f.next[b]] = f.prev[b]] EXCEPT ![b] = free_list]
       /\ g.property = [[f.property EXCEPT ![a] = k] EXCEPT ![b] = 0]
  BY <1>3, <1>7, <1>8
<1> QED BY <1>9, <1>10 DEF g, k

\* A block and the one right behind it.
LEMMA JoinLoose ==
  ASSUME NEW f, Loose(f), NEW x \in Frame, NEW y \in Frame, Touch(f, x, y)
  PROVE  LET g == Join(f, x, y) IN
         /\ Loose(g) /\ g.ok = f.ok /\ FreeOf(g) = FreeOf(f) /\ g.flags = f.flags \ {y}
         /\ \A b, c \in Frame : Touch(g, b, c) =>
              \/ b # x /\ b # y /\ c # y /\ Touch(f, b, c)
              \/ b = x /\ Touch(f, y, c)
<1> DEFINE g == Join(f, x, y)
           B == f.flags
           C == B \ {y}
           len == f.property
<1>1. /\ f \in WA /\ f \in Allocator /\ ~f.tail /\ B \in SUBSET Frame /\ x \in B /\ y \in B
      /\ f.next \in [Link -> Link] /\ f.prev \in [Link -> Link] /\ f.property \in [Frame -> Nat]
      /\ Linked(f.next, f.prev, B) /\ x + f.property[x] = y
  BY AllocatorFields DEF Loose, WA, Touch
<1>2. /\ g \in WA /\ g.ok = f.ok /\ g.tail = f.tail /\ g.nr_free = f.nr_free /\ g.flags = C
      /\ g.next = [[f.next EXCEPT ![f.prev[y]] = f.next[y]] EXCEPT ![y] = free_list]
      /\ g.prev = [[f.prev EXCEPT ![f.next[y]] = f.prev[y]] EXCEPT ![y] = free_list]
      /\ g.property = [[f.property EXCEPT ![x] = f.property[x] + f.property[y]] EXCEPT ![y] = 0]
  <2>1. /\ f \in WA /\ x \in Frame /\ y \in Frame /\ x + f.property[x] = y /\ ~f.tail
    BY <1>1
  <2>2. g \in WA
    BY ONLY <2>1, JoinWA
  <2>3. /\ g.ok = f.ok /\ g.tail = f.tail /\ g.nr_free = f.nr_free /\ g.flags = C
        /\ g.next = [[f.next EXCEPT ![f.prev[y]] = f.next[y]] EXCEPT ![y] = free_list]
        /\ g.prev = [[f.prev EXCEPT ![f.next[y]] = f.prev[y]] EXCEPT ![y] = free_list]
        /\ g.property = [[f.property EXCEPT ![x] = f.property[x] + f.property[y]] EXCEPT ![y] = 0]
    BY ONLY <2>1, JoinIs
  <2> QED BY <2>2, <2>3
<1> HIDE DEF g
<1>3. Linked(g.next, g.prev, C)
  <2> DEFINE nx == g.next
             pv == g.prev
             next == f.next
             prev == f.prev
  <2>1. /\ nx = [[next EXCEPT ![prev[y]] = next[y]] EXCEPT ![y] = free_list]
        /\ pv = [[prev EXCEPT ![next[y]] = prev[y]] EXCEPT ![y] = free_list]
        /\ next \in [Link -> Link] /\ prev \in [Link -> Link] /\ Linked(next, prev, B)
    BY <1>1, <1>2
  <2> HIDE DEF nx, pv, next, prev
  <2>2. Linked(nx, pv, B \ {y})
    BY <1>1, <2>1, Unlinked
  <2> QED BY <2>2 DEF nx, pv
<1>4. \A b \in B : b \in Nat /\ len[b] \in Nat /\ len[b] >= 1
  BY <1>1, FrameNat DEF Loose
<1>5. x # y /\ x < y /\ x \in C
  BY <1>1, <1>4
<1>6. /\ g.property[x] = len[x] + len[y]
      /\ \A b \in C : b # x => g.property[b] = len[b]
  BY <1>1, <1>2, <1>5
<1>7. \A b, c \in B : b < c => b + len[b] <= c
  BY DEF Loose
<1> HIDE DEF B, len, C
<1>8. \A b \in C : b \in B /\ b # y /\ b \in Nat /\ len[b] \in Nat /\ len[b] >= 1
  BY <1>4 DEF C
<1>9. x \in Nat /\ y \in Nat /\ len[x] \in Nat /\ len[y] \in Nat /\ len[x] >= 1 /\ len[y] >= 1 /\ x + len[x] = y
      /\ x \in B /\ y \in B
  BY <1>1, <1>4 DEF B, len
<1>10. \A b \in C : g.property[b] \in Nat /\ g.property[b] >= 1
  BY <1>6, <1>8, <1>9
<1>11. ASSUME NEW b \in C, NEW c \in C, b < c PROVE b + g.property[b] <= c
  <2>1. CASE b # x
    BY <1>6, <1>7, <1>8, <1>11, <2>1
  <2>2. CASE b = x
    <3>1. c \in Nat /\ c # y /\ x < c /\ c \in B
      BY <1>8, <1>11, <2>2
    <3>2. x + len[x] <= c
      BY <1>7, <1>9, <3>1
    <3>3. y < c
      BY <1>9, <3>1, <3>2
    <3>4. y + len[y] <= c
      BY <1>7, <1>9, <3>1, <3>3
    <3> QED BY <1>6, <1>9, <2>2, <3>1, <3>4
  <2> QED BY <2>1, <2>2
<1>12. FreeOf(g) = FreeOf(f)
  <2> DEFINE D == B \ {x, y}
             U == UNION {b..b + len[b] - 1 : b \in D}
             V == UNION {b..b + g.property[b] - 1 : b \in D}
  <2>0. D \subseteq C
    BY DEF C
  <2>1. \A b \in D : g.property[b] = len[b]
    BY <1>6, <2>0
  <2>2. U = V
    <3>1. \A b \in D : b..b + len[b] - 1 = b..b + g.property[b] - 1
      BY <2>1
    <3> HIDE DEF D
    <3> QED BY <3>1
  <2>3. FreeOf(f) = UNION {b..b + len[b] - 1 : b \in B}
    BY DEF FreeOf, B, len
  <2>4. B = D \cup {x, y}
    BY <1>9
  <2>5. FreeOf(f) = U \cup (x..x + len[x] - 1) \cup (y..y + len[y] - 1)
    <3> HIDE DEF D
    <3> QED BY <2>3, <2>4
  <2>6. FreeOf(g) = UNION {b..b + g.property[b] - 1 : b \in C}
    BY <1>2 DEF FreeOf
  <2>7. C = D \cup {x}
    BY <1>5, <1>9 DEF C
  <2>8. FreeOf(g) = V \cup (x..x + g.property[x] - 1)
    <3> HIDE DEF D
    <3> QED BY <2>6, <2>7
  <2>9. (x..x + len[x] - 1) \cup (y..y + len[y] - 1) = x..x + g.property[x] - 1
    BY <1>6, <1>9
  <2> HIDE DEF U, V, D
  <2> QED BY <2>2, <2>5, <2>8, <2>9
<1>13. g.nr_free = Cardinality(FreeOf(g))
  BY <1>2, <1>12 DEF Loose
<1>14. Loose(g)
  <2>1. /\ \A b \in g.flags : g.property[b] >= 1
        /\ \A b, c \in g.flags : b < c => b + g.property[b] <= c
        /\ Linked(g.next, g.prev, g.flags)
    BY <1>2, <1>3, <1>10, <1>11
  <2> QED BY <1>1, <1>2, <1>13, <2>1 DEF Loose
<1>15. ASSUME NEW b \in Frame, NEW c \in Frame, Touch(g, b, c)
       PROVE  \/ b # x /\ b # y /\ c # y /\ Touch(f, b, c)
              \/ b = x /\ Touch(f, y, c)
  <2>1. b \in C /\ c \in C /\ b + g.property[b] = c
    BY <1>2, <1>15 DEF Touch
  <2>2. b # y /\ c # y /\ b \in B /\ c \in B
    BY <1>8, <2>1
  <2>3. CASE b # x
    BY <1>6, <2>1, <2>2, <2>3 DEF Touch, B, len
  <2>4. CASE b = x
    <3>1. x + (len[x] + len[y]) = c
      BY <1>6, <2>1, <2>4
    <3>2. y + len[y] = c
      BY <1>9, <3>1
    <3> QED BY <1>9, <2>2, <2>4, <3>2 DEF Touch, B, len
  <2> QED BY <2>3, <2>4
<1> HIDE DEF g
<1>16. g.flags = f.flags \ {y}
  BY <1>2 DEF C, B
<1>17. g.ok = f.ok
  BY <1>2
<1> QED BY <1>12, <1>14, <1>15, <1>16, <1>17 DEF g

\* What follows a block in the list is the one it can touch.
LEMMA NextIsTouched ==
  ASSUME NEW f, Loose(f), NEW x \in f.flags, NEW c \in Frame, Touch(f, x, c)
  PROVE  f.next[x] = c /\ IsBefore(f, x, c)
<1>1. /\ f.flags \in SUBSET Frame /\ x \in Frame /\ c \in f.flags /\ x + f.property[x] = c
      /\ f.property[x] \in Nat /\ f.property[x] >= 1 /\ x \in Nat /\ c \in Nat
  BY FreeFacts, FrameNat DEF Loose, Touch
<1>2. After(f.flags, x, f.next[x])
  BY DEF Loose, Linked, Chained
<1>3. x < c
  BY <1>1
<1> DEFINE n == f.next[x]
<1>4. n \in f.flags /\ x < n /\ n <= c
  BY <1>1, <1>2, <1>3 DEF After
<1>5. x + f.property[x] <= n
  BY <1>4 DEF Loose
<1>6. n \in Int
  <2> HIDE DEF n
  <2> QED BY <1>1, <1>4, FrameNat
<1>7. n = c
  <2> HIDE DEF n
  <2> QED BY <1>1, <1>4, <1>5, <1>6
<1>8. x # free_list /\ c # free_list
  BY <1>1, Frames
<1> QED BY <1>1, <1>7, <1>8 DEF IsBefore

\* The block joins the one behind it.
LEMMA JoinNextExact ==
  ASSUME NEW f, Loose(f), NEW x \in f.flags, \A b, c \in Frame : Touch(f, b, c) => b = x
  PROVE  LET g == JoinedNext(f, x) IN Exact(g) /\ FreeOf(g) = FreeOf(f) /\ g.ok = f.ok
<1> DEFINE y == f.next[x]
           g == Join(f, x, y)
<1>1. f.flags \in SUBSET Frame /\ x \in Frame /\ After(f.flags, x, y)
  BY FreeFacts DEF Loose, Linked, Chained
<1>2. CASE IsBefore(f, x, y)
  <2>1. JoinedNext(f, x) = g
    BY <1>2 DEF JoinedNext
  <2>2. y \in f.flags /\ y \in Frame /\ Touch(f, x, y)
    <3>1. y # free_list /\ x + f.property[x] = y
      BY <1>2 DEF IsBefore
    <3>2. y \in f.flags
      BY <1>1, <3>1 DEF After
    <3> HIDE DEF y
    <3> QED BY <1>1, <3>1, <3>2 DEF Touch
  <2> HIDE DEF y
  <2>3. /\ Loose(g) /\ g.ok = f.ok /\ FreeOf(g) = FreeOf(f)
        /\ \A b, c \in Frame : Touch(g, b, c) =>
              \/ b # x /\ b # y /\ c # y /\ Touch(f, b, c)
              \/ b = x /\ Touch(f, y, c)
    BY <1>1, <2>2, JoinLoose
  <2>4. x # y
    <3>1. f.property[x] \in Nat /\ f.property[x] >= 1 /\ x \in Nat /\ x + f.property[x] = y
      BY <1>1, <2>2, FreeFacts, FrameNat DEF Loose, Touch
    <3> QED BY <3>1
  <2> HIDE DEF g
  <2>5. \A b, c \in Frame : ~Touch(g, b, c)
    BY <2>2, <2>3, <2>4
  <2> QED BY <2>1, <2>3, <2>5 DEF Exact
<1>3. CASE ~IsBefore(f, x, y)
  <2>1. JoinedNext(f, x) = f
    BY <1>3 DEF JoinedNext
  <2>2. \A c \in Frame : ~Touch(f, x, c)
    BY <1>3, NextIsTouched
  <2>3. \A b, c \in Frame : ~Touch(f, b, c)
    BY <2>2
  <2> QED BY <2>1, <2>3 DEF Exact
<1> QED BY <1>2, <1>3

\* Nothing but the block x touches another one: then it joins them.
LEMMA JoinedExact ==
  ASSUME NEW f, Loose(f), NEW x \in f.flags, \A b, c \in Frame : Touch(f, b, c) => b = x \/ c = x
  PROVE  LET g == Joined(f, x) IN Exact(g) /\ FreeOf(g) = FreeOf(f) /\ g.ok = f.ok
<1> DEFINE p == f.prev[x]
           g == Join(f, p, x)
<1>1. /\ f.flags \in SUBSET Frame /\ x \in Frame /\ Linked(f.next, f.prev, f.flags)
      /\ f.next \in [Link -> Link] /\ f.prev \in [Link -> Link] /\ x # free_list
  BY FreeFacts, AllocatorFields, Frames DEF Loose
<1>2. p \in f.flags \cup {free_list} /\ p < x /\ \A b \in f.flags : b < x => b <= p
  BY <1>1, HasPrev
<1>3. \A b \in f.flags : b \in Nat /\ f.property[b] \in Nat /\ f.property[b] >= 1
  BY <1>1, FreeFacts, FrameNat DEF Loose
<1> HIDE DEF p
<1>4. CASE IsBefore(f, p, x)
  <2>1. Joined(f, x) = JoinedNext(g, p)
    BY <1>4 DEF Joined, p
  <2>2. p \in f.flags /\ p \in Frame /\ Touch(f, p, x)
    BY <1>1, <1>2, <1>4 DEF IsBefore, Touch
  <2>3. /\ Loose(g) /\ g.ok = f.ok /\ FreeOf(g) = FreeOf(f) /\ g.flags = f.flags \ {x}
        /\ \A b, c \in Frame : Touch(g, b, c) =>
              \/ b # p /\ b # x /\ c # x /\ Touch(f, b, c)
              \/ b = p /\ Touch(f, x, c)
    BY <1>1, <2>2, JoinLoose
  <2>4. p \in g.flags
    <3>1. p # x
      BY <1>2, <1>3, <2>2
    <3> QED BY <2>2, <2>3, <3>1
  <2> HIDE DEF g
  <2>5. \A b, c \in Frame : Touch(g, b, c) => b = p
    BY <2>3
  <2>6. LET h == JoinedNext(g, p) IN Exact(h) /\ FreeOf(h) = FreeOf(g) /\ h.ok = g.ok
    BY <2>3, <2>4, <2>5, JoinNextExact
  <2> QED BY <2>1, <2>3, <2>6
<1>5. CASE ~IsBefore(f, p, x)
  <2>1. Joined(f, x) = JoinedNext(f, x)
    BY <1>5 DEF Joined, p
  <2>2. ASSUME NEW b \in Frame, Touch(f, b, x) PROVE FALSE
    <3>1. b \in f.flags /\ b + f.property[b] = x
      BY <2>2 DEF Touch
    <3>2. b < x
      BY <1>3, <3>1
    <3>3. b <= p
      BY <1>2, <3>1, <3>2
    <3>4. p \in f.flags /\ p \in Nat
      <4>1. free_list < b
        BY <3>1, <1>1, Frames
      <4>2. b \in Nat /\ free_list \in Int
        BY <1>3, <3>1, Frames
      <4>3. p # free_list
        BY <3>3, <4>1, <4>2
      <4> QED BY <1>2, <1>3, <4>3
    <3>5. b # p
      BY <1>1, <1>5, <3>1, <3>4, Frames DEF IsBefore
    <3>6. b < p
      BY <1>3, <3>1, <3>3, <3>4, <3>5
    <3>7. b + f.property[b] <= p
      BY <3>1, <3>4, <3>6 DEF Loose
    <3> QED BY <1>2, <1>3, <3>1, <3>4, <3>7
  <2>3. \A b, c \in Frame : Touch(f, b, c) => b = x
    BY <2>2
  <2>4. LET h == JoinedNext(f, x) IN Exact(h) /\ FreeOf(h) = FreeOf(f) /\ h.ok = f.ok
    BY <2>3, JoinNextExact
  <2> QED BY <2>1, <2>4
<1> QED BY <1>4, <1>5

-----------------------------------------------------------------------------
\* A block that is put between two others.
PutIn(f, a, n, g) ==
  /\ n >= 1 /\ a + n <= NFrames /\ (a..a + n - 1) \cap FreeOf(f) = {}
  /\ g \in WA /\ ~g.tail /\ g.flags = f.flags \cup {a} /\ g.nr_free = f.nr_free + n
  /\ g.property[a] = n /\ (\A b \in f.flags : b # a => g.property[b] = f.property[b])
  /\ Linked(g.next, g.prev, g.flags)

\* It touches others on its own account only.
LEMMA PutInLoose ==
  ASSUME NEW f, Exact(f), NEW a \in Frame, NEW n \in Nat, NEW g, PutIn(f, a, n, g)
  PROVE  /\ Loose(g) /\ FreeOf(g) = FreeOf(f) \cup (a..a + n - 1)
         /\ \A b, c \in Frame : Touch(g, b, c) => b = a \/ c = a
<1>0. /\ n >= 1 /\ a + n <= NFrames /\ (a..a + n - 1) \cap FreeOf(f) = {}
      /\ g \in WA /\ ~g.tail /\ g.flags = f.flags \cup {a} /\ g.nr_free = f.nr_free + n
      /\ g.property[a] = n /\ (\A b \in f.flags : b # a => g.property[b] = f.property[b])
      /\ Linked(g.next, g.prev, g.flags)
  BY DEF PutIn
<1> USE <1>0
<1> DEFINE B == f.flags
           len == f.property
<1>1. /\ B \in SUBSET Frame /\ len \in [Frame -> Nat] /\ Loose(f)
      /\ \A b \in B : b \in Nat /\ len[b] \in Nat /\ len[b] >= 1 /\ b..b + len[b] - 1 \in SUBSET FreeOf(f)
  BY FreeFacts, AllocatorFields, FrameNat DEF Exact, Loose, WA
<1>2. a \in Nat /\ a \in a..a + n - 1
  BY FrameNat
<1>3. a \notin B
  <2>1. \A b \in B : b \in FreeOf(f)
    BY <1>1, FreeFacts
  <2> QED BY <1>2, <2>1
<1>4. g.property[a] = n /\ \A b \in B : g.property[b] = len[b]
  BY <1>1, <1>3
<1>5. ASSUME NEW b \in B PROVE (b < a => b + len[b] <= a) /\ (a < b => a + n <= b)
  <2>1. (b..b + len[b] - 1) \cap (a..a + n - 1) = {}
    BY <1>1
  <2>2. b \in Nat /\ len[b] \in Nat /\ len[b] >= 1
    BY <1>1
  <2>3. b \in b..b + len[b] - 1
    BY <2>2
  <2>4. b \notin a..a + n - 1 /\ a \notin b..b + len[b] - 1
    BY <1>2, <2>1, <2>3
  <2> HIDE DEF len, B
  <2> QED BY <1>2, <2>2, <2>4
<1>6. FreeOf(g) = FreeOf(f) \cup (a..a + n - 1)
  <2> DEFINE U == UNION {b..b + len[b] - 1 : b \in B}
             V == UNION {b..b + g.property[b] - 1 : b \in B}
  <2>1. U = V
    <3>1. \A b \in B : b..b + len[b] - 1 = b..b + g.property[b] - 1
      BY <1>4
    <3> HIDE DEF B
    <3> QED BY <3>1
  <2>2. FreeOf(f) = U
    BY DEF FreeOf
  <2>3. FreeOf(g) = V \cup (a..a + g.property[a] - 1)
    BY DEF FreeOf
  <2> HIDE DEF U, V
  <2> QED BY <1>4, <2>1, <2>2, <2>3
<1>7. g.nr_free = Cardinality(FreeOf(g))
  <2>1. Cardinality(a..a + n - 1) = n /\ IsFiniteSet(a..a + n - 1)
    BY RangeSize
  <2>2. IsFiniteSet(FreeOf(f)) /\ f.nr_free = Cardinality(FreeOf(f))
    BY <1>1, FreeFacts DEF Loose
  <2>3. Cardinality((a..a + n - 1) \cup FreeOf(f))
          = Cardinality(a..a + n - 1) + Cardinality(FreeOf(f)) - Cardinality((a..a + n - 1) \cap FreeOf(f))
    BY <2>1, <2>2, FS_Union
  <2>4. Cardinality((a..a + n - 1) \cap FreeOf(f)) = 0
    BY FS_EmptySet
  <2>5. (a..a + n - 1) \cup FreeOf(f) = FreeOf(g)
    BY <1>6
  <2>6. f.nr_free \in Nat
    BY <1>1, FreeFacts
  <2>7. g.nr_free = f.nr_free + n
    OBVIOUS
  <2> DEFINE k == Cardinality(FreeOf(f))
             j == Cardinality(FreeOf(g))
  <2>8. j = n + k - 0
    BY <2>1, <2>3, <2>4, <2>5
  <2>9. f.nr_free = k
    BY <2>2
  <2> HIDE DEF j, k
  <2>10. g.nr_free = j
    BY <2>6, <2>7, <2>8, <2>9
  <2> QED BY <2>10 DEF j
<1>8. \A b \in g.flags : g.property[b] >= 1
  BY <1>1, <1>4
<1>9. ASSUME NEW b \in g.flags, NEW c \in g.flags, b < c PROVE b + g.property[b] <= c
  <2>1. CASE b \in B /\ c \in B
    BY <1>1, <1>4, <1>9, <2>1 DEF Loose
  <2>2. CASE b = a /\ c \in B
    BY <1>4, <1>5, <1>9, <2>2
  <2>3. CASE b \in B /\ c = a
    BY <1>4, <1>5, <1>9, <2>3
  <2>4. CASE b = a /\ c = a
    BY <1>2, <1>9, <2>4
  <2> QED BY <2>1, <2>2, <2>3, <2>4
<1>10. Loose(g)
  BY <1>7, <1>8, <1>9 DEF Loose
<1>11. ASSUME NEW b \in Frame, NEW c \in Frame, Touch(g, b, c), b # a, c # a PROVE FALSE
  <2>1. b \in B /\ c \in B /\ b + len[b] = c
    BY <1>4, <1>11 DEF Touch
  <2> QED BY <2>1 DEF Exact, Touch
<1> QED BY <1>6, <1>10, <1>11

\* Two changes of links at most: whatever is changed, the fields keep their types.
LEMMA BetweenWA ==
  ASSUME NEW f \in WA, NEW e \in Link, NEW p \in Link, NEW n \in Link
  PROVE  LET g == Between(f, e, p, n) IN
         g \in WA /\ g.ok = f.ok /\ g.tail = f.tail /\ g.flags = f.flags /\ g.property = f.property
           /\ g.nr_free = f.nr_free
<1> DEFINE g == Between(f, e, p, n)
<1>1. f \in Allocator
  BY DEF WA
<1>2. /\ g \in Allocator /\ g.ok = f.ok /\ g.tail = f.tail /\ g.flags = f.flags
      /\ g.property = f.property /\ g.nr_free = f.nr_free
  <2> HIDE DEF g
  <2>1. g = [f EXCEPT !.prev[n] = e, !.next[p] = e, !.next[e] = n, !.prev[e] = p]
    BY DEF g, Between
  <2> QED BY <1>1, <2>1 DEF Allocator
<1> HIDE DEF g
<1>3. g \in WA
  BY <1>2 DEF WA
<1> QED BY <1>2, <1>3 DEF g

\* The last element of a nonempty walk is a frame.
LEMMA LastFrame ==
  ASSUME NEW w \in Seq(Frame), Len(w) >= 1
  PROVE  Last(w) \in Frame
<1>1. Len(w) \in 1..Len(w)
  OBVIOUS
<1> QED BY <1>1 DEF Last

\* A block that is put behind all others: the list is marked.
LEMMA PlacedLastWA ==
  ASSUME NEW f \in WA, NEW a \in Frame, ~list_empty(f)
  PROVE  LET g == PlacedLast(f, a) IN g \in WA /\ g.ok = f.ok /\ g.tail = TRUE
<1> DEFINE h == [f EXCEPT !.tail = TRUE]
           l == Last(Walk(f))
           i == list_add(h, l, a)
           g == list_add(i, a, a)
<1>1. f \in Allocator /\ f.next \in [Link -> Link]
  BY AllocatorFields DEF WA
<1>2. h \in Allocator /\ h.next = f.next /\ h.property = f.property /\ h.ok = f.ok /\ h.tail = TRUE
  BY <1>1 DEF Allocator
<1>3. h \in WA
  <2> HIDE DEF h
  <2> QED BY <1>2 DEF WA
<1>4. l \in Link /\ a \in Link
  <2>1. Walk(f) \in Seq(Frame) /\ Len(Walk(f)) >= 1
    BY <1>1, WalkType DEF list_empty
  <2> QED BY <2>1, LastFrame DEF Link
<1> HIDE DEF h, l
<1>5. h.next[l] \in Link
  BY <1>1, <1>2, <1>4
<1>6. i \in WA /\ i.ok = h.ok /\ i.tail = h.tail
  <2> DEFINE q == h.next[l]
  <2>1. i = Between(h, a, l, q) /\ q \in Link
    BY <1>5 DEF list_add
  <2> HIDE DEF q, i
  <2>2. h \in WA /\ a \in Link /\ l \in Link /\ q \in Link
    BY <1>3, <1>4, <2>1
  <2>3. Between(h, a, l, q) \in WA /\ Between(h, a, l, q).ok = h.ok
        /\ Between(h, a, l, q).tail = h.tail
    BY ONLY <2>2, BetweenWA
  <2> QED BY <2>1, <2>3
<1> HIDE DEF i
<1>7. g \in WA /\ g.ok = i.ok /\ g.tail = i.tail
  <2> DEFINE q == i.next[a]
  <2>1. q \in Link
    BY <1>4, <1>6, AllocatorFields DEF WA
  <2>2. g = Between(i, a, a, q)
    BY DEF list_add
  <2> HIDE DEF q, g, i
  <2>3. Between(i, a, a, q) \in WA /\ Between(i, a, a, q).ok = i.ok
        /\ Between(i, a, a, q).tail = i.tail
    <3>1. i \in WA /\ a \in Link /\ q \in Link
      BY <1>4, <1>6, <2>1
    <3> QED BY ONLY <3>1, BetweenWA
  <2> QED BY <2>2, <2>3
<1>8. g = PlacedLast(f, a)
  BY DEF PlacedLast, h, l, i
<1> HIDE DEF g
<1> QED BY <1>2, <1>6, <1>7, <1>8

\* Where default_free_pages puts a block: first, before the first block behind it, or last.
LEMMA PlacedWA ==
  ASSUME NEW f \in WA, NEW a \in Frame
  PROVE  LET g == Placed(f, a) IN
         /\ g \in WA /\ (~g.tail => ~f.tail) /\ (g.ok => f.ok)
         /\ g.ok = f.ok \/ First(f, {b \in Frame : a < b}) = Lost
         /\ ~g.tail => \/ list_empty(f) /\ g = list_add(f, free_list, a)
                       \/ /\ First(f, {b \in Frame : a < b}) \in Frame
                          /\ g = list_add_before(f, First(f, {b \in Frame : a < b}), a)
                       \/ First(f, {b \in Frame : a < b}) = Lost
<1> DEFINE S == {b \in Frame : a < b}
           later == First(f, S)
           g == Placed(f, a)
<1>1. f \in Allocator /\ f.next \in [Link -> Link] /\ f.prev \in [Link -> Link] /\ f.tail \in BOOLEAN
      /\ f.ok \in BOOLEAN /\ a \in Link /\ free_list \in Link
  BY AllocatorFields DEF WA, Link
<1>2. later \in Frame \cup {free_list, Lost} /\ free_list \notin Frame /\ Lost \notin Frame /\ Lost # free_list
  <2>1. later \in S \cup {free_list, Lost}
    BY <1>1, FirstType
  <2>2. free_list \notin Frame /\ Lost \notin Frame /\ Lost # free_list
    BY Frames DEF Lost, Frame, free_list
  <2> QED BY <2>1, <2>2
<1> HIDE DEF later
<1>3. CASE list_empty(f)
  <2>1. g = list_add(f, free_list, a)
    BY <1>3 DEF Placed
  <2> DEFINE q == f.next[free_list]
  <2>2. g = Between(f, a, free_list, q) /\ q \in Link
    BY <1>1, <2>1 DEF list_add
  <2> HIDE DEF g, q
  <2>3. g \in WA /\ g.ok = f.ok /\ g.tail = f.tail
    <3>1. f \in WA /\ a \in Link /\ q \in Link /\ free_list \in Link
      BY <1>1, <2>2
    <3>2. Between(f, a, free_list, q) \in WA /\ Between(f, a, free_list, q).ok = f.ok
          /\ Between(f, a, free_list, q).tail = f.tail
      BY ONLY <3>1, BetweenWA
    <3> QED BY <2>2, <3>2
  <2> QED BY <1>3, <2>1, <2>3 DEF g, S
<1>4. ASSUME ~list_empty(f) PROVE g = PlacedAt(f, a, later)
  BY <1>4 DEF Placed, later
<1>5. CASE ~list_empty(f) /\ later \in Frame
  <2>1. g = list_add_before(f, later, a)
    <3>1. later # free_list /\ later # Lost
      BY <1>2, <1>5
    <3> HIDE DEF g
    <3> QED BY <1>4, <1>5, <3>1 DEF PlacedAt
  <2> DEFINE q == f.prev[later]
  <2>2. g = Between(f, a, q, later) /\ q \in Link /\ later \in Link
    BY <1>1, <1>5, <2>1 DEF list_add_before, Link
  <2> HIDE DEF g, q
  <2>3. g \in WA /\ g.ok = f.ok /\ g.tail = f.tail
    <3>1. f \in WA /\ a \in Link /\ q \in Link /\ later \in Link
      BY <1>1, <2>2
    <3>2. Between(f, a, q, later) \in WA /\ Between(f, a, q, later).ok = f.ok
          /\ Between(f, a, q, later).tail = f.tail
      BY ONLY <3>1, BetweenWA
    <3> QED BY <2>2, <3>2
  <2> QED BY <1>5, <2>1, <2>3 DEF g, S, later
<1>6. CASE ~list_empty(f) /\ later = free_list
  <2>1. g = PlacedLast(f, a)
    <3> HIDE DEF g
    <3> QED BY <1>2, <1>4, <1>6 DEF PlacedAt
  <2> DEFINE i == PlacedLast(f, a)
  <2>2. i \in WA /\ i.ok = f.ok /\ i.tail = TRUE
    BY <1>6, PlacedLastWA
  <2> HIDE DEF g, i
  <2>3. g = i
    BY <2>1 DEF i
  <2>4. g \in WA /\ g.ok = f.ok /\ g.tail = TRUE
    BY <2>2, <2>3
  <2> QED BY <2>4 DEF g
<1>7. CASE ~list_empty(f) /\ later = Lost
  <2>1. g = [f EXCEPT !.ok = FALSE]
    <3> HIDE DEF g
    <3> QED BY <1>2, <1>4, <1>7 DEF PlacedAt
  <2> HIDE DEF g
  <2>2. g \in Allocator /\ g.property = f.property /\ g.ok = FALSE /\ g.tail = f.tail
    BY <1>1, <2>1 DEF Allocator
  <2>3. g \in WA
    BY <2>2 DEF WA
  <2> QED BY <1>1, <1>7, <2>2, <2>3 DEF g, later, S
<1> QED BY <1>2, <1>3, <1>5, <1>6, <1>7

\* Joining the next block keeps the types, whatever the list is,
LEMMA JoinedNextWA ==
  ASSUME NEW f \in WA, NEW x \in Frame
  PROVE  LET g == JoinedNext(f, x) IN g \in WA /\ g.ok = f.ok /\ g.tail = f.tail
<1> DEFINE y == f.next[x]
           g == Join(f, x, y)
<1>1. y \in Link
  BY AllocatorFields DEF WA, Link
<1>2. CASE IsBefore(f, x, y)
  <2>1. y \in Frame /\ x + f.property[x] = y
    BY <1>1, <1>2 DEF IsBefore, Link
  <2> HIDE DEF y
  <2>2. g \in WA /\ g.ok = f.ok /\ g.tail = f.tail
    BY <2>1, JoinWA
  <2> HIDE DEF g
  <2>3. JoinedNext(f, x) = g
    BY <1>2 DEF JoinedNext, y, g
  <2> QED BY <2>2, <2>3
<1>3. CASE ~IsBefore(f, x, y)
  BY <1>3 DEF JoinedNext
<1> QED BY <1>2, <1>3

\* and so does joining both neighbours.
LEMMA JoinedWA ==
  ASSUME NEW f \in WA, NEW x \in Frame
  PROVE  LET g == Joined(f, x) IN g \in WA /\ g.ok = f.ok /\ g.tail = f.tail
<1> DEFINE p == f.prev[x]
           g == Join(f, p, x)
<1>1. p \in Link
  BY AllocatorFields DEF WA, Link
<1>2. CASE IsBefore(f, p, x)
  <2>1. p \in Frame /\ p + f.property[p] = x
    BY <1>1, <1>2 DEF IsBefore, Link
  <2> HIDE DEF p
  <2>2. g \in WA /\ g.ok = f.ok /\ g.tail = f.tail
    BY <2>1, JoinWA
  <2> HIDE DEF g
  <2>3. Joined(f, x) = JoinedNext(g, p)
    BY <1>2 DEF Joined, p, g
  <2> DEFINE h == JoinedNext(g, p)
  <2>4. h \in WA /\ h.ok = g.ok /\ h.tail = g.tail
    BY <2>1, <2>2, JoinedNextWA
  <2> HIDE DEF h
  <2>5. Joined(f, x) = h
    BY <2>3 DEF h
  <2> QED BY <2>2, <2>4, <2>5
<1>3. CASE ~IsBefore(f, p, x)
  <2> DEFINE h == JoinedNext(f, x)
  <2>1. h \in WA /\ h.ok = f.ok /\ h.tail = f.tail
    BY JoinedNextWA
  <2>2. Joined(f, x) = h
    BY <1>3 DEF Joined
  <2> HIDE DEF h
  <2> QED BY <2>1, <2>2
<1> QED BY <1>2, <1>3

\* The block, before it is in the list.
Marked(f, a, n) == [f EXCEPT !.property[a] = n, !.flags = @ \cup {a}, !.nr_free = @ + n]

\* default_free_pages first writes the block's size, its flag and the number of free frames.
LEMMA MarkedWA ==
  ASSUME NEW f \in WA, NEW a \in Frame, NEW n \in Nat, a + n <= NFrames
  PROVE  LET h == Marked(f, a, n) IN
         /\ h \in WA /\ h.ok = f.ok /\ h.tail = f.tail /\ h.next = f.next /\ h.prev = f.prev
         /\ h.flags = f.flags \cup {a} /\ h.nr_free = f.nr_free + n
         /\ h.property = [f.property EXCEPT ![a] = n]
<1> DEFINE h == Marked(f, a, n)
<1>0. f \in Allocator /\ f.property \in [Frame -> Nat] /\ f.flags \in SUBSET Frame /\ f.nr_free \in Int
      /\ \A x \in Frame : x + f.property[x] <= NFrames
  BY AllocatorFields DEF WA
<1>1. h = [f EXCEPT !.property = [f.property EXCEPT ![a] = n], !.flags = f.flags \cup {a},
                    !.nr_free = f.nr_free + n]
  BY <1>0 DEF Marked, Allocator
<1> HIDE DEF h
<1>2. /\ h.ok = f.ok /\ h.tail = f.tail /\ h.next = f.next /\ h.prev = f.prev
      /\ h.flags = f.flags \cup {a} /\ h.nr_free = f.nr_free + n
      /\ h.property = [f.property EXCEPT ![a] = n]
  BY <1>0, <1>1 DEF Allocator
<1>3. h \in Allocator
  <2>1. /\ [f.property EXCEPT ![a] = n] \in [Frame -> Nat] /\ f.flags \cup {a} \in SUBSET Frame
        /\ f.nr_free + n \in Int
    BY <1>0
  <2> QED BY <1>0, <1>1, <2>1 DEF Allocator
<1>4. \A x \in Frame : h.property[x] = IF x = a THEN n ELSE f.property[x]
  BY <1>0, <1>2
<1>5. h \in WA
  BY <1>0, <1>3, <1>4 DEF WA
<1> QED BY <1>2, <1>5 DEF h

\* default_free_pages of frames none of which is flagged: the assertion does not stop it.
LEMMA FreedIs ==
  ASSUME NEW f, NEW a, NEW n, f.flags \cap (a..a + n - 1) = {}
  PROVE  Freed(f, a, n) = LET g == Placed(Marked(f, a, n), a) IN IF g.ok THEN Joined(g, a) ELSE g
BY DEF Freed, Then, Marked

\* Whatever the list is, default_free_pages keeps the types, and nothing is mended.
LEMMA FreedWA ==
  ASSUME NEW f \in WA, NEW a \in Frame, NEW n \in Nat, a + n <= NFrames
  PROVE  LET g == Freed(f, a, n) IN g \in WA /\ (g.ok => f.ok) /\ (~g.tail => ~f.tail)
<1> DEFINE g == Freed(f, a, n)
           h == Marked(f, a, n)
           i == Placed(h, a)
           j == Joined(i, a)
<1>1. CASE f.flags \cap (a..a + n - 1) # {}
  <2>1. g = [f EXCEPT !.ok = FALSE]
    BY <1>1 DEF Freed
  <2> HIDE DEF g
  <2>2. g \in Allocator /\ g.property = f.property /\ g.ok = FALSE /\ g.tail = f.tail
    BY <2>1 DEF Allocator, WA
  <2>3. g \in WA
    BY <2>2 DEF WA
  <2> QED BY <2>2, <2>3 DEF g
<1>2. CASE f.flags \cap (a..a + n - 1) = {}
  <2>1. h \in WA /\ h.ok = f.ok /\ h.tail = f.tail
    <3>1. f \in WA /\ a \in Frame /\ n \in Nat /\ a + n <= NFrames
      OBVIOUS
    <3> QED BY ONLY <3>1, MarkedWA
  <2>2. g = IF i.ok THEN j ELSE i
    BY <1>2, FreedIs
  <2> HIDE DEF h
  <2>3. i \in WA /\ (~i.tail => ~h.tail) /\ (i.ok => h.ok)
    BY <2>1, PlacedWA
  <2> HIDE DEF i
  <2>4. j \in WA /\ j.ok = i.ok /\ j.tail = i.tail
    BY <2>3, JoinedWA
  <2> HIDE DEF j, g
  <2>5. g \in WA /\ (g.ok => f.ok) /\ (~g.tail => ~f.tail)
    BY <2>1, <2>2, <2>3, <2>4
  <2> QED BY <2>5 DEF g
<1> QED BY <1>1, <1>2

\* The block goes where it belongs, if not behind all others.
LEMMA PlacedLinked ==
  ASSUME NEW f \in WA, NEW a \in Frame, NEW B \in SUBSET Frame, a \notin B, Linked(f.next, f.prev, B)
  PROVE  LET g == Placed(f, a) IN
         /\ g.ok = f.ok
         /\ ~g.tail => /\ Linked(g.next, g.prev, B \cup {a}) /\ g.flags = f.flags
                       /\ g.property = f.property /\ g.nr_free = f.nr_free
<1> DEFINE S == {b \in Frame : a < b}
           x == First(f, S)
           g == Placed(f, a)
<1>1. /\ f \in Allocator /\ f.next \in [Link -> Link] /\ f.prev \in [Link -> Link]
      /\ Chained(f.next, B) /\ a \in Link /\ a \in Nat /\ free_list \in Link
  BY AllocatorFields, FrameNat DEF WA, Linked, Link
<1>2. \/ x = free_list /\ B \cap S = {}
      \/ x \in B \cap S /\ \A b \in B \cap S : x <= b
  <2>1. S \in SUBSET Frame
    OBVIOUS
  <2> HIDE DEF S
  <2> QED BY <1>1, <2>1, FirstIs
<1>3. free_list \notin Frame /\ Lost \notin Frame /\ Lost # free_list
  BY Frames DEF Lost, Frame, free_list
<1>4. x # Lost
  <2> HIDE DEF x
  <2> QED BY <1>2, <1>3
<1>5. /\ g \in WA
      /\ g.ok = f.ok \/ x = Lost
      /\ ~g.tail => \/ list_empty(f) /\ g = list_add(f, free_list, a)
                    \/ x \in Frame /\ g = list_add_before(f, x, a)
                    \/ x = Lost
  BY PlacedWA
<1> HIDE DEF g, x
<1>6. g.ok = f.ok
  BY <1>4, <1>5
<1>7. ASSUME list_empty(f), g = list_add(f, free_list, a)
      PROVE  /\ Linked(g.next, g.prev, B \cup {a}) /\ g.flags = f.flags
             /\ g.property = f.property /\ g.nr_free = f.nr_free
  <2>1. f.next[free_list] = free_list
    BY <1>7 DEF list_empty
  <2>2. g = Between(f, a, free_list, free_list)
    BY <1>7, <2>1 DEF list_add
  <2> DEFINE h == Between(f, a, free_list, free_list)
  <2>3. /\ h.next = [[f.next EXCEPT ![free_list] = a] EXCEPT ![a] = free_list]
        /\ h.prev = [[f.prev EXCEPT ![free_list] = a] EXCEPT ![a] = free_list]
        /\ h.property = f.property /\ h.flags = f.flags /\ h.nr_free = f.nr_free
    <3> HIDE DEF h
    <3>1. h = [f EXCEPT !.prev[free_list] = a, !.next[free_list] = a, !.next[a] = free_list,
                        !.prev[a] = free_list]
      BY DEF h, Between
    <3> QED BY <1>1, <3>1 DEF Allocator
  <2> DEFINE next == f.next
             prev == f.prev
             nx == g.next
             pv == g.prev
  <2>4. /\ nx = [[next EXCEPT ![free_list] = a] EXCEPT ![a] = next[free_list]]
        /\ pv = [[prev EXCEPT ![next[free_list]] = a] EXCEPT ![a] = free_list]
        /\ next \in [Link -> Link] /\ prev \in [Link -> Link] /\ Linked(next, prev, B)
    BY <1>1, <2>1, <2>2, <2>3
  <2>5. free_list < a /\ free_list \in B \cup {free_list} /\ next[free_list] = free_list
    BY <2>1, Frames
  <2>6. g.property = f.property /\ g.flags = f.flags /\ g.nr_free = f.nr_free
    BY <2>2, <2>3
  <2> HIDE DEF next, prev, nx, pv, h
  <2>7. Linked(nx, pv, B \cup {a})
    BY <2>4, <2>5, Relinked
  <2> QED BY <2>6, <2>7 DEF nx, pv
<1>8. ASSUME x \in Frame, g = list_add_before(f, x, a)
      PROVE  /\ Linked(g.next, g.prev, B \cup {a}) /\ g.flags = f.flags
             /\ g.property = f.property /\ g.nr_free = f.nr_free
  <2> DEFINE p == f.prev[x]
             next == f.next
             prev == f.prev
             nx == g.next
             pv == g.prev
  <2>1. x \in B /\ a < x /\ x \in Nat /\ x \in Link /\ \A b \in B : a < b => x <= b
    BY <1>2, <1>3, <1>8, FrameNat DEF Link
  <2>2. p \in B \cup {free_list} /\ f.next[p] = x /\ (x # free_list => p < x)
    BY <1>1, <2>1, HasPrev
  <2>3. p \in Link /\ p < x
    BY <1>3, <1>8, <2>2 DEF Link
  <2>4. g = Between(f, a, p, x)
    BY <1>8 DEF list_add_before
  <2> HIDE DEF p
  <2>5. /\ g.next = [[f.next EXCEPT ![p] = a] EXCEPT ![a] = x]
        /\ g.prev = [[f.prev EXCEPT ![x] = a] EXCEPT ![a] = p]
        /\ g.property = f.property /\ g.flags = f.flags /\ g.nr_free = f.nr_free
    <3>1. g = [f EXCEPT !.prev[x] = a, !.next[p] = a, !.next[a] = x, !.prev[a] = p]
      BY <2>4 DEF Between
    <3> QED BY <1>1, <2>1, <2>3, <3>1 DEF Allocator
  <2>6. /\ nx = [[next EXCEPT ![p] = a] EXCEPT ![a] = next[p]]
        /\ pv = [[prev EXCEPT ![next[p]] = a] EXCEPT ![a] = p]
        /\ g.property = f.property /\ g.flags = f.flags /\ g.nr_free = f.nr_free
    BY <2>2, <2>5
  <2>7. p < a
    <3>1. p \in Int
      BY <2>3, LinkInt
    <3>2. CASE p = free_list
      BY <3>2, Frames
    <3>3. CASE p # free_list
      <4>1. p \in B /\ p # a
        BY <2>2, <3>3
      <4>2. ~(a < p)
        BY <2>1, <2>3, <3>1, <4>1
      <4> QED BY <1>1, <3>1, <4>1, <4>2
    <3> QED BY <3>2, <3>3
  <2>8. /\ next \in [Link -> Link] /\ prev \in [Link -> Link] /\ Linked(next, prev, B)
        /\ next[p] = x
    BY <1>1, <2>2
  <2> HIDE DEF next, prev, nx, pv
  <2>9. next[p] = free_list \/ a < next[p]
    BY <2>1, <2>8
  <2>10. Linked(nx, pv, B \cup {a})
    BY <2>2, <2>6, <2>7, <2>8, <2>9, Relinked
  <2> QED BY <2>6, <2>10 DEF nx, pv
<1>9. ~g.tail => /\ Linked(g.next, g.prev, B \cup {a}) /\ g.flags = f.flags
                 /\ g.property = f.property /\ g.nr_free = f.nr_free
  BY <1>4, <1>5, <1>7, <1>8
<1> QED BY <1>6, <1>9 DEF g

\* default_free_pages of frames that are not free, from an exact list.
LEMMA FreedExact ==
  ASSUME NEW f, Exact(f), f.ok = TRUE, NEW a \in Frame, NEW n \in Nat, n >= 1, a + n <= NFrames,
         (a..a + n - 1) \cap FreeOf(f) = {}
  PROVE  LET g == Freed(f, a, n) IN
         g.ok = f.ok /\ (~g.tail => Exact(g) /\ FreeOf(g) = FreeOf(f) \cup (a..a + n - 1))
<1> DEFINE g == Freed(f, a, n)
           h == Marked(f, a, n)
           i == Placed(h, a)
           j == Joined(i, a)
           B == f.flags
<1>1. Loose(f) /\ f \in WA /\ Linked(f.next, f.prev, B) /\ B \in SUBSET Frame /\ B \in SUBSET FreeOf(f)
      /\ f.property \in [Frame -> Nat] /\ f.ok \in BOOLEAN /\ ~f.tail
  BY FreeFacts, AllocatorFields DEF Exact, Loose, WA
<1>2. a \in a..a + n - 1
  BY FrameNat
<1>3. B \cap (a..a + n - 1) = {} /\ a \notin B
  BY <1>1, <1>2
<1>4. /\ h \in WA /\ h.ok = f.ok /\ h.tail = f.tail /\ h.next = f.next /\ h.prev = f.prev
      /\ h.flags = B \cup {a} /\ h.nr_free = f.nr_free + n
      /\ h.property = [f.property EXCEPT ![a] = n]
  BY <1>1, MarkedWA
<1>5. g = IF i.ok THEN j ELSE i
  BY <1>3, FreedIs
<1> HIDE DEF h, g
<1>6. i \in WA
  BY <1>4, PlacedWA
<1>7. /\ i.ok = h.ok
      /\ ~i.tail => /\ Linked(i.next, i.prev, B \cup {a}) /\ i.flags = h.flags
                    /\ i.property = h.property /\ i.nr_free = h.nr_free
  <2>1. Linked(h.next, h.prev, B)
    BY <1>1, <1>4
  <2> HIDE DEF i
  <2> USE DEF i
  <2> QED BY <1>1, <1>3, <1>4, <2>1, PlacedLinked
<1> HIDE DEF i
<1>8. j \in WA /\ j.ok = i.ok /\ j.tail = i.tail
  BY <1>6, JoinedWA
<1>9. g.ok = f.ok /\ (~g.tail => ~i.tail)
  BY <1>4, <1>5, <1>7, <1>8
<1>10. ASSUME ~g.tail, g = j PROVE Exact(g) /\ FreeOf(g) = FreeOf(f) \cup (a..a + n - 1)
  <2>1. ~i.tail
    BY <1>9, <1>10
  <2>2. /\ Linked(i.next, i.prev, i.flags) /\ i.flags = f.flags \cup {a}
        /\ i.property = [f.property EXCEPT ![a] = n] /\ i.nr_free = f.nr_free + n
    BY <1>4, <1>7, <2>1
  <2>3. /\ Loose(i) /\ FreeOf(i) = FreeOf(f) \cup (a..a + n - 1)
        /\ \A b, c \in Frame : Touch(i, b, c) => b = a \/ c = a
    <3>1. ~i.tail /\ i.flags = f.flags \cup {a} /\ i.nr_free = f.nr_free + n
      BY <2>1, <2>2
    <3>2. i.property[a] = n /\ (\A b \in f.flags : b # a => i.property[b] = f.property[b])
      BY <1>1, <2>2
    <3>3. Exact(f) /\ n >= 1 /\ a + n <= NFrames /\ (a..a + n - 1) \cap FreeOf(f) = {}
      OBVIOUS
    <3>4. i \in WA /\ Linked(i.next, i.prev, i.flags)
      BY <1>6, <2>2
    <3>5. PutIn(f, a, n, i)
      BY <3>1, <3>2, <3>3, <3>4 DEF PutIn
    <3> QED BY <3>5, PutInLoose
  <2>4. Exact(j) /\ FreeOf(j) = FreeOf(i)
    <3>1. a \in i.flags
      BY <2>2
    <3> QED BY <2>3, <3>1, JoinedExact
  <2> HIDE DEF j
  <2> QED BY <1>10, <2>3, <2>4
<1>11. g = j
  BY <1>4, <1>5, <1>7
<1> QED BY <1>9, <1>10, <1>11 DEF g

-----------------------------------------------------------------------------
(***************************************************************************)
(* Who has which frame.                                                    *)
(***************************************************************************)
\* All places that may refer to a frame: <<what, whose, which>>.
Slot ==
       ({"heap"} \X {None} \X Frame)
  \cup ({"kstack"} \X Proc \X (0..KSTACKPAGE - 1))
  \cup ({"pgdir"} \X Space \X {0})
  \cup ({"pd0"} \X Space \X Dirs)
  \cup ({"pt"} \X Space \X Tabs)
  \cup ({"pte"} \X Space \X Page)

MapKinds == {"pgdir", "pd0", "pt", "pte"}

\* What an address space, or None, refers to.
Entry(A, k, i) ==
  IF A = None THEN None
  ELSE CASE k = "pgdir" -> A.pgdir
         [] k = "pd0"   -> A.pd0[i]
         [] k = "pt"    -> A.pt[i]
         [] k = "pte"   -> IF A.pte[i] = Swapped THEN None ELSE A.pte[i]

Cell(m, k, s, i) ==
  CASE k = "heap"   -> IF i \in m.kernel THEN i ELSE None
    [] k = "kstack" -> IF m.kstack[s] = None THEN None ELSE m.kstack[s] + i
    [] k \in MapKinds -> Entry(m.mm[s], k, i)

Owns(m) == [x \in Slot |-> Cell(m, x[1], x[2], x[3])]

\* No frame is in two of the places O; none of them is free, F, or in the hands of a
\* call, R.
Owned(O, F, R) ==
  /\ O \in [Slot -> Frame \cup {None}]
  /\ F \in SUBSET Frame /\ R \in SUBSET Frame /\ F \cap R = {}
  /\ \A x, y \in Slot : O[x] # None /\ O[x] = O[y] => x = y
  /\ \A x \in Slot : O[x] \notin F \cup R

\* None and Swapped are no frames.
LEMMA NoFrame == None \notin Frame /\ Swapped \notin Frame /\ None # Swapped
BY NoneAssumption

\* Places O lose what they have; c gets a.
Taking(O, Q, c, a) ==
  /\ Q \in [Slot -> Frame \cup {None}]
  /\ \A x \in Slot : Q[x] = None \/ Q[x] = O[x] \/ (x = c /\ Q[x] = a)

Losing(O, Q) ==
  /\ Q \in [Slot -> Frame \cup {None}]
  /\ \A x \in Slot : Q[x] = None \/ Q[x] = O[x]

\* A frame in hand is put into a place.
LEMMA OwnedPut ==
  ASSUME NEW O, NEW F, NEW R, Owned(O, F, R), NEW c, NEW a \in R, NEW Q, Taking(O, Q, c, a)
  PROVE  Owned(Q, F, R \ {a})
<1>0. /\ Q \in [Slot -> Frame \cup {None}]
      /\ \A x \in Slot : Q[x] = None \/ Q[x] = O[x] \/ (x = c /\ Q[x] = a)
  BY DEF Taking
<1>1. a \in Frame /\ a \notin F /\ a # None
  BY NoFrame DEF Owned
<1>2. \A x \in Slot : O[x] # a
  BY DEF Owned
<1>3. ASSUME NEW x \in Slot, NEW y \in Slot, Q[x] # None, Q[x] = Q[y] PROVE x = y
  <2>1. CASE Q[x] = a
    BY <1>0, <1>1, <1>2, <1>3, <2>1
  <2>2. CASE Q[x] # a
    <3>1. Q[x] = O[x] /\ Q[y] = O[y]
      BY <1>0, <1>3, <2>2
    <3> QED BY <1>3, <3>1 DEF Owned
  <2> QED BY <2>1, <2>2
<1>4. ASSUME NEW x \in Slot PROVE Q[x] \notin F \cup (R \ {a})
  BY <1>0, <1>1, NoFrame DEF Owned
<1> QED BY <1>0, <1>3, <1>4 DEF Owned

\* A place loses its frame, which may be in hand then.
LEMMA OwnedLess ==
  ASSUME NEW O, NEW F, NEW R, Owned(O, F, R), NEW Q, Losing(O, Q)
  PROVE  /\ Owned(Q, F, R)
         /\ \A c \in Slot : O[c] # None /\ Q[c] = None => Owned(Q, F, R \cup {O[c]})
<1>0. /\ Q \in [Slot -> Frame \cup {None}]
      /\ \A x \in Slot : Q[x] = None \/ Q[x] = O[x]
  BY DEF Losing
<1>1. \A x, y \in Slot : Q[x] # None /\ Q[x] = Q[y] => x = y
  BY <1>0 DEF Owned
<1>2. \A x \in Slot : Q[x] \notin F \cup R
  BY <1>0, NoFrame DEF Owned
<1>3. ASSUME NEW c \in Slot, O[c] # None, Q[c] = None PROVE Owned(Q, F, R \cup {O[c]})
  <2>1. O[c] \in Frame /\ O[c] \notin F
    BY <1>3 DEF Owned
  <2>2. ASSUME NEW x \in Slot PROVE Q[x] # O[c]
    <3>1. CASE Q[x] = None
      BY <1>3, <3>1
    <3>2. CASE Q[x] # None /\ Q[x] = O[x]
      BY <1>3, <3>2 DEF Owned
    <3> QED BY <1>0, <3>1, <3>2
  <2> QED BY <1>0, <1>1, <1>2, <2>1, <2>2 DEF Owned
<1> QED BY <1>0, <1>1, <1>2, <1>3 DEF Owned

\* Free frames come into the hands of a call.
LEMMA OwnedGrab ==
  ASSUME NEW O, NEW F, NEW R, Owned(O, F, R), NEW S \in SUBSET F
  PROVE  Owned(O, F \ S, R \cup S)
BY DEF Owned

\* Frames in hand become free: they were not.
LEMMA OwnedReturn ==
  ASSUME NEW O, NEW F, NEW R, Owned(O, F, R), NEW S \in SUBSET R
  PROVE  Owned(O, F \cup S, R \ S) /\ S \cap F = {}
BY DEF Owned

\* A call forgets frames it has in hand.
LEMMA OwnedFewer ==
  ASSUME NEW O, NEW F, NEW R, Owned(O, F, R), NEW S \in SUBSET R
  PROVE  Owned(O, F, S)
BY DEF Owned

\* What the places are,
LEMMA SlotIs ==
  ASSUME NEW x \in Slot
  PROVE  /\ x = <<x[1], x[2], x[3]>>
         /\ \/ x[1] = "heap" /\ x[2] = None /\ x[3] \in Frame
            \/ x[1] = "kstack" /\ x[2] \in Proc /\ x[3] \in 0..KSTACKPAGE - 1
            \/ x[1] = "pgdir" /\ x[2] \in Space /\ x[3] = 0
            \/ x[1] = "pd0" /\ x[2] \in Space /\ x[3] \in Dirs
            \/ x[1] = "pt" /\ x[2] \in Space /\ x[3] \in Tabs
            \/ x[1] = "pte" /\ x[2] \in Space /\ x[3] \in Page
BY DEF Slot

\* and that these are places.
LEMMA IsSlot ==
  /\ \A a \in Frame : <<"heap", None, a>> \in Slot
  /\ \A p \in Proc, i \in 0..KSTACKPAGE - 1 : <<"kstack", p, i>> \in Slot
  /\ \A s \in Space : <<"pgdir", s, 0>> \in Slot
  /\ \A s \in Space, d \in Dirs : <<"pd0", s, d>> \in Slot
  /\ \A s \in Space, t \in Tabs : <<"pt", s, t>> \in Slot
  /\ \A s \in Space, p \in Page : <<"pte", s, p>> \in Slot
BY DEF Slot

\* What each place has.
LEMMA OwnsAt ==
  ASSUME NEW m
  PROVE  /\ \A a \in Frame : Owns(m)[<<"heap", None, a>>] = IF a \in m.kernel THEN a ELSE None
         /\ \A p \in Proc, i \in 0..KSTACKPAGE - 1 :
              Owns(m)[<<"kstack", p, i>>] = IF m.kstack[p] = None THEN None ELSE m.kstack[p] + i
         /\ \A k \in MapKinds, s \in Space : \A i :
              <<k, s, i>> \in Slot => Owns(m)[<<k, s, i>>] = Entry(m.mm[s], k, i)
<1>1. \A a \in Frame : Owns(m)[<<"heap", None, a>>] = IF a \in m.kernel THEN a ELSE None
  BY IsSlot DEF Owns, Cell, MapKinds
<1>2. \A p \in Proc, i \in 0..KSTACKPAGE - 1 :
        Owns(m)[<<"kstack", p, i>>] = IF m.kstack[p] = None THEN None ELSE m.kstack[p] + i
  BY IsSlot DEF Owns, Cell, MapKinds
<1>3. \A k \in MapKinds, s \in Space : \A i :
        <<k, s, i>> \in Slot => Owns(m)[<<k, s, i>>] = Entry(m.mm[s], k, i)
  BY DEF Owns, Cell, MapKinds
<1> QED BY <1>1, <1>2, <1>3

\* What is in the places of an address space: a frame or nothing.
KFrame == {a \in Frame : a + KSTACKPAGE <= NFrames}

UserSpace == {A \in AddressSpace : A.areas \in Seq(Area) /\ A.pgdir \in Frame}

\* An entry of an address space is a frame or nothing.
LEMMA EntryType ==
  ASSUME NEW A \in AddressSpace \cup {None}, NEW s, NEW k \in MapKinds, NEW i,
         <<k, s, i>> \in Slot
  PROVE  Entry(A, k, i) \in Frame \cup {None}
<1> DEFINE x == <<k, s, i>>
<1>1. \/ k = "pgdir"
      \/ k = "pd0" /\ i \in Dirs
      \/ k = "pt" /\ i \in Tabs
      \/ k = "pte" /\ i \in Page
  <2>1. x[1] = k /\ x[2] = s /\ x[3] = i
    OBVIOUS
  <2> HIDE DEF x
  <2>2. x \in Slot
    BY DEF x
  <2> QED BY <2>1, <2>2, SlotIs DEF MapKinds
<1>2. CASE A = None
  BY <1>2 DEF Entry
<1>3. CASE A # None
  <2>1. A \in AddressSpace
    BY <1>3
  <2>2. CASE k = "pgdir"
    BY <1>3, <2>1, <2>2 DEF Entry, AddressSpace
  <2>3. CASE k = "pd0" /\ i \in Dirs
    BY <1>3, <2>1, <2>3 DEF Entry, AddressSpace
  <2>4. CASE k = "pt" /\ i \in Tabs
    BY <1>3, <2>1, <2>4 DEF Entry, AddressSpace
  <2>5. CASE k = "pte" /\ i \in Page
    BY <1>3, <2>1, <2>5 DEF Entry, AddressSpace
  <2> QED BY <1>1, <2>2, <2>3, <2>4, <2>5
<1> QED BY <1>2, <1>3

Fields(m) ==
  /\ m.kernel \in SUBSET Frame
  /\ m.kstack \in [Proc -> KFrame \cup {None}]
  /\ m.mm \in [Space -> AddressSpace \cup {None}]

\* So is what any place has.
LEMMA OwnsType ==
  ASSUME NEW m, Fields(m)
  PROVE  Owns(m) \in [Slot -> Frame \cup {None}]
<1>1. ASSUME NEW x \in Slot PROVE Cell(m, x[1], x[2], x[3]) \in Frame \cup {None}
  <2> DEFINE k == x[1]
             s == x[2]
             i == x[3]
  <2>1. \/ k = "heap" /\ i \in Frame
        \/ k = "kstack" /\ s \in Proc /\ i \in 0..KSTACKPAGE - 1
        \/ k \in MapKinds /\ s \in Space
    BY SlotIs DEF MapKinds
  <2>a. x = <<k, s, i>>
    BY SlotIs
  <2> HIDE DEF k, s, i
  <2>2. <<k, s, i>> \in Slot
    BY <2>a
  <2>6. Cell(m, k, s, i) \in Frame \cup {None}
    <3>3. CASE k = "heap" /\ i \in Frame
      BY <3>3 DEF Cell, MapKinds
    <3>4. CASE k = "kstack" /\ s \in Proc /\ i \in 0..KSTACKPAGE - 1
      <4>1. m.kstack[s] = None \/ m.kstack[s] \in KFrame
        BY <3>4 DEF Fields
      <4>2. m.kstack[s] \in KFrame => m.kstack[s] + i \in Frame
        BY <3>4, MemoryAssumption, PmmAssumption DEF KFrame, Frame
      <4>3. Cell(m, "kstack", s, i) = IF m.kstack[s] = None THEN None ELSE m.kstack[s] + i
        BY DEF Cell, MapKinds
      <4> QED BY <3>4, <4>1, <4>2, <4>3
    <3>5. CASE k \in MapKinds /\ s \in Space
      <4>1. m.mm[s] \in AddressSpace \cup {None}
        BY <3>5 DEF Fields
      <4>2. Cell(m, k, s, i) = Entry(m.mm[s], k, i)
        BY <3>5 DEF Cell, MapKinds
      <4> QED BY <2>2, <3>5, <4>1, <4>2, EntryType
    <3> QED BY <2>1, <3>3, <3>4, <3>5
  <2> QED BY <2>6 DEF k, s, i
<1> QED BY <1>1 DEF Owns

\* What B refers to, A does too, but for some entries, and for c, which refers to a.
Moves(B, A, s, c, a) ==
  \A k \in MapKinds : \A i : <<k, s, i>> \in Slot =>
    \/ Entry(A, k, i) = None \/ Entry(A, k, i) = Entry(B, k, i)
    \/ <<k, s, i>> = c /\ Entry(A, k, i) = a

Less(B, A, s) ==
  \A k \in MapKinds : \A i : <<k, s, i>> \in Slot =>
    Entry(A, k, i) = None \/ Entry(A, k, i) = Entry(B, k, i)

\* An address space loses entries, and one of them becomes a.
LEMMA OwnsMove ==
  ASSUME NEW m, NEW n, NEW s, n.kernel = m.kernel, n.kstack = m.kstack,
         \A r \in Space : r # s => n.mm[r] = m.mm[r],
         Fields(n), NEW c, NEW a, Moves(m.mm[s], n.mm[s], s, c, a)
  PROVE  Taking(Owns(m), Owns(n), c, a)
<1>1. ASSUME NEW x \in Slot
      PROVE  \/ Cell(n, x[1], x[2], x[3]) = None
             \/ Cell(n, x[1], x[2], x[3]) = Cell(m, x[1], x[2], x[3])
             \/ x = c /\ Cell(n, x[1], x[2], x[3]) = a
  <2> DEFINE k == x[1]
             r == x[2]
             i == x[3]
  <2>1. /\ x = <<k, r, i>>
        /\ (k = "heap" \/ (k = "kstack" /\ r \in Proc) \/ (k \in MapKinds /\ r \in Space))
    BY SlotIs DEF MapKinds
  <2> HIDE DEF k, r, i
  <2>2. \/ Cell(n, k, r, i) = None \/ Cell(n, k, r, i) = Cell(m, k, r, i)
        \/ x = c /\ Cell(n, k, r, i) = a
    <3>1. CASE k = "heap"
      BY <3>1 DEF Cell, MapKinds
    <3>2. CASE k = "kstack" /\ r \in Proc
      BY <3>2 DEF Cell, MapKinds
    <3>3. CASE k \in MapKinds /\ r \in Space
      <4>1. Cell(n, k, r, i) = Entry(n.mm[r], k, i) /\ Cell(m, k, r, i) = Entry(m.mm[r], k, i)
        BY <3>3 DEF Cell, MapKinds
      <4>2. CASE r # s
        <5>1. n.mm[r] = m.mm[r]
          BY <3>3, <4>2
        <5> QED BY <4>1, <5>1
      <4>3. CASE r = s
        <5>1. <<k, s, i>> \in Slot /\ <<k, s, i>> = x
          BY <2>1, <4>3
        <5>2. \/ Entry(n.mm[s], k, i) = None \/ Entry(n.mm[s], k, i) = Entry(m.mm[s], k, i)
              \/ <<k, s, i>> = c /\ Entry(n.mm[s], k, i) = a
          BY <3>3, <5>1 DEF Moves
        <5> QED BY <4>1, <4>3, <5>1, <5>2
      <4> QED BY <4>2, <4>3
    <3> QED BY <2>1, <3>1, <3>2, <3>3
  <2> QED BY <2>2 DEF k, r, i
<1>2. Owns(n) \in [Slot -> Frame \cup {None}]
  BY OwnsType
<1>3. \A x \in Slot : Owns(n)[x] = None \/ Owns(n)[x] = Owns(m)[x] \/ (x = c /\ Owns(n)[x] = a)
  BY <1>1 DEF Owns
<1> QED BY <1>2, <1>3 DEF Taking

\* Where nothing refers to anything else, the places have what they had.
LEMMA OwnsSame ==
  ASSUME NEW m, NEW n, n.kernel = m.kernel, n.kstack = m.kstack, n.mm = m.mm
  PROVE  Owns(n) = Owns(m)
<1>1. \A k, s, i : Cell(n, k, s, i) = Cell(m, k, s, i)
  BY DEF Cell, MapKinds
<1> QED BY <1>1 DEF Owns

-----------------------------------------------------------------------------
(***************************************************************************)
(* The memory after check_swap.                                            *)
(***************************************************************************)
Rec(m) ==
  m = [pmm |-> m.pmm, content |-> m.content, swap |-> m.swap, pra_list |-> m.pra_list,
       kernel |-> m.kernel, kstack |-> m.kstack, mm |-> m.mm, store |-> m.store,
       check_rp |-> m.check_rp, ok |-> m.ok]

Typed(m) ==
  /\ Rec(m) /\ m.pmm \in WA /\ m.ok \in BOOLEAN /\ (m.ok => m.pmm.ok)
  /\ m.kernel \in SUBSET Frame
  /\ m.kstack \in [Proc -> KFrame \cup {None}]
  /\ m.mm \in [Space -> UserSpace \cup {None}]
  /\ m.mm[check] = None /\ m.store = None

\* The call has frames R in its hands.
Sound(m, R) ==
  /\ Typed(m)
  /\ m.ok /\ ~m.pmm.tail => Exact(m.pmm) /\ Owned(Owns(m), FreeOf(m.pmm), R)

\* n has what m has, but for the frames that are free and what is in them.
Around(m, n) ==
  n.kernel = m.kernel /\ n.kstack = m.kstack /\ n.mm = m.mm

\* Frames that go together; those that alloc_pages finds.
Block(a, n) == a..a + n - 1

Finds(m, n, a) == a \in Frame /\ a = Found(m.pmm, n)

\* The types of all that refers to frames.
LEMMA TypedFields ==
  ASSUME NEW m, Typed(m)
  PROVE  Fields(m)
<1>1. UserSpace \in SUBSET AddressSpace
  BY DEF UserSpace
<1> QED BY <1>1 DEF Typed, Fields

\* A call forgets frames it has in hand.
LEMMA SoundFewer ==
  ASSUME NEW m, NEW R, Sound(m, R), NEW S \in SUBSET R
  PROVE  Sound(m, S)
BY OwnedFewer DEF Sound

\* A failed assertion stops the kernel: nothing else is claimed then.
LEMMA Fails ==
  ASSUME NEW m, NEW R, Sound(m, R)
  PROVE  LET n == [m EXCEPT !.ok = FALSE] IN
         \A S : Sound(n, S) /\ Around(m, n) /\ n.ok = FALSE
<1> DEFINE n == [m EXCEPT !.ok = FALSE]
<1>0. Rec(m)
  BY DEF Sound, Typed
<1> DEFINE F == FALSE
<1>1. n = [m EXCEPT !.ok = F]
  OBVIOUS
<1> HIDE DEF n, F
<1>2. /\ Rec(n) /\ n.pmm = m.pmm /\ n.ok = F /\ n.kernel = m.kernel /\ n.kstack = m.kstack
      /\ n.mm = m.mm /\ n.store = m.store
  BY <1>0, <1>1 DEF Rec
<1>4. n.ok = FALSE
  BY <1>2 DEF F
<1>5. Typed(n)
  BY <1>2, <1>4 DEF Sound, Typed
<1>3. \A S : Sound(n, S) /\ Around(m, n) /\ n.ok = FALSE
  BY <1>2, <1>4, <1>5 DEF Sound, Around
<1> QED BY <1>3 DEF n

\* A block is taken.
LEMMA Grab ==
  ASSUME NEW m, NEW R, Sound(m, R), NEW n \in Nat, n >= 1, NEW a, Finds(m, n, a)
  PROVE  LET r == [m EXCEPT !.pmm = Taken(@, a, n)] IN
         /\ Sound(r, R \cup Block(a, n)) /\ Around(m, r) /\ r.ok = m.ok
         /\ a + n <= NFrames
         /\ r.ok /\ ~r.pmm.tail => R \cap Block(a, n) = {}
<1> DEFINE f == m.pmm
           g == Taken(f, a, n)
           r == [m EXCEPT !.pmm = g]
<1>0. a \in Frame /\ a = Found(f, n)
  BY DEF Finds
<1>1. f \in WA /\ f.property[a] >= n /\ f.ok \in BOOLEAN /\ f.property[a] \in Nat
      /\ a + f.property[a] <= NFrames
  <2>1. f \in WA
    BY DEF Sound, Typed
  <2>2. f.property[a] >= n
    BY <1>0, <2>1, FoundType
  <2>3. f \in Allocator /\ a + f.property[a] <= NFrames
    BY <1>0, <2>1 DEF WA
  <2> QED BY <1>0, <2>1, <2>2, <2>3, AllocatorFields
<1>2. g \in WA /\ g.ok = f.ok /\ g.tail = f.tail
  BY <1>0, <1>1, TakenIs
<1>3. f.ok = TRUE \/ ~m.ok
  BY <1>1 DEF Sound, Typed
<1>4. ASSUME Exact(f)
      PROVE  /\ Exact(g) /\ FreeOf(g) = FreeOf(f) \ (a..a + n - 1)
             /\ a..a + n - 1 \in SUBSET FreeOf(f)
  <2>1. Loose(f)
    BY <1>4 DEF Exact
  <2>2. a \in f.flags
    BY <1>0, <2>1, FoundIs
  <2> QED BY <1>0, <1>1, <1>4, <2>2, TakenExact
<1> HIDE DEF g
<1>5. /\ Rec(r) /\ r.pmm = g /\ r.ok = m.ok /\ r.kernel = m.kernel /\ r.kstack = m.kstack
      /\ r.mm = m.mm /\ r.store = m.store
  BY DEF Sound, Typed, Rec
<1> HIDE DEF r
<1>6. Typed(r)
  BY <1>2, <1>5 DEF Sound, Typed
<1>7. ASSUME r.ok, ~r.pmm.tail
      PROVE  /\ Exact(r.pmm) /\ Owned(Owns(r), FreeOf(r.pmm), R \cup (a..a + n - 1))
             /\ R \cap (a..a + n - 1) = {}
  <2>1. Exact(f) /\ Owned(Owns(m), FreeOf(f), R)
    BY <1>2, <1>5, <1>7 DEF Sound
  <2>a. FreeOf(f) \cap R = {}
    BY <2>1 DEF Owned
  <2>2. Owns(r) = Owns(m)
    BY <1>5, OwnsSame
  <2>3. Owned(Owns(m), FreeOf(f) \ (a..a + n - 1), R \cup (a..a + n - 1))
    BY <1>4, <2>1, OwnedGrab
  <2> QED BY <1>4, <1>5, <2>1, <2>2, <2>3, <2>a
<1>8. Sound(r, R \cup (a..a + n - 1)) /\ Around(m, r) /\ r.ok = m.ok
  BY <1>5, <1>6, <1>7 DEF Sound, Around
<1>9. a + n <= NFrames
  BY <1>0, <1>1, Frames, PmmAssumption
<1>10. r.ok /\ ~r.pmm.tail => R \cap (a..a + n - 1) = {}
  BY <1>7
<1> QED BY <1>8, <1>9, <1>10 DEF r, g, Block

\* A block that the call has goes back.
LEMMA Release ==
  ASSUME NEW m, NEW R, Sound(m, R), m.ok = TRUE, NEW a \in Frame, NEW n \in Nat, n >= 1,
         a + n <= NFrames, Block(a, n) \in SUBSET R
  PROVE  LET r == free_pages(m, a, n) IN
         Sound(r, R \ Block(a, n)) /\ Around(m, r)
<1> DEFINE f == m.pmm
           g == Freed(f, a, n)
           c == [b \in Frame |-> IF b \in a..a + n - 1 THEN Unset ELSE m.content[b]]
           r == [[[m EXCEPT !.content = c] EXCEPT !.pmm = g] EXCEPT !.ok = g.ok]
<1>1. f \in WA /\ f.ok = TRUE
  <2>1. f \in WA /\ f.ok
    BY DEF Sound, Typed
  <2>2. f.ok \in BOOLEAN
    BY <2>1, AllocatorFields DEF WA
  <2> QED BY <2>1, <2>2
<1>2. g \in WA /\ (~g.tail => ~f.tail)
  BY <1>1, FreedWA
<1>3. g.ok \in BOOLEAN
  BY <1>2, AllocatorFields DEF WA
<1>4. ASSUME Exact(f), (a..a + n - 1) \cap FreeOf(f) = {}, ~g.tail
      PROVE  Exact(g) /\ FreeOf(g) = FreeOf(f) \cup (a..a + n - 1)
  BY <1>1, <1>4, FreedExact
<1>5. free_pages(m, a, n) = r
  BY DEF free_pages, WithFrames
<1> HIDE DEF g, c
<1> DEFINE d == [m EXCEPT !.content = c]
           e == [d EXCEPT !.pmm = g]
<1>a. Rec(m)
  BY DEF Sound, Typed
<1>b. /\ Rec(d) /\ d.kernel = m.kernel /\ d.kstack = m.kstack
      /\ d.mm = m.mm /\ d.store = m.store
  BY <1>a DEF Rec
<1> HIDE DEF d
<1>c. /\ Rec(e) /\ e.pmm = g /\ e.kernel = m.kernel /\ e.kstack = m.kstack
      /\ e.mm = m.mm /\ e.store = m.store
  BY <1>b DEF Rec
<1>d. r = [e EXCEPT !.ok = g.ok]
  BY DEF d
<1> HIDE DEF e, r
<1>6. /\ Rec(r) /\ r.pmm = g /\ r.ok = g.ok /\ r.kernel = m.kernel /\ r.kstack = m.kstack
      /\ r.mm = m.mm /\ r.store = m.store
  BY <1>c, <1>d DEF Rec
<1>7. Typed(r)
  BY <1>2, <1>3, <1>6 DEF Sound, Typed
<1>8. ASSUME r.ok, ~r.pmm.tail
      PROVE  Exact(r.pmm) /\ Owned(Owns(r), FreeOf(r.pmm), R \ (a..a + n - 1))
  <2>1. Exact(f) /\ Owned(Owns(m), FreeOf(f), R)
    BY <1>2, <1>6, <1>8 DEF Sound
  <2>2. Owns(r) = Owns(m)
    BY <1>6, OwnsSame
  <2>3. /\ Owned(Owns(m), FreeOf(f) \cup (a..a + n - 1), R \ (a..a + n - 1))
        /\ (a..a + n - 1) \cap FreeOf(f) = {}
    <3> DEFINE S == a..a + n - 1
               O == Owns(m)
               F == FreeOf(f)
    <3>1. S \in SUBSET R
      BY DEF Block
    <3>2. Owned(O, F, R)
      BY <2>1
    <3> HIDE DEF S, O, F
    <3>3. Owned(O, F \cup S, R \ S) /\ S \cap F = {}
      BY <3>1, <3>2, OwnedReturn
    <3> QED BY <3>3 DEF S, O, F
  <2>4. Exact(g) /\ FreeOf(g) = FreeOf(f) \cup (a..a + n - 1)
    BY <1>4, <1>6, <1>8, <2>1, <2>3
  <2> QED BY <1>6, <2>2, <2>3, <2>4
<1>9. Sound(r, R \ (a..a + n - 1)) /\ Around(m, r)
  BY <1>6, <1>7, <1>8 DEF Sound, Around
<1> QED BY <1>5, <1>9 DEF Block

\* n is m with A as the address space of s.
Remaps(m, n, s, A) ==
  /\ Rec(n) /\ n.pmm = m.pmm /\ n.ok = m.ok /\ n.kernel = m.kernel /\ n.kstack = m.kstack
  /\ n.store = m.store /\ n.mm = [m.mm EXCEPT ![s] = A]

\* Another address space for s keeps the types.
LEMMA RemapsTyped ==
  ASSUME NEW m, Typed(m), NEW s \in Proc, NEW A \in UserSpace \cup {None},
         NEW n, Remaps(m, n, s, A)
  PROVE  /\ Typed(n) /\ n.mm[s] = A /\ \A r \in Space : r # s => n.mm[r] = m.mm[r]
<1>1. s \in Space /\ check \in Space /\ s # check
  BY MemoryAssumption DEF Space
<1>2. m.mm \in [Space -> UserSpace \cup {None}] /\ m.mm[check] = None
  BY DEF Typed
<1>3. n.mm = [m.mm EXCEPT ![s] = A]
  BY DEF Remaps
<1>4. /\ n.mm \in [Space -> UserSpace \cup {None}] /\ n.mm[check] = None
      /\ n.mm[s] = A /\ \A r \in Space : r # s => n.mm[r] = m.mm[r]
  BY <1>1, <1>2, <1>3
<1>5. Typed(n)
  BY <1>4 DEF Typed, Remaps
<1> QED BY <1>4, <1>5

\* An entry gets a frame that is in hand.
LEMMA Remapped ==
  ASSUME NEW m, NEW R, Sound(m, R), NEW s \in Proc, NEW A \in UserSpace \cup {None},
         NEW n, Remaps(m, n, s, A), NEW c, NEW a \in R, Moves(m.mm[s], A, s, c, a)
  PROVE  Sound(n, R \ {a})
<1>1. /\ Typed(n) /\ n.mm[s] = A /\ \A r \in Space : r # s => n.mm[r] = m.mm[r]
  BY RemapsTyped DEF Sound
<1>2. Taking(Owns(m), Owns(n), c, a)
  <2>1. n.kernel = m.kernel /\ n.kstack = m.kstack
    BY DEF Remaps
  <2>2. Moves(m.mm[s], n.mm[s], s, c, a)
    BY <1>1
  <2> QED BY <1>1, <2>1, <2>2, OwnsMove, TypedFields
<1>4. ASSUME n.ok, ~n.pmm.tail
      PROVE  Exact(n.pmm) /\ Owned(Owns(n), FreeOf(n.pmm), R \ {a})
  <2> DEFINE O == Owns(m)
             Q == Owns(n)
             F == FreeOf(m.pmm)
  <2>1. Exact(m.pmm) /\ Owned(O, F, R) /\ n.pmm = m.pmm
    BY <1>4 DEF Sound, Remaps
  <2>2. Taking(O, Q, c, a)
    BY <1>2
  <2> HIDE DEF O, Q, F
  <2>3. Owned(Q, F, R \ {a})
    BY <2>1, <2>2, OwnedPut
  <2> QED BY <2>1, <2>3 DEF Q, F
<1> QED BY <1>1, <1>4 DEF Sound

\* Entries go; the frame that one of them had is in hand then.
LEMMA RemappedLess ==
  ASSUME NEW m, NEW R, Sound(m, R), NEW s \in Proc, NEW A \in UserSpace \cup {None},
         NEW n, Remaps(m, n, s, A), Less(m.mm[s], A, s)
  PROVE  /\ Sound(n, R)
         /\ \A k \in MapKinds : \A i :
              <<k, s, i>> \in Slot /\ Entry(m.mm[s], k, i) # None /\ Entry(A, k, i) = None =>
                Sound(n, R \cup {Entry(m.mm[s], k, i)})
<1>0. s \in Space
  BY DEF Space
<1>1. /\ Typed(n) /\ n.mm[s] = A /\ \A r \in Space : r # s => n.mm[r] = m.mm[r]
  BY RemapsTyped DEF Sound
<1>2. Losing(Owns(m), Owns(n))
  <2>1. n.kernel = m.kernel /\ n.kstack = m.kstack
    BY DEF Remaps
  <2>2. Moves(m.mm[s], n.mm[s], s, None, None)
    BY <1>1 DEF Less, Moves
  <2>3. Taking(Owns(m), Owns(n), None, None)
    BY <1>1, <2>1, <2>2, OwnsMove, TypedFields
  <2> QED BY <2>3 DEF Taking, Losing
<1>4. ASSUME n.ok, ~n.pmm.tail
      PROVE  /\ Exact(n.pmm) /\ Owned(Owns(n), FreeOf(n.pmm), R)
             /\ \A c \in Slot : Owns(m)[c] # None /\ Owns(n)[c] = None =>
                  Owned(Owns(n), FreeOf(n.pmm), R \cup {Owns(m)[c]})
  <2> DEFINE O == Owns(m)
             Q == Owns(n)
             F == FreeOf(m.pmm)
  <2>1. Exact(m.pmm) /\ Owned(O, F, R) /\ n.pmm = m.pmm
    BY <1>4 DEF Sound, Remaps
  <2>2. Losing(O, Q)
    BY <1>2
  <2> HIDE DEF O, Q, F
  <2>3. /\ Owned(Q, F, R)
        /\ \A c \in Slot : O[c] # None /\ Q[c] = None => Owned(Q, F, R \cup {O[c]})
    BY <2>1, <2>2, OwnedLess
  <2> QED BY <2>1, <2>3 DEF O, Q, F
<1>5. Sound(n, R)
  BY <1>1, <1>4 DEF Sound
<1>6. ASSUME NEW k \in MapKinds, NEW i, <<k, s, i>> \in Slot, Entry(m.mm[s], k, i) # None,
             Entry(A, k, i) = None
      PROVE  Sound(n, R \cup {Entry(m.mm[s], k, i)})
  <2>1. Owns(m)[<<k, s, i>>] = Entry(m.mm[s], k, i)
    BY <1>0, <1>6, OwnsAt
  <2>2. Owns(n)[<<k, s, i>>] = Entry(A, k, i)
    BY <1>0, <1>1, <1>6, OwnsAt
  <2> QED BY <1>1, <1>4, <1>6, <2>1, <2>2 DEF Sound
<1> QED BY <1>5, <1>6

\* What an operation on s leaves of m: the other address spaces, and the page directory.
Keeps(m, n, s) ==
  /\ n.kernel = m.kernel /\ n.kstack = m.kstack
  /\ \A r \in Space : r # s => n.mm[r] = m.mm[r]
  /\ n.mm[s] \in UserSpace /\ n.mm[s].pgdir = m.mm[s].pgdir

\* One operation on s after another,
LEMMA KeepsOn ==
  ASSUME NEW m, NEW n, NEW g, NEW s, Keeps(m, n, s), Keeps(n, g, s)
  PROVE  Keeps(m, g, s)
BY DEF Keeps

\* or after it a change of what is free,
LEMMA KeepsAround ==
  ASSUME NEW m, NEW n, NEW g, NEW s, Keeps(m, n, s), Around(n, g)
  PROVE  Keeps(m, g, s)
BY DEF Keeps, Around

\* or nothing at all, leaves the others alone.
LEMMA KeepsSelf ==
  ASSUME NEW m, NEW s, m.mm[s] \in UserSpace
  PROVE  Keeps(m, m, s)
BY DEF Keeps

\* So does another address space for s with the same page directory.
LEMMA KeepsRemap ==
  ASSUME NEW m, Typed(m), NEW s \in Proc, NEW n, NEW A \in UserSpace, Remaps(m, n, s, A),
         A.pgdir = m.mm[s].pgdir
  PROVE  Keeps(m, n, s)
<1>1. /\ n.mm[s] = A /\ \A r \in Space : r # s => n.mm[r] = m.mm[r]
  BY RemapsTyped
<1> QED BY <1>1 DEF Keeps, Remaps

\* Every page has a table and a directory.
LEMMA Tables ==
  /\ \A p \in Page : Tab(p) \in Tabs /\ Dir(Tab(p)) \in Dirs
  /\ \A t \in Tabs : Dir(t) \in Dirs
<1>1. \A p \in Page : Tab(p) \in Tabs
  BY MemoryAssumption DEF Tab, Tabs, Page
<1>2. \A t \in Tabs : Dir(t) \in Dirs
  <2>1. Tab(NPages - 1) \in Nat
    BY MemoryAssumption DEF Tab
  <2> DEFINE z == Tab(NPages - 1)
  <2>2. z \in Nat
    BY <2>1
  <2> HIDE DEF z
  <2>3. \A t \in 0..z : Dir(t) \in 0..Dir(z)
    BY <2>2, MemoryAssumption DEF Dir
  <2> QED BY <2>3 DEF Dirs, Tabs, z
<1> QED BY <1>1, <1>2

\* The fields of an address space.
LEMMA SpaceFields ==
  ASSUME NEW B \in UserSpace
  PROVE  /\ B # None /\ B \in AddressSpace /\ B.areas \in Seq(Area) /\ B.pgdir \in Frame
         /\ B.pd0 \in [Dirs -> Frame \cup {None}] /\ B.pt \in [Tabs -> Frame \cup {None}]
         /\ B.pte \in [Page -> Frame \cup {None, Swapped}]
BY NoneAssumption DEF UserSpace, AddressSpace

\* The entries of each kind.
LEMMA Entries4 ==
  ASSUME NEW A, A # None
  PROVE  /\ \A i : Entry(A, "pgdir", i) = A.pgdir
         /\ \A i : Entry(A, "pd0", i) = A.pd0[i]
         /\ \A i : Entry(A, "pt", i) = A.pt[i]
         /\ \A i : Entry(A, "pte", i) = IF A.pte[i] = Swapped THEN None ELSE A.pte[i]
BY DEF Entry

\* What numbers the entries of each kind have.
LEMMA SlotIn ==
  ASSUME NEW s, NEW k, NEW i, <<k, s, i>> \in Slot
  PROVE  /\ k = "pgdir" => i = 0
         /\ k = "pd0" => i \in Dirs
         /\ k = "pt" => i \in Tabs
         /\ k = "pte" => i \in Page
<1> DEFINE x == <<k, s, i>>
<1>1. x[1] = k /\ x[2] = s /\ x[3] = i
  OBVIOUS
<1> HIDE DEF x
<1>2. x \in Slot
  BY DEF x
<1> QED BY <1>1, <1>2, SlotIs

\* get_pte writes an entry of the directory,
LEMMA PutPd0 ==
  ASSUME NEW B \in UserSpace, NEW s, NEW d \in Dirs, NEW a \in Frame
  PROVE  LET A == [B EXCEPT !.pd0[d] = a] IN
         A \in UserSpace /\ A.pgdir = B.pgdir /\ Moves(B, A, s, <<"pd0", s, d>>, a)
<1> DEFINE A == [B EXCEPT !.pd0[d] = a]
<1>1. /\ B # None /\ B \in AddressSpace /\ B.areas \in Seq(Area) /\ B.pgdir \in Frame
      /\ B.pd0 \in [Dirs -> Frame \cup {None}]
  BY SpaceFields
<1>2. A \in AddressSpace
  BY <1>1 DEF AddressSpace
<1>3. /\ A.pgdir = B.pgdir /\ A.pt = B.pt /\ A.pte = B.pte /\ A.areas = B.areas
      /\ A.pd0 = [B.pd0 EXCEPT ![d] = a]
  BY <1>1 DEF AddressSpace
<1> HIDE DEF A
<1>4. A \in UserSpace
  BY <1>1, <1>2, <1>3 DEF UserSpace
<1>5. A.pd0[d] = a /\ \A j \in Dirs : j # d => A.pd0[j] = B.pd0[j]
  BY <1>1, <1>3
<1>6. ASSUME NEW k \in MapKinds, NEW i, <<k, s, i>> \in Slot
      PROVE  \/ Entry(A, k, i) = Entry(B, k, i)
             \/ <<k, s, i>> = <<"pd0", s, d>> /\ Entry(A, k, i) = a
  <2>1. k = "pd0" => i \in Dirs
    BY <1>6, SlotIn
  <2>2. A # None /\ B # None
    BY <1>4, SpaceFields
  <2>3. CASE k = "pd0"
    BY <1>5, <2>1, <2>2, <2>3, Entries4, NoFrame
  <2>4. CASE k # "pd0"
    BY <1>3, <2>2, <2>4, Entries4 DEF MapKinds
  <2> QED BY <2>3, <2>4
<1>7. Moves(B, A, s, <<"pd0", s, d>>, a)
  BY <1>6 DEF Moves
<1>8. A \in UserSpace /\ A.pgdir = B.pgdir /\ Moves(B, A, s, <<"pd0", s, d>>, a)
  BY <1>3, <1>4, <1>7
<1> QED BY <1>8 DEF A

\* one of the directory below,
LEMMA PutPt ==
  ASSUME NEW B \in UserSpace, NEW s, NEW t \in Tabs, NEW a \in Frame
  PROVE  LET A == [B EXCEPT !.pt[t] = a] IN
         A \in UserSpace /\ A.pgdir = B.pgdir /\ Moves(B, A, s, <<"pt", s, t>>, a)
<1> DEFINE A == [B EXCEPT !.pt[t] = a]
<1>1. /\ B # None /\ B \in AddressSpace /\ B.areas \in Seq(Area) /\ B.pgdir \in Frame
      /\ B.pt \in [Tabs -> Frame \cup {None}]
  BY SpaceFields
<1>2. A \in AddressSpace
  BY <1>1 DEF AddressSpace
<1>3. /\ A.pgdir = B.pgdir /\ A.pd0 = B.pd0 /\ A.pte = B.pte /\ A.areas = B.areas
      /\ A.pt = [B.pt EXCEPT ![t] = a]
  BY <1>1 DEF AddressSpace
<1> HIDE DEF A
<1>4. A \in UserSpace
  BY <1>1, <1>2, <1>3 DEF UserSpace
<1>5. A.pt[t] = a /\ \A j \in Tabs : j # t => A.pt[j] = B.pt[j]
  BY <1>1, <1>3
<1>6. ASSUME NEW k \in MapKinds, NEW i, <<k, s, i>> \in Slot
      PROVE  \/ Entry(A, k, i) = Entry(B, k, i)
             \/ <<k, s, i>> = <<"pt", s, t>> /\ Entry(A, k, i) = a
  <2>1. k = "pt" => i \in Tabs
    BY <1>6, SlotIn
  <2>2. A # None /\ B # None
    BY <1>4, SpaceFields
  <2>3. CASE k = "pt"
    BY <1>5, <2>1, <2>2, <2>3, Entries4, NoFrame
  <2>4. CASE k # "pt"
    BY <1>3, <2>2, <2>4, Entries4 DEF MapKinds
  <2> QED BY <2>3, <2>4
<1>7. Moves(B, A, s, <<"pt", s, t>>, a)
  BY <1>6 DEF Moves
<1>8. A \in UserSpace /\ A.pgdir = B.pgdir /\ Moves(B, A, s, <<"pt", s, t>>, a)
  BY <1>3, <1>4, <1>7
<1> QED BY <1>8 DEF A

\* page_insert one of a table.
LEMMA PutPte ==
  ASSUME NEW B \in UserSpace, NEW s, NEW p \in Page, NEW a \in Frame
  PROVE  LET A == [B EXCEPT !.pte[p] = a] IN
         A \in UserSpace /\ A.pgdir = B.pgdir /\ Moves(B, A, s, <<"pte", s, p>>, a)
<1> DEFINE A == [B EXCEPT !.pte[p] = a]
<1>1. /\ B # None /\ B \in AddressSpace /\ B.areas \in Seq(Area) /\ B.pgdir \in Frame
      /\ B.pte \in [Page -> Frame \cup {None, Swapped}]
  BY SpaceFields
<1>2. A \in AddressSpace
  BY <1>1 DEF AddressSpace
<1>3. /\ A.pgdir = B.pgdir /\ A.pd0 = B.pd0 /\ A.pt = B.pt /\ A.areas = B.areas
      /\ A.pte = [B.pte EXCEPT ![p] = a]
  BY <1>1 DEF AddressSpace
<1> HIDE DEF A
<1>4. A \in UserSpace
  BY <1>1, <1>2, <1>3 DEF UserSpace
<1>5. A.pte[p] = a /\ \A j \in Page : j # p => A.pte[j] = B.pte[j]
  BY <1>1, <1>3
<1>6. ASSUME NEW k \in MapKinds, NEW i, <<k, s, i>> \in Slot
      PROVE  \/ Entry(A, k, i) = Entry(B, k, i)
             \/ <<k, s, i>> = <<"pte", s, p>> /\ Entry(A, k, i) = a
  <2>1. k = "pte" => i \in Page
    BY <1>6, SlotIn
  <2>2. A # None /\ B # None
    BY <1>4, SpaceFields
  <2>3. CASE k = "pte"
    BY <1>5, <2>1, <2>2, <2>3, Entries4, NoFrame
  <2>4. CASE k # "pte"
    BY <1>3, <2>2, <2>4, Entries4 DEF MapKinds
  <2> QED BY <2>3, <2>4
<1>7. Moves(B, A, s, <<"pte", s, p>>, a)
  BY <1>6 DEF Moves
<1>8. A \in UserSpace /\ A.pgdir = B.pgdir /\ Moves(B, A, s, <<"pte", s, p>>, a)
  BY <1>3, <1>4, <1>7
<1> QED BY <1>8 DEF A

\* exit_range clears an entry of a directory,
LEMMA CutPt ==
  ASSUME NEW B \in UserSpace, NEW s, NEW t \in Tabs
  PROVE  LET A == [B EXCEPT !.pt[t] = None] IN
         /\ A \in UserSpace /\ A.pgdir = B.pgdir /\ A.pd0 = B.pd0 /\ Less(B, A, s)
         /\ Entry(A, "pt", t) = None
<1> DEFINE A == [B EXCEPT !.pt[t] = None]
<1>1. /\ B # None /\ B \in AddressSpace /\ B.areas \in Seq(Area) /\ B.pgdir \in Frame
      /\ B.pt \in [Tabs -> Frame \cup {None}]
  BY SpaceFields
<1>2. A \in AddressSpace
  BY <1>1 DEF AddressSpace
<1>3. /\ A.pgdir = B.pgdir /\ A.pd0 = B.pd0 /\ A.pte = B.pte /\ A.areas = B.areas
      /\ A.pt = [B.pt EXCEPT ![t] = None]
  BY <1>1 DEF AddressSpace
<1> HIDE DEF A
<1>4. A \in UserSpace
  BY <1>1, <1>2, <1>3 DEF UserSpace
<1>5. A.pt[t] = None /\ \A j \in Tabs : j # t => A.pt[j] = B.pt[j]
  BY <1>1, <1>3
<1>6. A # None /\ B # None
  BY <1>4, SpaceFields
<1>7. ASSUME NEW k \in MapKinds, NEW i, <<k, s, i>> \in Slot
      PROVE  Entry(A, k, i) = None \/ Entry(A, k, i) = Entry(B, k, i)
  <2>1. k = "pt" => i \in Tabs
    BY <1>7, SlotIn
  <2>3. CASE k = "pt"
    BY <1>5, <1>6, <2>1, <2>3, Entries4, NoFrame
  <2>4. CASE k # "pt"
    BY <1>3, <1>6, <2>4, Entries4 DEF MapKinds
  <2> QED BY <2>3, <2>4
<1>9. Less(B, A, s)
  BY <1>7 DEF Less
<1>10. Entry(A, "pt", t) = None
  BY <1>5, <1>6, Entries4, NoFrame
<1>8. /\ A \in UserSpace /\ A.pgdir = B.pgdir /\ A.pd0 = B.pd0 /\ Less(B, A, s)
      /\ Entry(A, "pt", t) = None
  BY <1>3, <1>4, <1>9, <1>10
<1> QED BY <1>8 DEF A

\* page_remove_pte one of a table,
LEMMA CutPte ==
  ASSUME NEW B \in UserSpace, NEW s, NEW p \in Page
  PROVE  LET A == [B EXCEPT !.pte[p] = None] IN
         /\ A \in UserSpace /\ A.pgdir = B.pgdir /\ A.pd0 = B.pd0 /\ Less(B, A, s)
         /\ Entry(A, "pte", p) = None
<1> DEFINE A == [B EXCEPT !.pte[p] = None]
<1>1. /\ B # None /\ B \in AddressSpace /\ B.areas \in Seq(Area) /\ B.pgdir \in Frame
      /\ B.pte \in [Page -> Frame \cup {None, Swapped}]
  BY SpaceFields
<1>2. A \in AddressSpace
  BY <1>1 DEF AddressSpace
<1>3. /\ A.pgdir = B.pgdir /\ A.pd0 = B.pd0 /\ A.pt = B.pt /\ A.areas = B.areas
      /\ A.pte = [B.pte EXCEPT ![p] = None]
  BY <1>1 DEF AddressSpace
<1> HIDE DEF A
<1>4. A \in UserSpace
  BY <1>1, <1>2, <1>3 DEF UserSpace
<1>5. A.pte[p] = None /\ \A j \in Page : j # p => A.pte[j] = B.pte[j]
  BY <1>1, <1>3
<1>6. A # None /\ B # None
  BY <1>4, SpaceFields
<1>7. ASSUME NEW k \in MapKinds, NEW i, <<k, s, i>> \in Slot
      PROVE  Entry(A, k, i) = None \/ Entry(A, k, i) = Entry(B, k, i)
  <2>1. k = "pte" => i \in Page
    BY <1>7, SlotIn
  <2>3. CASE k = "pte"
    BY <1>5, <1>6, <2>1, <2>3, Entries4, NoFrame
  <2>4. CASE k # "pte"
    BY <1>3, <1>6, <2>4, Entries4 DEF MapKinds
  <2> QED BY <2>3, <2>4
<1>9. Less(B, A, s)
  BY <1>7 DEF Less
<1>10. Entry(A, "pte", p) = None
  BY <1>5, <1>6, Entries4, NoFrame
<1>8. /\ A \in UserSpace /\ A.pgdir = B.pgdir /\ A.pd0 = B.pd0 /\ Less(B, A, s)
      /\ Entry(A, "pte", p) = None
  BY <1>3, <1>4, <1>9, <1>10
<1> QED BY <1>8 DEF A

\* and exit_range one of the first directory, with all that is below it.
LEMMA CutDir ==
  ASSUME NEW B \in UserSpace, NEW s, NEW d \in Dirs
  PROVE  LET A == [B EXCEPT !.pd0[d] = None,
                            !.pt = [t \in Tabs |-> IF Dir(t) = d THEN None ELSE @[t]]] IN
         /\ A \in UserSpace /\ A.pgdir = B.pgdir /\ Less(B, A, s) /\ Entry(A, "pd0", d) = None
<1> DEFINE w == [t \in Tabs |-> IF Dir(t) = d THEN None ELSE B.pt[t]]
           A == [[B EXCEPT !.pd0[d] = None] EXCEPT !.pt = w]
<1>1. /\ B # None /\ B \in AddressSpace /\ B.areas \in Seq(Area) /\ B.pgdir \in Frame
      /\ B.pd0 \in [Dirs -> Frame \cup {None}] /\ B.pt \in [Tabs -> Frame \cup {None}]
  BY SpaceFields
<1>2. w \in [Tabs -> Frame \cup {None}] /\ \A t \in Tabs : w[t] = None \/ w[t] = B.pt[t]
  BY <1>1
<1>a. A = [B EXCEPT !.pd0[d] = None,
                    !.pt = [t \in Tabs |-> IF Dir(t) = d THEN None ELSE @[t]]]
  BY <1>1 DEF AddressSpace
<1> HIDE DEF w
<1>3. A \in AddressSpace
  BY <1>1, <1>2 DEF AddressSpace
<1>4. /\ A.pgdir = B.pgdir /\ A.pte = B.pte /\ A.pt = w /\ A.areas = B.areas
      /\ A.pd0 = [B.pd0 EXCEPT ![d] = None]
  BY <1>1 DEF AddressSpace
<1> HIDE DEF A
<1>5. A \in UserSpace
  BY <1>1, <1>3, <1>4 DEF UserSpace
<1>6. A.pd0[d] = None /\ \A j \in Dirs : j # d => A.pd0[j] = B.pd0[j]
  BY <1>1, <1>4
<1>7. A # None /\ B # None
  BY <1>5, SpaceFields
<1>8. ASSUME NEW k \in MapKinds, NEW i, <<k, s, i>> \in Slot
      PROVE  Entry(A, k, i) = None \/ Entry(A, k, i) = Entry(B, k, i)
  <2>1. (k = "pd0" => i \in Dirs) /\ (k = "pt" => i \in Tabs)
    BY <1>8, SlotIn
  <2>2. CASE k = "pd0"
    BY <1>6, <1>7, <2>1, <2>2, Entries4, NoFrame
  <2>3. CASE k = "pt"
    BY <1>2, <1>4, <1>7, <2>1, <2>3, Entries4
  <2>4. CASE k \in {"pgdir", "pte"}
    BY <1>4, <1>7, <2>4, Entries4
  <2> QED BY <2>2, <2>3, <2>4 DEF MapKinds
<1>10. Less(B, A, s)
  BY <1>8 DEF Less
<1>11. Entry(A, "pd0", d) = None
  BY <1>6, <1>7, Entries4
<1>9. A \in UserSpace /\ A.pgdir = B.pgdir /\ Less(B, A, s) /\ Entry(A, "pd0", d) = None
  BY <1>4, <1>5, <1>10, <1>11
<1> QED BY <1>9, <1>a

-----------------------------------------------------------------------------
(***************************************************************************)
(* Page tables.                                                            *)
(***************************************************************************)
\* After check_swap alloc_pages does not swap: its loop ends at once.
LEMMA ReadyIs ==
  ASSUME NEW m, NEW R, Sound(m, R)
  PROVE  Ready(m) = m
BY DEF Sound, Typed, Ready

\* A block of one frame.
LEMMA One == \A a \in Frame : Block(a, 1) = {a}
BY Frames DEF Block

\* alloc_page takes a.
LEMMA GrabOne ==
  ASSUME NEW m, NEW R, Sound(m, R), NEW a, Finds(m, 1, a)
  PROVE  LET r == [m EXCEPT !.pmm = Taken(@, a, 1)] IN
         /\ Sound(r, R \cup {a}) /\ Around(m, r) /\ r.ok = m.ok
         /\ r.ok /\ ~r.pmm.tail => a \notin R
<1> DEFINE r == [m EXCEPT !.pmm = Taken(@, a, 1)]
<1>1. /\ Sound(r, R \cup Block(a, 1)) /\ Around(m, r) /\ r.ok = m.ok
      /\ r.ok /\ ~r.pmm.tail => R \cap Block(a, 1) = {}
  <2> DEFINE k == 1
             q == [m EXCEPT !.pmm = Taken(@, a, k)]
  <2>1. k \in Nat /\ k >= 1 /\ Finds(m, k, a)
    OBVIOUS
  <2> HIDE DEF k
  <2>2. /\ Sound(q, R \cup Block(a, k)) /\ Around(m, q) /\ q.ok = m.ok
        /\ q.ok /\ ~q.pmm.tail => R \cap Block(a, k) = {}
    BY <2>1, Grab
  <2> QED BY <2>2 DEF k
<1> HIDE DEF r
<1>2. Block(a, 1) = {a}
  BY One DEF Finds
<1>3. /\ Sound(r, R \cup {a}) /\ Around(m, r) /\ r.ok = m.ok
      /\ r.ok /\ ~r.pmm.tail => a \notin R
  BY <1>1, <1>2
<1> QED BY <1>3 DEF r

\* free_page gives back a frame in hand.
LEMMA ReleaseOne ==
  ASSUME NEW m, NEW R, Sound(m, R), m.ok = TRUE, NEW a \in Frame, a \in R
  PROVE  LET r == free_pages(m, a, 1) IN
         Sound(r, R \ {a}) /\ Around(m, r)
<1> DEFINE r == free_pages(m, a, 1)
<1>1. a + 1 <= NFrames /\ Block(a, 1) = {a} /\ Block(a, 1) \in SUBSET R
  BY Frames, One, PmmAssumption
<1>2. Sound(r, R \ Block(a, 1)) /\ Around(m, r)
  <2> DEFINE k == 1
             q == free_pages(m, a, k)
  <2>1. k \in Nat /\ k >= 1 /\ a + k <= NFrames /\ Block(a, k) \in SUBSET R
    BY <1>1
  <2> HIDE DEF k
  <2>2. Sound(q, R \ Block(a, k)) /\ Around(m, q)
    BY <2>1, Release
  <2> QED BY <2>2 DEF k
<1> HIDE DEF r
<1>3. Sound(r, R \ {a}) /\ Around(m, r)
  BY <1>1, <1>2
<1> QED BY <1>3 DEF r

\* What remains to be done when a frame has been put into an entry.
LEMMA PutDone ==
  ASSUME NEW m, NEW R, NEW a, Sound(m, R \cup {a}), m.ok /\ ~m.pmm.tail => a \notin R,
         NEW s \in Proc, NEW A \in UserSpace, NEW n,
         Remaps(m, n, s, A), NEW c, Moves(m.mm[s], A, s, c, a),
         A.pgdir = m.mm[s].pgdir
  PROVE  Sound(n, R) /\ Keeps(m, n, s)
<1>0. Sound(n, (R \cup {a}) \ {a})
  <2> DEFINE Q == R \cup {a}
  <2>1. a \in Q
    OBVIOUS
  <2>2. Sound(m, Q)
    OBVIOUS
  <2> HIDE DEF Q
  <2>3. Sound(n, Q \ {a})
    BY <2>1, <2>2, Remapped
  <2> QED BY <2>3 DEF Q
<1>1. Sound(n, R)
  <2>1. Typed(n)
    BY <1>0 DEF Sound
  <2>2. ASSUME n.ok, ~n.pmm.tail
        PROVE  Exact(n.pmm) /\ Owned(Owns(n), FreeOf(n.pmm), R)
    <3>1. a \notin R
      BY <2>2 DEF Remaps
    <3>2. (R \cup {a}) \ {a} = R
      BY <3>1
    <3> QED BY <1>0, <2>2, <3>2 DEF Sound
  <2> QED BY <2>1, <2>2 DEF Sound
<1>2. Typed(m)
  BY DEF Sound
<1> QED BY <1>1, <1>2, KeepsRemap

\* get_pte adds a directory: the frame comes from the free list and goes into the entry.
LEMMA WithDirSound ==
  ASSUME NEW m, NEW R, Sound(m, R), NEW s \in Proc, m.mm[s] \in UserSpace, NEW d \in Dirs
  PROVE  LET n == WithDir(m, s, d) IN m.ok = TRUE => Sound(n, R) /\ Keeps(m, n, s)
<1> SUFFICES ASSUME m.ok = TRUE
             PROVE  LET n == WithDir(m, s, d) IN Sound(n, R) /\ Keeps(m, n, s)
  OBVIOUS
<1> DEFINE a == Found(m.pmm, 1)
           r == [m EXCEPT !.pmm = Taken(@, a, 1)]
           B == r.mm[s]
           A == [B EXCEPT !.pd0[d] = a]
           n == WithDir(m, s, d)
           g == [r EXCEPT !.mm[s].pd0[d] = a]
           h == [m EXCEPT !.ok = FALSE]
<1>1. n = IF m.mm[s].pd0[d] # None THEN m ELSE IF a \in Frame THEN g ELSE h
  BY ReadyIs DEF WithDir, alloc_page, Then
<1>2. Keeps(m, m, s)
  BY KeepsSelf
<1>3. Sound(h, R) /\ Keeps(m, h, s)
  BY <1>2, Fails, KeepsAround
<1>4. ASSUME a \in Frame PROVE Sound(g, R) /\ Keeps(m, g, s)
  <2>0. Finds(m, 1, a)
    BY <1>4 DEF Finds
  <2>1. /\ Sound(r, R \cup {a}) /\ Around(m, r) /\ r.ok = m.ok
        /\ r.ok /\ ~r.pmm.tail => a \notin R
    BY <2>0, GrabOne
  <2> HIDE DEF r, a
  <2>2. Typed(r) /\ B \in UserSpace
    BY <2>1 DEF Sound, Around
  <2>3. Remaps(r, g, s, A)
    BY <2>2 DEF Typed, Rec, Remaps
  <2> HIDE DEF g
  <2>4. A \in UserSpace /\ A.pgdir = B.pgdir /\ Moves(B, A, s, <<"pd0", s, d>>, a)
    BY <1>4, <2>2, PutPd0
  <2> HIDE DEF A
  <2>5. Sound(g, R) /\ Keeps(r, g, s)
    BY <2>1, <2>3, <2>4, PutDone
  <2>6. Keeps(m, r, s)
    BY <1>2, <2>1, KeepsAround
  <2> QED BY <2>5, <2>6, KeepsOn
<1> QED BY <1>1, <1>2, <1>3, <1>4

\* From m, an operation on s leads to n, with frames R in hand.
Fine(m, n, s, R) == Sound(n, R) /\ Keeps(m, n, s)

\* A process with an address space calls, with frames R in hand.
Starts(m, s, R) == Sound(m, R) /\ s \in Proc /\ m.mm[s] \in UserSpace

\* Doing nothing is fine.
LEMMA FineSelf ==
  ASSUME NEW m, NEW s, NEW R, Starts(m, s, R)
  PROVE  Fine(m, m, s, R)
BY KeepsSelf DEF Starts, Fine

\* The next operation starts where one has ended.
LEMMA FineStarts ==
  ASSUME NEW m, NEW n, NEW s, NEW R, s \in Proc, Fine(m, n, s, R)
  PROVE  Starts(n, s, R)
BY DEF Starts, Fine, Keeps

\* Two operations, one after the other.
LEMMA FineOn ==
  ASSUME NEW m, NEW n, NEW g, NEW s, NEW R, NEW S, Fine(m, n, s, R), Fine(n, g, s, S)
  PROVE  Fine(m, g, s, S)
BY KeepsOn DEF Fine

\* An assertion that fails.
LEMMA FineFails ==
  ASSUME NEW m, NEW s, NEW R, Starts(m, s, R)
  PROVE  LET h == [m EXCEPT !.ok = FALSE] IN \A S : Fine(m, h, s, S)
<1> DEFINE h == [m EXCEPT !.ok = FALSE]
<1>1. \A S : Sound(h, S) /\ Around(m, h) /\ h.ok = FALSE
  BY Fails DEF Starts
<1>2. Keeps(m, m, s)
  BY KeepsSelf DEF Starts
<1> HIDE DEF h
<1>3. \A S : Fine(m, h, s, S)
  BY <1>1, <1>2, KeepsAround DEF Fine
<1> QED BY <1>3 DEF h

\* alloc_page,
LEMMA FineGrab ==
  ASSUME NEW m, NEW s, NEW R, Starts(m, s, R), NEW a, Finds(m, 1, a)
  PROVE  LET r == [m EXCEPT !.pmm = Taken(@, a, 1)] IN
         /\ Fine(m, r, s, R \cup {a}) /\ r.ok = m.ok
         /\ r.ok /\ ~r.pmm.tail => a \notin R
<1> DEFINE r == [m EXCEPT !.pmm = Taken(@, a, 1)]
<1>1. /\ Sound(r, R \cup {a}) /\ Around(m, r) /\ r.ok = m.ok
      /\ r.ok /\ ~r.pmm.tail => a \notin R
  BY GrabOne DEF Starts
<1>2. Keeps(m, m, s)
  BY KeepsSelf DEF Starts
<1> HIDE DEF r
<1>3. Fine(m, r, s, R \cup {a})
  BY <1>1, <1>2, KeepsAround DEF Fine
<1> QED BY <1>1, <1>3 DEF r

\* free_page,
LEMMA FineRelease ==
  ASSUME NEW m, NEW s, NEW R, NEW a \in Frame, Starts(m, s, R \cup {a}), m.ok = TRUE
  PROVE  LET r == free_pages(m, a, 1) IN Fine(m, r, s, R \ {a})
<1> DEFINE r == free_pages(m, a, 1)
           Q == R \cup {a}
<1>1. Sound(m, Q) /\ a \in Q
  BY DEF Starts
<1> HIDE DEF Q
<1>2. Sound(r, Q \ {a}) /\ Around(m, r)
  BY <1>1, ReleaseOne
<1>3. Keeps(m, m, s)
  BY KeepsSelf DEF Starts
<1> HIDE DEF r
<1>4. Sound(r, R \ {a})
  BY <1>2 DEF Q
<1>5. Fine(m, r, s, R \ {a})
  BY <1>2, <1>3, <1>4, KeepsAround DEF Fine
<1> QED BY <1>5 DEF r

\* a frame in hand that is put into an entry,
LEMMA FinePut ==
  ASSUME NEW m, NEW R, NEW a, NEW s, Starts(m, s, R \cup {a}), m.ok /\ ~m.pmm.tail => a \notin R,
         NEW A \in UserSpace, NEW n,
         Remaps(m, n, s, A), NEW c, Moves(m.mm[s], A, s, c, a),
         A.pgdir = m.mm[s].pgdir
  PROVE  Fine(m, n, s, R)
BY PutDone DEF Starts, Fine

\* and entries that are cleared, as parts of an operation on s.
LEMMA FineLess ==
  ASSUME NEW m, NEW R, NEW s, Starts(m, s, R), NEW A \in UserSpace, NEW n,
         Remaps(m, n, s, A), Less(m.mm[s], A, s), A.pgdir = m.mm[s].pgdir
  PROVE  /\ Fine(m, n, s, R)
         /\ \A k \in MapKinds : \A i :
              <<k, s, i>> \in Slot /\ Entry(m.mm[s], k, i) # None /\ Entry(A, k, i) = None =>
                Fine(m, n, s, R \cup {Entry(m.mm[s], k, i)})
<1>1. Keeps(m, n, s)
  BY KeepsRemap DEF Starts, Sound
<1>2. /\ Sound(n, R)
      /\ \A k \in MapKinds : \A i :
              <<k, s, i>> \in Slot /\ Entry(m.mm[s], k, i) # None /\ Entry(A, k, i) = None =>
                Sound(n, R \cup {Entry(m.mm[s], k, i)})
  BY RemappedLess DEF Starts
<1> QED BY <1>1, <1>2 DEF Fine

\* get_pte adds a directory,
LEMMA WithDirFine ==
  ASSUME NEW m, NEW R, NEW s, Starts(m, s, R), NEW d \in Dirs
  PROVE  LET n == WithDir(m, s, d) IN m.ok = TRUE => Fine(m, n, s, R)
BY WithDirSound DEF Starts, Fine

\* then a table where it needs one:
LEMMA WithTableFine ==
  ASSUME NEW m, NEW R, NEW s, Starts(m, s, R), NEW t \in Tabs
  PROVE  LET n == WithTable(m, s, t) IN Fine(m, n, s, R)
<1> DEFINE a == Found(m.pmm, 1)
           r == [m EXCEPT !.pmm = Taken(@, a, 1)]
           B == r.mm[s]
           A == [B EXCEPT !.pt[t] = a]
           n == WithTable(m, s, t)
           g == [r EXCEPT !.mm[s].pt[t] = a]
           h == [m EXCEPT !.ok = FALSE]
<1>1. n = IF ~m.ok \/ m.mm[s].pt[t] # None THEN m ELSE IF a \in Frame THEN g ELSE h
  BY ReadyIs DEF Starts, WithTable, alloc_page, Then
<1>2. Fine(m, m, s, R)
  BY FineSelf
<1>3. Fine(m, h, s, R)
  BY FineFails
<1>4. ASSUME a \in Frame PROVE Fine(m, g, s, R)
  <2>0. Finds(m, 1, a)
    BY <1>4 DEF Finds
  <2>1. /\ Fine(m, r, s, R \cup {a}) /\ r.ok = m.ok
        /\ r.ok /\ ~r.pmm.tail => a \notin R
    BY <2>0, FineGrab
  <2> HIDE DEF r, a
  <2>2. Starts(r, s, R \cup {a})
    BY <2>1, FineStarts DEF Starts
  <2>3. B \in UserSpace /\ Typed(r) /\ s \in Proc
    BY <2>2 DEF Starts, Sound
  <2>4. Remaps(r, g, s, A)
    BY <2>3 DEF Typed, Rec, Remaps
  <2> HIDE DEF g
  <2>5. A \in UserSpace /\ A.pgdir = B.pgdir /\ Moves(B, A, s, <<"pt", s, t>>, a)
    BY <1>4, <2>3, PutPt
  <2> HIDE DEF A
  <2>6. Fine(r, g, s, R)
    BY <2>1, <2>2, <2>4, <2>5, FinePut
  <2> QED BY <2>1, <2>6, FineOn
<1> QED BY <1>1, <1>2, <1>3, <1>4

\* get_pte as a whole.
LEMMA GetPteFine ==
  ASSUME NEW m, NEW R, NEW s, Starts(m, s, R), m.ok = TRUE, NEW p \in Page
  PROVE  LET n == get_pte(m, s, p) IN Fine(m, n, s, R)
<1> DEFINE t == Tab(p)
           d == Dir(t)
           r == WithDir(m, s, d)
           n == WithTable(r, s, t)
<1>1. t \in Tabs /\ d \in Dirs
  BY Tables
<1>2. get_pte(m, s, p) = n
  BY DEF get_pte
<1> HIDE DEF t, d
<1>3. Fine(m, r, s, R)
  BY <1>1, WithDirFine
<1> HIDE DEF r
<1>4. Starts(r, s, R)
  BY <1>3, FineStarts DEF Starts
<1>5. Fine(r, n, s, R)
  BY <1>1, <1>4, WithTableFine
<1> HIDE DEF n
<1>6. Fine(m, n, s, R)
  BY <1>3, <1>5, FineOn
<1> QED BY <1>2, <1>6

\* page_insert maps a page to a frame in hand; an old frame is given back.
LEMMA PageInsertFine ==
  ASSUME NEW m, NEW s, NEW a \in Frame, NEW v, Starts(m, s, {a}), m.ok = TRUE, NEW p \in Page
  PROVE  LET n == page_insert(m, s, p, a, v) IN Fine(m, n, s, {})
<1> DEFINE r == get_pte(m, s, p)
           B == r.mm[s]
           A == [B EXCEPT !.pte[p] = a]
           n == page_insert(m, s, p, a, v)
           g == [r EXCEPT !.mm[s].pte[p] = a, !.content[a] = v]
<1>1. n = IF r.ok THEN g ELSE r
  BY DEF page_insert, Then
<1>2. Fine(m, r, s, {a})
  BY GetPteFine
<1> HIDE DEF r, n
<1>3. Starts(r, s, {a})
  BY <1>2, FineStarts DEF Starts
<1>4. Fine(m, r, s, {})
  BY <1>2, SoundFewer DEF Fine
<1>5. Fine(m, g, s, {})
  <2>1. B \in UserSpace /\ Typed(r) /\ s \in Proc
    BY <1>3 DEF Starts, Sound
  <2>2. Remaps(r, g, s, A)
    <3> DEFINE e == [r EXCEPT !.mm[s].pte[p] = a]
    <3>1. Remaps(r, e, s, A)
      BY <2>1 DEF Typed, Rec, Remaps
    <3>2. g = [e EXCEPT !.content[a] = v]
      OBVIOUS
    <3> HIDE DEF e, g, A
    <3> QED BY <3>1, <3>2 DEF Rec, Remaps
  <2> HIDE DEF g
  <2>3. A \in UserSpace /\ A.pgdir = B.pgdir /\ Moves(B, A, s, <<"pte", s, p>>, a)
    BY <2>1, PutPte
  <2> HIDE DEF A
  <2>4. Starts(r, s, {} \cup {a})
    BY <1>3
  <2>5. Fine(r, g, s, {})
    BY <2>2, <2>3, <2>4, FinePut
  <2> QED BY <1>2, <2>5, FineOn
<1>6. Fine(m, n, s, {})
  BY <1>1, <1>4, <1>5
<1> QED BY <1>6 DEF n

\* The processes are not check_mm.
LEMMA NoCheck == \A s \in Proc : s # check /\ s \in Space
BY MemoryAssumption DEF Space

\* pgdir_alloc_page takes a frame and maps it.
LEMMA PageAllocFine ==
  ASSUME NEW m, NEW s, NEW v, Starts(m, s, {}), m.ok = TRUE, NEW p \in Page
  PROVE  LET n == pgdir_alloc_page(m, s, p, v) IN Fine(m, n, s, {})
<1> DEFINE a == Found(m.pmm, 1)
           r == [m EXCEPT !.pmm = Taken(@, a, 1)]
           n == pgdir_alloc_page(m, s, p, v)
           g == page_insert(r, s, p, a, v)
           h == [m EXCEPT !.ok = FALSE]
<1>1. n = IF a \in Frame THEN g ELSE h
  BY ReadyIs, NoCheck DEF Starts, pgdir_alloc_page, alloc_page, Then, Swappable
<1>2. Fine(m, h, s, {})
  BY FineFails
<1>3. ASSUME a \in Frame PROVE Fine(m, g, s, {})
  <2>0. Finds(m, 1, a)
    BY <1>3 DEF Finds
  <2>1. Fine(m, r, s, {} \cup {a}) /\ r.ok = m.ok
    BY <2>0, FineGrab
  <2> HIDE DEF r, a
  <2>2. {} \cup {a} = {a}
    OBVIOUS
  <2>3. Fine(m, r, s, {a}) /\ r.ok = TRUE
    BY <2>1, <2>2
  <2>4. Starts(r, s, {a})
    BY <2>3, FineStarts DEF Starts
  <2>5. Fine(r, g, s, {})
    BY <1>3, <2>3, <2>4, PageInsertFine
  <2> HIDE DEF g
  <2> QED BY <2>3, <2>5, FineOn
<1> QED BY <1>1, <1>2, <1>3

\* The same for a page with content that depends on the memory.
LEMMA PageTakenFine ==
  ASSUME NEW m, NEW s, NEW v, Starts(m, s, {}), m.ok = TRUE, NEW p \in Page,
         NEW a, Finds(m, 1, a)
  PROVE  LET r == [m EXCEPT !.pmm = Taken(@, a, 1)]
             n == page_insert(r, s, p, a, v)
         IN  Fine(m, n, s, {})
<1> DEFINE r == [m EXCEPT !.pmm = Taken(@, a, 1)]
           g == page_insert(r, s, p, a, v)
<1>1. Fine(m, r, s, {} \cup {a}) /\ r.ok = m.ok
  BY FineGrab
<1> HIDE DEF r
<1>2. {} \cup {a} = {a} /\ a \in Frame
  BY DEF Finds
<1>3. Fine(m, r, s, {a}) /\ r.ok = TRUE
  BY <1>1, <1>2
<1>4. Starts(r, s, {a})
  BY <1>3, FineStarts DEF Starts
<1>5. Fine(r, g, s, {})
  BY <1>2, <1>3, <1>4, PageInsertFine
<1> HIDE DEF g
<1>6. Fine(m, g, s, {})
  BY <1>3, <1>5, FineOn
<1> QED BY <1>6 DEF g, r

\* copy_range copies one page.
LEMMA PageCopiedFine ==
  ASSUME NEW m, NEW s, NEW from, Starts(m, s, {}), m.ok = TRUE, NEW p \in Page
  PROVE  LET n == PageCopied(m, from, s, p) IN Fine(m, n, s, {})
<1> DEFINE r == get_pte(m, s, p)
           a == Found(r.pmm, 1)
           e == [r EXCEPT !.pmm = Taken(@, a, 1)]
           v == e.content[e.mm[from].pte[p]]
           n == PageCopied(m, from, s, p)
           g == page_insert(e, s, p, a, v)
           h == [r EXCEPT !.ok = FALSE]
<1>1. Fine(m, r, s, {})
  BY GetPteFine
<1>2. Starts(r, s, {})
  BY <1>1, FineStarts DEF Starts
<1>3. n = IF r.ok THEN IF a \in Frame THEN g ELSE h ELSE r
  <2>1. Ready(r) = r
    BY <1>2, ReadyIs DEF Starts
  <2>2. n = IF r.ok THEN alloc_page(r, LAMBDA y, b : page_insert(y, s, p, b, y.content[y.mm[from].pte[p]])) ELSE r
    BY DEF PageCopied, Then
  <2> HIDE DEF r, n
  <2> QED BY <2>1, <2>2 DEF alloc_page, Then
<1> HIDE DEF r, n
<1>4. Fine(r, h, s, {})
  BY <1>2, FineFails
<1>5. ASSUME a \in Frame, r.ok PROVE Fine(r, g, s, {})
  <2>1. Finds(r, 1, a) /\ r.ok = TRUE
    BY <1>2, <1>5 DEF Finds, Starts, Sound, Typed
  <2> HIDE DEF v, a
  <2> QED BY <1>2, <2>1, PageTakenFine
<1> HIDE DEF g, h
<1>6. Fine(m, n, s, {})
  BY <1>1, <1>3, <1>4, <1>5, FineOn
<1> QED BY <1>6 DEF n

\* A is what s has in m, without the entry that refers to x.
Cuts(m, s, A, k, i, x) ==
  /\ A \in UserSpace /\ Less(m.mm[s], A, s) /\ A.pgdir = m.mm[s].pgdir
  /\ k \in MapKinds /\ <<k, s, i>> \in Slot /\ x \in Frame
  /\ x = Entry(m.mm[s], k, i) /\ Entry(A, k, i) = None

\* An entry is cleared and its frame freed.
LEMMA EntryFreed ==
  ASSUME NEW m, NEW s, Starts(m, s, {}), m.ok = TRUE, NEW n, NEW A, NEW k, NEW i, NEW x,
         Remaps(m, n, s, A), Cuts(m, s, A, k, i, x)
  PROVE  LET g == free_pages(n, x, 1) IN Fine(m, g, s, {}) /\ Around(n, g)
<1>1. /\ x \in Frame /\ x # None
      /\ A \in UserSpace /\ Less(m.mm[s], A, s) /\ A.pgdir = m.mm[s].pgdir
      /\ k \in MapKinds /\ <<k, s, i>> \in Slot /\ x \in Frame
      /\ x = Entry(m.mm[s], k, i) /\ Entry(A, k, i) = None
  BY NoFrame DEF Cuts
<1>2. Fine(m, n, s, {} \cup {x})
  BY <1>1, FineLess
<1>3. Starts(n, s, {} \cup {x}) /\ n.ok = TRUE
  BY <1>2, FineStarts DEF Starts, Remaps
<1> DEFINE g == free_pages(n, x, 1)
<1>4. Fine(n, g, s, {} \ {x})
  BY <1>1, <1>3, FineRelease
<1>5. Around(n, g)
  <2> DEFINE Q == {} \cup {x}
  <2>1. Sound(n, Q) /\ x \in Q
    BY <1>3 DEF Starts
  <2> HIDE DEF Q
  <2> QED BY <1>1, <1>3, <2>1, ReleaseOne
<1> HIDE DEF g
<1>7. Fine(n, g, s, {})
  <2>1. {} \ {x} = {}
    OBVIOUS
  <2> QED BY <1>4, <2>1
<1>8. Fine(m, g, s, {}) /\ Around(n, g)
  BY <1>2, <1>5, <1>7, FineOn
<1> QED BY <1>8 DEF g

\* page_remove does so for a page, if it is mapped.
LEMMA PageRemoveFine ==
  ASSUME NEW m, NEW s, Starts(m, s, {}), m.ok = TRUE, NEW p \in Page
  PROVE  LET n == page_remove(m, s, p) IN Fine(m, n, s, {})
<1> DEFINE B == m.mm[s]
           A == [B EXCEPT !.pte[p] = None]
           x == B.pte[p]
           e == [m EXCEPT !.mm[s].pte[p] = None]
           g == free_pages(e, x, 1)
           n == page_remove(m, s, p)
<1>1. n = IF x \notin Frame THEN m ELSE g
  BY DEF page_remove
<1>2. Fine(m, m, s, {})
  BY FineSelf
<1>3. ASSUME x \in Frame PROVE Fine(m, g, s, {})
  <2>1. B \in UserSpace /\ Typed(m) /\ s \in Proc /\ s \in Space
    BY NoCheck DEF Starts, Sound
  <2>2. Remaps(m, e, s, A)
    BY <2>1 DEF Typed, Rec, Remaps
  <2> HIDE DEF e
  <2>3. A \in UserSpace /\ A.pgdir = B.pgdir /\ Less(B, A, s) /\ Entry(A, "pte", p) = None
    BY <2>1, CutPte
  <2> HIDE DEF A
  <2>4. x = Entry(B, "pte", p)
    BY <1>3, <2>1, SpaceFields, Entries4, NoFrame
  <2>5. <<"pte", s, p>> \in Slot /\ "pte" \in MapKinds
    BY <2>1, IsSlot DEF MapKinds
  <2> HIDE DEF x
  <2>6. Cuts(m, s, A, "pte", p, x)
    BY <1>3, <2>3, <2>4, <2>5 DEF Cuts
  <2> QED BY <2>2, <2>6, EntryFreed
<1> QED BY <1>1, <1>2, <1>3

\* A new directory leaves the pages as they are mapped,
LEMMA DirPte ==
  ASSUME NEW m, NEW s, Starts(m, s, {}), m.ok = TRUE, NEW d \in Dirs
  PROVE  LET n == WithDir(m, s, d) IN n.mm[s].pte = m.mm[s].pte
<1> DEFINE a == Found(m.pmm, 1)
           r == [m EXCEPT !.pmm = Taken(@, a, 1)]
           B == r.mm[s]
           A == [B EXCEPT !.pd0[d] = a]
           n == WithDir(m, s, d)
           g == [r EXCEPT !.mm[s].pd0[d] = a]
           h == [m EXCEPT !.ok = FALSE]
<1>1. n = IF m.mm[s].pd0[d] # None THEN m ELSE IF a \in Frame THEN g ELSE h
  BY ReadyIs DEF Starts, WithDir, alloc_page, Then
<1>2. Rec(m) /\ m.mm \in [Space -> UserSpace \cup {None}] /\ s \in Space /\ m.mm[s] \in UserSpace
  BY NoCheck DEF Starts, Sound, Typed
<1>3. h.mm = m.mm
  <2> DEFINE F == FALSE
  <2>1. h = [m EXCEPT !.ok = F]
    OBVIOUS
  <2> HIDE DEF h, F
  <2> QED BY <1>2, <2>1 DEF Rec
<1>4. Rec(r) /\ r.mm = m.mm
  BY <1>2 DEF Rec
<1> HIDE DEF r
<1>5. g.mm = [r.mm EXCEPT ![s] = A]
  BY <1>4 DEF Rec
<1>6. A.pte = B.pte
  BY <1>2, <1>4, SpaceFields DEF AddressSpace
<1> HIDE DEF A, g
<1>7. g.mm[s] = A
  BY <1>2, <1>4, <1>5
<1> QED BY <1>1, <1>3, <1>4, <1>6, <1>7

\* and so does a new table.
LEMMA TablePte ==
  ASSUME NEW m, NEW s, Starts(m, s, {}), NEW t \in Tabs
  PROVE  LET n == WithTable(m, s, t) IN n.mm[s].pte = m.mm[s].pte
<1> DEFINE a == Found(m.pmm, 1)
           r == [m EXCEPT !.pmm = Taken(@, a, 1)]
           B == r.mm[s]
           A == [B EXCEPT !.pt[t] = a]
           n == WithTable(m, s, t)
           g == [r EXCEPT !.mm[s].pt[t] = a]
           h == [m EXCEPT !.ok = FALSE]
<1>1. n = IF ~m.ok \/ m.mm[s].pt[t] # None THEN m ELSE IF a \in Frame THEN g ELSE h
  BY ReadyIs DEF Starts, WithTable, alloc_page, Then
<1>2. Rec(m) /\ m.mm \in [Space -> UserSpace \cup {None}] /\ s \in Space /\ m.mm[s] \in UserSpace
  BY NoCheck DEF Starts, Sound, Typed
<1>3. h.mm = m.mm
  <2> DEFINE F == FALSE
  <2>1. h = [m EXCEPT !.ok = F]
    OBVIOUS
  <2> HIDE DEF h, F
  <2> QED BY <1>2, <2>1 DEF Rec
<1>4. Rec(r) /\ r.mm = m.mm
  BY <1>2 DEF Rec
<1> HIDE DEF r
<1>5. g.mm = [r.mm EXCEPT ![s] = A]
  BY <1>4 DEF Rec
<1>6. A.pte = B.pte
  BY <1>2, <1>4, SpaceFields DEF AddressSpace
<1> HIDE DEF A, g
<1>7. g.mm[s] = A
  BY <1>2, <1>4, <1>5
<1> QED BY <1>1, <1>3, <1>4, <1>6, <1>7

\* do_pgfault maps a page that is not mapped.
LEMMA PageFaultFine ==
  ASSUME NEW m, NEW s, Starts(m, s, {}), m.ok = TRUE, NEW p \in Page,
         m.mm[s].pte[p] \notin Frame
  PROVE  LET n == do_pgfault(m, s, p) IN Fine(m, n, s, {})
<1> DEFINE r == get_pte(m, s, p)
           n == do_pgfault(m, s, p)
           a == Found(r.pmm, 1)
           e == [r EXCEPT !.pmm = Taken(@, a, 1)]
           v == e.swap[p]
           g == page_insert(e, s, p, a, v)
           h == [r EXCEPT !.ok = FALSE]
           b == pgdir_alloc_page(r, s, p, Unset)
<1>1. Fine(m, r, s, {})
  BY GetPteFine
<1>2. Starts(r, s, {})
  BY <1>1, FineStarts DEF Starts
<1>3. r.mm[s].pte[p] = None \/ r.mm[s].pte[p] = Swapped
  <2> DEFINE t == Tab(p)
             d == Dir(t)
             q == WithDir(m, s, d)
  <2>1. t \in Tabs /\ d \in Dirs /\ r = WithTable(q, s, t)
    BY Tables DEF get_pte
  <2> HIDE DEF t, d, r
  <2>2. Fine(m, q, s, {}) /\ q.mm[s].pte = m.mm[s].pte
    BY <2>1, WithDirFine, DirPte
  <2> HIDE DEF q
  <2>3. Starts(q, s, {})
    BY <2>2, FineStarts DEF Starts
  <2>4. r.mm[s].pte = m.mm[s].pte
    BY <2>1, <2>2, <2>3, TablePte
  <2>5. m.mm[s].pte[p] \in Frame \cup {None, Swapped}
    BY SpaceFields DEF Starts
  <2> QED BY <2>4, <2>5
<1>4. Ready(r) = r
  BY <1>2, ReadyIs DEF Starts
<1>5. /\ r.ok /\ r.mm[s].pte[p] = None => n = b
      /\ r.ok /\ r.mm[s].pte[p] = Swapped =>
           n = alloc_page(r, LAMBDA y, c : Swappable(page_insert(y, s, p, c, y.swap[p]), s, p))
      /\ ~r.ok => n = r
  BY NoFrame DEF do_pgfault, Then
<1> HIDE DEF r, n
<1>6. r.ok /\ r.mm[s].pte[p] = Swapped => n = IF a \in Frame THEN g ELSE h
  BY <1>4, <1>5, NoCheck DEF alloc_page, Then, Swappable, Starts
<1>7. r.ok \in BOOLEAN
  BY <1>2 DEF Starts, Sound, Typed
<1>8. Fine(r, h, s, {})
  BY <1>2, FineFails
<1>9. r.ok => Fine(r, b, s, {})
  BY <1>2, <1>7, PageAllocFine
<1>10. ASSUME a \in Frame, r.ok PROVE Fine(r, g, s, {})
  <2>1. Finds(r, 1, a) /\ r.ok = TRUE
    BY <1>7, <1>10 DEF Finds
  <2> HIDE DEF v, a
  <2> QED BY <1>2, <2>1, PageTakenFine
<1> HIDE DEF g, h, b
<1>11. r.ok => Fine(r, n, s, {})
  BY <1>3, <1>5, <1>6, <1>8, <1>9, <1>10
<1>12. Fine(m, n, s, {})
  BY <1>1, <1>5, <1>11, FineOn
<1> QED BY <1>12 DEF n

-----------------------------------------------------------------------------
SameDirs(m, n, s) == n.mm[s].pd0 = m.mm[s].pd0

\* exit_range frees a table, and leaves the first directory alone.
LEMMA ExitTableFine ==
  ASSUME NEW m, NEW s, NEW area, NEW d, Starts(m, s, {}), m.ok = TRUE, NEW t
  PROVE  LET n == exit_table(m, s, area, d, t) IN
         Fine(m, n, s, {}) /\ SameDirs(m, n, s)
<1> DEFINE B == m.mm[s]
           A == [B EXCEPT !.pt[t] = None]
           x == B.pt[t]
           e == [m EXCEPT !.mm[s].pt[t] = None]
           g == free_pages(e, x, 1)
           n == exit_table(m, s, area, d, t)
<1>1. n = IF t \in Visited(area, d) /\ x # None /\ Empty(m, s, t) THEN g ELSE m
  BY DEF exit_table
<1>2. Fine(m, m, s, {})
  BY FineSelf
<1>3. ASSUME t \in Visited(area, d), x # None
      PROVE  Fine(m, g, s, {}) /\ SameDirs(m, g, s)
  <2>0. t \in Tabs
    BY <1>3 DEF Visited
  <2>1. B \in UserSpace /\ Typed(m) /\ s \in Proc /\ s \in Space
    BY NoCheck DEF Starts, Sound
  <2>2. Remaps(m, e, s, A)
    BY <2>1 DEF Typed, Rec, Remaps
  <2> HIDE DEF e
  <2>3. A \in UserSpace /\ A.pgdir = B.pgdir /\ A.pd0 = B.pd0 /\ Less(B, A, s)
        /\ Entry(A, "pt", t) = None
    BY <2>0, <2>1, CutPt
  <2> HIDE DEF A
  <2>4. x = Entry(B, "pt", t) /\ x \in Frame
    BY <1>3, <2>0, <2>1, SpaceFields, Entries4
  <2>5. <<"pt", s, t>> \in Slot /\ "pt" \in MapKinds
    BY <2>0, <2>1, IsSlot DEF MapKinds
  <2> HIDE DEF x
  <2>7. Cuts(m, s, A, "pt", t, x)
    BY <2>3, <2>4, <2>5 DEF Cuts
  <2>8. Fine(m, g, s, {}) /\ Around(e, g)
    BY <2>2, <2>7, EntryFreed
  <2>9. e.mm[s] = A
    BY <2>1, <2>2, <2>3, RemapsTyped
  <2> HIDE DEF g
  <2>6. Fine(m, g, s, {}) /\ g.mm[s] = A
    BY <2>8, <2>9 DEF Around
  <2> QED BY <2>3, <2>6 DEF SameDirs
<1>4. SameDirs(m, m, s)
  BY DEF SameDirs
<1> QED BY <1>1, <1>2, <1>3, <1>4

\* exit_range frees a directory when its tables are gone.
LEMMA DirFreedFine ==
  ASSUME NEW m, NEW s, NEW area, NEW d \in Dirs, Starts(m, s, {}), m.ok = TRUE,
         m.mm[s].pd0[d] # None
  PROVE  LET n == DirFreed(m, s, area, d) IN Fine(m, n, s, {})
<1> DEFINE B == m.mm[s]
           A == [B EXCEPT !.pd0[d] = None,
                          !.pt = [t \in Tabs |-> IF Dir(t) = d THEN None ELSE @[t]]]
           x == B.pd0[d]
           e == [m EXCEPT !.mm[s].pd0[d] = None,
                          !.mm[s].pt = [t \in Tabs |-> IF Dir(t) = d THEN None ELSE @[t]]]
           g == free_pages(e, x, 1)
<1>1. DirFreed(m, s, area, d) = g
  BY DEF DirFreed
<1>2. B \in UserSpace /\ Typed(m) /\ s \in Proc /\ s \in Space
  BY NoCheck DEF Starts, Sound
<1>3. Remaps(m, e, s, A)
  <2>1. m.mm \in [Space -> UserSpace \cup {None}]
    BY <1>2 DEF Typed
  <2>2. B.pt \in [Tabs -> Frame \cup {None}] /\ B \in AddressSpace
    BY <1>2, SpaceFields
  <2> DEFINE C == [B EXCEPT !.pd0[d] = None]
             w == [t \in Tabs |-> IF Dir(t) = d THEN None ELSE B.pt[t]]
             k == [m EXCEPT !.mm[s].pd0[d] = None]
  <2>3. Remaps(m, k, s, C)
    BY <1>2 DEF Typed, Rec, Remaps
  <2>4. C.pt = B.pt /\ A = [C EXCEPT !.pt = w]
    BY <2>2 DEF AddressSpace
  <2>5. k.mm[s] = C /\ k.mm[s].pt = B.pt
    BY <1>2, <2>1, <2>3, <2>4 DEF Remaps
  <2>6. e = [k EXCEPT !.mm[s].pt = [t \in Tabs |-> IF Dir(t) = d THEN None ELSE @[t]]]
    OBVIOUS
  <2>7. e = [k EXCEPT !.mm[s].pt = w]
    BY <2>5, <2>6
  <2> HIDE DEF w, e, k, A
  <2>8. Rec(k)
    BY <2>3 DEF Remaps
  <2>9. /\ Rec(e) /\ e.pmm = k.pmm /\ e.ok = k.ok /\ e.kernel = k.kernel /\ e.kstack = k.kstack
        /\ e.store = k.store /\ e.mm = [k.mm EXCEPT ![s] = [k.mm[s] EXCEPT !.pt = w]]
    BY <2>7, <2>8 DEF Rec
  <2>10. k.mm = [m.mm EXCEPT ![s] = C]
    BY <2>3 DEF Remaps
  <2>11. e.mm = [m.mm EXCEPT ![s] = A]
    BY <1>2, <2>1, <2>4, <2>5, <2>9, <2>10
  <2> HIDE DEF C
  <2> QED BY <2>3, <2>9, <2>11 DEF Remaps
<1> HIDE DEF e
<1>4. A \in UserSpace /\ A.pgdir = B.pgdir /\ Less(B, A, s) /\ Entry(A, "pd0", d) = None
  BY <1>2, CutDir
<1> HIDE DEF A
<1>5. x = Entry(B, "pd0", d) /\ x \in Frame
  BY <1>2, SpaceFields, Entries4
<1>6. <<"pd0", s, d>> \in Slot /\ "pd0" \in MapKinds
  BY <1>2, IsSlot DEF MapKinds
<1> HIDE DEF x
<1>8. Cuts(m, s, A, "pd0", d, x)
  BY <1>4, <1>5, <1>6 DEF Cuts
<1>7. Fine(m, g, s, {})
  BY <1>3, <1>8, EntryFreed
<1> QED BY <1>1, <1>7 DEF x

-----------------------------------------------------------------------------
(***************************************************************************)
(* Loops.  There is no function to choose before one is known to exist,    *)
(* and none of the provers can take an operator: all bodies of loops are   *)
(* one operator.                                                           *)
(***************************************************************************)
VisitDir(n, s, area, d) == IF n.mm[s].pd0[d] = None THEN n ELSE exit_dir(n, s, area, d)
CopyPage(n, s, from, p) == IF n.mm[from].pte[p] \in Frame THEN PageCopied(n, from, s, p) ELSE n
DupArea(n, s, from, area) ==
  Then(insert_vma_struct(n, s, area), LAMBDA r : copy_range(r, from, s, area))

Stepped(kind, s, u, v, n, x) ==
  CASE kind = "unmap"   -> page_remove(n, s, x)
    [] kind = "unmaps"  -> unmap_range(n, s, x)
    [] kind = "table"   -> exit_table(n, s, u, v, x)
    [] kind = "dir"     -> VisitDir(n, s, u, x)
    [] kind = "exits"   -> exit_range(n, s, x)
    [] kind = "copy"    -> CopyPage(n, s, u, x)
    [] kind = "dup"     -> DupArea(n, s, u, x)
    [] kind = "load"    -> pgdir_alloc_page(n, s, x, u)
    [] kind = "segment" -> Segment(n, s, x)
    [] kind = "take"    -> TakeFrame(n, x)
    [] kind = "free"    -> free_pages(n, x, 1)

Turn(kind, s, u, v, n, x) == IF n.ok THEN Stepped(kind, s, u, v, n, x) ELSE n

\* g[i] is what the loop has made of m after i turns.
Runs(kind, s, u, v, m, seq, g) ==
  g = [i \in 0..Len(seq) |-> IF i = 0 THEN m ELSE Turn(kind, s, u, v, g[i - 1], seq[i])]

\* There is such a function.
LEMMA RunsExist ==
  ASSUME NEW kind, NEW s, NEW u, NEW v, NEW m, NEW seq, Len(seq) \in Nat
  PROVE  \E g : Runs(kind, s, u, v, m, seq, g)
<1> DEFINE Eq(k, g) == g = [i \in 0..k |-> IF i = 0 THEN m ELSE Turn(kind, s, u, v, g[i - 1], seq[i])]
           K == {k \in Nat : \E g : Eq(k, g)}
<1>1. 0 \in K
  <2> DEFINE g == [i \in 0..0 |-> m]
  <2>1. \A i \in 0..0 : i = 0
    OBVIOUS
  <2>2. Eq(0, g)
    BY <2>1
  <2> QED BY <2>2
<1>2. ASSUME NEW k \in Nat, k \in K PROVE k + 1 \in K
  <2>1. PICK g : Eq(k, g)
    BY <1>2
  <2> DEFINE D == 0..k + 1
             h == [i \in D |-> IF i = 0 THEN m ELSE Turn(kind, s, u, v, g[i - 1], seq[i])]
  <2>2. ASSUME NEW i \in 0..k PROVE h[i] = g[i]
    <3>1. i \in D
      OBVIOUS
    <3>2. h[i] = IF i = 0 THEN m ELSE Turn(kind, s, u, v, g[i - 1], seq[i])
      BY <3>1
    <3> HIDE DEF h
    <3> QED BY <2>1, <3>2
  <2>3. \A i \in D : h[i] = IF i = 0 THEN m ELSE Turn(kind, s, u, v, h[i - 1], seq[i])
    <3>1. \A i \in D : h[i] = IF i = 0 THEN m ELSE Turn(kind, s, u, v, g[i - 1], seq[i])
      OBVIOUS
    <3>2. \A i \in D : i # 0 => g[i - 1] = h[i - 1]
      <4> HIDE DEF h
      <4> QED BY <2>2
    <3> HIDE DEF h, D
    <3> QED BY <3>1, <3>2
  <2>4. h = [i \in D |-> h[i]]
    OBVIOUS
  <2>5. h = [i \in D |-> IF i = 0 THEN m ELSE Turn(kind, s, u, v, h[i - 1], seq[i])]
    <3> HIDE DEF h, D
    <3> QED BY <2>3, <2>4
  <2>6. Eq(k + 1, h)
    <3> HIDE DEF h
    <3> QED BY <2>5
  <2> HIDE DEF h, Eq
  <2> QED BY <2>6
<1> HIDE DEF K
<1>3. Nat \subseteq K
  BY <1>1, <1>2, SetInduction
<1> QED BY <1>3 DEF K, Runs

\* The numbers that a loop counts are in the set it counts in.
LEMMA NumbersIs ==
  ASSUME NEW a \in Nat, NEW b \in Int, a <= b + 1, NEW S, \A i \in a..b : i \in S
  PROVE  Numbers(a, b) \in Seq(S) /\ Len(Numbers(a, b)) = b - a + 1
<1> DEFINE n == b - a + 1
           w == [i \in 1..n |-> a + i - 1]
<1>1. n \in Nat
  OBVIOUS
<1>2. \A i \in 1..n : a + i - 1 \in a..b
  OBVIOUS
<1>3. \A i \in 1..n : a + i - 1 \in S
  BY <1>2
<1>4. Numbers(a, b) = w
  BY DEF Numbers
<1> HIDE DEF n
<1>5. w \in Seq(S) /\ Len(w) = n
  BY <1>1, <1>3
<1> QED BY <1>4, <1>5 DEF n

\* The bounds of an area and the pages in it.
LEMMA AreaIs ==
  ASSUME NEW area \in Area
  PROVE  /\ area[1] \in Page /\ area[1] \in Nat /\ area[2] \in 1..NPages /\ area[1] < area[2]
         /\ area[2] - 1 \in Page
         /\ \A p \in area[1]..area[2] - 1 : p \in Page
BY MemoryAssumption DEF Area, Page

\* The pages of an area, in order.
LEMMA PagesLen ==
  ASSUME NEW area \in Area
  PROVE  PagesIn(area) \in Seq(Page) /\ Len(PagesIn(area)) \in Nat
<1> DEFINE a == area[1]
           b == area[2] - 1
<1>1. a \in Nat /\ b \in Int /\ a <= b + 1 /\ (\A i \in a..b : i \in Page) /\ b - a + 1 \in Nat
  BY AreaIs, MemoryAssumption
<1>2. PagesIn(area) = Numbers(a, b)
  BY DEF PagesIn
<1> HIDE DEF a, b
<1> QED BY <1>1, <1>2, NumbersIs

\* unmap_range is such a loop.
LEMMA UnmapRuns ==
  ASSUME NEW m, NEW s, NEW area \in Area
  PROVE  \E g : Runs("unmap", s, s, s, m, PagesIn(area), g)
                /\ unmap_range(m, s, area) = g[Len(PagesIn(area))]
<1> DEFINE seq == PagesIn(area)
           Eq(g) == g = [i \in 0..Len(seq) |->
                           IF i = 0 THEN m
                           ELSE IF g[i - 1].ok THEN page_remove(g[i - 1], s, seq[i]) ELSE g[i - 1]]
           c == CHOOSE g : Eq(g)
<1>1. \A g : Runs("unmap", s, s, s, m, seq, g) <=> Eq(g)
  BY DEF Runs, Turn, Stepped
<1>2. Eq(c)
  BY <1>1, PagesLen, RunsExist
<1>3. unmap_range(m, s, area) = c[Len(seq)]
  BY DEF unmap_range, ForEach
<1> HIDE DEF c
<1> QED BY <1>1, <1>2, <1>3

\* A turn of the loop is an operation on s.
Good(kind, s, u, v, X) ==
  \A n : \A x \in X : Starts(n, s, {}) /\ n.ok = TRUE =>
    /\ Fine(n, Stepped(kind, s, u, v, n, x), s, {})
    /\ kind = "table" => SameDirs(n, Stepped(kind, s, u, v, n, x), s)

\* If each turn is, the loop is an operation on s: by induction on the turns.
LEMMA LoopFine ==
  ASSUME NEW kind, NEW s, NEW u, NEW v, NEW X, Good(kind, s, u, v, X), NEW seq \in Seq(X),
         NEW m, Starts(m, s, {}), NEW g, Runs(kind, s, u, v, m, seq, g)
  PROVE  /\ Fine(m, g[Len(seq)], s, {})
         /\ kind = "table" => SameDirs(m, g[Len(seq)], s)
<1> DEFINE P(i) == Fine(m, g[i], s, {}) /\ (kind = "table" => SameDirs(m, g[i], s))
           K == {i \in Nat : i <= Len(seq) => P(i)}
<1>0. Len(seq) \in Nat /\ \A i \in 1..Len(seq) : seq[i] \in X
  OBVIOUS
<1>a. \A i \in 0..Len(seq) : g[i] = IF i = 0 THEN m ELSE Turn(kind, s, u, v, g[i - 1], seq[i])
  BY DEF Runs
<1>1. 0 \in K
  <2>1. g[0] = m
    BY <1>0, <1>a
  <2>2. P(0)
    BY <2>1, FineSelf DEF SameDirs
  <2> QED BY <2>2
<1>2. ASSUME NEW i \in Nat, i \in K PROVE i + 1 \in K
  <2> SUFFICES ASSUME i + 1 <= Len(seq) PROVE P(i + 1)
    OBVIOUS
  <2> DEFINE n == g[i]
             x == seq[i + 1]
             h == Stepped(kind, s, u, v, n, x)
  <2>1. Fine(m, n, s, {}) /\ (kind = "table" => SameDirs(m, n, s))
    BY <1>0, <1>2
  <2>2. g[i + 1] = Turn(kind, s, u, v, n, x) /\ x \in X
    BY <1>0, <1>a
  <2> HIDE DEF n, x
  <2>3. g[i + 1] = IF n.ok THEN h ELSE n
    BY <2>2 DEF Turn
  <2>4. Starts(n, s, {}) /\ n.ok \in BOOLEAN
    BY <2>1, FineStarts DEF Starts, Sound, Typed
  <2>5. n.ok => Fine(n, h, s, {}) /\ (kind = "table" => SameDirs(n, h, s))
    BY <2>2, <2>4 DEF Good
  <2> HIDE DEF h
  <2>6. n.ok => Fine(m, h, s, {})
    BY <2>1, <2>5, FineOn
  <2>7. Fine(m, g[i + 1], s, {})
    BY <2>1, <2>3, <2>6
  <2>8. kind = "table" => SameDirs(m, g[i + 1], s)
    BY <2>1, <2>3, <2>5 DEF SameDirs
  <2> QED BY <2>7, <2>8
<1> HIDE DEF K
<1>3. Nat \subseteq K
  BY <1>1, <1>2, SetInduction
<1> QED BY <1>0, <1>3 DEF K

\* unmap_range gives back the pages of an area.
LEMMA UnmapFine ==
  ASSUME NEW m, NEW s, Starts(m, s, {}), NEW area \in Area
  PROVE  LET n == unmap_range(m, s, area) IN Fine(m, n, s, {})
<1> DEFINE n == unmap_range(m, s, area)
<1>1. PICK g : Runs("unmap", s, s, s, m, PagesIn(area), g) /\ n = g[Len(PagesIn(area))]
  BY UnmapRuns
<1> HIDE DEF n
<1>2. Good("unmap", s, s, s, Page)
  BY PageRemoveFine DEF Good, Stepped
<1>3. PagesIn(area) \in Seq(Page)
  BY PagesLen
<1>4. Fine(m, n, s, {})
  BY <1>1, <1>2, <1>3, LoopFine
<1> QED BY <1>4 DEF n

TableLoop(m, s, area, d) ==
  ForEach(m, Numbers(0, Tab(NPages - 1)), LAMBDA r, t : exit_table(r, s, area, d, t))

\* The tables that exit_range looks at,
LEMMA AllTabs ==
  Numbers(0, Tab(NPages - 1)) \in Seq(Tabs) /\ Len(Numbers(0, Tab(NPages - 1))) \in Nat
<1> DEFINE z == Tab(NPages - 1)
<1>1. z \in Nat
  BY MemoryAssumption DEF Tab
<1>2. Tabs = 0..z
  BY DEF Tabs
<1> HIDE DEF z
<1>3. 0 \in Nat /\ z \in Int /\ 0 <= z + 1 /\ (\A i \in 0..z : i \in Tabs) /\ z - 0 + 1 \in Nat
  BY <1>1, <1>2
<1>4. Numbers(0, z) \in Seq(Tabs) /\ Len(Numbers(0, z)) \in Nat
  BY <1>3, NumbersIs
<1> QED BY <1>4 DEF z

\* and the directories.
LEMMA AreaDirs ==
  ASSUME NEW area \in Area
  PROVE  /\ Numbers(Dir(Tab(area[1])), Dir(Tab(area[2] - 1))) \in Seq(Dirs)
         /\ Len(Numbers(Dir(Tab(area[1])), Dir(Tab(area[2] - 1)))) \in Nat
<1> DEFINE a == area[1]
           b == area[2] - 1
           z == NPages - 1
           ta == Tab(a)
           tb == Tab(b)
           tz == Tab(z)
<1>1. a \in Nat /\ b \in Nat /\ z \in Nat /\ a <= b /\ b <= z
  BY AreaIs, MemoryAssumption
<1> HIDE DEF a, b, z
<1>2. ta \in Nat /\ tb \in Nat /\ tz \in Nat /\ ta <= tb /\ tb <= tz
  BY <1>1, MemoryAssumption DEF Tab
<1> HIDE DEF ta, tb, tz
<1> DEFINE da == Dir(ta)
           db == Dir(tb)
           dz == Dir(tz)
<1>3. da \in Nat /\ db \in Nat /\ dz \in Nat /\ da <= db /\ db <= dz
  BY <1>2, MemoryAssumption DEF Dir
<1>4. Dirs = 0..dz
  BY DEF Dirs, tz, z
<1> HIDE DEF da, db, dz
<1>5. da <= db + 1 /\ db \in Int /\ (\A i \in da..db : i \in Dirs) /\ db - da + 1 \in Nat
  BY <1>3, <1>4
<1>6. Numbers(da, db) \in Seq(Dirs) /\ Len(Numbers(da, db)) \in Nat
  BY <1>3, <1>5, NumbersIs
<1> QED BY <1>6 DEF da, db, ta, tb, a, b

\* The inner loop of exit_range is such a loop,
LEMMA TableRuns ==
  ASSUME NEW m, NEW s, NEW area, NEW d
  PROVE  \E g : Runs("table", s, area, d, m, Numbers(0, Tab(NPages - 1)), g)
                /\ TableLoop(m, s, area, d) = g[Len(Numbers(0, Tab(NPages - 1)))]
<1> DEFINE seq == Numbers(0, Tab(NPages - 1))
           Eq(g) == g = [i \in 0..Len(seq) |->
                           IF i = 0 THEN m
                           ELSE IF g[i - 1].ok THEN exit_table(g[i - 1], s, area, d, seq[i]) ELSE g[i - 1]]
           c == CHOOSE g : Eq(g)
<1>1. \A g : Runs("table", s, area, d, m, seq, g) <=> Eq(g)
  BY DEF Runs, Turn, Stepped
<1>2. Eq(c)
  BY <1>1, AllTabs, RunsExist
<1>3. TableLoop(m, s, area, d) = c[Len(seq)]
  BY DEF TableLoop, ForEach
<1> HIDE DEF c
<1> QED BY <1>1, <1>2, <1>3

\* an operation on s that keeps the first directory.
LEMMA TableLoopFine ==
  ASSUME NEW m, NEW s, Starts(m, s, {}), NEW area, NEW d
  PROVE  LET n == TableLoop(m, s, area, d) IN
         Fine(m, n, s, {}) /\ SameDirs(m, n, s)
<1> DEFINE n == TableLoop(m, s, area, d)
           seq == Numbers(0, Tab(NPages - 1))
<1>1. PICK g : Runs("table", s, area, d, m, seq, g) /\ n = g[Len(seq)]
  BY TableRuns
<1> HIDE DEF n
<1>2. Good("table", s, area, d, Tabs)
  <2> SUFFICES ASSUME NEW k, NEW t \in Tabs, Starts(k, s, {}), k.ok = TRUE
               PROVE  LET h == Stepped("table", s, area, d, k, t) IN
                      Fine(k, h, s, {}) /\ SameDirs(k, h, s)
    BY DEF Good
  <2> DEFINE h == exit_table(k, s, area, d, t)
  <2>1. Fine(k, h, s, {}) /\ SameDirs(k, h, s)
    BY ExitTableFine
  <2>2. Stepped("table", s, area, d, k, t) = h
    BY DEF Stepped
  <2> QED BY <2>1, <2>2
<1>3. seq \in Seq(Tabs)
  BY AllTabs
<1> HIDE DEF seq
<1>4. Fine(m, n, s, {}) /\ SameDirs(m, n, s)
  BY <1>1, <1>2, <1>3, LoopFine
<1> QED BY <1>4 DEF n

\* A turn of the outer loop of exit_range,
LEMMA VisitDirFine ==
  ASSUME NEW m, NEW s, Starts(m, s, {}), m.ok = TRUE, NEW area, NEW d \in Dirs
  PROVE  LET n == VisitDir(m, s, area, d) IN Fine(m, n, s, {})
<1> DEFINE n == VisitDir(m, s, area, d)
           q == TableLoop(m, s, area, d)
           g == DirFreed(q, s, area, d)
<1>1. n = m \/ (m.mm[s].pd0[d] # None /\ (n = q \/ (q.ok /\ n = g)))
  BY DEF VisitDir, exit_dir, Then, TableLoop
<1>2. Fine(m, m, s, {})
  BY FineSelf
<1>3. Fine(m, q, s, {}) /\ SameDirs(m, q, s)
  BY TableLoopFine
<1> HIDE DEF q, n
<1>4. Starts(q, s, {}) /\ q.ok \in BOOLEAN
  BY <1>3, FineStarts DEF Starts, Sound, Typed
<1>5. m.mm[s].pd0[d] # None /\ q.ok => Fine(q, g, s, {})
  BY <1>3, <1>4, DirFreedFine DEF SameDirs
<1> HIDE DEF g
<1>6. Fine(m, n, s, {})
  BY <1>1, <1>2, <1>3, <1>5, FineOn
<1> QED BY <1>6 DEF n

\* which is such a loop:
LEMMA DirRuns ==
  ASSUME NEW m, NEW s, NEW area \in Area
  PROVE  \E g : Runs("dir", s, area, s, m, Numbers(Dir(Tab(area[1])), Dir(Tab(area[2] - 1))), g)
                /\ exit_range(m, s, area) = g[Len(Numbers(Dir(Tab(area[1])), Dir(Tab(area[2] - 1))))]
<1> DEFINE seq == Numbers(Dir(Tab(area[1])), Dir(Tab(area[2] - 1)))
           Eq(g) == g = [i \in 0..Len(seq) |->
                           IF i = 0 THEN m
                           ELSE IF g[i - 1].ok THEN VisitDir(g[i - 1], s, area, seq[i]) ELSE g[i - 1]]
           c == CHOOSE g : Eq(g)
<1>1. \A g : Runs("dir", s, area, s, m, seq, g) <=> Eq(g)
  BY DEF Runs, Turn, Stepped
<1>2. Eq(c)
  BY <1>1, AreaDirs, RunsExist
<1>3. exit_range(m, s, area) = c[Len(seq)]
  BY DEF exit_range, VisitDir, ForEach
<1> HIDE DEF c
<1> QED BY <1>1, <1>2, <1>3

\* exit_range gives back tables and directories.
LEMMA ExitRangeFine ==
  ASSUME NEW m, NEW s, Starts(m, s, {}), NEW area \in Area
  PROVE  LET n == exit_range(m, s, area) IN Fine(m, n, s, {})
<1> DEFINE n == exit_range(m, s, area)
           seq == Numbers(Dir(Tab(area[1])), Dir(Tab(area[2] - 1)))
<1>1. PICK g : Runs("dir", s, area, s, m, seq, g) /\ n = g[Len(seq)]
  BY DirRuns
<1> HIDE DEF n
<1>2. Good("dir", s, area, s, Dirs)
  BY VisitDirFine DEF Good, Stepped
<1>3. seq \in Seq(Dirs)
  BY AreaDirs
<1> HIDE DEF seq
<1>4. Fine(m, n, s, {})
  BY <1>1, <1>2, <1>3, LoopFine
<1> QED BY <1>4 DEF n

\* insert_vma_struct finds a place in the list of areas,
LEMMA PlaceFor ==
  ASSUME NEW l \in Seq(Area), NEW x \in Nat
  PROVE  \E i \in 0..Len(l) : /\ \A j \in 1..i : l[j][1] <= x
                              /\ i < Len(l) => l[i + 1][1] > x
<1> DEFINE S == {i \in 0..Len(l) : i < Len(l) => l[i + 1][1] > x}
<1>1. Len(l) \in S /\ S \in SUBSET Nat
  OBVIOUS
<1>2. PICK i \in S : \A k \in S : i <= k
  BY <1>1, LeastNumber
<1>3. i \in 0..Len(l) /\ (i < Len(l) => l[i + 1][1] > x)
  OBVIOUS
<1>4. ASSUME NEW j \in 1..i PROVE l[j][1] <= x
  <2>1. j - 1 \in 0..Len(l) /\ j - 1 < i /\ j - 1 + 1 = j /\ j - 1 < Len(l)
    BY <1>3
  <2>2. j - 1 \notin S
    BY <1>2, <2>1
  <2>3. ~(l[j][1] > x)
    BY <2>1, <2>2
  <2>4. l[j] \in Area
    BY <1>3
  <2>5. l[j][1] \in Nat
    BY <2>4, AreaIs
  <2> QED BY <2>3, <2>5
<1> QED BY <1>3, <1>4

\* where an area may be put,
LEMMA InsertType ==
  ASSUME NEW l \in Seq(Area), NEW i \in 0..Len(l), NEW area \in Area
  PROVE  InsertAt(l, i + 1, area) \in Seq(Area)
<1>1. SubSeq(l, 1, i) \in Seq(Area)
  OBVIOUS
<1>2. SubSeq(l, i + 1, Len(l)) \in Seq(Area)
  OBVIOUS
<1> DEFINE a == SubSeq(l, 1, i)
           b == SubSeq(l, i + 1, Len(l))
<1>4. InsertAt(l, i + 1, area) = a \o <<area>> \o b
  <2> DEFINE k == i + 1
  <2>1. InsertAt(l, k, area) = SubSeq(l, 1, k - 1) \o <<area>> \o SubSeq(l, k, Len(l))
    BY DEF InsertAt
  <2>2. k - 1 = i
    OBVIOUS
  <2>3. SubSeq(l, 1, k - 1) = SubSeq(l, 1, i)
    BY <2>2
  <2> HIDE DEF k
  <2>4. InsertAt(l, k, area) = SubSeq(l, 1, i) \o <<area>> \o SubSeq(l, k, Len(l))
    BY <2>1, <2>3
  <2> QED BY <2>4 DEF k
<1>5. a \in Seq(Area) /\ b \in Seq(Area)
  BY <1>1, <1>2
<1> HIDE DEF a, b
<1> DEFINE c == a \o <<area>>
<1>6. c \in Seq(Area)
  BY <1>5
<1>7. InsertAt(l, i + 1, area) = c \o b
  BY <1>4
<1> HIDE DEF c
<1>8. c \o b \in Seq(Area)
  BY <1>5, <1>6
<1> QED BY <1>7, <1>8

\* and puts it there.
LEMMA InsertFine ==
  ASSUME NEW m, NEW s, Starts(m, s, {}), NEW area \in Area
  PROVE  LET n == insert_vma_struct(m, s, area) IN Fine(m, n, s, {})
<1> DEFINE B == m.mm[s]
           l == B.areas
           i == CHOOSE i \in 0..Len(l) : /\ \A j \in 1..i : l[j][1] <= area[1]
                                         /\ i < Len(l) => l[i + 1][1] > area[1]
           n == insert_vma_struct(m, s, area)
           w == InsertAt(l, i + 1, area)
           A == [B EXCEPT !.areas = w]
           g == [m EXCEPT !.mm[s].areas = w]
           h == [m EXCEPT !.ok = FALSE]
<1>1. n = g \/ n = h
  BY DEF insert_vma_struct
<1>2. Fine(m, h, s, {})
  BY FineFails
<1>3. B \in UserSpace /\ Typed(m) /\ s \in Proc /\ s \in Space
  BY NoCheck DEF Starts, Sound
<1>4. l \in Seq(Area) /\ area[1] \in Nat
  BY <1>3, SpaceFields, AreaIs
<1> HIDE DEF l
<1>5. i \in 0..Len(l)
  BY <1>4, PlaceFor
<1> HIDE DEF i
<1>6. w \in Seq(Area)
  BY <1>4, <1>5, InsertType
<1> HIDE DEF w
<1>7. Remaps(m, g, s, A)
  BY <1>3 DEF Typed, Rec, Remaps
<1> HIDE DEF g
<1>8. w \in Seq(Nat \X Nat)
  <2>1. Area \in SUBSET (Nat \X Nat)
    BY MemoryAssumption DEF Area, Page
  <2> QED BY <1>6, <2>1
<1>9. A \in AddressSpace
  BY <1>3, <1>8, SpaceFields DEF AddressSpace
<1>10. /\ A.pgdir = B.pgdir /\ A.pd0 = B.pd0 /\ A.pt = B.pt /\ A.pte = B.pte /\ A.areas = w
  BY <1>3, SpaceFields DEF AddressSpace
<1>11. A \in UserSpace
  BY <1>3, <1>6, <1>9, <1>10, SpaceFields DEF UserSpace
<1> HIDE DEF A, B
<1>12. Less(B, A, s)
  <2>1. A # None /\ B # None
    BY <1>3, <1>11, SpaceFields
  <2> QED BY <1>10, <2>1, Entries4 DEF Less, MapKinds
<1>13. Fine(m, g, s, {})
  <2>1. Less(m.mm[s], A, s) /\ A.pgdir = m.mm[s].pgdir
    BY <1>10, <1>12 DEF B
  <2> QED BY <1>7, <1>11, <2>1, FineLess
<1> HIDE DEF n, h
<1>14. Fine(m, n, s, {})
  BY <1>1, <1>2, <1>13
<1> QED BY <1>14 DEF n

\* setup_pgdir fills a new mm.
LEMMA SetupRemap ==
  ASSUME NEW B \in UserSpace \cup {None}, NEW s, NEW a \in Frame
  PROVE  LET A == [mm_create EXCEPT !.pgdir = a] IN
         A \in UserSpace /\ Moves(B, A, s, <<"pgdir", s, 0>>, a)
<1> DEFINE A == [mm_create EXCEPT !.pgdir = a]
<1>1. /\ A.areas = <<>> /\ A.pgdir = a /\ A.pd0 = [d \in Dirs |-> None]
      /\ A.pt = [t \in Tabs |-> None] /\ A.pte = [p \in Page |-> None]
      /\ A = [areas |-> <<>>, pgdir |-> a, pd0 |-> [d \in Dirs |-> None],
              pt |-> [t \in Tabs |-> None], pte |-> [p \in Page |-> None]]
  BY DEF mm_create
<1> DEFINE w == <<>>
           d0 == [d \in Dirs |-> None]
           t0 == [t \in Tabs |-> None]
           p0 == [p \in Page |-> None]
<1>a. /\ w \in Seq(Nat \X Nat) /\ w \in Seq(Area) /\ d0 \in [Dirs -> Frame \cup {None}]
      /\ t0 \in [Tabs -> Frame \cup {None}] /\ p0 \in [Page -> Frame \cup {None, Swapped}]
  OBVIOUS
<1>b. A = [areas |-> w, pgdir |-> a, pd0 |-> d0, pt |-> t0, pte |-> p0] /\ A.areas = w
  BY <1>1
<1> HIDE DEF A, w, d0, t0, p0
<1>2. A \in AddressSpace
  BY <1>a, <1>b DEF AddressSpace
<1>3. A \in UserSpace
  BY <1>1, <1>2, <1>a, <1>b DEF UserSpace
<1>4. A # None
  BY <1>3, SpaceFields
<1>5. ASSUME NEW k \in MapKinds, NEW i, <<k, s, i>> \in Slot
      PROVE  Entry(A, k, i) = None \/ (<<k, s, i>> = <<"pgdir", s, 0>> /\ Entry(A, k, i) = a)
  <2>1. /\ k = "pgdir" => i = 0
        /\ k = "pd0" => i \in Dirs
        /\ k = "pt" => i \in Tabs
        /\ k = "pte" => i \in Page
    BY <1>5, SlotIn
  <2>2. CASE k = "pgdir"
    BY <1>1, <1>4, <2>1, <2>2, Entries4
  <2>3. CASE k = "pd0"
    BY <1>1, <1>4, <2>1, <2>3, Entries4
  <2>4. CASE k = "pt"
    BY <1>1, <1>4, <2>1, <2>4, Entries4
  <2>5. CASE k = "pte"
    BY <1>1, <1>4, <2>1, <2>5, Entries4
  <2> QED BY <2>2, <2>3, <2>4, <2>5 DEF MapKinds
<1>6. Moves(B, A, s, <<"pgdir", s, 0>>, a)
  BY <1>5 DEF Moves
<1> QED BY <1>3, <1>6 DEF A

\* copy_range is such a loop,
LEMMA CopyRuns ==
  ASSUME NEW m, NEW s, NEW from, NEW area \in Area
  PROVE  \E g : Runs("copy", s, from, s, m, PagesIn(area), g)
                /\ copy_range(m, from, s, area) = g[Len(PagesIn(area))]
<1> DEFINE seq == PagesIn(area)
           Eq(g) == g = [i \in 0..Len(seq) |->
                           IF i = 0 THEN m
                           ELSE IF g[i - 1].ok THEN CopyPage(g[i - 1], s, from, seq[i]) ELSE g[i - 1]]
           c == CHOOSE g : Eq(g)
<1>1. \A g : Runs("copy", s, from, s, m, seq, g) <=> Eq(g)
  BY DEF Runs, Turn, Stepped
<1>2. Eq(c)
  BY <1>1, PagesLen, RunsExist
<1>3. copy_range(m, from, s, area) = c[Len(seq)]
  BY DEF copy_range, CopyPage, ForEach
<1> HIDE DEF c
<1> QED BY <1>1, <1>2, <1>3

\* and copies the pages of an area.
LEMMA CopyFine ==
  ASSUME NEW m, NEW s, Starts(m, s, {}), NEW from, NEW area \in Area
  PROVE  LET n == copy_range(m, from, s, area) IN Fine(m, n, s, {})
<1> DEFINE n == copy_range(m, from, s, area)
<1>1. PICK g : Runs("copy", s, from, s, m, PagesIn(area), g) /\ n = g[Len(PagesIn(area))]
  BY CopyRuns
<1> HIDE DEF n
<1>2. Good("copy", s, from, s, Page)
  BY PageCopiedFine, FineSelf DEF Good, Stepped, CopyPage
<1>3. PagesIn(area) \in Seq(Page)
  BY PagesLen
<1>4. Fine(m, n, s, {})
  BY <1>1, <1>2, <1>3, LoopFine
<1> QED BY <1>4 DEF n

\* dup_mmap copies an area,
LEMMA DupAreaFine ==
  ASSUME NEW m, NEW s, Starts(m, s, {}), NEW from, NEW area \in Area
  PROVE  LET n == DupArea(m, s, from, area) IN Fine(m, n, s, {})
<1> DEFINE q == insert_vma_struct(m, s, area)
           g == copy_range(q, from, s, area)
           n == DupArea(m, s, from, area)
<1>1. n = q \/ n = g
  BY DEF DupArea, Then
<1>2. Fine(m, q, s, {})
  BY InsertFine
<1> HIDE DEF q, n
<1>3. Starts(q, s, {})
  BY <1>2, FineStarts DEF Starts
<1>4. Fine(q, g, s, {})
  BY <1>3, CopyFine
<1> HIDE DEF g
<1>5. Fine(m, n, s, {})
  BY <1>1, <1>2, <1>4, FineOn
<1> QED BY <1>5 DEF n

\* from the last one to the first:
LEMMA ReverseType ==
  ASSUME NEW l \in Seq(Area)
  PROVE  Reverse(l) \in Seq(Area) /\ Len(Reverse(l)) \in Nat
BY DEF Reverse

\* it is such a loop,
LEMMA DupRuns ==
  ASSUME NEW m, NEW s, NEW from, m.mm[from].areas \in Seq(Area)
  PROVE  \E g : Runs("dup", s, from, s, m, Reverse(m.mm[from].areas), g)
                /\ dup_mmap(m, from, s) = g[Len(Reverse(m.mm[from].areas))]
<1> DEFINE seq == Reverse(m.mm[from].areas)
           Eq(g) == g = [i \in 0..Len(seq) |->
                           IF i = 0 THEN m
                           ELSE IF g[i - 1].ok THEN DupArea(g[i - 1], s, from, seq[i]) ELSE g[i - 1]]
           c == CHOOSE g : Eq(g)
<1>1. \A g : Runs("dup", s, from, s, m, seq, g) <=> Eq(g)
  BY DEF Runs, Turn, Stepped
<1>2. Eq(c)
  BY <1>1, ReverseType, RunsExist
<1>3. dup_mmap(m, from, s) = c[Len(seq)]
  BY DEF dup_mmap, DupArea, ForEach
<1> HIDE DEF c
<1> QED BY <1>1, <1>2, <1>3

\* which copies an address space.
LEMMA DupFine ==
  ASSUME NEW m, NEW s, Starts(m, s, {}), NEW from, m.mm[from].areas \in Seq(Area)
  PROVE  LET n == dup_mmap(m, from, s) IN Fine(m, n, s, {})
<1> DEFINE n == dup_mmap(m, from, s)
           seq == Reverse(m.mm[from].areas)
<1>1. PICK g : Runs("dup", s, from, s, m, seq, g) /\ n = g[Len(seq)]
  BY DupRuns
<1> HIDE DEF n
<1>2. Good("dup", s, from, s, Area)
  BY DupAreaFine DEF Good, Stepped
<1>3. seq \in Seq(Area)
  BY ReverseType
<1> HIDE DEF seq
<1>4. Fine(m, n, s, {})
  BY <1>1, <1>2, <1>3, LoopFine
<1> QED BY <1>4 DEF n

\* The loops of load_icode over pages are such loops
LEMMA LoadRuns ==
  ASSUME NEW m, NEW s, NEW v, NEW pages \in Seq(Page)
  PROVE  \E g : Runs("load", s, v, s, m, pages, g)
                /\ LoadPages(m, s, pages, v) = g[Len(pages)]
<1> DEFINE seq == pages
           Eq(g) == g = [i \in 0..Len(seq) |->
                           IF i = 0 THEN m
                           ELSE IF g[i - 1].ok THEN pgdir_alloc_page(g[i - 1], s, seq[i], v) ELSE g[i - 1]]
           c == CHOOSE g : Eq(g)
<1>1. \A g : Runs("load", s, v, s, m, seq, g) <=> Eq(g)
  BY DEF Runs, Turn, Stepped
<1>4. Len(seq) \in Nat
  OBVIOUS
<1>2. Eq(c)
  BY <1>1, <1>4, RunsExist
<1>3. LoadPages(m, s, pages, v) = c[Len(seq)]
  BY DEF LoadPages, ForEach
<1> HIDE DEF c
<1> QED BY <1>1, <1>2, <1>3

\* and allocate them.
LEMMA LoadFine ==
  ASSUME NEW m, NEW s, Starts(m, s, {}), NEW v, NEW pages \in Seq(Page)
  PROVE  LET n == LoadPages(m, s, pages, v) IN Fine(m, n, s, {})
<1> DEFINE n == LoadPages(m, s, pages, v)
<1>1. PICK g : Runs("load", s, v, s, m, pages, g) /\ n = g[Len(pages)]
  BY LoadRuns
<1> HIDE DEF n
<1>2. Good("load", s, v, s, Page)
  BY PageAllocFine DEF Good, Stepped
<1>3. Fine(m, n, s, {})
  BY <1>1, <1>2, LoopFine
<1> QED BY <1>3 DEF n

\* load_icode maps a segment.
LEMMA SegmentFine ==
  ASSUME NEW m, NEW s, Starts(m, s, {}), NEW area \in Area
  PROVE  LET n == Segment(m, s, area) IN Fine(m, n, s, {})
<1> DEFINE q == insert_vma_struct(m, s, area)
           g == LoadPages(q, s, PagesIn(area), File)
           n == Segment(m, s, area)
<1>1. n = q \/ n = g
  BY DEF Segment, Then
<1>2. Fine(m, q, s, {})
  BY InsertFine
<1> HIDE DEF q, n
<1>3. Starts(q, s, {}) /\ PagesIn(area) \in Seq(Page)
  BY <1>2, FineStarts, PagesLen DEF Starts
<1>4. Fine(q, g, s, {})
  BY <1>3, LoadFine
<1> HIDE DEF g
<1>5. Fine(m, n, s, {})
  BY <1>1, <1>2, <1>4, FineOn
<1> QED BY <1>5 DEF n

\* The pages of the user stack,
LEMMA StackPages ==
  [i \in 1..STACKPAGES |-> Stack[2] - i] \in Seq(Page)
<1>1. STACKPAGES \in Nat /\ Stack \in Area /\ STACKPAGES <= Stack[2] - Stack[1]
  BY MemoryAssumption, AreaAssumption
<1>2. Stack[1] \in Nat /\ Stack[2] \in 1..NPages
  BY <1>1, AreaIs
<1>3. \A i \in 1..STACKPAGES : Stack[2] - i \in Page
  BY <1>1, <1>2, MemoryAssumption DEF Page
<1> QED BY <1>1, <1>3

\* which load_icode maps.
LEMMA WithStackFine ==
  ASSUME NEW m, NEW s, Starts(m, s, {})
  PROVE  LET n == WithStack(m, s) IN Fine(m, n, s, {})
<1> DEFINE q == insert_vma_struct(m, s, Stack)
           pages == [i \in 1..STACKPAGES |-> Stack[2] - i]
           g == LoadPages(q, s, pages, Unset)
           n == WithStack(m, s)
<1>1. n = q \/ n = g
  BY DEF WithStack, Then
<1>2. Fine(m, q, s, {})
  BY AreaAssumption, InsertFine
<1> HIDE DEF q, n
<1>3. Starts(q, s, {}) /\ pages \in Seq(Page)
  BY <1>2, FineStarts, StackPages DEF Starts
<1> HIDE DEF pages
<1>4. Fine(q, g, s, {})
  BY <1>3, LoadFine
<1> HIDE DEF g
<1>5. Fine(m, n, s, {})
  BY <1>1, <1>2, <1>4, FineOn
<1> QED BY <1>5 DEF n

UnmapAll(m, s, l) == ForEach(m, l, LAMBDA n, area : unmap_range(n, s, area))
ExitAll(m, s, l)  == ForEach(m, l, LAMBDA n, area : exit_range(n, s, area))

\* exit_mmap first goes over the areas to unmap them,
LEMMA UnmapAllRuns ==
  ASSUME NEW m, NEW s, NEW l \in Seq(Area)
  PROVE  \E g : Runs("unmaps", s, s, s, m, l, g)
                /\ UnmapAll(m, s, l) = g[Len(l)]
<1> DEFINE seq == l
           Eq(g) == g = [i \in 0..Len(seq) |->
                           IF i = 0 THEN m
                           ELSE IF g[i - 1].ok THEN unmap_range(g[i - 1], s, seq[i]) ELSE g[i - 1]]
           c == CHOOSE g : Eq(g)
<1>1. \A g : Runs("unmaps", s, s, s, m, seq, g) <=> Eq(g)
  BY DEF Runs, Turn, Stepped
<1>4. Len(seq) \in Nat
  OBVIOUS
<1>2. Eq(c)
  BY <1>1, <1>4, RunsExist
<1>3. UnmapAll(m, s, l) = c[Len(seq)]
  BY DEF UnmapAll, ForEach
<1> HIDE DEF c
<1> QED BY <1>1, <1>2, <1>3

\* which gives back their pages,
LEMMA UnmapAllFine ==
  ASSUME NEW m, NEW s, Starts(m, s, {}), NEW l \in Seq(Area)
  PROVE  LET n == UnmapAll(m, s, l) IN Fine(m, n, s, {})
<1> DEFINE n == UnmapAll(m, s, l)
<1>1. PICK g : Runs("unmaps", s, s, s, m, l, g) /\ n = g[Len(l)]
  BY UnmapAllRuns
<1> HIDE DEF n
<1>2. Good("unmaps", s, s, s, Area)
  BY UnmapFine DEF Good, Stepped
<1>3. Fine(m, n, s, {})
  BY <1>1, <1>2, LoopFine
<1> QED BY <1>3 DEF n

\* and over them again
LEMMA ExitAllRuns ==
  ASSUME NEW m, NEW s, NEW l \in Seq(Area)
  PROVE  \E g : Runs("exits", s, s, s, m, l, g)
                /\ ExitAll(m, s, l) = g[Len(l)]
<1> DEFINE seq == l
           Eq(g) == g = [i \in 0..Len(seq) |->
                           IF i = 0 THEN m
                           ELSE IF g[i - 1].ok THEN exit_range(g[i - 1], s, seq[i]) ELSE g[i - 1]]
           c == CHOOSE g : Eq(g)
<1>1. \A g : Runs("exits", s, s, s, m, seq, g) <=> Eq(g)
  BY DEF Runs, Turn, Stepped
<1>4. Len(seq) \in Nat
  OBVIOUS
<1>2. Eq(c)
  BY <1>1, <1>4, RunsExist
<1>3. ExitAll(m, s, l) = c[Len(seq)]
  BY DEF ExitAll, ForEach
<1> HIDE DEF c
<1> QED BY <1>1, <1>2, <1>3

\* to give back tables and directories.
LEMMA ExitAllFine ==
  ASSUME NEW m, NEW s, Starts(m, s, {}), NEW l \in Seq(Area)
  PROVE  LET n == ExitAll(m, s, l) IN Fine(m, n, s, {})
<1> DEFINE n == ExitAll(m, s, l)
<1>1. PICK g : Runs("exits", s, s, s, m, l, g) /\ n = g[Len(l)]
  BY ExitAllRuns
<1> HIDE DEF n
<1>2. Good("exits", s, s, s, Area)
  BY ExitRangeFine DEF Good, Stepped
<1>3. Fine(m, n, s, {})
  BY <1>1, <1>2, LoopFine
<1> QED BY <1>3 DEF n

\* What an operation that begins or ends an address space of s leaves.
Calls(m, n, s) ==
  /\ Sound(n, {}) /\ n.kernel = m.kernel /\ n.kstack = m.kstack
  /\ \A r \in Space : r # s => n.mm[r] = m.mm[r]

\* Two of them, one after the other.
LEMMA CallsOn ==
  ASSUME NEW m, NEW n, NEW g, NEW s, Calls(m, n, s), Calls(n, g, s)
  PROVE  Calls(m, g, s)
BY DEF Calls

\* What is fine for s is such an operation.
LEMMA CallsFine ==
  ASSUME NEW m, NEW n, NEW s, Fine(m, n, s, {})
  PROVE  Calls(m, n, s)
BY DEF Calls, Fine, Keeps

\* So is doing nothing.
LEMMA CallsSelf ==
  ASSUME NEW m, NEW s, Sound(m, {})
  PROVE  Calls(m, m, s)
BY DEF Calls

\* exit_mmap, put_pgdir and mm_destroy, in two loops and one free_page.
LEMMA DiscardIs ==
  ASSUME NEW m, NEW s, m.mm[s] # None
  PROVE  LET l == m.mm[s].areas
             r == ExitAll(UnmapAll(m, s, l), s, l)
         IN  Discard(m, s) = IF r.ok THEN free_pages([r EXCEPT !.mm[s] = None], m.mm[s].pgdir, 1)
                             ELSE r
BY DEF Discard, Then, ExitAll, UnmapAll

\* They give back all that the address space has.
LEMMA DiscardFine ==
  ASSUME NEW m, NEW s \in Proc, Sound(m, {})
  PROVE  LET n == Discard(m, s) IN Calls(m, n, s)
<1> DEFINE n == Discard(m, s)
<1>1. CASE m.mm[s] = None
  <2>1. n = m
    BY <1>1 DEF Discard
  <2> QED BY <2>1, CallsSelf
<1>2. CASE m.mm[s] # None
  <2> DEFINE B == m.mm[s]
             l == B.areas
             x == B.pgdir
             q == UnmapAll(m, s, l)
             r == ExitAll(q, s, l)
             e == [r EXCEPT !.mm[s] = None]
             g == free_pages(e, x, 1)
  <2>1. n = IF r.ok THEN g ELSE r
    BY <1>2, DiscardIs
  <2> HIDE DEF n
  <2>2. B \in UserSpace /\ s \in Space
    BY <1>2, NoCheck DEF Sound, Typed
  <2>3. Starts(m, s, {})
    BY <2>2 DEF Starts
  <2>4. l \in Seq(Area) /\ x \in Frame
    BY <2>2, SpaceFields
  <2> HIDE DEF l
  <2>5. Fine(m, q, s, {})
    BY <2>3, <2>4, UnmapAllFine
  <2> HIDE DEF q
  <2>6. Starts(q, s, {})
    BY <2>5, FineStarts
  <2>7. Fine(q, r, s, {})
    BY <2>4, <2>6, ExitAllFine
  <2> HIDE DEF r
  <2>8. Fine(m, r, s, {})
    BY <2>5, <2>7, FineOn
  <2>9. ASSUME r.ok PROVE Calls(m, g, s)
    <3>1. Sound(r, {}) /\ Typed(r) /\ r.ok = TRUE /\ r.mm[s] \in UserSpace /\ r.mm[s].pgdir = x
      BY <2>8, <2>9 DEF Fine, Sound, Typed, Keeps
    <3>2. Remaps(r, e, s, None)
      <4> DEFINE N == None
                 k == [r EXCEPT !.mm[s] = N]
      <4>1. e = k
        OBVIOUS
      <4> HIDE DEF N
      <4>2. Remaps(r, k, s, N)
        BY <3>1 DEF Remaps, Rec, Typed
      <4> QED BY <4>1, <4>2 DEF N
    <3> HIDE DEF e, x
    <3>3. \A k, i : Entry(None, k, i) = None
      BY DEF Entry
    <3>4. Less(r.mm[s], None, s)
      BY <3>3 DEF Less
    <3>5. Entry(r.mm[s], "pgdir", 0) = x /\ x # None /\ <<"pgdir", s, 0>> \in Slot
          /\ "pgdir" \in MapKinds
      BY <2>2, <2>4, <3>1, SpaceFields, Entries4, IsSlot, NoFrame DEF MapKinds
    <3>6. Sound(e, {} \cup {x})
      <4> DEFINE k == "pgdir"
      <4>1. Entry(r.mm[s], k, 0) = x /\ <<k, s, 0>> \in Slot /\ k \in MapKinds
        BY <3>5
      <4> HIDE DEF k
      <4>2. Entry(None, k, 0) = None
        BY <3>3
      <4>3. Sound(e, {} \cup {Entry(r.mm[s], k, 0)})
        BY <3>1, <3>2, <3>4, <3>5, <4>1, <4>2, RemappedLess
      <4> QED BY <4>1, <4>3
    <3>7. {} \cup {x} = {x} /\ {x} \ {x} = {} /\ x \in {x}
      OBVIOUS
    <3>8. Sound(e, {x}) /\ e.ok = TRUE
      BY <3>1, <3>2, <3>6, <3>7 DEF Remaps
    <3>9. Sound(g, {x} \ {x}) /\ Around(e, g)
      BY <2>4, <3>7, <3>8, ReleaseOne
    <3> HIDE DEF g
    <3>10. \A k \in Space : k # s => e.mm[k] = r.mm[k]
      BY <3>1, <3>2, RemapsTyped
    <3> QED BY <2>8, <3>2, <3>7, <3>9, <3>10 DEF Calls, Around, Remaps, Fine, Keeps
  <2>10. Calls(m, r, s)
    BY <2>8, CallsFine
  <2> HIDE DEF g
  <2>11. Calls(m, n, s)
    BY <2>1, <2>9, <2>10
  <2> QED BY <2>11 DEF n
<1> QED BY <1>1, <1>2

\* setup_pgdir makes an empty one.
LEMMA SetupFine ==
  ASSUME NEW m, NEW s \in Proc, Sound(m, {}), m.ok = TRUE
  PROVE  LET n == setup_pgdir(m, s) IN Calls(m, n, s) /\ (n.ok => Starts(n, s, {}))
<1> DEFINE a == Found(m.pmm, 1)
           r == [m EXCEPT !.pmm = Taken(@, a, 1)]
           A == [mm_create EXCEPT !.pgdir = a]
           n == setup_pgdir(m, s)
           g == [r EXCEPT !.mm[s] = A]
           h == [m EXCEPT !.ok = FALSE]
<1>1. n = IF a \in Frame THEN g ELSE h
  BY ReadyIs DEF setup_pgdir, alloc_page, Then
<1>2. Calls(m, h, s) /\ h.ok = FALSE
  <2>1. \A S : Sound(h, S) /\ Around(m, h) /\ h.ok = FALSE
    BY Fails
  <2> HIDE DEF h
  <2> QED BY <2>1 DEF Calls, Around
<1>3. ASSUME a \in Frame PROVE Calls(m, g, s) /\ Starts(g, s, {})
  <2>0. Finds(m, 1, a)
    BY <1>3 DEF Finds
  <2>1. Sound(r, {} \cup {a}) /\ Around(m, r) /\ r.ok = m.ok
    BY <2>0, GrabOne
  <2> HIDE DEF r, a
  <2>2. Sound(r, {a}) /\ a \in {a} /\ {a} \ {a} = {}
    <3>1. {} \cup {a} = {a}
      OBVIOUS
    <3> QED BY <2>1, <3>1
  <2>3. Typed(r) /\ r.mm[s] \in UserSpace \cup {None} /\ s \in Space
    BY <2>2, NoCheck DEF Sound, Typed
  <2>4. A \in UserSpace /\ Moves(r.mm[s], A, s, <<"pgdir", s, 0>>, a)
    BY <1>3, <2>3, SetupRemap
  <2> HIDE DEF A
  <2>5. Remaps(r, g, s, A)
    BY <2>3 DEF Typed, Rec, Remaps
  <2> HIDE DEF g
  <2>6. Sound(g, {a} \ {a})
    BY <2>2, <2>4, <2>5, Remapped
  <2>7. g.mm[s] = A /\ \A k \in Space : k # s => g.mm[k] = r.mm[k]
    BY <2>3, <2>4, <2>5, RemapsTyped
  <2>8. Sound(g, {})
    BY <2>2, <2>6
  <2> QED BY <2>1, <2>4, <2>5, <2>7, <2>8 DEF Calls, Starts, Around, Remaps
<1> HIDE DEF g, h, n
<1>4. Calls(m, n, s) /\ (n.ok => Starts(n, s, {}))
  BY <1>1, <1>2, <1>3
<1> QED BY <1>4 DEF n

\* The segments that load_icode accepts are areas.
LEMMA AcceptedType ==
  ASSUME NEW img \in Images
  PROVE  Accepted(img) \in Seq(Area)
<1> DEFINE P(n) == /\ ~Refused(SubSeq(img, 1, n))
                   /\ n < Len(img) => Refused(SubSeq(img, 1, n + 1))
           S == {n \in 0..Len(img) : n < Len(img) => Refused(SubSeq(img, 1, n + 1))}
<1>1. img \in Seq(Area)
  BY AreaAssumption
<1>2. Len(img) \in S /\ S \in SUBSET Nat
  BY <1>1
<1>3. PICK n \in S : \A k \in S : n <= k
  BY <1>2, LeastNumber
<1>4. n \in 0..Len(img) /\ (n < Len(img) => Refused(SubSeq(img, 1, n + 1)))
  OBVIOUS
<1>5. ~Refused(SubSeq(img, 1, n))
  <2>1. CASE n = 0
    <3>1. Len(SubSeq(img, 1, 0)) = 0
      BY <1>1
    <3>2. 1..0 = {}
      OBVIOUS
    <3> QED BY <2>1, <3>1, <3>2 DEF Refused
  <2>2. CASE n # 0
    <3> DEFINE k == n - 1
    <3>1. k \in 0..Len(img) /\ k < n /\ k + 1 = n
      BY <1>1, <1>4, <2>2
    <3> HIDE DEF k
    <3>2. k \notin S
      BY <1>3, <1>4, <3>1
    <3>3. ~Refused(SubSeq(img, 1, k + 1))
      BY <3>1, <3>2
    <3> QED BY <3>1, <3>3
  <2> QED BY <2>1, <2>2
<1> DEFINE c == CHOOSE h \in 0..Len(img) : P(h)
<1>6. P(n)
  BY <1>4, <1>5
<1> HIDE DEF P
<1>7. c \in 0..Len(img)
  BY <1>4, <1>6
<1>8. Accepted(img) = SubSeq(img, 1, c)
  BY DEF Accepted, P
<1> HIDE DEF c
<1> QED BY <1>1, <1>7, <1>8

\* It loads them in a loop,
LEMMA LoadedRuns ==
  ASSUME NEW m, NEW s, NEW img \in Images
  PROVE  \E g : Runs("segment", s, s, s, m, Accepted(img), g)
                /\ Loaded(m, s, img) = g[Len(Accepted(img))]
<1> DEFINE seq == Accepted(img)
           Eq(g) == g = [i \in 0..Len(seq) |->
                           IF i = 0 THEN m
                           ELSE IF g[i - 1].ok THEN Segment(g[i - 1], s, seq[i]) ELSE g[i - 1]]
           c == CHOOSE g : Eq(g)
<1>1. \A g : Runs("segment", s, s, s, m, seq, g) <=> Eq(g)
  BY DEF Runs, Turn, Stepped
<1>4. Len(seq) \in Nat
  BY AcceptedType
<1>2. Eq(c)
  BY <1>1, <1>4, RunsExist
<1>3. Loaded(m, s, img) = c[Len(seq)]
  BY DEF Loaded, ForEach
<1> HIDE DEF c
<1> QED BY <1>1, <1>2, <1>3

\* each as above.
LEMMA LoadedFine ==
  ASSUME NEW m, NEW s, Starts(m, s, {}), NEW img \in Images
  PROVE  LET n == Loaded(m, s, img) IN Fine(m, n, s, {})
<1> DEFINE n == Loaded(m, s, img)
           l == Accepted(img)
<1>1. PICK g : Runs("segment", s, s, s, m, l, g) /\ n = g[Len(l)]
  BY LoadedRuns
<1> HIDE DEF n
<1>2. Good("segment", s, s, s, Area)
  BY SegmentFine DEF Good, Stepped
<1>3. l \in Seq(Area)
  BY AcceptedType
<1> HIDE DEF l
<1>4. Fine(m, n, s, {})
  BY <1>1, <1>2, <1>3, LoopFine
<1> QED BY <1>4 DEF n

\* load_icode makes an address space, and discards what it has when it fails.
LEMMA LoadIcodeFine ==
  ASSUME NEW m, NEW s \in Proc, Sound(m, {}), m.ok = TRUE, NEW img \in Images
  PROVE  LET n == load_icode(m, s, img) IN Calls(m, n, s)
<1> DEFINE q == setup_pgdir(m, s)
           r == Loaded(q, s, img)
           n == load_icode(m, s, img)
           d == Discard(r, s)
           w == WithStack(r, s)
<1>1. n = q \/ (q.ok /\ (n = r \/ (r.ok /\ (n = d \/ n = w))))
  BY DEF load_icode, Then
<1>2. Calls(m, q, s) /\ (q.ok => Starts(q, s, {}))
  BY SetupFine
<1> HIDE DEF q, n
<1>3. q.ok => Fine(q, r, s, {})
  BY <1>2, LoadedFine
<1> HIDE DEF r
<1>4. q.ok => Calls(q, r, s) /\ Starts(r, s, {})
  BY <1>3, CallsFine, FineStarts
<1>5. q.ok => Calls(r, d, s)
  BY <1>4, DiscardFine DEF Starts
<1>6. q.ok => Calls(r, w, s)
  BY <1>4, WithStackFine, CallsFine
<1> HIDE DEF d, w
<1>7. Calls(m, n, s)
  BY <1>1, <1>2, <1>4, <1>5, <1>6, CallsOn
<1> QED BY <1>7 DEF n

\* copy_mm gives q a copy of what p has.
LEMMA CopyMmFine ==
  ASSUME NEW m, NEW p \in Proc, NEW q \in Proc, p # q, Sound(m, {}), m.ok = TRUE
  PROVE  LET n == copy_mm(m, p, q) IN Calls(m, n, q)
<1> DEFINE r == setup_pgdir(m, q)
           g == dup_mmap(r, p, q)
           n == copy_mm(m, p, q)
<1>1. n = IF m.mm[p] = None THEN m ELSE IF r.ok THEN g ELSE r
  BY DEF copy_mm, Then
<1>2. Calls(m, r, q) /\ (r.ok => Starts(r, q, {}))
  BY SetupFine
<1> HIDE DEF r, n
<1>3. Calls(m, m, q)
  BY CallsSelf
<1>4. ASSUME m.mm[p] # None, r.ok PROVE Calls(r, g, q)
  <2>1. r.mm[p] = m.mm[p] /\ m.mm[p] \in UserSpace
    BY <1>2, <1>4, NoCheck DEF Calls, Sound, Typed
  <2>2. r.mm[p].areas \in Seq(Area)
    BY <2>1, SpaceFields
  <2> QED BY <1>2, <1>4, <2>2, DupFine, CallsFine
<1> HIDE DEF g
<1>5. Calls(m, n, q)
  BY <1>1, <1>2, <1>3, <1>4, CallsOn
<1> QED BY <1>5 DEF n

-----------------------------------------------------------------------------
(***************************************************************************)
(* Kernel stacks and the heap.                                             *)
(***************************************************************************)
\* Places C get frames R that are in hand.
Puts(O, Q, C, R) ==
  /\ Q \in [Slot -> Frame \cup {None}]
  /\ \A x \in Slot : IF x \in C THEN Q[x] \in R ELSE Q[x] = None \/ Q[x] = O[x]
  /\ \A x, y \in C : Q[x] = Q[y] => x = y

\* Then nothing is in hand and no frame is in two places.
LEMMA OwnedPuts ==
  ASSUME NEW O, NEW F, NEW R, Owned(O, F, R), NEW Q, NEW C, Puts(O, Q, C, R)
  PROVE  Owned(Q, F, {})
<1>0. /\ Q \in [Slot -> Frame \cup {None}]
      /\ \A x \in Slot : x \in C => Q[x] \in R
      /\ \A x \in Slot : x \notin C => Q[x] = None \/ Q[x] = O[x]
      /\ \A x, y \in C : Q[x] = Q[y] => x = y
  BY DEF Puts
<1>a. ASSUME NEW x \in Slot, NEW y \in Slot, x \in C, y \notin C, Q[y] # None
      PROVE  Q[x] # Q[y]
  BY <1>0, <1>a DEF Owned
<1>1. ASSUME NEW x \in Slot, NEW y \in Slot, Q[x] # None, Q[x] = Q[y] PROVE x = y
  <2>1. CASE x \in C /\ y \in C
    BY <1>0, <1>1, <2>1
  <2>2. CASE x \notin C /\ y \notin C
    <3>1. Q[x] = O[x] /\ Q[y] = O[y]
      BY <1>0, <1>1, <2>2
    <3> QED BY <1>1, <3>1 DEF Owned
  <2> QED BY <1>1, <1>a, <2>1, <2>2
<1>2. ASSUME NEW x \in Slot PROVE Q[x] \notin F
  <2>1. CASE x \in C
    BY <1>0, <2>1 DEF Owned
  <2>2. CASE Q[x] = None
    BY <2>2, NoFrame DEF Owned
  <2>3. CASE Q[x] = O[x]
    BY <2>3 DEF Owned
  <2> QED BY <1>0, <2>1, <2>2, <2>3
<1>3. F \in SUBSET Frame
  BY DEF Owned
<1> QED BY <1>0, <1>1, <1>2, <1>3 DEF Owned

\* Places lose frames S.
Loses(O, Q, S) ==
  /\ S \in SUBSET Frame
  /\ \A a \in S : \E x \in Slot : O[x] = a /\ Q[x] = None

\* These frames are in hand then.
LEMMA OwnedLose ==
  ASSUME NEW O, NEW F, Owned(O, F, {}), NEW Q, Losing(O, Q), NEW S, Loses(O, Q, S)
  PROVE  Owned(Q, F, S)
<1>0. /\ Q \in [Slot -> Frame \cup {None}]
      /\ \A x \in Slot : Q[x] = None \/ Q[x] = O[x]
  BY DEF Losing
<1>1. \A x, y \in Slot : Q[x] # None /\ Q[x] = Q[y] => x = y
  BY <1>0 DEF Owned
<1>2. F \cap S = {}
  BY DEF Owned, Loses
<1>3. ASSUME NEW x \in Slot PROVE Q[x] \notin F \cup S
  <2>1. Q[x] \notin F
    BY <1>0, NoFrame DEF Owned
  <2>2. ASSUME Q[x] \in S PROVE FALSE
    <3>1. PICK y \in Slot : O[y] = Q[x] /\ Q[y] = None
      BY <2>2 DEF Loses
    <3>2. Q[x] # None
      BY <2>2, NoFrame DEF Loses
    <3>3. O[x] = Q[x]
      BY <1>0, <3>2
    <3>4. x = y
      BY <3>1, <3>2, <3>3 DEF Owned
    <3> QED BY <3>1, <3>2, <3>4
  <2> QED BY <2>1, <2>2
<1> QED BY <1>0, <1>1, <1>2, <1>3 DEF Owned, Loses

\* n is m with other kernel stacks.
Stacks(m, n, k) ==
  /\ Rec(n) /\ n.pmm = m.pmm /\ n.ok = m.ok /\ n.kernel = m.kernel /\ n.kstack = k
  /\ n.store = m.store /\ n.mm = m.mm

StackGiven(m, n, q, a) ==
  /\ Sound(n, {}) /\ n.ok = m.ok /\ n.kernel = m.kernel /\ n.mm = m.mm
  /\ n.kstack = [m.kstack EXCEPT ![q] = a]

\* setup_kstack puts frames in hand into the places of a stack.
LEMMA StackPuts ==
  ASSUME NEW m, Typed(m), NEW q \in Proc, NEW a \in KFrame, NEW n,
         Stacks(m, n, [m.kstack EXCEPT ![q] = a])
  PROVE  Typed(n) /\ Puts(Owns(m), Owns(n), {"kstack"} \X {q} \X (0..KSTACKPAGE - 1),
                           Block(a, KSTACKPAGE))
<1> DEFINE C == {"kstack"} \X {q} \X (0..KSTACKPAGE - 1)
<1>0. KSTACKPAGE \in Nat \ {0} /\ a \in Frame /\ a + KSTACKPAGE <= NFrames /\ a \in Nat
  BY MemoryAssumption, PmmAssumption DEF KFrame, Frame
<1>1. n.kstack \in [Proc -> KFrame \cup {None}] /\ n.kstack[q] = a
      /\ \A p \in Proc : p # q => n.kstack[p] = m.kstack[p]
  BY DEF Stacks, Typed
<1>2. Typed(n)
  BY <1>1 DEF Stacks, Typed
<1>3. Owns(n) \in [Slot -> Frame \cup {None}]
  BY <1>2, TypedFields, OwnsType
<1>a. a # None
  BY <1>0, NoFrame
<1>4. \A i \in 0..KSTACKPAGE - 1 : Owns(n)[<<"kstack", q, i>>] = a + i
  BY <1>1, <1>a, OwnsAt
<1>5. ASSUME NEW x \in Slot, ~\E i \in 0..KSTACKPAGE - 1 : x = <<"kstack", q, i>>
      PROVE  Owns(n)[x] = Owns(m)[x]
  <2> DEFINE k == x[1]
             s == x[2]
             i == x[3]
  <2>1. /\ x = <<k, s, i>>
        /\ \/ k = "heap"
           \/ k = "kstack" /\ s \in Proc /\ i \in 0..KSTACKPAGE - 1
           \/ k \in MapKinds /\ s \in Space
    BY SlotIs DEF MapKinds
  <2> HIDE DEF k, s, i
  <2>2. Cell(n, k, s, i) = Cell(m, k, s, i)
    <3>1. CASE k = "heap"
      BY <3>1 DEF Cell, MapKinds, Stacks
    <3>2. CASE k = "kstack" /\ s \in Proc /\ i \in 0..KSTACKPAGE - 1
      <4>1. s # q
        BY <1>5, <2>1, <3>2
      <4>2. n.kstack[s] = m.kstack[s]
        BY <1>1, <3>2, <4>1
      <4> QED BY <3>2, <4>2 DEF Cell, MapKinds
    <3>3. CASE k \in MapKinds /\ s \in Space
      BY <3>3 DEF Cell, MapKinds, Stacks
    <3> QED BY <2>1, <3>1, <3>2, <3>3
  <2> QED BY <2>2 DEF Owns, k, s, i
<1>6. \A x \in C : \E i \in 0..KSTACKPAGE - 1 : x = <<"kstack", q, i>>
  OBVIOUS
<1>9. \A i \in 0..KSTACKPAGE - 1 : <<"kstack", q, i>> \in C
  OBVIOUS
<1>7. \A i \in 0..KSTACKPAGE - 1 : a + i \in Block(a, KSTACKPAGE)
  BY <1>0 DEF Block
<1>8. \A i, j \in 0..KSTACKPAGE - 1 : a + i = a + j => i = j
  BY <1>0
<1> HIDE DEF C
<1>10. \A x \in Slot : IF x \in C THEN Owns(n)[x] \in Block(a, KSTACKPAGE)
                       ELSE Owns(n)[x] = Owns(m)[x]
  BY <1>4, <1>5, <1>6, <1>7, <1>9
<1>11. \A x, y \in C : Owns(n)[x] = Owns(n)[y] => x = y
  <2> SUFFICES ASSUME NEW x \in C, NEW y \in C, Owns(n)[x] = Owns(n)[y] PROVE x = y
    OBVIOUS
  <2>1. PICK i \in 0..KSTACKPAGE - 1 : x = <<"kstack", q, i>>
    BY <1>6
  <2>2. PICK j \in 0..KSTACKPAGE - 1 : y = <<"kstack", q, j>>
    BY <1>6
  <2>3. a + i = a + j
    BY <1>4, <2>1, <2>2
  <2> QED BY <1>8, <2>1, <2>2, <2>3
<1>12. Puts(Owns(m), Owns(n), C, Block(a, KSTACKPAGE))
  BY <1>3, <1>10, <1>11 DEF Puts
<1> QED BY <1>2, <1>12 DEF C

\* setup_kstack takes the frames of a stack in one block.
LEMMA StackFine ==
  ASSUME NEW m, Sound(m, {}), NEW q \in Proc, NEW a, Finds(m, KSTACKPAGE, a)
  PROVE  LET n == [m EXCEPT !.pmm = Taken(@, a, KSTACKPAGE), !.kstack[q] = a]
         IN  StackGiven(m, n, q, a) /\ a \in KFrame
<1> DEFINE r == [m EXCEPT !.pmm = Taken(@, a, KSTACKPAGE)]
           n == [m EXCEPT !.pmm = Taken(@, a, KSTACKPAGE), !.kstack[q] = a]
<1>0. KSTACKPAGE \in Nat /\ KSTACKPAGE >= 1
  BY MemoryAssumption
<1>1. /\ Sound(r, {} \cup Block(a, KSTACKPAGE)) /\ Around(m, r) /\ r.ok = m.ok
      /\ a + KSTACKPAGE <= NFrames
  <2> DEFINE R == {}
  <2>1. Sound(m, R)
    OBVIOUS
  <2> HIDE DEF R
  <2>2. /\ Sound(r, R \cup Block(a, KSTACKPAGE)) /\ Around(m, r) /\ r.ok = m.ok
        /\ a + KSTACKPAGE <= NFrames
    BY <1>0, <2>1, Grab
  <2> QED BY <2>2 DEF R
<1>2. a \in KFrame
  BY <1>1 DEF Finds, KFrame
<1>3. n = [r EXCEPT !.kstack[q] = a]
  OBVIOUS
<1> HIDE DEF r, n
<1>4. Typed(r)
  BY <1>1 DEF Sound
<1>5. Stacks(r, n, [r.kstack EXCEPT ![q] = a])
  BY <1>3, <1>4 DEF Stacks, Typed, Rec
<1> DEFINE C == {"kstack"} \X {q} \X (0..KSTACKPAGE - 1)
<1>6. Typed(n) /\ Puts(Owns(r), Owns(n), C, Block(a, KSTACKPAGE))
  BY <1>2, <1>4, <1>5, StackPuts
<1> HIDE DEF C
<1>7. ASSUME n.ok, ~n.pmm.tail PROVE Exact(n.pmm) /\ Owned(Owns(n), FreeOf(n.pmm), {})
  <2> DEFINE O == Owns(r)
             Q == Owns(n)
             F == FreeOf(r.pmm)
             S == Block(a, KSTACKPAGE)
  <2>1. Exact(r.pmm) /\ Owned(O, F, S) /\ n.pmm = r.pmm
    BY <1>1, <1>5, <1>7 DEF Sound, Stacks
  <2>2. Puts(O, Q, C, S)
    BY <1>6
  <2> HIDE DEF O, Q, F, S
  <2>3. Owned(Q, F, {})
    BY <2>1, <2>2, OwnedPuts
  <2> QED BY <2>1, <2>3 DEF Q, F
<1>8. StackGiven(m, n, q, a)
  BY <1>1, <1>5, <1>6, <1>7 DEF StackGiven, Sound, Around, Stacks
<1> QED BY <1>2, <1>8 DEF n

StackGone(m, n, p) ==
  /\ Sound(n, {}) /\ n.kernel = m.kernel /\ n.mm = m.mm
  /\ n.kstack = [m.kstack EXCEPT ![p] = None]

\* The stack of p is in the hands of do_wait.
LEMMA StackLoses ==
  ASSUME NEW m, Sound(m, {}), NEW p \in Proc, m.kstack[p] # None, NEW n,
         Stacks(m, n, [m.kstack EXCEPT ![p] = None])
  PROVE  Sound(n, Block(m.kstack[p], KSTACKPAGE))
<1> DEFINE a == m.kstack[p]
           S == Block(a, KSTACKPAGE)
           O == Owns(m)
           Q == Owns(n)
<1>1. a \in KFrame
  BY DEF Sound, Typed
<1>2. n.kstack \in [Proc -> KFrame \cup {None}] /\ n.kstack[p] = None
      /\ \A q \in Proc : q # p => n.kstack[q] = m.kstack[q]
  BY DEF Stacks, Sound, Typed
<1>3. Typed(n)
  BY <1>2 DEF Stacks, Sound, Typed
<1>4. Q \in [Slot -> Frame \cup {None}]
  BY <1>3, TypedFields, OwnsType
<1>5. \A x \in Slot : Q[x] = None \/ Q[x] = O[x]
  <2> SUFFICES ASSUME NEW x \in Slot PROVE Q[x] = None \/ Q[x] = O[x]
    OBVIOUS
  <2> DEFINE k == x[1]
             s == x[2]
             i == x[3]
  <2>1. /\ x = <<k, s, i>>
        /\ \/ k = "heap"
           \/ k = "kstack" /\ s \in Proc /\ i \in 0..KSTACKPAGE - 1
           \/ k \in MapKinds /\ s \in Space
    BY SlotIs DEF MapKinds
  <2> HIDE DEF k, s, i
  <2>2. Cell(n, k, s, i) = None \/ Cell(n, k, s, i) = Cell(m, k, s, i)
    <3>1. CASE k = "heap"
      BY <3>1 DEF Cell, MapKinds, Stacks
    <3>2. CASE k = "kstack" /\ s \in Proc /\ i \in 0..KSTACKPAGE - 1
      <4>1. CASE s # p
        <5>1. n.kstack[s] = m.kstack[s]
          BY <1>2, <3>2, <4>1
        <5> QED BY <3>2, <5>1 DEF Cell, MapKinds
      <4>2. CASE s = p
        BY <1>2, <3>2, <4>2 DEF Cell, MapKinds
      <4> QED BY <4>1, <4>2
    <3>3. CASE k \in MapKinds /\ s \in Space
      BY <3>3 DEF Cell, MapKinds, Stacks
    <3> QED BY <2>1, <3>1, <3>2, <3>3
  <2> QED BY <2>2 DEF Owns, k, s, i
<1>6. Losing(O, Q)
  BY <1>4, <1>5 DEF Losing
<1>7. Loses(O, Q, S)
  <2>0. KSTACKPAGE \in Nat \ {0} /\ a \in Nat /\ a + KSTACKPAGE <= NFrames
    BY <1>1, MemoryAssumption, PmmAssumption DEF KFrame, Frame
  <2>1. S \in SUBSET Frame
    BY <2>0, PmmAssumption DEF Block, Frame
  <2>2. ASSUME NEW b \in S PROVE \E x \in Slot : O[x] = b /\ Q[x] = None
    <3> DEFINE i == b - a
    <3>1. i \in 0..KSTACKPAGE - 1 /\ a + i = b
      BY <2>0 DEF Block
    <3> HIDE DEF i
    <3>2. <<"kstack", p, i>> \in Slot
      BY <3>1, IsSlot
    <3>3. O[<<"kstack", p, i>>] = a + i
      BY <3>1, OwnsAt
    <3>4. Q[<<"kstack", p, i>>] = None
      BY <1>2, <3>1, OwnsAt
    <3> QED BY <3>1, <3>2, <3>3, <3>4
  <2> QED BY <2>1, <2>2 DEF Loses
<1>8. ASSUME n.ok, ~n.pmm.tail PROVE Exact(n.pmm) /\ Owned(Q, FreeOf(n.pmm), S)
  <2> DEFINE F == FreeOf(m.pmm)
  <2>1. Exact(m.pmm) /\ Owned(O, F, {}) /\ n.pmm = m.pmm
    BY <1>8 DEF Sound, Stacks
  <2> HIDE DEF O, Q, F, S
  <2>3. Owned(Q, F, S)
    BY <1>6, <1>7, <2>1, OwnedLose
  <2> QED BY <2>1, <2>3 DEF F
<1> QED BY <1>3, <1>8 DEF Sound

\* put_kstack gives back a stack.
LEMMA WaitFine ==
  ASSUME NEW m, Sound(m, {}), m.ok = TRUE, NEW p \in Proc, m.kstack[p] # None
  PROVE  LET n == [free_pages(m, m.kstack[p], KSTACKPAGE) EXCEPT !.kstack[p] = None]
         IN  StackGone(m, n, p)
<1> DEFINE a == m.kstack[p]
           K == KSTACKPAGE
           d == [m EXCEPT !.kstack[p] = None]
           g == Freed(m.pmm, a, K)
           c == [b \in Frame |-> IF b \in a..a + K - 1 THEN Unset ELSE m.content[b]]
           n == [free_pages(m, a, K) EXCEPT !.kstack[p] = None]
           r == free_pages(d, a, K)
<1>0. Rec(m)
  BY DEF Sound, Typed
<1>a. /\ K \in Nat /\ K >= 1 /\ a \in Frame /\ a + K <= NFrames
  <2>1. a \in KFrame
    BY DEF Sound, Typed
  <2> QED BY <2>1, MemoryAssumption DEF KFrame
<1>1. /\ Rec(d) /\ d.pmm = m.pmm /\ d.ok = m.ok /\ d.kernel = m.kernel
      /\ d.kstack = [m.kstack EXCEPT ![p] = None]
      /\ d.store = m.store /\ d.mm = m.mm /\ d.content = m.content
  BY <1>0 DEF Rec
<1>2. Stacks(m, d, [m.kstack EXCEPT ![p] = None])
  BY <1>1 DEF Stacks
<1>3. n = r
  <2> HIDE DEF a, K
  <2>1. free_pages(m, a, K) = [[[m EXCEPT !.content = c] EXCEPT !.pmm = g] EXCEPT !.ok = g.ok]
    BY DEF free_pages, WithFrames
  <2>2. r = [[[d EXCEPT !.content = c] EXCEPT !.pmm = g] EXCEPT !.ok = g.ok]
    BY <1>1 DEF free_pages, WithFrames
  <2> HIDE DEF g, c, r
  <2>3. n = [[[[m EXCEPT !.content = c] EXCEPT !.pmm = g] EXCEPT !.ok = g.ok]
               EXCEPT !.kstack[p] = None]
    BY <2>1
  <2> QED BY <1>0, <2>2, <2>3 DEF Rec
<1> HIDE DEF d, n
<1>4. Sound(d, Block(a, K))
  BY <1>2, StackLoses
<1>5. Sound(r, Block(a, K) \ Block(a, K)) /\ Around(d, r)
  <2> DEFINE R == Block(a, K)
  <2>1. Sound(d, R) /\ Block(a, K) \in SUBSET R /\ d.ok = TRUE
    BY <1>1, <1>4
  <2> HIDE DEF R, a, K
  <2>2. Sound(r, R \ Block(a, K)) /\ Around(d, r)
    BY <1>a, <2>1, Release
  <2> QED BY <2>2 DEF R
<1> HIDE DEF r
<1>6. Block(a, K) \ Block(a, K) = {}
  OBVIOUS
<1>7. StackGone(m, n, p)
  BY <1>1, <1>3, <1>5, <1>6 DEF StackGone, Around
<1> QED BY <1>7 DEF n

\* kmalloc gets one page.
LEMMA HeapFine ==
  ASSUME NEW m, Sound(m, {}), m.ok = TRUE
  PROVE  LET n == alloc_page(m, LAMBDA r, a : [r EXCEPT !.kernel = @ \cup {a}])
         IN  Sound(n, {}) /\ n.kstack = m.kstack /\ n.mm = m.mm
<1> DEFINE a == Found(m.pmm, 1)
           r == [m EXCEPT !.pmm = Taken(@, a, 1)]
           g == [r EXCEPT !.kernel = @ \cup {a}]
           h == [m EXCEPT !.ok = FALSE]
           n == alloc_page(m, LAMBDA q, b : [q EXCEPT !.kernel = @ \cup {b}])
<1>1. n = IF a \in Frame THEN g ELSE h
  BY ReadyIs DEF alloc_page, Then
<1>2. Sound(h, {}) /\ Around(m, h)
  BY Fails
<1>3. ASSUME a \in Frame PROVE Sound(g, {}) /\ g.kstack = m.kstack /\ g.mm = m.mm
  <2>0. Finds(m, 1, a)
    BY <1>3 DEF Finds
  <2>1. Sound(r, {} \cup {a}) /\ Around(m, r) /\ r.ok = m.ok
    <3> DEFINE R == {}
    <3>1. Sound(m, R)
      OBVIOUS
    <3> HIDE DEF R
    <3>2. Sound(r, R \cup {a}) /\ Around(m, r) /\ r.ok = m.ok
      BY <2>0, <3>1, GrabOne
    <3> QED BY <3>2 DEF R
  <2> HIDE DEF r, a
  <2>2. Rec(r) /\ Typed(r)
    BY <2>1 DEF Sound, Typed
  <2>3. /\ Rec(g) /\ g.pmm = r.pmm /\ g.ok = r.ok /\ g.kernel = r.kernel \cup {a}
        /\ g.kstack = r.kstack /\ g.store = r.store /\ g.mm = r.mm
    BY <2>2 DEF Rec
  <2> HIDE DEF g
  <2>4. Typed(g)
    BY <1>3, <2>2, <2>3 DEF Typed
  <2> DEFINE c == <<"heap", None, a>>
  <2>5. c \in Slot
    BY <1>3, IsSlot
  <2>6. Owns(g) \in [Slot -> Frame \cup {None}]
    BY <2>4, TypedFields, OwnsType
  <2>7. \A x \in Slot : Owns(g)[x] = Owns(r)[x] \/ (x = c /\ Owns(g)[x] = a)
    <3> SUFFICES ASSUME NEW x \in Slot PROVE Owns(g)[x] = Owns(r)[x] \/ (x = c /\ Owns(g)[x] = a)
      OBVIOUS
    <3> DEFINE k == x[1]
               s == x[2]
               i == x[3]
    <3>1. /\ x = <<k, s, i>>
          /\ \/ k = "heap" /\ s = None
             \/ k = "kstack" /\ s \in Proc /\ i \in 0..KSTACKPAGE - 1
             \/ k \in MapKinds /\ s \in Space
      BY SlotIs DEF MapKinds
    <3> HIDE DEF k, s, i
    <3>2. Cell(g, k, s, i) = Cell(r, k, s, i) \/ (x = c /\ Cell(g, k, s, i) = a)
      <4>1. CASE k = "heap" /\ s = None
        <5>1. Cell(g, k, s, i) = IF i \in g.kernel THEN i ELSE None
          BY <4>1 DEF Cell, MapKinds
        <5>2. Cell(r, k, s, i) = IF i \in r.kernel THEN i ELSE None
          BY <4>1 DEF Cell, MapKinds
        <5> QED BY <2>3, <3>1, <4>1, <5>1, <5>2
      <4>2. CASE k = "kstack" /\ s \in Proc /\ i \in 0..KSTACKPAGE - 1
        BY <2>3, <4>2 DEF Cell, MapKinds
      <4>3. CASE k \in MapKinds /\ s \in Space
        BY <2>3, <4>3 DEF Cell, MapKinds
      <4> QED BY <3>1, <4>1, <4>2, <4>3
    <3> QED BY <3>2 DEF Owns, k, s, i
  <2> HIDE DEF c
  <2>8. Taking(Owns(r), Owns(g), c, a)
    BY <2>6, <2>7 DEF Taking
  <2>9. ASSUME g.ok, ~g.pmm.tail PROVE Exact(g.pmm) /\ Owned(Owns(g), FreeOf(g.pmm), {})
    <3> DEFINE O == Owns(r)
               Q == Owns(g)
               F == FreeOf(r.pmm)
               S == {a}
    <3>1. Exact(r.pmm) /\ Owned(O, F, S) /\ g.pmm = r.pmm
      BY <2>1, <2>3, <2>9 DEF Sound
    <3>2. Taking(O, Q, c, a) /\ a \in S
      BY <2>8
    <3> HIDE DEF O, Q, F, S
    <3>3. Owned(Q, F, S \ {a})
      BY <3>1, <3>2, OwnedPut
    <3>4. S \ {a} = {}
      BY DEF S
    <3> QED BY <3>1, <3>3, <3>4 DEF Q, F
  <2> QED BY <2>1, <2>3, <2>4, <2>9 DEF Sound, Around
<1> HIDE DEF g, h, n
<1>4. Sound(n, {}) /\ n.kstack = m.kstack /\ n.mm = m.mm
  BY <1>1, <1>2, <1>3 DEF Around
<1> QED BY <1>4 DEF n

\* After check_swap: each process that is there has a kernel stack.
Running ==
  /\ Sound(M, {})
  /\ proc \in [Proc -> {"none", "runs", "zombie"}]
  /\ M.ok => \A p \in Proc : proc[p] # "none" => M.kstack[p] # None

\* Each operation keeps this: a page fault,
LEMMA RunsPageFault ==
  ASSUME Running, M.ok, NEW s \in Space, NEW p \in Page, PageFault(s, p)
  PROVE  Running'
<1>1. M.ok = TRUE /\ Sound(M, {})
  BY DEF Running, Sound, Typed
<1>2. s \in Proc /\ M.mm[s] \in UserSpace
  BY <1>1 DEF Sound, Typed, PageFault, Maps, Space
<1>3. Starts(M, s, {})
  BY <1>1, <1>2 DEF Starts
<1>4. Fine(M, do_pgfault(M, s, p), s, {})
  BY <1>1, <1>3, PageFaultFine DEF PageFault
<1>5. Fine(M, M', s, {}) /\ proc' = proc
  BY <1>4 DEF PageFault
<1> QED BY <1>1, <1>5 DEF Running, Fine, Keeps

\* a store to a mapped page,
LEMMA RunsStore ==
  ASSUME Running, M.ok, NEW s \in Space, NEW p \in Written, NEW v \in Value, Store(s, p, v)
  PROVE  Running'
<1> DEFINE a == M.mm[s].pte[p]
<1>1. M' = [M EXCEPT !.content[a] = v] /\ proc' = proc
  BY DEF Store
<1> HIDE DEF a
<1>2. Rec(M) /\ Typed(M)
  BY DEF Running, Sound, Typed
<1>3. /\ Rec(M') /\ M'.pmm = M.pmm /\ M'.ok = M.ok /\ M'.kernel = M.kernel
      /\ M'.kstack = M.kstack /\ M'.store = M.store /\ M'.mm = M.mm
  BY <1>1, <1>2 DEF Rec
<1>4. Typed(M')
  BY <1>2, <1>3 DEF Typed
<1>5. Owns(M') = Owns(M)
  BY <1>3, OwnsSame
<1>6. Sound(M', {})
  BY <1>3, <1>4, <1>5 DEF Running, Sound
<1> QED BY <1>1, <1>3, <1>6 DEF Running

\* do_fork, which may fail at the stack or at the copy,
LEMMA RunsFork ==
  ASSUME Running, M.ok, NEW p \in Proc, NEW q \in Proc, Fork(p, q)
  PROVE  Running'
<1> DEFINE a == Found(M.pmm, KSTACKPAGE)
           n == [M EXCEPT !.pmm = Taken(@, a, KSTACKPAGE), !.kstack[q] = a]
           h == [M EXCEPT !.ok = FALSE]
           g == copy_mm(n, p, q)
<1>1. M.ok = TRUE /\ Sound(M, {})
  BY DEF Running, Sound, Typed
<1>2. /\ p # q /\ a # free_list /\ M' = IF a = Lost THEN h ELSE g
      /\ proc' = [proc EXCEPT ![q] = IF M'.ok THEN "runs" ELSE @]
  BY DEF Fork
<1>3. a \in Frame \cup {free_list, Lost}
  BY <1>1, FoundType, MemoryAssumption DEF Sound, Typed
<1>p. proc' \in [Proc -> {"none", "runs", "zombie"}]
  BY <1>2 DEF Running
<1>4. CASE a = Lost
  <2>1. Sound(h, {}) /\ h.ok = FALSE
    BY <1>1, Fails
  <2> HIDE DEF h
  <2>2. Sound(M', {}) /\ M'.ok = FALSE
    BY <1>2, <1>4, <2>1
  <2> QED BY <1>p, <2>2 DEF Running
<1>5. CASE a # Lost
  <2>1. Finds(M, KSTACKPAGE, a)
    BY <1>2, <1>3, <1>5 DEF Finds
  <2>2. StackGiven(M, n, q, a) /\ a \in KFrame
    BY <1>1, <2>1, StackFine
  <2>3. M' = g
    BY <1>2, <1>5
  <2> HIDE DEF n
  <2>4. Sound(n, {}) /\ n.ok = TRUE
    BY <1>1, <2>2 DEF StackGiven
  <2>5. Calls(n, g, q)
    BY <1>2, <2>4, CopyMmFine
  <2> HIDE DEF g
  <2>6. Sound(M', {}) /\ M'.kstack = [M.kstack EXCEPT ![q] = a]
    BY <2>2, <2>3, <2>5 DEF Calls, StackGiven
  <2>7. a # None
    BY <2>2, NoFrame DEF KFrame
  <2>8. M.kstack \in [Proc -> KFrame \cup {None}]
    BY <1>1 DEF Sound, Typed
  <2>9. ASSUME NEW r \in Proc, proc'[r] # "none" PROVE M'.kstack[r] # None
    <3>1. CASE r = q
      BY <2>6, <2>7, <2>8, <3>1
    <3>2. CASE r # q
      <4>1. proc[r] # "none"
        BY <1>2, <2>9, <3>2 DEF Running
      <4> QED BY <1>1, <2>6, <2>8, <3>2, <4>1 DEF Running
    <3> QED BY <3>1, <3>2
  <2> QED BY <1>p, <2>6, <2>9 DEF Running
<1> QED BY <1>4, <1>5

\* do_execve,
LEMMA RunsExec ==
  ASSUME Running, M.ok, NEW p \in Proc, NEW img \in Images, Exec(p, img)
  PROVE  Running'
<1> DEFINE d == Discard(M, p)
           n == load_icode(d, p, img)
<1>1. M.ok = TRUE /\ Sound(M, {})
  BY DEF Running, Sound, Typed
<1>2. /\ M' = IF d.ok THEN n ELSE d
      /\ proc[p] = "runs"
      /\ proc' = [proc EXCEPT ![p] = IF Refused(img) THEN "zombie" ELSE @]
  BY DEF Exec, Then
<1>3. Calls(M, d, p)
  BY <1>1, DiscardFine
<1> HIDE DEF d
<1>4. ASSUME d.ok PROVE Calls(d, n, p)
  <2>1. d.ok = TRUE /\ Sound(d, {})
    BY <1>3, <1>4 DEF Calls, Sound, Typed
  <2> QED BY <2>1, LoadIcodeFine
<1> HIDE DEF n
<1>5. Calls(M, M', p)
  BY <1>2, <1>3, <1>4, CallsOn
<1>6. /\ proc' \in [Proc -> {"none", "runs", "zombie"}]
      /\ \A r \in Proc : proc'[r] # "none" => proc[r] # "none"
  BY <1>2 DEF Running
<1> QED BY <1>1, <1>5, <1>6 DEF Running, Calls

\* do_exit,
LEMMA RunsExit ==
  ASSUME Running, M.ok, NEW p \in Proc, Exit(p)
  PROVE  Running'
<1>1. M.ok = TRUE /\ Sound(M, {})
  BY DEF Running, Sound, Typed
<1>2. M' = Discard(M, p) /\ proc[p] = "runs" /\ proc' = [proc EXCEPT ![p] = "zombie"]
  BY DEF Exit
<1>3. Calls(M, M', p)
  BY <1>1, <1>2, DiscardFine
<1>4. /\ proc' \in [Proc -> {"none", "runs", "zombie"}]
      /\ \A r \in Proc : proc'[r] # "none" => proc[r] # "none"
  BY <1>2 DEF Running
<1> QED BY <1>1, <1>3, <1>4 DEF Running, Calls

\* do_wait,
LEMMA RunsWait ==
  ASSUME Running, M.ok, NEW p \in Proc, Wait(p)
  PROVE  Running'
<1>1. M.ok = TRUE /\ Sound(M, {})
  BY DEF Running, Sound, Typed
<1>2. /\ M' = [free_pages(M, M.kstack[p], KSTACKPAGE) EXCEPT !.kstack[p] = None]
      /\ proc[p] = "zombie" /\ proc' = [proc EXCEPT ![p] = "none"]
  BY DEF Wait
<1>3. M.kstack[p] # None
  BY <1>1, <1>2 DEF Running
<1>4. StackGone(M, M', p)
  BY <1>1, <1>2, <1>3, WaitFine
<1>5. /\ proc' \in [Proc -> {"none", "runs", "zombie"}] /\ proc'[p] = "none"
      /\ \A r \in Proc : r # p => proc'[r] = proc[r]
  BY <1>2 DEF Running
<1>6. M.kstack \in [Proc -> KFrame \cup {None}]
  BY <1>1 DEF Sound, Typed
<1>7. \A r \in Proc : r # p => M'.kstack[r] = M.kstack[r]
  BY <1>4, <1>6 DEF StackGone
<1>8. \A r \in Proc : proc'[r] # "none" => M'.kstack[r] # None
  BY <1>1, <1>5, <1>7 DEF Running
<1> QED BY <1>4, <1>5, <1>8 DEF Running, StackGone

\* and the kernel heap when it grows.
LEMMA RunsSlob ==
  ASSUME Running, M.ok, slob_new_page
  PROVE  Running'
<1>1. M.ok = TRUE /\ Sound(M, {})
  BY DEF Running, Sound, Typed
<1>2. /\ M' = alloc_page(M, LAMBDA r, a : [r EXCEPT !.kernel = @ \cup {a}])
      /\ proc' = proc
  BY DEF slob_new_page
<1>3. Sound(M', {}) /\ M'.kstack = M.kstack
  BY <1>1, <1>2, HeapFine
<1> QED BY <1>1, <1>2, <1>3 DEF Running

-----------------------------------------------------------------------------
(***************************************************************************)
(* The free list while check_swap runs: single frames.                     *)
(***************************************************************************)
\* Frames Q are in the list, one by one.  The links back may be broken, except for the
\* first one.
ShortList(f, Q) ==
  /\ f \in WA /\ Q \in SUBSET Frame /\ Chained(f.next, Q)
  /\ f.prev[f.next[free_list]] = free_list
  /\ \A a \in Q : f.property[a] = 1
  /\ f.nr_free = Cardinality(Q)

\* list_del does not change what is linked elsewhere.
LEMMA DelElsewhere ==
  ASSUME NEW f \in Allocator, NEW e \in Frame
  PROVE  LET g == list_del(f, e) IN
         \A x \in Link : x # e =>
           /\ g.next[x] = IF x = f.prev[e] THEN f.next[e] ELSE f.next[x]
           /\ g.prev[x] = IF x = f.next[e] THEN f.prev[e] ELSE f.prev[x]
           /\ x \in Frame => g.property[x] = f.property[x]
<1> DEFINE b == f.prev[e]
           n == f.next[e]
           q == [f EXCEPT !.next[b] = n, !.prev[n] = b]
           h == [q EXCEPT !.next[e] = free_list, !.prev[e] = free_list, !.property[e] = 0]
           g == list_del(f, e)
<1>1. b \in Link /\ n \in Link /\ f.next \in [Link -> Link] /\ f.prev \in [Link -> Link]
      /\ f.property \in [Frame -> Nat] /\ e \in Link
  BY AllocatorFields, Frames
<1>2. g = q \/ g = h
  BY DEF list_del, Forgotten
<1>r. f = [next |-> f.next, prev |-> f.prev, property |-> f.property, flags |-> f.flags,
           nr_free |-> f.nr_free, ok |-> f.ok, tail |-> f.tail]
  BY DEF Allocator
<1> HIDE DEF b, n, g
<1>3. /\ q.next = [f.next EXCEPT ![b] = n] /\ q.prev = [f.prev EXCEPT ![n] = b]
      /\ q.property = f.property
  BY <1>r
<1>4. /\ h.next = [q.next EXCEPT ![e] = free_list] /\ h.prev = [q.prev EXCEPT ![e] = free_list]
      /\ h.property = [q.property EXCEPT ![e] = 0]
  BY <1>r
<1> HIDE DEF q, h
<1>5. \A x \in Link : x # e =>
           /\ g.next[x] = IF x = b THEN n ELSE f.next[x]
           /\ g.prev[x] = IF x = n THEN b ELSE f.prev[x]
           /\ x \in Frame => g.property[x] = f.property[x]
  BY <1>1, <1>2, <1>3, <1>4
<1> QED BY <1>5 DEF b, n, g

\* alloc_page from such a list.
LEMMA ShortTaken ==
  ASSUME NEW f, NEW Q, ShortList(f, Q), NEW a, a = Found(f, 1), a \in Frame
  PROVE  LET g == Taken(f, a, 1) IN
         a \in Q /\ ShortList(g, Q \ {a}) /\ g.flags = f.flags \ {a} /\ g.ok = f.ok
<1> DEFINE S == {b \in Frame : f.property[b] >= 1}
           k == 1
           g == Taken(f, a, k)
           d == list_del(f, a)
<1>1. /\ f \in WA /\ f \in Allocator /\ Q \in SUBSET Frame /\ Chained(f.next, Q)
      /\ f.prev[f.next[free_list]] = free_list /\ \A b \in Q : f.property[b] = 1
      /\ f.nr_free = Cardinality(Q)
      /\ f.next \in [Link -> Link] /\ f.prev \in [Link -> Link] /\ f.property \in [Frame -> Nat]
      /\ f.flags \in SUBSET Frame
  BY AllocatorFields DEF ShortList, WA
<1>2. a = First(f, S)
  BY Frames DEF Found
<1>3. First(f, S) = free_list \/ (First(f, S) \in Q \cap S /\ \A b \in Q \cap S : First(f, S) <= b)
  BY <1>1, FirstIs
<1>4. Q \in SUBSET S
  BY <1>1
<1>5. a \in Q /\ \A b \in Q : a <= b
  BY <1>2, <1>3, <1>4, Frames
<1> HIDE DEF S
<1>6. f.next[free_list] = a
  <2>1. After(Q, free_list, f.next[free_list])
    BY <1>1 DEF Chained
  <2>2. /\ f.next[free_list] \in Q
        /\ \A b \in Q : f.next[free_list] <= b
    BY <1>1, <1>5, <2>1, Frames DEF After
  <2>3. a <= f.next[free_list] /\ f.next[free_list] <= a
    BY <1>5, <2>2
  <2>4. a \in Int /\ f.next[free_list] \in Int
    BY <1>1, <2>2, FrameNat
  <2> QED BY <2>3, <2>4
<1>7. f.prev[a] = free_list
  BY <1>1, <1>6
<1>8. f.property[a] = k
  BY <1>1, <1>5
<1>9. k \in Nat /\ k >= 1 /\ f.property[a] >= k
  BY <1>8
<1> HIDE DEF k
<1>10. /\ g \in WA /\ g.ok = f.ok /\ g.tail = f.tail /\ g.nr_free = f.nr_free - k
       /\ g.flags = Split(f, a, k).flags \ {a} /\ g.property = Split(f, a, k).property
       /\ g.next = Split(f, a, k).next /\ g.prev = Split(f, a, k).prev
  BY <1>1, <1>9, TakenIs
<1>11. Split(f, a, k) = d
  BY <1>1, <1>8, <1>9, SplitIs DEF SplitParts
<1>12. d.flags = f.flags
  BY <1>1, DelIs
<1> HIDE DEF g
<1> DEFINE n == f.next[a]
<1>13. \A x \in Link : x # a =>
           /\ g.next[x] = IF x = free_list THEN n ELSE f.next[x]
           /\ g.prev[x] = IF x = n THEN free_list ELSE f.prev[x]
           /\ x \in Frame => g.property[x] = f.property[x]
  BY <1>1, <1>7, <1>10, <1>11, DelElsewhere
<1>14. After(Q, a, n)
  BY <1>1, <1>5 DEF Chained
<1> HIDE DEF n, d
<1>15. n # a /\ n \in Link
  <2>1. (n \in Q /\ a < n) \/ n = free_list
    BY <1>14 DEF After
  <2>2. a \in Int
    BY FrameNat
  <2>3. ~(a < a)
    BY <2>2
  <2> QED BY <1>1, <2>1, <2>3, Frames
<1>16. free_list \in Link /\ free_list # a
  BY Frames
<1>17. g.next[free_list] = n /\ g.prev[n] = free_list
  BY <1>13, <1>15, <1>16
<1>18. Chained(g.next, Q \ {a})
  <2>1. ASSUME NEW e \in (Q \ {a}) \cup {free_list} PROVE After(Q \ {a}, e, g.next[e])
    <3>1. CASE e = free_list
      <4>1. n = free_list => \A b \in Q \ {a} : FALSE
        <5> SUFFICES ASSUME n = free_list, NEW b \in Q, b # a PROVE FALSE
          OBVIOUS
        <5>1. ~(a < b)
          BY <1>1, <1>14, Frames DEF After
        <5>2. a <= b /\ a \in Int /\ b \in Int
          BY <1>1, <1>5, Frames
        <5> QED BY <5>1, <5>2
      <4>2. n # free_list => n \in Q \ {a} /\ free_list < n /\ \A b \in Q \ {a} : n <= b
        <5> SUFFICES ASSUME n # free_list
                     PROVE  n \in Q \ {a} /\ free_list < n /\ \A b \in Q \ {a} : n <= b
          OBVIOUS
        <5>1. n \in Q /\ \A b \in Q : a < b => n <= b
          BY <1>14 DEF After
        <5>2. free_list < n
          BY <1>1, <5>1, Frames
        <5>3. \A b \in Q : b # a => a < b
          BY <1>1, <1>5, Frames
        <5> QED BY <1>15, <5>1, <5>2, <5>3
      <4>3. g.next[e] = n
        BY <1>17, <3>1
      <4> QED BY <3>1, <4>1, <4>2, <4>3 DEF After
    <3>2. CASE e # free_list
      <4>1. e \in Q /\ e # a /\ e \in Link
        BY <1>1, <3>2, Frames
      <4>2. g.next[e] = f.next[e]
        BY <1>13, <3>2, <4>1
      <4>3. After(Q, e, f.next[e])
        BY <1>1, <4>1 DEF Chained
      <4>4. ~(e < a)
        BY <1>1, <1>5, <4>1, Frames
      <4> QED BY <4>2, <4>3, <4>4 DEF After
    <3> QED BY <3>1, <3>2
  <2> QED BY <2>1 DEF Chained
<1>19. \A b \in Q \ {a} : g.property[b] = 1
  BY <1>1, <1>13, Frames
<1>20. g.nr_free = Cardinality(Q \ {a})
  <2>1. IsFiniteSet(Q)
    BY <1>1, Frames
  <2>2. Cardinality(Q \ {a}) = Cardinality(Q) - 1
    BY <1>5, <2>1, FS_RemoveElement
  <2> QED BY <1>1, <1>10, <2>2 DEF k
<1>21. ShortList(g, Q \ {a})
  BY <1>1, <1>10, <1>17, <1>18, <1>19, <1>20 DEF ShortList
<1> QED BY <1>5, <1>10, <1>11, <1>12, <1>21 DEF g, k

\* a goes behind l, the last one of Q, or the head of the list.
LastIn(Q, l) ==
  \/ l = free_list /\ Q = {}
  \/ l \in Q /\ \A b \in Q : b <= l

\* A frame put behind the last one leaves such a list.
LEMMA ShortPut ==
  ASSUME NEW f, NEW Q, ShortList(f, Q), NEW a \in Frame, a \notin Q, \A b \in Q : b < a,
         NEW l, LastIn(Q, l), NEW g \in WA,
         g.next = [[f.next EXCEPT ![l] = a] EXCEPT ![a] = free_list],
         \A x \in Link : x # a /\ x # free_list => g.prev[x] = f.prev[x],
         l = free_list => g.prev[a] = free_list,
         g.property = [f.property EXCEPT ![a] = 1], g.nr_free = f.nr_free + 1
  PROVE  ShortList(g, Q \cup {a})
<1>1. /\ f \in WA /\ f \in Allocator /\ Q \in SUBSET Frame /\ Chained(f.next, Q)
      /\ f.prev[f.next[free_list]] = free_list /\ \A b \in Q : f.property[b] = 1
      /\ f.nr_free = Cardinality(Q)
      /\ f.next \in [Link -> Link] /\ f.prev \in [Link -> Link] /\ f.property \in [Frame -> Nat]
  BY AllocatorFields DEF ShortList, WA
<1>2. l \in Link /\ l # a /\ a \in Link /\ free_list \in Link /\ a # free_list /\ a \in Int
      /\ free_list < a
  <2>1. free_list \in Link /\ a # free_list /\ a \in Int /\ free_list < a /\ a \in Link
    BY Frames, FrameNat
  <2>2. CASE l = free_list
    BY <2>1, <2>2
  <2>3. CASE l # free_list
    <3>1. l \in Q
      BY <2>3 DEF LastIn
    <3> QED BY <1>1, <2>1, <3>1, Frames
  <2> QED BY <2>2, <2>3
<1>3. g.next[l] = a /\ g.next[a] = free_list
      /\ \A x \in Link : x # l /\ x # a => g.next[x] = f.next[x]
  BY <1>1, <1>2
<1>4. ASSUME NEW e \in Q \cup {free_list}, e # l PROVE e < l
  <2>1. l \in Q /\ \A b \in Q : b <= l
    BY <1>4 DEF LastIn
  <2>2. l \in Int /\ free_list < l
    BY <1>1, <2>1, Frames, FrameNat
  <2>3. CASE e \in Q
    <3>1. e <= l /\ e \in Int
      BY <1>1, <2>1, <2>3, FrameNat
    <3> QED BY <1>4, <2>2, <3>1
  <2> QED BY <2>2, <2>3
<1>5. ASSUME NEW e \in Q \cup {a} \cup {free_list} PROVE After(Q \cup {a}, e, g.next[e])
  <2>1. CASE e = a
    <3>1. ~(a < a) /\ \A b \in Q : ~(a < b)
      BY <1>1, <1>2, FrameNat
    <3> QED BY <1>3, <2>1, <3>1 DEF After
  <2>2. CASE e = l
    <3>1. l < a
      BY <1>2 DEF LastIn
    <3>2. \A b \in Q : ~(l < b)
      BY <1>1, FrameNat DEF LastIn
    <3>3. a <= a
      BY <1>2
    <3>4. \A b \in Q \cup {a} : l < b => a <= b
      BY <3>2, <3>3
    <3> QED BY <1>3, <2>2, <3>1, <3>4 DEF After
  <2>3. CASE e # a /\ e # l
    <3>1. e \in Q \cup {free_list} /\ e \in Link
      BY <1>1, <1>2, <2>3, Frames
    <3>2. g.next[e] = f.next[e] /\ After(Q, e, f.next[e])
      BY <1>1, <1>3, <2>3, <3>1 DEF Chained
    <3>3. e < l
      BY <1>4, <2>3, <3>1
    <3>4. l \in Q
      BY <2>3, <3>1 DEF LastIn
    <3>5. f.next[e] \in Q /\ \A b \in Q : e < b => f.next[e] <= b
      BY <1>1, <3>2, <3>3, <3>4, Frames DEF After
    <3>6. f.next[e] <= a
      <4> DEFINE y == f.next[e]
      <4>1. y \in Q
        BY <3>5
      <4> HIDE DEF y
      <4>2. y < a /\ y \in Int
        BY <1>1, <4>1, FrameNat
      <4>3. y <= a
        BY <1>2, <4>2
      <4> QED BY <4>3 DEF y
    <3>7. e < f.next[e]
      BY <1>1, <3>2, <3>5, Frames DEF After
    <3>8. \A b \in Q \cup {a} : e < b => f.next[e] <= b
      BY <3>5, <3>6
    <3> QED BY <3>2, <3>5, <3>7, <3>8 DEF After
  <2> QED BY <2>1, <2>2, <2>3
<1>6. Chained(g.next, Q \cup {a})
  BY <1>5 DEF Chained
<1>7. g.prev[g.next[free_list]] = free_list
  <2>1. CASE l = free_list
    BY <1>3, <2>1
  <2>2. CASE l # free_list
    <3>1. After(Q, free_list, f.next[free_list]) /\ Q # {}
      BY <1>1, <2>2 DEF Chained, LastIn
    <3>2. f.next[free_list] \in Q
      BY <1>1, <3>1, Frames DEF After
    <3>3. f.next[free_list] \in Link /\ f.next[free_list] # a /\ f.next[free_list] # free_list
      BY <1>1, <3>2, Frames
    <3>4. g.next[free_list] = f.next[free_list]
      BY <1>2, <1>3, <2>2
    <3>5. g.prev[f.next[free_list]] = f.prev[f.next[free_list]]
      BY <3>3
    <3> QED BY <1>1, <3>4, <3>5
  <2> QED BY <2>1, <2>2
<1>8. \A b \in Q \cup {a} : g.property[b] = 1
  BY <1>1
<1>9. g.nr_free = Cardinality(Q \cup {a})
  <2>1. IsFiniteSet(Q)
    BY <1>1, Frames
  <2>2. Cardinality(Q \cup {a}) = Cardinality(Q) + 1
    BY <2>1, FS_AddElement
  <2> QED BY <1>1, <2>2
<1> QED BY <1>1, <1>6, <1>7, <1>8, <1>9 DEF ShortList

\* The last one of a walk over it.
LEMMA ListedLast ==
  ASSUME NEW Q \in SUBSET Frame, Q # {}, NEW w, InOrder(w, Q)
  PROVE  LastIn(Q, Last(w))
<1>1. w \in Seq(Frame) /\ Len(w) \in Nat
  BY DEF InOrder
<1>2. Len(w) >= 1
  <2>1. PICK a \in Q : TRUE
    OBVIOUS
  <2>2. PICK i \in 1..Len(w) : w[i] = a
    BY DEF InOrder
  <2> QED BY <1>1, <2>2
<1>3. Last(w) = w[Len(w)]
  BY DEF Last
<1>4. w[Len(w)] \in Q
  BY <1>1, <1>2 DEF InOrder
<1>5. ASSUME NEW b \in Q PROVE b <= w[Len(w)]
  <2>1. PICK i \in 1..Len(w) : w[i] = b
    BY DEF InOrder
  <2>2. i < Len(w) \/ i = Len(w)
    BY <1>1, <2>1
  <2>3. i < Len(w) => w[i] < w[Len(w)]
    BY <1>1, <1>2 DEF InOrder, Sorted
  <2>4. b \in Int /\ w[Len(w)] \in Int
    BY <1>4, FrameNat
  <2> QED BY <2>1, <2>2, <2>3, <2>4
<1> QED BY <1>3, <1>4, <1>5 DEF LastIn

\* What default_free_pages does with a frame that is behind all others.
Behind(f, a, l, g) ==
  /\ g \in WA /\ g.ok = f.ok /\ g.flags = f.flags /\ g.property = f.property
  /\ g.nr_free = f.nr_free
  /\ g.next = [[f.next EXCEPT ![l] = a] EXCEPT ![a] = free_list]
  /\ \A x \in Link : x # a /\ x # free_list => g.prev[x] = f.prev[x]
  /\ g.prev[a] = IF l = free_list THEN free_list ELSE a

\* Into an empty list: the links are right both ways.
LEMMA PlacedAlone ==
  ASSUME NEW f \in WA, NEW a \in Frame, f.next[free_list] = free_list
  PROVE  LET g == Placed(f, a) IN Behind(f, a, free_list, g)
<1> DEFINE e == free_list
           g == Placed(f, a)
<1>1. g = Between(f, a, e, e)
  BY DEF Placed, list_empty, list_add
<1>2. f \in Allocator /\ a \in Link /\ e \in Link /\ a # e
  BY Frames DEF WA
<1> HIDE DEF e, g
<1>3. /\ g.next = [[f.next EXCEPT ![e] = a] EXCEPT ![a] = e]
      /\ g.prev = [[f.prev EXCEPT ![e] = a] EXCEPT ![a] = e]
      /\ g.property = f.property /\ g.flags = f.flags /\ g.nr_free = f.nr_free
      /\ g.ok = f.ok
  BY <1>1, <1>2, BetweenIs
<1>4. g \in WA
  BY <1>1, <1>2, BetweenWA
<1>5. f.prev \in [Link -> Link]
  BY <1>2, AllocatorFields
<1>6. g.prev[a] = e /\ \A x \in Link : x # a /\ x # e => g.prev[x] = f.prev[x]
  BY <1>2, <1>3, <1>5
<1>7. Behind(f, a, e, g)
  BY <1>3, <1>4, <1>6 DEF Behind, e
<1> QED BY <1>7 DEF e, g

\* Behind others: the new one is linked back to itself.
LEMMA PlacedLastIs ==
  ASSUME NEW f \in WA, NEW a \in Frame, NEW l \in Frame, l = Last(Walk(f)), l # a,
         f.next[l] = free_list
  PROVE  LET g == PlacedLast(f, a) IN Behind(f, a, l, g)
<1> DEFINE t == TRUE
           h == [f EXCEPT !.tail = t]
           q == Between(h, a, l, h.next[l])
           g == Between(q, a, a, q.next[a])
           e == free_list
<1>1. PlacedLast(f, a) = g
  BY DEF PlacedLast, list_add
<1>2. f \in Allocator /\ a \in Link /\ e \in Link /\ l \in Link /\ a # e /\ l # e
  BY Frames DEF WA
<1>3. t \in BOOLEAN
  OBVIOUS
<1> HIDE DEF t
<1>4. /\ h \in WA /\ h \in Allocator /\ h.next = f.next /\ h.prev = f.prev
      /\ h.property = f.property /\ h.flags = f.flags /\ h.nr_free = f.nr_free /\ h.ok = f.ok
  BY <1>2, <1>3 DEF WA, Allocator
<1> HIDE DEF h
<1>5. h.next[l] = e
  BY <1>4
<1> HIDE DEF e
<1>6. /\ q.next = [[h.next EXCEPT ![l] = a] EXCEPT ![a] = e]
      /\ q.prev = [[h.prev EXCEPT ![e] = a] EXCEPT ![a] = l]
      /\ q.property = h.property /\ q.flags = h.flags /\ q.nr_free = h.nr_free
      /\ q.ok = h.ok /\ q \in WA /\ q \in Allocator
  <2>1. q = Between(h, a, l, e)
    BY <1>5
  <2> HIDE DEF q
  <2>2. q \in WA
    BY <1>2, <1>4, <2>1, BetweenWA
  <2>3. /\ q.next = [[h.next EXCEPT ![l] = a] EXCEPT ![a] = e]
      /\ q.prev = [[h.prev EXCEPT ![e] = a] EXCEPT ![a] = l]
      /\ q.property = h.property /\ q.flags = h.flags /\ q.nr_free = h.nr_free
      /\ q.ok = h.ok
    <3>1. h \in Allocator /\ a \in Link /\ l \in Link /\ e \in Link
      BY <1>2, <1>4
    <3>2. LET r == Between(h, a, l, e) IN
          /\ r.next = [[h.next EXCEPT ![l] = a] EXCEPT ![a] = e]
          /\ r.prev = [[h.prev EXCEPT ![e] = a] EXCEPT ![a] = l]
          /\ r.property = h.property /\ r.flags = h.flags /\ r.nr_free = h.nr_free
          /\ r.ok = h.ok
      BY <3>1, BetweenIs
    <3> QED BY <2>1, <3>2
  <2>4. q \in Allocator
    BY <2>2 DEF WA
  <2> QED BY <2>2, <2>3, <2>4
<1> HIDE DEF q
<1>7. f.next \in [Link -> Link] /\ f.prev \in [Link -> Link]
  BY <1>2, AllocatorFields
<1>8. q.next[a] = e
  BY <1>2, <1>4, <1>6, <1>7
<1>9. /\ g.next = [[q.next EXCEPT ![a] = a] EXCEPT ![a] = e]
      /\ g.prev = [[q.prev EXCEPT ![e] = a] EXCEPT ![a] = a]
      /\ g.property = q.property /\ g.flags = q.flags /\ g.nr_free = q.nr_free
      /\ g.ok = q.ok /\ g \in WA
  <2>1. g = Between(q, a, a, e)
    BY <1>8
  <2> HIDE DEF g
  <2>2. g \in WA
    BY <1>2, <1>6, <2>1, BetweenWA
  <2>3. /\ g.next = [[q.next EXCEPT ![a] = a] EXCEPT ![a] = e]
      /\ g.prev = [[q.prev EXCEPT ![e] = a] EXCEPT ![a] = a]
      /\ g.property = q.property /\ g.flags = q.flags /\ g.nr_free = q.nr_free
      /\ g.ok = q.ok
    <3>1. q \in Allocator /\ a \in Link /\ e \in Link
      BY <1>2, <1>6
    <3>2. LET r == Between(q, a, a, e) IN
          /\ r.next = [[q.next EXCEPT ![a] = a] EXCEPT ![a] = e]
          /\ r.prev = [[q.prev EXCEPT ![e] = a] EXCEPT ![a] = a]
          /\ r.property = q.property /\ r.flags = q.flags /\ r.nr_free = q.nr_free
          /\ r.ok = q.ok
      BY <3>1, BetweenIs
    <3> QED BY <2>1, <3>2
  <2> QED BY <2>2, <2>3
<1> HIDE DEF g
<1>10. g.next = [[f.next EXCEPT ![l] = a] EXCEPT ![a] = e]
  BY <1>2, <1>4, <1>6, <1>7, <1>9
<1>11. g.prev[a] = a /\ \A x \in Link : x # a /\ x # e => g.prev[x] = f.prev[x]
  BY <1>2, <1>4, <1>6, <1>7, <1>9
<1>12. Behind(f, a, l, g)
  BY <1>2, <1>4, <1>6, <1>9, <1>10, <1>11 DEF Behind, e
<1> QED BY <1>1, <1>12

\* g is f with a put behind the frames Q, unless the kernel has stopped.
Appends(f, Q, a, g) ==
  \/ g.ok = FALSE
  \/ g.ok = TRUE /\ ShortList(g, Q \cup {a}) /\ g.flags = f.flags \cup {a}

\* free_page of a frame behind all others.  Nothing is joined, or the kernel stops.
LEMMA ShortFreed ==
  ASSUME NEW f, NEW Q, ShortList(f, Q), f.ok = TRUE, NEW a \in Frame, a \notin Q,
         \A b \in Q : b < a, NEW n, n = 1
  PROVE  Appends(f, Q, a, Freed(f, a, n))
<1> DEFINE g == Freed(f, a, n)
           h == Marked(f, a, n)
           p == Placed(h, a)
<1>1. f \in WA /\ Q \in SUBSET Frame /\ Chained(f.next, Q) /\ f \in Allocator
      /\ f.next \in [Link -> Link]
  BY AllocatorFields DEF ShortList, WA
<1>2. ASSUME f.flags \cap (a..a + n - 1) # {} PROVE Appends(f, Q, a, g)
  <2>1. g = [f EXCEPT !.ok = FALSE]
    BY <1>2 DEF Freed
  <2>2. f = [next |-> f.next, prev |-> f.prev, property |-> f.property, flags |-> f.flags,
             nr_free |-> f.nr_free, ok |-> f.ok, tail |-> f.tail]
    BY <1>1 DEF Allocator
  <2>3. g.ok = FALSE
    BY <2>1, <2>2
  <2> HIDE DEF g
  <2> QED BY <2>3 DEF Appends
<1>3. ASSUME f.flags \cap (a..a + n - 1) = {} PROVE Appends(f, Q, a, g)
  <2>1. g = IF p.ok THEN Joined(p, a) ELSE p
    BY <1>3, FreedIs
  <2>2. /\ h \in WA /\ h.ok = f.ok /\ h.next = f.next /\ h.prev = f.prev
        /\ h.flags = f.flags \cup {a} /\ h.nr_free = f.nr_free + n
        /\ h.property = [f.property EXCEPT ![a] = n]
    <3>1. n \in Nat /\ a + n <= NFrames
      BY Frames
    <3> QED BY <1>1, <3>1, MarkedWA
  <2> HIDE DEF h, g
  <2>3. PICK l \in Link : LastIn(Q, l) /\ Behind(h, a, l, p)
    <3>1. CASE h.next[free_list] = free_list
      <4>1. After(Q, free_list, free_list)
        BY <1>1, <2>2, <3>1 DEF Chained
      <4>2. Q = {}
        BY <1>1, <4>1, Frames DEF After
      <4>3. Behind(h, a, free_list, p)
        BY <2>2, <3>1, PlacedAlone
      <4> QED BY <4>2, <4>3, Frames DEF LastIn
    <3>2. CASE h.next[free_list] # free_list
      <4>1. Q # {}
        <5>1. After(Q, free_list, h.next[free_list])
          BY <1>1, <2>2 DEF Chained
        <5> QED BY <3>2, <5>1 DEF After
      <4>2. InOrder(Walk(h), Q)
        BY <1>1, <2>2, WalkLists
      <4> DEFINE l == Last(Walk(h))
                 S == {b \in Frame : a < b}
      <4>3. LastIn(Q, l)
        BY <1>1, <4>1, <4>2, ListedLast
      <4>4. p = PlacedAt(h, a, First(h, S))
        BY <3>2 DEF Placed, list_empty
      <4>5. Q \cap S = {}
        BY <1>1, FrameNat
      <4>6. First(h, S) = free_list
        <5>1. S \in SUBSET Frame
          OBVIOUS
        <5> HIDE DEF S
        <5> QED BY <1>1, <2>2, <4>5, <5>1, FirstIs
      <4>7. PlacedAt(h, a, free_list) = PlacedLast(h, a)
        BY Frames DEF PlacedAt, Lost, free_list
      <4>8. p = PlacedLast(h, a)
        BY <4>4, <4>6, <4>7
      <4> HIDE DEF S, p
      <4>9. l \in Q
        BY <4>1, <4>3 DEF LastIn
      <4>10. l \in Frame /\ l # a
        BY <1>1, <4>9
      <4>11. h.next[l] = free_list
        <5>1. After(Q, l, h.next[l])
          BY <1>1, <2>2, <4>9 DEF Chained
        <5>2. \A b \in Q : ~(l < b)
          <6> HIDE DEF l
          <6> SUFFICES ASSUME NEW b \in Q, l < b PROVE FALSE
            OBVIOUS
          <6>1. b <= l /\ b \in Int /\ l \in Int
            BY <1>1, <4>3, <4>9, FrameNat DEF LastIn
          <6> QED BY <6>1
        <5> HIDE DEF l
        <5>3. h.next[l] = free_list
          BY <5>1, <5>2 DEF After
        <5> QED BY <5>3 DEF l
      <4>12. Behind(h, a, l, p)
        BY <2>2, <4>8, <4>10, <4>11, PlacedLastIs
      <4> HIDE DEF l
      <4> QED BY <4>3, <4>10, <4>12, Frames
    <3> QED BY <3>1, <3>2
  <2> HIDE DEF p
  <2>4. p.ok = TRUE /\ p.next[a] = free_list /\ p.property[a] = n /\ p \in WA
        /\ p.property = h.property
    <3>1. f.property \in [Frame -> Nat]
      BY <1>1, AllocatorFields
    <3>2. a \in Link /\ l \in Link
      BY Frames
    <3> QED BY <1>1, <2>2, <2>3, <3>1, <3>2 DEF Behind
  <2>5. ~IsBefore(p, p.prev[a], a)
    <3>1. p.prev[a] = free_list \/ p.prev[a] = a
      BY <2>3 DEF Behind
    <3>2. a + n # a
      BY Frames
    <3> QED BY <2>4, <3>1, <3>2 DEF IsBefore
  <2>6. ~IsBefore(p, a, p.next[a])
    BY <2>4 DEF IsBefore
  <2>7. g = p
    BY <2>1, <2>4, <2>5, <2>6 DEF Joined, JoinedNext
  <2>8. ShortList(g, Q \cup {a})
    <3>1. \A x \in Link : x # a /\ x # free_list => g.prev[x] = f.prev[x]
      BY <2>2, <2>3, <2>7 DEF Behind
    <3>2. g.next = [[f.next EXCEPT ![l] = a] EXCEPT ![a] = free_list]
      BY <2>2, <2>3, <2>7 DEF Behind
    <3>3. l = free_list => g.prev[a] = free_list
      BY <2>3, <2>7 DEF Behind
    <3>4. g \in WA /\ g.property = [f.property EXCEPT ![a] = 1] /\ g.nr_free = f.nr_free + 1
      BY <2>2, <2>3, <2>7 DEF Behind
    <3> QED BY <2>3, <3>1, <3>2, <3>3, <3>4, ShortPut
  <2>9. g.ok = TRUE /\ g.flags = f.flags \cup {a}
    BY <2>2, <2>3, <2>7 DEF Behind
  <2> QED BY <2>8, <2>9 DEF Appends
<1> HIDE DEF g
<1>4. Appends(f, Q, a, g)
  BY <1>2, <1>3
<1> QED BY <1>4 DEF g

-----------------------------------------------------------------------------
(***************************************************************************)
(* Entries of any address space.                                           *)
(***************************************************************************)
LEMMA AnySpace ==
  ASSUME NEW B \in AddressSpace
  PROVE  /\ B # None
         /\ B.pd0 \in [Dirs -> Frame \cup {None}] /\ B.pt \in [Tabs -> Frame \cup {None}]
         /\ B.pte \in [Page -> Frame \cup {None, Swapped}]
BY NoneAssumption DEF AddressSpace

\* An entry of the directory is written,
LEMMA AnyPd0 ==
  ASSUME NEW B \in AddressSpace, NEW s, NEW d \in Dirs, NEW a \in Frame
  PROVE  LET A == [B EXCEPT !.pd0[d] = a] IN
         /\ A \in AddressSpace /\ A.areas = B.areas /\ A.pgdir = B.pgdir
         /\ A.pt = B.pt /\ A.pte = B.pte /\ A.pd0 = [B.pd0 EXCEPT ![d] = a]
         /\ Moves(B, A, s, <<"pd0", s, d>>, a)
<1> DEFINE A == [B EXCEPT !.pd0[d] = a]
<1>1. B # None /\ B.pd0 \in [Dirs -> Frame \cup {None}]
  BY AnySpace
<1>2. A \in AddressSpace
  BY <1>1 DEF AddressSpace
<1>3. /\ A.pt = B.pt /\ A.pte = B.pte /\ A.areas = B.areas /\ A.pgdir = B.pgdir
      /\ A.pd0 = [B.pd0 EXCEPT ![d] = a]
  BY <1>1 DEF AddressSpace
<1> HIDE DEF A
<1>5. A.pd0[d] = a /\ \A j \in Dirs : j # d => A.pd0[j] = B.pd0[j]
  BY <1>1, <1>3
<1>6. ASSUME NEW k \in MapKinds, NEW i, <<k, s, i>> \in Slot
      PROVE  \/ Entry(A, k, i) = None \/ Entry(A, k, i) = Entry(B, k, i)
             \/ <<k, s, i>> = <<"pd0", s, d>> /\ Entry(A, k, i) = a
  <2>1. k = "pd0" => i \in Dirs
    BY <1>6, SlotIn
  <2>2. A # None
    BY <1>2, AnySpace
  <2>3. CASE k = "pd0"
    BY <1>1, <1>5, <2>1, <2>2, <2>3, Entries4, NoFrame
  <2>4. CASE k # "pd0"
    BY <1>1, <1>3, <2>2, <2>4, Entries4 DEF MapKinds
  <2> QED BY <2>3, <2>4
<1>7. Moves(B, A, s, <<"pd0", s, d>>, a)
  BY <1>6 DEF Moves
<1>8. /\ A \in AddressSpace /\ A.areas = B.areas /\ A.pgdir = B.pgdir
      /\ A.pt = B.pt /\ A.pte = B.pte /\ A.pd0 = [B.pd0 EXCEPT ![d] = a]
      /\ Moves(B, A, s, <<"pd0", s, d>>, a)
  BY <1>2, <1>3, <1>7
<1> QED BY <1>8 DEF A

\* one of the directory below,
LEMMA AnyPt ==
  ASSUME NEW B \in AddressSpace, NEW s, NEW t \in Tabs, NEW a \in Frame
  PROVE  LET A == [B EXCEPT !.pt[t] = a] IN
         /\ A \in AddressSpace /\ A.areas = B.areas /\ A.pgdir = B.pgdir
         /\ A.pd0 = B.pd0 /\ A.pte = B.pte /\ A.pt = [B.pt EXCEPT ![t] = a]
         /\ Moves(B, A, s, <<"pt", s, t>>, a)
<1> DEFINE A == [B EXCEPT !.pt[t] = a]
<1>1. B # None /\ B.pt \in [Tabs -> Frame \cup {None}]
  BY AnySpace
<1>2. A \in AddressSpace
  BY <1>1 DEF AddressSpace
<1>3. /\ A.pd0 = B.pd0 /\ A.pte = B.pte /\ A.areas = B.areas /\ A.pgdir = B.pgdir
      /\ A.pt = [B.pt EXCEPT ![t] = a]
  BY <1>1 DEF AddressSpace
<1> HIDE DEF A
<1>5. A.pt[t] = a /\ \A j \in Tabs : j # t => A.pt[j] = B.pt[j]
  BY <1>1, <1>3
<1>6. ASSUME NEW k \in MapKinds, NEW i, <<k, s, i>> \in Slot
      PROVE  \/ Entry(A, k, i) = None \/ Entry(A, k, i) = Entry(B, k, i)
             \/ <<k, s, i>> = <<"pt", s, t>> /\ Entry(A, k, i) = a
  <2>1. k = "pt" => i \in Tabs
    BY <1>6, SlotIn
  <2>2. A # None
    BY <1>2, AnySpace
  <2>3. CASE k = "pt"
    BY <1>1, <1>5, <2>1, <2>2, <2>3, Entries4, NoFrame
  <2>4. CASE k # "pt"
    BY <1>1, <1>3, <2>2, <2>4, Entries4 DEF MapKinds
  <2> QED BY <2>3, <2>4
<1>7. Moves(B, A, s, <<"pt", s, t>>, a)
  BY <1>6 DEF Moves
<1>8. /\ A \in AddressSpace /\ A.areas = B.areas /\ A.pgdir = B.pgdir
      /\ A.pd0 = B.pd0 /\ A.pte = B.pte /\ A.pt = [B.pt EXCEPT ![t] = a]
      /\ Moves(B, A, s, <<"pt", s, t>>, a)
  BY <1>2, <1>3, <1>7
<1> QED BY <1>8 DEF A

\* one of a table.
LEMMA AnyPte ==
  ASSUME NEW B \in AddressSpace, NEW s, NEW p \in Page, NEW a \in Frame \cup {Swapped}
  PROVE  LET A == [B EXCEPT !.pte[p] = a] IN
         /\ A \in AddressSpace /\ A.areas = B.areas /\ A.pgdir = B.pgdir
         /\ A.pd0 = B.pd0 /\ A.pt = B.pt /\ A.pte = [B.pte EXCEPT ![p] = a]
         /\ Moves(B, A, s, <<"pte", s, p>>, a)
<1> DEFINE A == [B EXCEPT !.pte[p] = a]
<1>1. B # None /\ B.pte \in [Page -> Frame \cup {None, Swapped}]
  BY AnySpace
<1>2. A \in AddressSpace
  BY <1>1 DEF AddressSpace
<1>3. /\ A.pd0 = B.pd0 /\ A.pt = B.pt /\ A.areas = B.areas /\ A.pgdir = B.pgdir
      /\ A.pte = [B.pte EXCEPT ![p] = a]
  BY <1>1 DEF AddressSpace
<1> HIDE DEF A
<1>5. A.pte[p] = a /\ \A j \in Page : j # p => A.pte[j] = B.pte[j]
  BY <1>1, <1>3
<1>6. ASSUME NEW k \in MapKinds, NEW i, <<k, s, i>> \in Slot
      PROVE  \/ Entry(A, k, i) = None \/ Entry(A, k, i) = Entry(B, k, i)
             \/ <<k, s, i>> = <<"pte", s, p>> /\ Entry(A, k, i) = a
  <2>1. k = "pte" => i \in Page
    BY <1>6, SlotIn
  <2>2. A # None
    BY <1>2, AnySpace
  <2>3. CASE k = "pte"
    BY <1>1, <1>5, <2>1, <2>2, <2>3, Entries4, NoFrame
  <2>4. CASE k # "pte"
    BY <1>1, <1>3, <2>2, <2>4, Entries4 DEF MapKinds
  <2> QED BY <2>3, <2>4
<1>7. Moves(B, A, s, <<"pte", s, p>>, a)
  BY <1>6 DEF Moves
<1>8. /\ A \in AddressSpace /\ A.areas = B.areas /\ A.pgdir = B.pgdir
      /\ A.pd0 = B.pd0 /\ A.pt = B.pt /\ A.pte = [B.pte EXCEPT ![p] = a]
      /\ Moves(B, A, s, <<"pte", s, p>>, a)
  BY <1>2, <1>3, <1>7
<1> QED BY <1>8 DEF A

-----------------------------------------------------------------------------
(***************************************************************************)
(* The memory while check_swap runs.                                       *)
(***************************************************************************)
\* The allocator has frames Q only; the others are put aside.
CheckFree(m, Q) ==
  /\ ShortList(m.pmm, Q) /\ m.pmm.ok = TRUE
  /\ Exact(m.store) /\ m.store.ok = TRUE
  /\ m.pmm.flags = m.store.flags \cup Q /\ FreeOf(m.store) \cap Q = {}
  /\ Owned(Owns(m), FreeOf(m.store) \cup Q, {})

CheckArea == <<1, 1 + CHECK_VALID_VIR_PAGE_NUM>>

\* Only check has an address space: one area, in one page table.
CheckSpace(A) ==
  /\ A \in AddressSpace /\ A.areas = <<CheckArea>>
  /\ A.pd0[0] \in Frame /\ A.pt[0] \in Frame

CheckTypes(m) ==
  /\ Rec(m) /\ m.ok = TRUE
  /\ m.kernel \in SUBSET Frame
  /\ m.kstack \in [Proc -> KFrame \cup {None}]
  /\ m.mm \in [Space -> AddressSpace \cup {None}]
  /\ \A s \in Proc : m.mm[s] = None
  /\ CheckSpace(m.mm[check])

Mapped(m, p) == m.mm[check].pte[p] \in Frame

Distinct(seq) == \A i, j \in 1..Len(seq) : seq[i] = seq[j] => i = j

\* The frames of the check are in its list or mapped.
CheckFrames(m, Q) ==
  /\ m.check_rp \in Seq(Frame) /\ Distinct(m.check_rp) /\ Len(m.check_rp) >= 1
  /\ \A i \in 1..Len(m.check_rp) :
       m.check_rp[i] \in Q \/ \E p \in Page : m.mm[check].pte[p] = m.check_rp[i]

\* What may be swapped out is what is mapped.
CheckFifo(m) ==
  /\ m.pra_list \in Seq(Page) /\ Distinct(m.pra_list)
  /\ \A i \in 1..Len(m.pra_list) : Mapped(m, m.pra_list[i])
  /\ \A p \in Page : Mapped(m, p) => \E i \in 1..Len(m.pra_list) : m.pra_list[i] = p

Testing(m, Q) == CheckTypes(m) /\ CheckFree(m, Q) /\ CheckFrames(m, Q) /\ CheckFifo(m)

\* The types of all that refers to frames.
LEMMA TestFields ==
  ASSUME NEW m, CheckTypes(m)
  PROVE  Fields(m)
BY DEF CheckTypes, Fields

\* Page 0 of the tables is there.
LEMMA CheckPage ==
  ASSUME NEW p \in PagesOf(CheckArea)
  PROVE  p \in Page /\ Tab(p) = 0 /\ Dir(0) = 0 /\ 0 \in Tabs /\ 0 \in Dirs
<1>1. p \in 1..CHECK_VALID_VIR_PAGE_NUM
  BY MemoryAssumption DEF CheckArea, PagesOf
<1>2. p \in Page /\ Tab(p) = 0
  BY <1>1, MemoryAssumption DEF Page, Tab
<1>3. Dir(0) = 0
  BY MemoryAssumption DEF Dir
<1> QED BY <1>2, <1>3, Tables

\* n is m with A as the address space of the check, and perhaps another free list.
CheckRemaps(m, n, A) ==
  /\ Rec(n) /\ n.ok = m.ok /\ n.kernel = m.kernel /\ n.kstack = m.kstack
  /\ n.store = m.store /\ n.check_rp = m.check_rp /\ n.mm = [m.mm EXCEPT ![check] = A]

\* The types are kept.
LEMMA CheckRemapped ==
  ASSUME NEW m, CheckTypes(m), NEW A, CheckSpace(A), NEW n, CheckRemaps(m, n, A)
  PROVE  /\ CheckTypes(n) /\ n.mm[check] = A
         /\ \A r \in Space : r # check => n.mm[r] = m.mm[r]
<1>1. check \in Space /\ check \notin Proc /\ \A s \in Proc : s \in Space
  BY MemoryAssumption DEF Space
<1>2. m.mm \in [Space -> AddressSpace \cup {None}] /\ A \in AddressSpace
  BY DEF CheckTypes, CheckSpace
<1>3. n.mm = [m.mm EXCEPT ![check] = A]
  BY DEF CheckRemaps
<1>4. /\ n.mm \in [Space -> AddressSpace \cup {None}] /\ n.mm[check] = A
      /\ \A r \in Space : r # check => n.mm[r] = m.mm[r]
  BY <1>1, <1>2, <1>3
<1>5. \A s \in Proc : n.mm[s] = None
  BY <1>1, <1>4 DEF CheckTypes
<1>6. CheckTypes(n)
  BY <1>4, <1>5 DEF CheckTypes, CheckRemaps
<1> QED BY <1>4, <1>6

\* Page p gets a frame of the list.
PagedIn(m, n, p, a) ==
  /\ CheckRemaps(m, n, [m.mm[check] EXCEPT !.pte[p] = a])
  /\ n.pmm = Taken(m.pmm, a, 1) /\ n.pra_list = Append(m.pra_list, p)

\* The check goes on with it.
LEMMA TestPut ==
  ASSUME NEW m, NEW Q, Testing(m, Q), NEW p \in PagesOf(CheckArea), ~Mapped(m, p),
         NEW a, Finds(m, 1, a), NEW n, PagedIn(m, n, p, a)
  PROVE  Testing(n, Q \ {a})
<1> DEFINE B == m.mm[check]
           A == [B EXCEPT !.pte[p] = a]
<1>0. a \in Frame /\ a = Found(m.pmm, 1) /\ p \in Page
  BY CheckPage DEF Finds
<1>1. CheckTypes(m) /\ CheckFree(m, Q) /\ CheckFrames(m, Q) /\ CheckFifo(m) /\ CheckSpace(B)
  BY DEF Testing, CheckTypes
<1>2. B \in AddressSpace /\ B.pte \in [Page -> Frame \cup {None, Swapped}] /\ Fields(m)
  BY <1>1, AnySpace, TestFields DEF CheckSpace
<1>3. /\ A \in AddressSpace /\ A.areas = B.areas /\ A.pd0 = B.pd0 /\ A.pt = B.pt
      /\ A.pte = [B.pte EXCEPT ![p] = a] /\ Moves(B, A, check, <<"pte", check, p>>, a)
  BY <1>0, <1>2, AnyPte
<1> HIDE DEF A
<1>4. CheckSpace(A)
  BY <1>1, <1>3 DEF CheckSpace
<1>5. CheckRemaps(m, n, A) /\ n.pmm = Taken(m.pmm, a, 1) /\ n.pra_list = Append(m.pra_list, p)
  BY DEF PagedIn, A
<1>6. CheckTypes(n) /\ n.mm[check] = A /\ \A r \in Space : r # check => n.mm[r] = m.mm[r]
  BY <1>1, <1>4, <1>5, CheckRemapped
<1>7. A.pte[p] = a /\ \A q \in Page : q # p => A.pte[q] = B.pte[q]
  BY <1>0, <1>2, <1>3
<1>8. /\ a \in Q /\ ShortList(n.pmm, Q \ {a}) /\ n.pmm.flags = m.pmm.flags \ {a}
      /\ n.pmm.ok = m.pmm.ok
  BY <1>0, <1>1, <1>5, ShortTaken DEF CheckFree
<1>9. CheckFree(n, Q \ {a})
  <2>1. n.store = m.store
    BY <1>5 DEF CheckRemaps
  <2>2. Loose(m.store)
    BY <1>1 DEF CheckFree, Exact
  <2>3. m.store.flags \in SUBSET FreeOf(m.store)
    BY <2>2, FreeFacts
  <2>4. FreeOf(m.store) \cap Q = {}
    BY <1>1 DEF CheckFree
  <2>5. n.pmm.flags = m.store.flags \cup (Q \ {a})
    BY <1>1, <1>8, <2>3, <2>4 DEF CheckFree
  <2> DEFINE O == Owns(m)
             P == Owns(n)
             F == FreeOf(m.store) \cup Q
             c == <<"pte", check, p>>
             E == {}
             S == {a}
  <2>6. Taking(O, P, c, a)
    <3>1. n.kernel = m.kernel /\ n.kstack = m.kstack
      BY <1>5 DEF CheckRemaps
    <3>2. Fields(n) /\ Moves(m.mm[check], n.mm[check], check, c, a)
      BY <1>3, <1>6, TestFields
    <3> HIDE DEF c
    <3> QED BY <1>6, <3>1, <3>2, OwnsMove
  <2>7. Owned(O, F, E) /\ S \in SUBSET F /\ a \in E \cup S
    BY <1>1, <1>8 DEF CheckFree
  <2>8. F \ S = FreeOf(m.store) \cup (Q \ {a}) /\ (E \cup S) \ {a} = {}
    BY <1>8, <2>4
  <2> HIDE DEF O, P, F, c, E, S
  <2>9. Owned(O, F \ S, E \cup S)
    BY <2>7, OwnedGrab
  <2>10. Owned(P, F \ S, (E \cup S) \ {a})
    BY <2>6, <2>7, <2>9, OwnedPut
  <2>11. Owned(Owns(n), FreeOf(n.store) \cup (Q \ {a}), {})
    BY <2>1, <2>8, <2>10 DEF P
  <2> QED BY <1>1, <1>8, <2>1, <2>4, <2>5, <2>11 DEF CheckFree
<1>10. CheckFrames(n, Q \ {a})
  <2>1. n.check_rp = m.check_rp
    BY <1>5 DEF CheckRemaps
  <2>2. ASSUME NEW i \in 1..Len(m.check_rp)
        PROVE  m.check_rp[i] \in Q \ {a} \/ \E q \in Page : A.pte[q] = m.check_rp[i]
    <3>1. CASE m.check_rp[i] \in Q
      BY <1>0, <1>7, <3>1
    <3>2. CASE m.check_rp[i] \notin Q
      <4>1. PICK q \in Page : B.pte[q] = m.check_rp[i]
        BY <1>1, <3>2 DEF CheckFrames
      <4>2. m.check_rp[i] \in Frame
        BY <1>1 DEF CheckFrames
      <4>3. q # p
        BY <4>1, <4>2 DEF Mapped
      <4> QED BY <1>7, <4>1, <4>3
    <3> QED BY <3>1, <3>2
  <2> QED BY <1>1, <1>6, <2>1, <2>2 DEF CheckFrames
<1>11. CheckFifo(n)
  <2> DEFINE l == m.pra_list
             k == n.pra_list
  <2>1. l \in Seq(Page) /\ k = Append(l, p) /\ Len(l) \in Nat
    BY <1>1, <1>5 DEF CheckFifo
  <2>2. /\ Distinct(l) /\ \A i \in 1..Len(l) : Mapped(m, l[i])
        /\ \A q \in Page : Mapped(m, q) => \E i \in 1..Len(l) : l[i] = q
    BY <1>1 DEF CheckFifo
  <2> HIDE DEF l, k
  <2>3. /\ k \in Seq(Page) /\ Len(k) = Len(l) + 1 /\ k[Len(l) + 1] = p
        /\ \A i \in 1..Len(l) : k[i] = l[i]
    BY <1>0, <2>1
  <2>4. \A i \in 1..Len(k) : i \in 1..Len(l) \/ i = Len(l) + 1
    BY <2>1, <2>3
  <2>5. \A i \in 1..Len(l) : l[i] \in Page /\ l[i] # p
    BY <2>1, <2>2
  <2>6. Distinct(k)
    BY <2>2, <2>3, <2>4, <2>5 DEF Distinct
  <2>7. \A q \in Page : Mapped(n, q) <=> q = p \/ Mapped(m, q)
    BY <1>0, <1>6, <1>7 DEF Mapped
  <2>8. \A i \in 1..Len(k) : Mapped(n, k[i])
    BY <1>0, <2>2, <2>3, <2>4, <2>5, <2>7
  <2>9. ASSUME NEW q \in Page, Mapped(n, q) PROVE \E i \in 1..Len(k) : k[i] = q
    <3>1. CASE q = p
      BY <2>1, <2>3, <3>1
    <3>2. CASE q # p
      <4>1. PICK i \in 1..Len(l) : l[i] = q
        BY <2>2, <2>7, <2>9, <3>2
      <4>2. i \in 1..Len(k) /\ k[i] = q
        BY <2>1, <2>3, <4>1
      <4> QED BY <4>2
    <3> QED BY <3>1, <3>2
  <2> QED BY <2>3, <2>6, <2>8, <2>9 DEF CheckFifo, k
<1> QED BY <1>6, <1>9, <1>10, <1>11 DEF Testing

\* The page that came first goes to the disk.
PagedOut(m, d) ==
  /\ CheckRemaps(m, d, [m.mm[check] EXCEPT !.pte[m.pra_list[1]] = Swapped])
  /\ d.pmm = m.pmm /\ d.pra_list = Tail(m.pra_list)

\* What free_pages does to the memory.
PutBack(d, e, a) ==
  /\ Rec(e) /\ e.pmm = Freed(d.pmm, a, 1) /\ e.ok = e.pmm.ok /\ e.kernel = d.kernel
  /\ e.kstack = d.kstack /\ e.mm = d.mm /\ e.store = d.store /\ e.check_rp = d.check_rp
  /\ e.pra_list = d.pra_list /\ e.swap = d.swap

\* That is what free_pages does.
LEMMA PutBackIs ==
  ASSUME NEW m, Rec(m), NEW a
  PROVE  PutBack(m, free_pages(m, a, 1), a)
<1> DEFINE n == 1
           g == Freed(m.pmm, a, n)
           c == [b \in Frame |-> IF b \in a..a + n - 1 THEN Unset ELSE m.content[b]]
           d == [m EXCEPT !.content = c]
           e == [d EXCEPT !.pmm = g]
           r == free_pages(m, a, n)
<1>1. r = [e EXCEPT !.ok = g.ok]
  BY DEF free_pages, WithFrames
<1> HIDE DEF g, c, r
<1>2. /\ Rec(d) /\ d.kernel = m.kernel /\ d.kstack = m.kstack /\ d.mm = m.mm
      /\ d.store = m.store /\ d.check_rp = m.check_rp /\ d.pra_list = m.pra_list /\ d.swap = m.swap
  BY DEF Rec
<1> HIDE DEF d
<1>3. /\ Rec(e) /\ e.pmm = g /\ e.kernel = m.kernel /\ e.kstack = m.kstack /\ e.mm = m.mm
      /\ e.store = m.store /\ e.check_rp = m.check_rp /\ e.pra_list = m.pra_list /\ e.swap = m.swap
  BY <1>2 DEF Rec
<1> HIDE DEF e
<1>4. /\ Rec(r) /\ r.pmm = g /\ r.ok = g.ok /\ r.kernel = m.kernel /\ r.kstack = m.kstack
      /\ r.mm = m.mm /\ r.store = m.store /\ r.check_rp = m.check_rp
      /\ r.pra_list = m.pra_list /\ r.swap = m.swap
  BY <1>1, <1>3 DEF Rec
<1>5. PutBack(m, r, a)
  BY <1>4 DEF PutBack, g, n
<1> QED BY <1>5 DEF r, n

\* swap_out: the first page goes to the disk, then its frame to the free list.
LEMMA SwapOutIs ==
  ASSUME NEW m, Rec(m), m.mm \in [Space -> AddressSpace \cup {None}]
  PROVE  \E d : /\ PagedOut(m, d) /\ Rec(d)
                /\ PutBack(d, swap_out(m), m.mm[check].pte[m.pra_list[1]])
<1> DEFINE p == m.pra_list[1]
           B == m.mm[check]
           A == [B EXCEPT !.pte[p] = Swapped]
           a == B.pte[p]
           w == swapfs_write(m, p)
           x == [w EXCEPT !.mm[check].pte[p] = Swapped]
           t == Tail(x.pra_list)
           d == [x EXCEPT !.pra_list = t]
           e == free_pages(d, a, 1)
<1>1. swap_out(m) = e
  BY DEF swap_out
<1>2. /\ Rec(w) /\ w.pmm = m.pmm /\ w.ok = m.ok /\ w.kernel = m.kernel /\ w.kstack = m.kstack
      /\ w.mm = m.mm /\ w.store = m.store /\ w.check_rp = m.check_rp /\ w.pra_list = m.pra_list
  BY DEF swapfs_write, Rec
<1> HIDE DEF w, p
<1>3. /\ Rec(x) /\ x.pmm = m.pmm /\ x.ok = m.ok /\ x.kernel = m.kernel /\ x.kstack = m.kstack
      /\ x.store = m.store /\ x.check_rp = m.check_rp /\ x.pra_list = m.pra_list
      /\ x.mm = [m.mm EXCEPT ![check] = A]
  BY <1>2 DEF Rec
<1>t. t = Tail(m.pra_list)
  BY <1>3
<1> HIDE DEF x, A, t
<1>4. /\ Rec(d) /\ d.pmm = m.pmm /\ d.ok = m.ok /\ d.kernel = m.kernel /\ d.kstack = m.kstack
      /\ d.store = m.store /\ d.check_rp = m.check_rp /\ d.pra_list = Tail(m.pra_list)
      /\ d.mm = [m.mm EXCEPT ![check] = A]
  <2>1. /\ Rec(d) /\ d.pmm = x.pmm /\ d.ok = x.ok /\ d.kernel = x.kernel
        /\ d.kstack = x.kstack /\ d.store = x.store /\ d.check_rp = x.check_rp
        /\ d.pra_list = t /\ d.mm = x.mm
    BY <1>3 DEF Rec
  <2> HIDE DEF d
  <2> QED BY <1>3, <1>t, <2>1
<1> HIDE DEF d
<1>5. PagedOut(m, d)
  BY <1>4 DEF PagedOut, CheckRemaps, A, p
<1>6. PutBack(d, e, a)
  BY <1>4, PutBackIs
<1> HIDE DEF e
<1>7. PagedOut(m, d) /\ Rec(d) /\ PutBack(d, swap_out(m), m.mm[check].pte[m.pra_list[1]])
  BY <1>1, <1>4, <1>5, <1>6 DEF p
<1> QED BY <1>7

\* swap_out has made frames Q of the list, or has stopped the kernel.
SwappedOut(m, n) ==
  \/ n.ok = FALSE
  \/ \E Q : /\ Testing(n, Q) /\ n.kstack = m.kstack
            /\ \A q \in Page : Mapped(n, q) => Mapped(m, q)

\* When no frame was in the list, one is.
LEMMA TestCut ==
  ASSUME NEW m, Testing(m, {}), NEW d, PagedOut(m, d), NEW e, NEW a,
         a = m.mm[check].pte[m.pra_list[1]], PutBack(d, e, a)
  PROVE  SwappedOut(m, e)
<1> DEFINE B == m.mm[check]
           p == m.pra_list[1]
           A == [B EXCEPT !.pte[p] = Swapped]
           l == m.pra_list
<1>1. CheckTypes(m) /\ CheckFree(m, {}) /\ CheckFrames(m, {}) /\ CheckFifo(m) /\ CheckSpace(B)
  BY DEF Testing, CheckTypes
<1>2. B \in AddressSpace /\ B.pte \in [Page -> Frame \cup {None, Swapped}] /\ Fields(m)
  BY <1>1, AnySpace, TestFields DEF CheckSpace
<1>a. l \in Seq(Page) /\ Len(l) \in Nat /\ Len(l) >= 1
  <2>1. l \in Seq(Page) /\ Len(l) \in Nat
    BY <1>1 DEF CheckFifo
  <2>2. m.check_rp[1] \in Frame /\ 1 \in 1..Len(m.check_rp)
    BY <1>1 DEF CheckFrames
  <2>3. PICK q \in Page : B.pte[q] = m.check_rp[1]
    BY <1>1, <2>2 DEF CheckFrames
  <2>4. Mapped(m, q)
    BY <2>2, <2>3 DEF Mapped
  <2>5. PICK i \in 1..Len(l) : l[i] = q
    BY <1>1, <2>4 DEF CheckFifo
  <2> QED BY <2>1, <2>5
<1>b. p \in Page /\ Mapped(m, p) /\ a \in Frame /\ a = B.pte[p]
  <2>1. 1 \in 1..Len(l)
    BY <1>a
  <2>2. p \in Page /\ Mapped(m, p)
    BY <1>1, <1>a, <2>1 DEF CheckFifo
  <2> QED BY <2>2 DEF Mapped
<1>3. /\ A \in AddressSpace /\ A.areas = B.areas /\ A.pd0 = B.pd0 /\ A.pt = B.pt
      /\ A.pte = [B.pte EXCEPT ![p] = Swapped]
      /\ Moves(B, A, check, <<"pte", check, p>>, Swapped)
  <2>1. p \in Page /\ B \in AddressSpace /\ Swapped \in Frame \cup {Swapped}
    BY <1>b, <1>2
  <2> HIDE DEF B, p
  <2> QED BY ONLY <2>1, AnyPte
<1> HIDE DEF A
<1>4. CheckSpace(A)
  BY <1>1, <1>3 DEF CheckSpace
<1>5. CheckRemaps(m, d, A) /\ d.pmm = m.pmm /\ d.pra_list = Tail(l)
  BY DEF PagedOut, A
<1>6. CheckTypes(d) /\ d.mm[check] = A /\ \A r \in Space : r # check => d.mm[r] = m.mm[r]
  BY <1>1, <1>4, <1>5, CheckRemapped
<1>7. A.pte[p] = Swapped /\ \A q \in Page : q # p => A.pte[q] = B.pte[q]
  BY <1>b, <1>2, <1>3
<1>8. Appends(m.pmm, {}, a, e.pmm)
  <2> DEFINE k == 1
             E == {}
  <2>1. ShortList(m.pmm, E) /\ a \notin E /\ (\A b \in E : b < a) /\ m.pmm.ok = TRUE
    BY <1>1 DEF CheckFree
  <2>2. e.pmm = Freed(m.pmm, a, k)
    BY <1>5 DEF PutBack
  <2>3. k = 1
    OBVIOUS
  <2> HIDE DEF k, E
  <2>4. Appends(m.pmm, E, a, Freed(m.pmm, a, k))
    BY <1>b, <2>1, <2>3, ShortFreed
  <2> QED BY <2>2, <2>4 DEF E
<1>9. ASSUME e.ok # FALSE
      PROVE  /\ Testing(e, {a}) /\ e.kstack = m.kstack
             /\ \A q \in Page : Mapped(e, q) => Mapped(m, q)
  <2>1. e.pmm.ok = TRUE /\ e.ok = TRUE /\ ShortList(e.pmm, {a}) /\ e.pmm.flags = m.pmm.flags \cup {a}
    BY <1>8, <1>9 DEF PutBack, Appends
  <2>2. /\ Rec(e) /\ e.kernel = m.kernel /\ e.kstack = m.kstack /\ e.mm = d.mm
        /\ e.store = m.store /\ e.check_rp = m.check_rp /\ e.pra_list = Tail(l)
    BY <1>5 DEF PutBack, CheckRemaps
  <2>3. CheckTypes(e)
    BY <1>1, <1>6, <2>1, <2>2 DEF CheckTypes
  <2>4. \A q \in Page : Mapped(e, q) <=> q # p /\ Mapped(m, q)
    BY <1>b, <1>6, <1>7, <2>2, NoFrame DEF Mapped
  <2>5. CheckFree(e, {a})
    <3>1. Losing(Owns(m), Owns(e))
      <4>1. Moves(m.mm[check], e.mm[check], check, None, None)
        <5>1. ASSUME NEW k \in MapKinds, NEW i, <<k, check, i>> \in Slot
              PROVE  Entry(A, k, i) = None \/ Entry(A, k, i) = Entry(B, k, i)
          <6>1. A # None
            BY <1>3, AnySpace
          <6>2. \/ Entry(A, k, i) = None \/ Entry(A, k, i) = Entry(B, k, i)
                \/ <<k, check, i>> = <<"pte", check, p>> /\ Entry(A, k, i) = Swapped
            BY <1>3, <5>1 DEF Moves
          <6>3. Entry(A, "pte", i) # Swapped
            <7>1. Entry(A, "pte", i) = IF A.pte[i] = Swapped THEN None ELSE A.pte[i]
              BY <6>1, Entries4
            <7> QED BY <7>1, NoFrame
          <6> QED BY <6>2, <6>3
        <5> QED BY <1>6, <2>2, <5>1 DEF Moves
      <4>2. Taking(Owns(m), Owns(e), None, None)
        <5>1. \A r \in Space : r # check => e.mm[r] = m.mm[r]
          BY <1>6, <2>2
        <5>2. Fields(e)
          BY <2>3, TestFields
        <5> QED BY <2>2, <4>1, <5>1, <5>2, OwnsMove
      <4> QED BY <4>2 DEF Taking, Losing
    <3> DEFINE O == Owns(m)
               P == Owns(e)
               F == FreeOf(m.store)
               c == <<"pte", check, p>>
               E == {}
    <3>2. Owned(O, F, E)
      <4>1. F \cup {} = F
        OBVIOUS
      <4> QED BY <1>1, <4>1 DEF CheckFree
    <3>3. c \in Slot
      BY <1>b, IsSlot DEF Space
    <3>4. O[c] = a /\ P[c] = None /\ a # None
      <4>1. O[c] = Entry(B, "pte", p) /\ P[c] = Entry(A, "pte", p)
        <5>1. check \in Space
          BY DEF Space
        <5>2. "pte" \in MapKinds
          BY DEF MapKinds
        <5> QED BY <1>6, <2>2, <3>3, <5>1, <5>2, OwnsAt
      <4>2. A # None /\ B # None
        BY <1>2, <1>3, AnySpace
      <4>3. Entry(A, "pte", p) = None
        BY ONLY <1>7, <4>2, Entries4, NoFrame
      <4>4. a # None /\ B.pte[p] # Swapped /\ B.pte[p] = a
        BY <1>b, NoFrame
      <4>5. Entry(B, "pte", p) = IF B.pte[p] = Swapped THEN None ELSE B.pte[p]
        <5> HIDE DEF B, p
        <5> QED BY ONLY <4>2, Entries4
      <4> QED BY <4>1, <4>3, <4>4, <4>5
    <3>5. Losing(O, P)
      BY <3>1
    <3> HIDE DEF O, P, F, c, E
    <3>6. Owned(P, F, E \cup {a})
      BY <3>2, <3>3, <3>4, <3>5, OwnedLess
    <3> DEFINE S == {a}
               R == E \cup {a}
    <3>7. S \in SUBSET R /\ R \ S = {}
      BY DEF E
    <3>8. Owned(P, F, R)
      BY <3>6
    <3> HIDE DEF S, R
    <3>9. Owned(P, F \cup S, R \ S) /\ S \cap F = {}
      BY <3>7, <3>8, OwnedReturn
    <3>10. Owned(P, F \cup {a}, {}) /\ F \cap {a} = {}
      BY <3>7, <3>9 DEF S
    <3>11. e.pmm.flags = m.store.flags \cup {a}
      BY <1>1, <2>1 DEF CheckFree
    <3> QED BY <1>1, <2>1, <2>2, <3>10, <3>11 DEF CheckFree, P, F
  <2>6. CheckFrames(e, {a})
    <3>1. ASSUME NEW i \in 1..Len(m.check_rp)
          PROVE  m.check_rp[i] \in {a} \/ \E q \in Page : A.pte[q] = m.check_rp[i]
      <4>1. PICK q \in Page : B.pte[q] = m.check_rp[i]
        BY <1>1 DEF CheckFrames
      <4> QED BY <1>b, <1>7, <4>1
    <3>2. /\ m.check_rp \in Seq(Frame) /\ Distinct(m.check_rp) /\ Len(m.check_rp) >= 1
          /\ e.check_rp = m.check_rp /\ e.mm[check].pte = A.pte
      BY <1>1, <1>6, <2>2 DEF CheckFrames
    <3> QED BY ONLY <3>1, <3>2 DEF CheckFrames
  <2>7. CheckFifo(e)
    <3> DEFINE k == e.pra_list
    <3>1. /\ k \in Seq(Page) /\ Len(k) = Len(l) - 1
          /\ \A i \in 1..Len(k) : k[i] = l[i + 1]
      BY <1>a, <2>2
    <3>2. /\ Distinct(l) /\ \A i \in 1..Len(l) : Mapped(m, l[i])
          /\ \A q \in Page : Mapped(m, q) => \E i \in 1..Len(l) : l[i] = q
      BY <1>1 DEF CheckFifo
    <3> HIDE DEF k
    <3>a. p = l[1] /\ \A i \in 1..Len(l) : l[i] \in Page
      BY <1>a
    <3> HIDE DEF p, l
    <3>3. \A i \in 1..Len(k) : i + 1 \in 1..Len(l) /\ i + 1 # 1
      BY <1>a, <3>1
    <3>4. 1 \in 1..Len(l)
      BY <1>a
    <3>5. Distinct(k)
      <4>1. ASSUME NEW i \in 1..Len(k), NEW j \in 1..Len(k), k[i] = k[j] PROVE i = j
        <5>1. i + 1 = j + 1
          BY <3>1, <3>2, <3>3, <4>1 DEF Distinct
        <5> QED BY <5>1
      <4> QED BY <4>1 DEF Distinct
    <3>6. \A i \in 1..Len(k) : k[i] \in Page /\ k[i] # p /\ Mapped(m, k[i])
      <4> SUFFICES ASSUME NEW i \in 1..Len(k) PROVE k[i] \in Page /\ k[i] # p /\ Mapped(m, k[i])
        OBVIOUS
      <4>1. i + 1 \in 1..Len(l) /\ i + 1 # 1 /\ k[i] = l[i + 1]
        BY <3>1, <3>3
      <4> DEFINE j == i + 1
      <4>2. j \in 1..Len(l) /\ j # 1 /\ k[i] = l[j]
        BY <4>1
      <4> HIDE DEF j
      <4> QED BY <3>2, <3>4, <3>a, <4>2 DEF Distinct
    <3>7. ASSUME NEW q \in Page, Mapped(e, q) PROVE \E i \in 1..Len(k) : k[i] = q
      <4>1. q # p /\ Mapped(m, q)
        BY <2>4, <3>7
      <4>2. PICK j \in 1..Len(l) : l[j] = q
        BY <3>2, <4>1
      <4>3. j # 1
        BY <3>a, <4>1, <4>2
      <4>4. j - 1 \in 1..Len(k) /\ (j - 1) + 1 = j
        BY <1>a, <3>1, <4>3
      <4>5. k[j - 1] = l[j]
        BY <3>1, <4>4
      <4> QED BY <4>2, <4>4, <4>5
    <3>8. \A i \in 1..Len(k) : Mapped(e, k[i])
      BY <2>4, <3>6
    <3> QED BY <3>1, <3>5, <3>7, <3>8 DEF CheckFifo, k
  <2> QED BY <2>2, <2>3, <2>4, <2>5, <2>6, <2>7 DEF Testing
<1> QED BY <1>9 DEF SwappedOut

\* get_pte finds the entry of a page of the check: its tables are there.
LEMMA CheckGetPte ==
  ASSUME NEW m, CheckSpace(m.mm[check]), m.ok = TRUE, NEW p \in PagesOf(CheckArea)
  PROVE  get_pte(m, check, p) = m
<1>1. Tab(p) = 0 /\ Dir(0) = 0
  BY CheckPage
<1>2. m.mm[check].pd0[0] # None /\ m.mm[check].pt[0] # None
  BY NoFrame DEF CheckSpace
<1>3. WithDir(m, check, 0) = m
  BY <1>2 DEF WithDir
<1>4. WithTable(m, check, 0) = m
  BY <1>2 DEF WithTable
<1> QED BY <1>1, <1>3, <1>4 DEF get_pte

\* alloc_pages swaps out when it finds no frame.
LEMMA TestReady ==
  ASSUME NEW m, NEW Q, Testing(m, Q)
  PROVE  SwappedOut(m, Ready(m))
<1>1. CheckTypes(m) /\ CheckFree(m, Q)
  BY DEF Testing
<1>2. m.mm[check] # None /\ Rec(m) /\ m.mm \in [Space -> AddressSpace \cup {None}]
  BY <1>1, AnySpace DEF CheckTypes, CheckSpace
<1>3. CASE m.pmm.nr_free # 0
  <2>1. Ready(m) = m
    BY <1>3 DEF Ready
  <2> QED BY <2>1 DEF SwappedOut
<1>4. CASE m.pmm.nr_free = 0
  <2>1. Ready(m) = swap_out(m)
    BY <1>2, <1>4 DEF Ready
  <2>2. Q = {}
    <3>1. IsFiniteSet(Q) /\ Cardinality(Q) = 0
      BY <1>1, <1>4, Frames DEF CheckFree, ShortList
    <3> QED BY <3>1, FS_EmptySet
  <2>3. PICK d : /\ PagedOut(m, d) /\ Rec(d)
                 /\ PutBack(d, swap_out(m), m.mm[check].pte[m.pra_list[1]])
    BY <1>2, SwapOutIs
  <2> DEFINE E == {}
             e == swap_out(m)
             a == m.mm[check].pte[m.pra_list[1]]
  <2>4. Testing(m, {}) /\ PagedOut(m, d) /\ PutBack(d, e, a)
    BY <2>2, <2>3
  <2>5. a = m.mm[check].pte[m.pra_list[1]]
    OBVIOUS
  <2> HIDE DEF e, a
  <2>6. SwappedOut(m, e)
    BY <2>4, <2>5, TestCut
  <2> QED BY <2>1, <2>6 DEF e
<1> QED BY <1>3, <1>4

\* A frame found is mapped, and its page may be swapped out again.
LEMMA PagedInIs ==
  ASSUME NEW m, CheckTypes(m), NEW p \in PagesOf(CheckArea), NEW a, NEW v
  PROVE  PagedIn(m, Swappable(page_insert([m EXCEPT !.pmm = Taken(@, a, 1)], check, p, a, v),
                              check, p), p, a)
<1> DEFINE g == Taken(m.pmm, a, 1)
           r == [m EXCEPT !.pmm = g]
           A == [m.mm[check] EXCEPT !.pte[p] = a]
           x == [r EXCEPT !.mm[check].pte[p] = a]
           y == [x EXCEPT !.content[a] = v]
           z == page_insert(r, check, p, a, v)
           l == Append(y.pra_list, p)
           n == [y EXCEPT !.pra_list = l]
           w == Swappable(z, check, p)
<1>1. Rec(m) /\ m.ok = TRUE /\ CheckSpace(m.mm[check]) /\ m.mm \in [Space -> AddressSpace \cup {None}]
  BY DEF CheckTypes
<1>2. /\ Rec(r) /\ r.pmm = g /\ r.ok = m.ok /\ r.kernel = m.kernel /\ r.kstack = m.kstack
      /\ r.mm = m.mm /\ r.store = m.store /\ r.check_rp = m.check_rp /\ r.pra_list = m.pra_list
  BY <1>1 DEF Rec
<1> HIDE DEF r
<1>3. get_pte(r, check, p) = r
  BY <1>1, <1>2, CheckGetPte
<1>4. z = y
  BY <1>1, <1>2, <1>3 DEF page_insert, Then
<1>5. /\ Rec(x) /\ x.pmm = g /\ x.ok = m.ok /\ x.kernel = m.kernel /\ x.kstack = m.kstack
      /\ x.mm = [m.mm EXCEPT ![check] = A] /\ x.store = m.store
      /\ x.check_rp = m.check_rp /\ x.pra_list = m.pra_list
  <2>1. /\ Rec(x) /\ x.pmm = r.pmm /\ x.ok = r.ok /\ x.kernel = r.kernel /\ x.kstack = r.kstack
        /\ x.mm = [r.mm EXCEPT ![check].pte[p] = a] /\ x.store = r.store
        /\ x.check_rp = r.check_rp /\ x.pra_list = r.pra_list
    BY <1>2 DEF Rec
  <2> HIDE DEF x
  <2> QED BY <1>2, <2>1
<1> HIDE DEF x, A
<1>6. /\ Rec(y) /\ y.pmm = g /\ y.ok = m.ok /\ y.kernel = m.kernel /\ y.kstack = m.kstack
      /\ y.mm = [m.mm EXCEPT ![check] = A] /\ y.store = m.store
      /\ y.check_rp = m.check_rp /\ y.pra_list = m.pra_list
  BY <1>5 DEF Rec
<1> HIDE DEF y, z
<1>7. w = n
  BY <1>1, <1>4, <1>6 DEF Swappable
<1>8. l = Append(m.pra_list, p)
  BY <1>6
<1> HIDE DEF l, w
<1>9. /\ Rec(n) /\ n.pmm = y.pmm /\ n.ok = y.ok /\ n.kernel = y.kernel /\ n.kstack = y.kstack
      /\ n.mm = y.mm /\ n.store = y.store
      /\ n.check_rp = y.check_rp /\ n.pra_list = l
  BY <1>6 DEF Rec
<1> HIDE DEF n
<1>10. PagedIn(m, w, p, a)
  BY <1>6, <1>7, <1>8, <1>9 DEF PagedIn, CheckRemaps, A, g
<1> QED BY <1>10 DEF w, z, r

\* The check goes on, unless the kernel has stopped.
StillTesting(m, n) ==
  n.ok = FALSE \/ \E Q : Testing(n, Q) /\ n.kstack = m.kstack

\* alloc_page for page p, which gets v.
PageIn(m, p, v) ==
  LET e == Ready(m)
      a == Found(e.pmm, 1)
  IN  IF e.ok
      THEN IF a \in Frame
           THEN Swappable(page_insert([e EXCEPT !.pmm = Taken(@, a, 1)], check, p, a, v),
                          check, p)
           ELSE [e EXCEPT !.ok = FALSE]
      ELSE e

\* do_pgfault of the check: a new page or one from the disk.
LEMMA FaultIs ==
  ASSUME NEW m, CheckTypes(m), NEW p \in PagesOf(CheckArea), ~Mapped(m, p)
  PROVE  \E v : do_pgfault(m, check, p) = PageIn(m, p, v)
<1> DEFINE e == Ready(m)
           x == m.mm[check].pte[p]
           r == [e EXCEPT !.pmm = Taken(@, Found(e.pmm, 1), 1)]
<1>1. get_pte(m, check, p) = m /\ m.ok = TRUE
  BY CheckGetPte DEF CheckTypes
<1>2. x = None \/ x = Swapped
  <2>1. m.mm[check] \in AddressSpace /\ p \in Page
    BY CheckPage DEF CheckTypes, CheckSpace
  <2>2. m.mm[check].pte \in [Page -> Frame \cup {None, Swapped}]
    BY <2>1, AnySpace
  <2> QED BY <2>1, <2>2 DEF Mapped
<1>3. ASSUME x = None PROVE do_pgfault(m, check, p) = PageIn(m, p, Unset)
  BY <1>1, <1>3, NoFrame DEF do_pgfault, Then, pgdir_alloc_page, alloc_page, PageIn
<1>4. ASSUME x = Swapped PROVE do_pgfault(m, check, p) = PageIn(m, p, r.swap[p])
  BY <1>1, <1>4, NoFrame DEF do_pgfault, Then, alloc_page, PageIn
<1> QED BY <1>2, <1>3, <1>4

\* The check goes on after it.
LEMMA PageInTests ==
  ASSUME NEW m, NEW Q, Testing(m, Q), NEW p \in PagesOf(CheckArea), ~Mapped(m, p), NEW v
  PROVE  StillTesting(m, PageIn(m, p, v))
<1> DEFINE e == Ready(m)
           a == Found(e.pmm, 1)
           r == [e EXCEPT !.pmm = Taken(@, a, 1)]
           n == Swappable(page_insert(r, check, p, a, v), check, p)
           F == FALSE
           h == [e EXCEPT !.ok = F]
           z == PageIn(m, p, v)
<1>1. z = IF e.ok THEN IF a \in Frame THEN n ELSE h ELSE e
  BY DEF PageIn
<1>2. SwappedOut(m, e)
  BY TestReady
<1>p. p \in Page
  BY CheckPage
<1> HIDE DEF e
<1>3. CASE e.ok = FALSE
  <2>1. z = e
    BY <1>1, <1>3
  <2> HIDE DEF z
  <2>2. StillTesting(m, z)
    BY <1>3, <2>1 DEF StillTesting
  <2> QED BY <2>2 DEF z
<1>4. CASE e.ok # FALSE
  <2>1. PICK P : /\ Testing(e, P) /\ e.kstack = m.kstack
                 /\ \A q \in Page : Mapped(e, q) => Mapped(m, q)
    BY <1>2, <1>4 DEF SwappedOut
  <2>2. CheckTypes(e) /\ ~Mapped(e, p) /\ e.ok = TRUE
    BY <1>p, <2>1 DEF Testing, CheckTypes
  <2>3. ASSUME a \in Frame PROVE Testing(n, P \ {a}) /\ n.kstack = m.kstack
    <3>1. Finds(e, 1, a)
      BY <2>3 DEF Finds
    <3>2. PagedIn(e, n, p, a)
      BY <2>2, PagedInIs
    <3> HIDE DEF a, n
    <3>3. Testing(n, P \ {a})
      BY <2>1, <2>2, <3>1, <3>2, TestPut
    <3>4. n.kstack = m.kstack
      BY <2>1, <3>2 DEF PagedIn, CheckRemaps
    <3> QED BY <3>3, <3>4
  <2>4. h.ok = FALSE
    <3>1. Rec(e)
      BY <2>2 DEF CheckTypes
    <3>2. h.ok = F
      <4> HIDE DEF F
      <4> QED BY <3>1 DEF Rec
    <3> QED BY <3>2
  <2>5. (z = n /\ a \in Frame) \/ z = h
    BY <1>1, <2>2
  <2> HIDE DEF z, n, h
  <2>6. StillTesting(m, z)
    BY <2>3, <2>4, <2>5 DEF StillTesting
  <2> QED BY <2>6 DEF z
<1> QED BY <1>3, <1>4

\* While check_swap runs: each process that is there has a kernel stack.
Tested ==
  /\ \E Q : Testing(M, Q)
  /\ proc \in [Proc -> {"none", "runs", "zombie"}]
  /\ \A p \in Proc : proc[p] # "none" => M.kstack[p] # None

\* The inductive invariant, as long as no assertion has stopped the kernel.
MemoryInv == M.ok => Tested \/ Running

\* check_swap is not over,
LEMMA TestsChecking ==
  ASSUME Tested
  PROVE  Checking
BY AnySpace DEF Tested, Testing, CheckTypes, CheckSpace, Checking

\* and only its pages are there.
LEMMA TestsMaps ==
  ASSUME Tested, NEW s \in Space, NEW p, Maps(s, p)
  PROVE  s = check /\ p \in PagesOf(CheckArea)
<1>1. PICK Q : Testing(M, Q)
  BY DEF Tested
<1>2. s = check /\ M.mm[check].areas = <<CheckArea>>
  BY <1>1 DEF Testing, CheckTypes, CheckSpace, Maps, Space
<1>3. PICK i \in 1..Len(<<CheckArea>>) : p \in PagesOf(<<CheckArea>>[i])
  BY <1>2 DEF Maps, InArea
<1>4. i = 1 /\ <<CheckArea>>[1] = CheckArea
  BY <1>3
<1> QED BY <1>2, <1>3, <1>4

\* A page fault of check_swap,
LEMMA TestsPageFault ==
  ASSUME Tested, NEW s \in Space, NEW p \in Page, PageFault(s, p)
  PROVE  MemoryInv'
<1>1. PICK Q : Testing(M, Q)
  BY DEF Tested
<1>2. s = check /\ p \in PagesOf(CheckArea)
  BY TestsMaps DEF PageFault
<1>3. ~Mapped(M, p) /\ M' = do_pgfault(M, check, p) /\ proc' = proc
  BY <1>2 DEF PageFault, Mapped
<1>4. PICK v : M' = PageIn(M, p, v)
  BY <1>1, <1>2, <1>3, FaultIs DEF Testing
<1>5. StillTesting(M, M')
  BY <1>1, <1>2, <1>3, <1>4, PageInTests
<1>6. CASE M'.ok = FALSE
  BY <1>6 DEF MemoryInv
<1>7. CASE \E P : Testing(M', P) /\ M'.kstack = M.kstack
  BY <1>3, <1>7 DEF MemoryInv, Tested
<1> QED BY <1>5, <1>6, <1>7 DEF StillTesting

\* and a store: it does not fault, or faults first.
LEMMA TestsStore ==
  ASSUME Tested, NEW s \in Space, NEW p \in Written, NEW v \in Value, Store(s, p, v)
  PROVE  MemoryInv'
<1> DEFINE a == M.mm[s].pte[p]
<1>1. M' = [M EXCEPT !.content[a] = v] /\ proc' = proc
  BY DEF Store
<1> HIDE DEF a
<1>2. PICK Q : Testing(M, Q)
  BY DEF Tested
<1>3. Rec(M)
  BY <1>2 DEF Testing, CheckTypes
<1>4. /\ Rec(M') /\ M'.pmm = M.pmm /\ M'.ok = M.ok /\ M'.kernel = M.kernel
      /\ M'.kstack = M.kstack /\ M'.store = M.store /\ M'.mm = M.mm
      /\ M'.check_rp = M.check_rp /\ M'.pra_list = M.pra_list
  BY <1>1, <1>3 DEF Rec
<1>5. Owns(M') = Owns(M)
  BY <1>4, OwnsSame
<1>6. CheckTypes(M') /\ CheckFree(M', Q) /\ CheckFrames(M', Q)
  BY <1>2, <1>4, <1>5 DEF Testing, CheckTypes, CheckFree, CheckFrames
<1>7. CheckFifo(M')
  BY <1>2, <1>4 DEF Testing, CheckFifo, Mapped
<1>8. Testing(M', Q)
  BY <1>6, <1>7 DEF Testing
<1> QED BY <1>1, <1>4, <1>8 DEF MemoryInv, Tested

-----------------------------------------------------------------------------
(***************************************************************************)
(* The end of check_swap.                                                  *)
(***************************************************************************)
FreeAll(m, seq) == ForEach(m, seq, LAMBDA n, a : free_pages(n, a, 1))

\* The loops that free frames one by one are loops as above.
LEMMA FreeRuns ==
  ASSUME NEW m, NEW l \in Seq(Frame)
  PROVE  \E g : Runs("free", m, m, m, m, l, g) /\ FreeAll(m, l) = g[Len(l)]
<1> DEFINE seq == l
           Eq(g) == g = [i \in 0..Len(seq) |->
                           IF i = 0 THEN m
                           ELSE IF g[i - 1].ok THEN free_pages(g[i - 1], seq[i], 1) ELSE g[i - 1]]
           c == CHOOSE g : Eq(g)
<1>1. \A g : Runs("free", m, m, m, m, seq, g) <=> Eq(g)
  BY DEF Runs, Turn, Stepped
<1>4. Len(seq) \in Nat
  OBVIOUS
<1>2. Eq(c)
  BY <1>1, <1>4, RunsExist
<1>3. FreeAll(m, l) = c[Len(seq)]
  BY DEF FreeAll, ForEach
<1> HIDE DEF c
<1> QED BY <1>1, <1>2, <1>3

\* The members of a sequence after the first i.
Rest(seq, i) == {seq[j] : j \in i + 1..Len(seq)}

Freeing(m, n, seq, i) == Sound(n, Rest(seq, i)) /\ n.kstack = m.kstack

\* A frame in hand is freed,
LEMMA FreeingStep ==
  ASSUME NEW m, NEW n, NEW seq \in Seq(Frame), Distinct(seq), NEW i \in Nat, i + 1 <= Len(seq),
         Freeing(m, n, seq, i), n.ok = TRUE, NEW h, h = Stepped("free", m, m, m, n, seq[i + 1])
  PROVE  Freeing(m, h, seq, i + 1)
<1> DEFINE a == seq[i + 1]
           R == Rest(seq, i)
           r == free_pages(n, a, 1)
<1>0. Len(seq) \in Nat /\ i + 1 \in 1..Len(seq)
  OBVIOUS
<1>1. h = r
  BY DEF Stepped
<1>2. a \in Frame /\ a \in R
  BY <1>0 DEF Rest
<1>3. Rest(seq, i + 1) = R \ {a}
  <2>1. ASSUME NEW b \in Rest(seq, i + 1) PROVE b \in R \ {a}
    <3>1. PICK j \in i + 1 + 1..Len(seq) : b = seq[j]
      BY <2>1 DEF Rest
    <3>2. j \in i + 1..Len(seq) /\ j \in 1..Len(seq) /\ j # i + 1
      BY <1>0, <3>1
    <3>3. seq[j] # seq[i + 1]
      BY <1>0, <3>2 DEF Distinct
    <3> QED BY <3>1, <3>2, <3>3 DEF Rest
  <2>2. ASSUME NEW b \in R \ {a} PROVE b \in Rest(seq, i + 1)
    <3>1. PICK j \in i + 1..Len(seq) : b = seq[j]
      BY <2>2 DEF Rest
    <3>2. j # i + 1
      BY <2>2, <3>1
    <3>3. j \in i + 1 + 1..Len(seq)
      BY <1>0, <3>1, <3>2
    <3> QED BY <3>1, <3>3 DEF Rest
  <2> QED BY <2>1, <2>2
<1>4. Sound(n, R) /\ n.kstack = m.kstack
  BY DEF Freeing
<1> HIDE DEF a, R
<1>5. Sound(r, R \ {a}) /\ Around(n, r)
  BY <1>2, <1>4, ReleaseOne
<1> HIDE DEF r
<1> QED BY <1>1, <1>3, <1>4, <1>5 DEF Freeing, Around

\* and all of them are.
LEMMA FreeAllFine ==
  ASSUME NEW m, NEW seq \in Seq(Frame), Distinct(seq), Sound(m, Rest(seq, 0))
  PROVE  LET n == FreeAll(m, seq) IN Sound(n, {}) /\ n.kstack = m.kstack
<1> DEFINE n == FreeAll(m, seq)
<1>1. PICK g : Runs("free", m, m, m, m, seq, g) /\ n = g[Len(seq)]
  BY FreeRuns
<1> HIDE DEF n
<1> DEFINE K == {i \in Nat : i <= Len(seq) => Freeing(m, g[i], seq, i)}
<1>0. Len(seq) \in Nat
  OBVIOUS
<1>a. \A i \in 0..Len(seq) : g[i] = IF i = 0 THEN m ELSE Turn("free", m, m, m, g[i - 1], seq[i])
  BY <1>1 DEF Runs
<1>2. 0 \in K
  <2>1. g[0] = m
    BY <1>0, <1>a
  <2>2. Freeing(m, g[0], seq, 0)
    BY <2>1 DEF Freeing
  <2> QED BY <2>2
<1>3. ASSUME NEW i \in Nat, i \in K PROVE i + 1 \in K
  <2> SUFFICES ASSUME i + 1 <= Len(seq) PROVE Freeing(m, g[i + 1], seq, i + 1)
    OBVIOUS
  <2> DEFINE r == g[i]
             h == Stepped("free", m, m, m, r, seq[i + 1])
  <2>1. Freeing(m, r, seq, i)
    BY <1>0, <1>3
  <2>2. g[i + 1] = IF r.ok THEN h ELSE r
    <3>1. i + 1 \in 0..Len(seq) /\ i + 1 # 0 /\ (i + 1) - 1 = i
      BY <1>0
    <3> QED BY <1>a, <3>1 DEF Turn
  <2> HIDE DEF r, h
  <2>3. r.ok \in BOOLEAN
    BY <2>1 DEF Freeing, Sound, Typed
  <2>4. CASE r.ok = TRUE
    <3>1. Freeing(m, h, seq, i + 1)
      <4>1. h = Stepped("free", m, m, m, r, seq[i + 1])
        BY DEF h
      <4> QED BY <2>1, <2>4, <4>1, FreeingStep
    <3> QED BY <2>2, <2>4, <3>1
  <2>5. CASE r.ok = FALSE
    <3>1. Rest(seq, i + 1) \in SUBSET Rest(seq, i)
      BY <1>0 DEF Rest
    <3>2. Sound(r, Rest(seq, i + 1)) /\ r.kstack = m.kstack
      BY <2>1, <3>1, SoundFewer DEF Freeing
    <3> QED BY <2>2, <2>5, <3>2 DEF Freeing
  <2> QED BY <2>3, <2>4, <2>5
<1> HIDE DEF K
<1>4. Nat \subseteq K
  BY <1>2, <1>3, SetInduction
<1>5. Freeing(m, n, seq, Len(seq))
  BY <1>0, <1>1, <1>4 DEF K
<1>6. Rest(seq, Len(seq)) = {}
  BY <1>0 DEF Rest
<1>7. Sound(n, {}) /\ n.kstack = m.kstack
  BY <1>5, <1>6 DEF Freeing
<1> QED BY <1>7 DEF n

\* Two more frames behind a sequence.
LEMMA WithTwo ==
  ASSUME NEW l \in Seq(Frame), Distinct(l), NEW t \in Frame, NEW d \in Frame, t # d,
         \A i \in 1..Len(l) : l[i] # t /\ l[i] # d
  PROVE  LET seq == l \o <<t, d>> IN
         /\ seq \in Seq(Frame) /\ Distinct(seq)
         /\ \A a \in Rest(seq, 0) : a = t \/ a = d \/ \E i \in 1..Len(l) : l[i] = a
<1> DEFINE seq == l \o <<t, d>>
           n == Len(l)
<1>1. /\ seq \in Seq(Frame) /\ Len(seq) = n + 2 /\ n \in Nat
      /\ \A i \in 1..n : seq[i] = l[i]
      /\ seq[n + 1] = t /\ seq[n + 2] = d
  OBVIOUS
<1> HIDE DEF seq
<1>2. \A i \in 1..Len(seq) : i \in 1..n \/ i = n + 1 \/ i = n + 2
  BY <1>1
<1>3. ASSUME NEW i \in 1..Len(seq), NEW j \in 1..Len(seq), seq[i] = seq[j] PROVE i = j
  <2>1. CASE i \in 1..n
    <3>1. j \in 1..n
      BY <1>1, <1>2, <1>3, <2>1
    <3> QED BY <1>1, <1>3, <2>1, <3>1 DEF Distinct
  <2>2. CASE i = n + 1
    BY <1>1, <1>2, <1>3, <2>2
  <2>3. CASE i = n + 2
    BY <1>1, <1>2, <1>3, <2>3
  <2> QED BY <1>2, <2>1, <2>2, <2>3
<1>4. ASSUME NEW a \in Rest(seq, 0) PROVE a = t \/ a = d \/ \E i \in 1..Len(l) : l[i] = a
  <2>1. PICK j \in 0 + 1..Len(seq) : a = seq[j]
    BY DEF Rest
  <2>2. j \in 1..n \/ j = n + 1 \/ j = n + 2
    BY <1>1, <1>2, <2>1
  <2> QED BY <1>1, <2>1, <2>2
<1>5. Distinct(seq)
  BY <1>3 DEF Distinct
<1> QED BY <1>1, <1>4, <1>5 DEF seq

\* The memory when check_swap is about to give back what it has.
Ended(m, n) ==
  /\ Rec(n) /\ n.pmm = [m.store EXCEPT !.flags = m.pmm.flags] /\ n.ok = m.ok
  /\ n.kernel = m.kernel /\ n.kstack = m.kstack /\ n.store = None
  /\ n.mm = [m.mm EXCEPT ![check] = None]

\* The end of check_swap: the list it had put aside is back, its address space is gone.
LEMMA EndIs ==
  ASSUME Rec(M)
  PROVE  \E n : /\ Ended(M, n)
                /\ check_swap_end =
                     FreeAll(n, M.check_rp \o <<M.mm[check].pt[0], M.mm[check].pd0[0]>>)
<1> DEFINE f == [M.store EXCEPT !.flags = M.pmm.flags]
           w == [p \in Page |-> Unset]
           e == <<>>
           c == check
           N == None
           n == [M EXCEPT !.pmm = f, !.store = N, !.check_rp = e, !.pra_list = e,
                          !.swap = w, !.mm[c] = N]
           n1 == [M EXCEPT !.pmm = f]
           n2 == [n1 EXCEPT !.store = N]
           n3 == [n2 EXCEPT !.check_rp = e]
           n4 == [n3 EXCEPT !.pra_list = e]
           n5 == [n4 EXCEPT !.swap = w]
           n6 == [n5 EXCEPT !.mm[c] = N]
<1>1. check_swap_end = FreeAll(n, M.check_rp \o <<M.mm[check].pt[0], M.mm[check].pd0[0]>>)
  BY DEF check_swap_end, FreeAll
<1>2. n = n6
  OBVIOUS
<1> HIDE DEF f, w, e, c, N, n
<1>3. /\ Rec(n1) /\ n1.pmm = f /\ n1.ok = M.ok /\ n1.kernel = M.kernel
      /\ n1.kstack = M.kstack /\ n1.mm = M.mm
  BY DEF Rec
<1> HIDE DEF n1
<1>4. /\ Rec(n2) /\ n2.pmm = f /\ n2.ok = M.ok /\ n2.kernel = M.kernel
      /\ n2.kstack = M.kstack /\ n2.mm = M.mm /\ n2.store = N
  BY <1>3 DEF Rec
<1> HIDE DEF n2
<1>5. /\ Rec(n3) /\ n3.pmm = f /\ n3.ok = M.ok /\ n3.kernel = M.kernel
      /\ n3.kstack = M.kstack /\ n3.mm = M.mm /\ n3.store = N
  BY <1>4 DEF Rec
<1> HIDE DEF n3
<1>6. /\ Rec(n4) /\ n4.pmm = f /\ n4.ok = M.ok /\ n4.kernel = M.kernel
      /\ n4.kstack = M.kstack /\ n4.mm = M.mm /\ n4.store = N
  BY <1>5 DEF Rec
<1> HIDE DEF n4
<1>7. /\ Rec(n5) /\ n5.pmm = f /\ n5.ok = M.ok /\ n5.kernel = M.kernel
      /\ n5.kstack = M.kstack /\ n5.mm = M.mm /\ n5.store = N
  BY <1>6 DEF Rec
<1> HIDE DEF n5
<1>8. /\ Rec(n6) /\ n6.pmm = f /\ n6.ok = M.ok /\ n6.kernel = M.kernel
      /\ n6.kstack = M.kstack /\ n6.store = N /\ n6.mm = [M.mm EXCEPT ![c] = N]
  BY <1>7 DEF Rec
<1> HIDE DEF n6
<1>9. Ended(M, n)
  BY <1>2, <1>8 DEF Ended, f, c, N
<1> QED BY <1>1, <1>9

\* What check had is in hand, no frame twice.
LEMMA EndSound ==
  ASSUME NEW m, Testing(m, {}), NEW n, Ended(m, n)
  PROVE  LET seq == m.check_rp \o <<m.mm[check].pt[0], m.mm[check].pd0[0]>> IN
         seq \in Seq(Frame) /\ Distinct(seq) /\ Sound(n, Rest(seq, 0))
<1> DEFINE A == m.mm[check]
           l == m.check_rp
           t == A.pt[0]
           d == A.pd0[0]
           seq == l \o <<t, d>>
           O == Owns(m)
           P == Owns(n)
           F == FreeOf(m.store)
<1>1. CheckTypes(m) /\ CheckFree(m, {}) /\ CheckFrames(m, {}) /\ CheckSpace(A)
  BY DEF Testing, CheckTypes
<1>2. A # None /\ A \in AddressSpace /\ t \in Frame /\ d \in Frame /\ Fields(m)
      /\ m.mm \in [Space -> AddressSpace \cup {None}] /\ check \in Space
      /\ \A s \in Proc : m.mm[s] = None
  BY <1>1, AnySpace, TestFields DEF CheckSpace, CheckTypes, Space
<1>3. Owned(O, F, {})
  <2>1. F \cup {} = F
    OBVIOUS
  <2> QED BY <1>1, <2>1 DEF CheckFree
<1>4. /\ <<"pt", check, 0>> \in Slot /\ <<"pd0", check, 0>> \in Slot
      /\ \A p \in Page : <<"pte", check, p>> \in Slot
  <2>1. 0 \in Tabs /\ 0 \in Dirs
    <3>1. 1 \in PagesOf(CheckArea)
      BY MemoryAssumption DEF PagesOf, CheckArea
    <3> QED BY <3>1, CheckPage
  <2> QED BY <1>2, <2>1, IsSlot
<1>5. /\ O[<<"pt", check, 0>>] = t /\ O[<<"pd0", check, 0>>] = d
      /\ \A p \in Page : A.pte[p] \in Frame => O[<<"pte", check, p>>] = A.pte[p]
  <2>1. /\ O[<<"pt", check, 0>>] = Entry(A, "pt", 0) /\ O[<<"pd0", check, 0>>] = Entry(A, "pd0", 0)
        /\ \A p \in Page : O[<<"pte", check, p>>] = Entry(A, "pte", p)
    <3>1. "pt" \in MapKinds /\ "pd0" \in MapKinds /\ "pte" \in MapKinds
      BY DEF MapKinds
    <3> HIDE DEF A
    <3>2. A = m.mm[check]
      BY DEF A
    <3> QED BY <1>2, <1>4, <3>1, <3>2, OwnsAt
  <2> HIDE DEF A
  <2> QED BY <1>2, <2>1, Entries4, NoFrame
<1>6. t # d /\ \A p \in Page : A.pte[p] \in Frame => A.pte[p] # t /\ A.pte[p] # d
  <2> HIDE DEF A, O, F, t, d
  <2>1. t # None /\ d # None
    BY <1>2, NoFrame
  <2>2. \A x, y \in Slot : O[x] # None /\ O[x] = O[y] => x = y
    BY <1>3 DEF Owned
  <2>3. <<"pt", check, 0>> # <<"pd0", check, 0>>
        /\ \A p : <<"pt", check, 0>> # <<"pte", check, p>> /\ <<"pd0", check, 0>> # <<"pte", check, p>>
    OBVIOUS
  <2>4. t # d
    BY <1>4, <1>5, <2>1, <2>2, <2>3
  <2>5. ASSUME NEW p \in Page, A.pte[p] \in Frame PROVE A.pte[p] # t /\ A.pte[p] # d
    <3>1. O[<<"pte", check, p>>] = A.pte[p] /\ <<"pte", check, p>> \in Slot
      BY <1>4, <1>5, <2>5
    <3> QED BY <1>4, <1>5, <2>1, <2>2, <2>3, <3>1
  <2> QED BY <2>4, <2>5
<1>7. \A i \in 1..Len(l) : l[i] \in Frame /\ \E p \in Page : A.pte[p] = l[i]
  BY <1>1 DEF CheckFrames
<1>8. l \in Seq(Frame) /\ Distinct(l)
  BY <1>1 DEF CheckFrames
<1>9. \A i \in 1..Len(l) : l[i] # t /\ l[i] # d
  <2> HIDE DEF A, t, d, l
  <2> QED BY <1>6, <1>7
<1>10. /\ seq \in Seq(Frame) /\ Distinct(seq)
       /\ \A a \in Rest(seq, 0) : a = t \/ a = d \/ \E i \in 1..Len(l) : l[i] = a
  <2> HIDE DEF A, t, d, l
  <2> QED BY <1>2, <1>6, <1>8, <1>9, WithTwo
<1>11. n.pmm = m.store /\ n.pmm \in WA /\ Exact(n.pmm) /\ n.pmm.ok = TRUE
  <2>1. m.store \in WA /\ m.store \in Allocator /\ m.store.ok = TRUE /\ Exact(m.store)
    BY <1>1 DEF CheckFree, Exact, Loose, WA
  <2>2. m.pmm.flags = m.store.flags
    BY <1>1 DEF CheckFree
  <2>3. [m.store EXCEPT !.flags = m.store.flags] = m.store
    BY <2>1 DEF Allocator
  <2> QED BY <2>1, <2>2, <2>3 DEF Ended
<1>12. /\ n.mm \in [Space -> UserSpace \cup {None}]
       /\ \A s \in Space : n.mm[s] = None
  <2>1. n.mm = [m.mm EXCEPT ![check] = None]
    BY DEF Ended
  <2>2. \A s \in Space : n.mm[s] = None
    BY <1>2, <2>1 DEF Space
  <2>3. n.mm = [s \in Space |-> n.mm[s]]
    BY <1>2, <2>1
  <2>4. n.mm \in [Space -> UserSpace \cup {None}]
    BY <2>2, <2>3
  <2> QED BY <2>2, <2>4
<1>13. Typed(n)
  BY <1>1, <1>2, <1>11, <1>12 DEF Typed, CheckTypes, Ended
<1>14. Losing(O, P)
  <2>1. Less(m.mm[check], n.mm[check], check)
    BY <1>2, <1>12 DEF Less, Entry
  <2>2. Moves(m.mm[check], n.mm[check], check, None, None)
    BY <2>1 DEF Less, Moves
  <2>3. \A r \in Space : r # check => n.mm[r] = m.mm[r]
    BY <1>2, <1>12 DEF Space
  <2>4. Taking(Owns(m), Owns(n), None, None)
    <3>1. n.kernel = m.kernel /\ n.kstack = m.kstack
      BY DEF Ended
    <3>2. Fields(n)
      BY <1>13, TypedFields
    <3> QED BY <2>2, <2>3, <3>1, <3>2, OwnsMove
  <2> QED BY <2>4 DEF Taking, Losing
<1>15. \A k \in MapKinds : \A i : <<k, check, i>> \in Slot => P[<<k, check, i>>] = None
  <2>1. \A k \in MapKinds : \A i : <<k, check, i>> \in Slot => P[<<k, check, i>>] = Entry(n.mm[check], k, i)
    BY <1>2, OwnsAt
  <2> QED BY <1>2, <1>12, <2>1 DEF Entry
<1>16. Loses(O, P, Rest(seq, 0))
  <2> HIDE DEF O, P, F, A, t, d, l, seq
  <2>1. "pt" \in MapKinds /\ "pd0" \in MapKinds /\ "pte" \in MapKinds
    BY DEF MapKinds
  <2>2. ASSUME NEW a \in Rest(seq, 0)
        PROVE  a \in Frame /\ \E x \in Slot : O[x] = a /\ P[x] = None
    <3>1. CASE a = t
      BY <1>2, <1>4, <1>5, <1>15, <2>1, <3>1
    <3>2. CASE a = d
      BY <1>2, <1>4, <1>5, <1>15, <2>1, <3>2
    <3>3. CASE \E i \in 1..Len(l) : l[i] = a
      <4>1. PICK p \in Page : A.pte[p] = a /\ a \in Frame
        BY <1>7, <3>3
      <4>2. O[<<"pte", check, p>>] = a /\ P[<<"pte", check, p>>] = None
        BY <1>4, <1>5, <1>15, <2>1, <4>1
      <4> QED BY <1>4, <4>1, <4>2
    <3> QED BY <1>10, <2>2, <3>1, <3>2, <3>3
  <2> QED BY <2>2 DEF Loses
<1>17. Owned(P, F, Rest(seq, 0))
  <2> HIDE DEF O, P, F, seq
  <2> QED BY <1>3, <1>14, <1>16, OwnedLose
<1>18. Sound(n, Rest(seq, 0))
  BY <1>11, <1>13, <1>17 DEF Sound
<1> QED BY <1>10, <1>18

\* The memory is as it must be for the processes.
LEMMA TestsEnd ==
  ASSUME Tested, EndCheck
  PROVE  MemoryInv'
<1>1. PICK Q : Testing(M, Q)
  BY DEF Tested
<1>2. M.pmm.nr_free = 0 /\ M' = check_swap_end /\ proc' = proc
  BY DEF EndCheck
<1>3. Q = {}
  <2>1. IsFiniteSet(Q) /\ Cardinality(Q) = 0
    BY <1>1, <1>2, Frames DEF Testing, CheckFree, ShortList
  <2> QED BY <2>1, FS_EmptySet
<1>4. Testing(M, {}) /\ Rec(M)
  BY <1>1, <1>3 DEF Testing, CheckTypes
<1> DEFINE seq == M.check_rp \o <<M.mm[check].pt[0], M.mm[check].pd0[0]>>
<1>5. PICK n : Ended(M, n) /\ M' = FreeAll(n, seq)
  BY <1>2, <1>4, EndIs
<1>6. seq \in Seq(Frame) /\ Distinct(seq) /\ Sound(n, Rest(seq, 0))
  BY <1>4, <1>5, EndSound
<1> HIDE DEF seq
<1>7. Sound(M', {}) /\ M'.kstack = M.kstack
  BY <1>5, <1>6, FreeAllFine DEF Ended
<1>8. Running'
  BY <1>2, <1>7 DEF Running, Tested
<1> QED BY <1>8 DEF MemoryInv

\* The invariant is inductive.
LEMMA MemoryNext ==
  ASSUME MemoryInv, [Bounded /\ Next]_vars
  PROVE  MemoryInv'
<1>1. CASE UNCHANGED vars
  <2>1. M' = M /\ proc' = proc
    BY <1>1 DEF vars
  <2>2. CASE ~M.ok
    BY <2>1, <2>2 DEF MemoryInv
  <2>3. CASE Tested
    <3>1. Tested'
      BY <2>1, <2>3 DEF Tested
    <3> QED BY <3>1 DEF MemoryInv
  <2>4. CASE Running
    <3>1. Running'
      BY <2>1, <2>4 DEF Running
    <3> QED BY <3>1 DEF MemoryInv
  <2> QED BY <2>2, <2>3, <2>4 DEF MemoryInv
<1>2. CASE Next
  <2>1. M.ok /\ Step
    BY <1>2 DEF Next
  <2>2. CASE Tested
    <3>1. Checking
      BY <2>2, TestsChecking
    <3>2. CASE EndCheck
      BY <2>2, <3>2, TestsEnd
    <3>3. CASE \E s \in Space, p \in Page : PageFault(s, p)
      BY <2>2, <3>3, TestsPageFault
    <3>4. CASE \E s \in Space, p \in Written, v \in Value : Store(s, p, v)
      BY <2>2, <3>4, TestsStore
    <3> QED BY <2>1, <3>1, <3>2, <3>3, <3>4 DEF Step, Fork, Exec, Exit, Wait, slob_new_page
  <2>3. CASE Running
    <3>1. ~Checking
      BY <2>3 DEF Running, Sound, Typed, Checking
    <3>2. SUFFICES Running'
      BY DEF MemoryInv
    <3>3. CASE \E s \in Space, p \in Page : PageFault(s, p)
      BY <2>1, <2>3, <3>3, RunsPageFault
    <3>4. CASE \E s \in Space, p \in Written, v \in Value : Store(s, p, v)
      BY <2>1, <2>3, <3>4, RunsStore
    <3>5. CASE \E p, q \in Proc : Fork(p, q)
      BY <2>1, <2>3, <3>5, RunsFork
    <3>6. CASE \E p \in Proc, img \in Images : Exec(p, img)
      BY <2>1, <2>3, <3>6, RunsExec
    <3>7. CASE \E p \in Proc : Exit(p) \/ Wait(p)
      BY <2>1, <2>3, <3>7, RunsExit, RunsWait
    <3>8. CASE slob_new_page
      BY <2>1, <2>3, <3>8, RunsSlob
    <3> QED BY <2>1, <3>1, <3>3, <3>4, <3>5, <3>6, <3>7, <3>8 DEF Step, EndCheck
  <2> QED BY <2>1, <2>2, <2>3 DEF MemoryInv
<1> QED BY <1>1, <1>2

-----------------------------------------------------------------------------
(***************************************************************************)
(* The boot, up to check_swap.                                             *)
(***************************************************************************)
\* Only check has an address space, with the area of check_swap and no page.
BootSpace(A) ==
  /\ A \in AddressSpace /\ A.areas = <<CheckArea>> /\ \A p \in Page : A.pte[p] = None

BootTypes(m) ==
  /\ Rec(m) /\ m.ok = TRUE
  /\ m.kernel \in SUBSET Frame
  /\ m.kstack \in [Proc -> KFrame \cup {None}]
  /\ m.mm \in [Space -> AddressSpace \cup {None}]
  /\ \A s \in Proc : m.mm[s] = None
  /\ BootSpace(m.mm[check]) /\ m.pra_list = <<>>

\* The boot has frames R in its hands, and k are free at least.
Boot(m, R, k) ==
  /\ BootTypes(m)
  /\ Exact(m.pmm) /\ m.pmm.ok = TRUE /\ m.pmm.nr_free >= k
  /\ Owned(Owns(m), FreeOf(m.pmm), R)

\* What alloc_page finds: the free frame with the least address.
BootTakes(m, R, k, a, f) ==
  /\ a \in Frame /\ a \in FreeOf(m.pmm) /\ Exact(f) /\ f.ok = TRUE /\ f.nr_free >= k
  /\ FreeOf(f) = FreeOf(m.pmm) \ {a} /\ \A b \in FreeOf(f) : a < b
  /\ Owned(Owns(m), FreeOf(f), R \cup {a}) /\ a \notin R

\* The first frame of an exact list is the least free one.
LEMMA LeastFree ==
  ASSUME NEW f, Exact(f), f.nr_free # 0
  PROVE  LET a == Found(f, 1) IN
         /\ a \in f.flags /\ \A b \in FreeOf(f) : a <= b
<1> DEFINE a == Found(f, 1)
           k == 1
<1>1. Loose(f) /\ f.flags \in SUBSET Frame
  BY FreeFacts DEF Exact
<1>2. a \in f.flags
  BY <1>1, FindsOne
<1>3. \A b \in f.flags : f.property[b] >= k => a <= b
  <2>1. a = Found(f, k) /\ k \in Nat /\ a \in Frame
    BY <1>1, <1>2
  <2> HIDE DEF a, k
  <2> QED BY <1>1, <2>1, FoundIs
<1>4. \A b \in f.flags : f.property[b] >= 1
  BY <1>1 DEF Loose
<1> HIDE DEF a
<1>5. ASSUME NEW b \in FreeOf(f) PROVE a <= b
  <2>1. PICK c \in f.flags : b \in c..c + f.property[c] - 1
    BY DEF FreeOf
  <2>2. a <= c /\ c \in Int /\ a \in Int
    BY <1>1, <1>2, <1>3, <1>4, FrameNat
  <2> QED BY <2>1, <2>2
<1> QED BY <1>2, <1>5 DEF a

\* alloc_page while the kernel boots.
LEMMA BootTaken ==
  ASSUME NEW m, NEW R, NEW k \in Nat, NEW j, j = k + 1, Boot(m, R, j)
  PROVE  /\ Ready(m) = m
         /\ BootTakes(m, R, k, Found(m.pmm, 1), Taken(m.pmm, Found(m.pmm, 1), 1))
<1> DEFINE f == m.pmm
           a == Found(f, 1)
           n == 1
           g == Taken(f, a, n)
           O == Owns(m)
<1>1. Exact(f) /\ Loose(f) /\ f.ok = TRUE /\ f.nr_free >= k + 1 /\ Owned(O, FreeOf(f), R)
  BY DEF Boot, Exact
<1>2. f.nr_free \in Nat /\ f.flags \in SUBSET Frame /\ f.flags \in SUBSET FreeOf(f)
      /\ f \in WA /\ FreeOf(f) \in SUBSET Frame
  BY <1>1, FreeFacts DEF Loose
<1>3. f.nr_free # 0
  BY <1>1, <1>2
<1>4. a \in f.flags /\ \A b \in FreeOf(f) : a <= b
  BY <1>1, <1>3, LeastFree
<1>5. Ready(m) = m
  BY <1>3 DEF Ready
<1> HIDE DEF a, f, O
<1>6. a \in Frame /\ n \in Nat /\ n >= 1 /\ f.property[a] >= n
  BY <1>1, <1>2, <1>4 DEF Loose
<1>7. a..a + n - 1 = {a}
  BY <1>6, FrameNat
<1> HIDE DEF n
<1>8. Exact(g) /\ g.ok = f.ok /\ FreeOf(g) = FreeOf(f) \ (a..a + n - 1)
  BY <1>1, <1>4, <1>6, TakenExact
<1>9. g.nr_free = f.nr_free - n
  BY <1>2, <1>6, TakenIs
<1>10. g.nr_free >= k
  BY <1>1, <1>2, <1>9 DEF n
<1>11. FreeOf(g) = FreeOf(f) \ {a}
  BY <1>7, <1>8
<1>12. \A b \in FreeOf(g) : a < b
  BY <1>2, <1>4, <1>6, <1>11, FrameNat
<1>13. Owned(O, FreeOf(g), R \cup {a}) /\ a \notin R
  <2> DEFINE S == {a}
             F == FreeOf(f)
  <2>1. S \in SUBSET F /\ FreeOf(g) = F \ S
    BY <1>2, <1>4, <1>11
  <2> HIDE DEF S, F
  <2>2. Owned(O, F, R)
    BY <1>1 DEF F
  <2>3. Owned(O, F \ S, R \cup S)
    BY <2>1, <2>2, OwnedGrab
  <2>4. a \notin R
    BY <1>2, <1>4, <2>2 DEF Owned, F
  <2> QED BY <2>1, <2>3, <2>4 DEF S
<1> HIDE DEF g
<1>14. BootTakes(m, R, k, a, g)
  <2>1. a \in FreeOf(m.pmm)
    BY <1>2, <1>4 DEF f
  <2> QED BY <1>1, <1>6, <1>8, <1>10, <1>11, <1>12, <1>13, <2>1 DEF BootTakes, f, O
<1> QED BY <1>5, <1>14 DEF g, a, f, n

\* n is m with A as the address space of the check and another free list.
BootRemaps(m, n, A, f) ==
  /\ Rec(n) /\ n.pmm = f /\ n.ok = m.ok /\ n.kernel = m.kernel /\ n.kstack = m.kstack
  /\ n.check_rp = m.check_rp /\ n.pra_list = m.pra_list /\ n.mm = [m.mm EXCEPT ![check] = A]

\* An entry of the check gets the frame.
LEMMA BootPut ==
  ASSUME NEW m, BootTypes(m), NEW k, NEW a, NEW f, BootTakes(m, {}, k, a, f),
         NEW A, BootSpace(A), NEW n, BootRemaps(m, n, A, f),
         NEW c, Moves(m.mm[check], A, check, c, a)
  PROVE  Boot(n, {}, k) /\ n.mm[check] = A
<1>1. check \in Space /\ check \notin Proc /\ \A s \in Proc : s \in Space
  BY MemoryAssumption DEF Space
<1>2. m.mm \in [Space -> AddressSpace \cup {None}] /\ A \in AddressSpace
  BY DEF BootTypes, BootSpace
<1>3. n.mm = [m.mm EXCEPT ![check] = A] /\ n.pmm = f
  BY DEF BootRemaps
<1>4. /\ n.mm \in [Space -> AddressSpace \cup {None}] /\ n.mm[check] = A
      /\ \A r \in Space : r # check => n.mm[r] = m.mm[r]
  BY <1>1, <1>2, <1>3
<1>5. \A s \in Proc : n.mm[s] = None
  BY <1>1, <1>4 DEF BootTypes
<1>6. BootTypes(n)
  BY <1>4, <1>5 DEF BootTypes, BootRemaps
<1> DEFINE O == Owns(m)
           P == Owns(n)
           F == FreeOf(f)
           R == {} \cup {a}
<1>7. Taking(O, P, c, a)
  <2>1. n.kernel = m.kernel /\ n.kstack = m.kstack
    BY DEF BootRemaps
  <2>2. Fields(n)
    BY <1>6 DEF Fields, BootTypes
  <2> QED BY <1>4, <2>1, <2>2, OwnsMove
<1>8. Owned(O, F, R) /\ a \in R /\ R \ {a} = {}
  BY DEF BootTakes
<1> HIDE DEF O, P, F, R
<1>9. Owned(P, F, R \ {a})
  BY <1>7, <1>8, OwnedPut
<1>10. Owned(Owns(n), FreeOf(n.pmm), {})
  BY <1>3, <1>8, <1>9 DEF P, F
<1>11. Boot(n, {}, k)
  BY <1>3, <1>6, <1>10 DEF Boot, BootTakes
<1> QED BY <1>4, <1>11

\* The pages of the check are in the first table.
LEMMA CheckNumbers == /\ 1 \in Page /\ Tab(1) = 0 /\ Dir(0) = 0 /\ 0 \in Tabs /\ 0 \in Dirs
<1>1. 1 \in PagesOf(CheckArea)
  BY MemoryAssumption DEF PagesOf, CheckArea
<1> QED BY <1>1, CheckPage

\* get_pte gives check a directory
LEMMA BootDir ==
  ASSUME NEW m, NEW k \in Nat, NEW j, j = k + 1, Boot(m, {}, j), m.mm[check].pd0[0] = None
  PROVE  LET n == WithDir(m, check, 0) IN
         /\ Boot(n, {}, k) /\ n.mm[check].pd0[0] \in Frame
         /\ n.mm[check].pt = m.mm[check].pt /\ n.kstack = m.kstack /\ n.check_rp = m.check_rp
<1> DEFINE f == m.pmm
           a == Found(f, 1)
           g == Taken(f, a, 1)
           z == 0
           B == m.mm[check]
           A == [B EXCEPT !.pd0[z] = a]
           r == [m EXCEPT !.pmm = g]
           n == [r EXCEPT !.mm[check].pd0[z] = a]
           w == WithDir(m, check, 0)
<1>1. Ready(m) = m /\ BootTakes(m, {}, k, a, g)
  BY BootTaken
<1>2. a \in Frame /\ m.ok = TRUE /\ Rec(m) /\ B \in AddressSpace /\ BootTypes(m) /\ BootSpace(B)
      /\ m.mm \in [Space -> AddressSpace \cup {None}]
  BY <1>1 DEF Boot, BootTypes, BootTakes, BootSpace
<1>3. w = n
  <2>1. w = [[m EXCEPT !.pmm = Taken(@, a, 1)] EXCEPT !.mm[check].pd0[0] = a]
    BY <1>1, <1>2 DEF WithDir, alloc_page, Then
  <2> QED BY <2>1
<1>z. z \in Dirs
  BY CheckNumbers
<1> HIDE DEF f, a, g, w
<1>4. /\ Rec(r) /\ r.pmm = g /\ r.ok = m.ok /\ r.kernel = m.kernel /\ r.kstack = m.kstack
      /\ r.mm = m.mm /\ r.check_rp = m.check_rp /\ r.pra_list = m.pra_list
  BY <1>2 DEF Rec
<1>5. z = 0
  OBVIOUS
<1> HIDE DEF r, z
<1>6. /\ Rec(n) /\ n.pmm = g /\ n.ok = m.ok /\ n.kernel = m.kernel /\ n.kstack = m.kstack
      /\ n.mm = [m.mm EXCEPT ![check] = A] /\ n.check_rp = m.check_rp /\ n.pra_list = m.pra_list
  <2>1. /\ Rec(n) /\ n.pmm = r.pmm /\ n.ok = r.ok /\ n.kernel = r.kernel /\ n.kstack = r.kstack
        /\ n.mm = [r.mm EXCEPT ![check].pd0[z] = a] /\ n.check_rp = r.check_rp
        /\ n.pra_list = r.pra_list
    BY <1>4 DEF Rec
  <2> HIDE DEF n
  <2> QED BY <1>4, <2>1
<1> HIDE DEF n, B
<1>7. /\ A \in AddressSpace /\ A.areas = B.areas /\ A.pt = B.pt /\ A.pte = B.pte
      /\ A.pd0 = [B.pd0 EXCEPT ![z] = a] /\ Moves(B, A, check, <<"pd0", check, z>>, a)
  BY <1>2, <1>z, AnyPd0
<1>8. A.pd0[z] = a
  BY <1>2, <1>7, <1>z, AnySpace
<1> HIDE DEF A
<1>9. BootSpace(A)
  BY <1>2, <1>7 DEF BootSpace
<1>10. BootRemaps(m, n, A, g)
  BY <1>6 DEF BootRemaps
<1>11. Boot(n, {}, k) /\ n.mm[check] = A
  BY <1>1, <1>2, <1>7, <1>9, <1>10, BootPut DEF B
<1>12. /\ Boot(w, {}, k) /\ w.mm[check].pd0[0] \in Frame
       /\ w.mm[check].pt = m.mm[check].pt /\ w.kstack = m.kstack /\ w.check_rp = m.check_rp
  BY <1>2, <1>3, <1>5, <1>6, <1>7, <1>8, <1>11 DEF B
<1> QED BY <1>12 DEF w

\* and a table.
LEMMA BootTable ==
  ASSUME NEW m, NEW k \in Nat, NEW j, j = k + 1, Boot(m, {}, j), m.mm[check].pt[0] = None
  PROVE  LET n == WithTable(m, check, 0) IN
         /\ Boot(n, {}, k) /\ n.mm[check].pt[0] \in Frame
         /\ n.mm[check].pd0 = m.mm[check].pd0 /\ n.kstack = m.kstack /\ n.check_rp = m.check_rp
<1> DEFINE f == m.pmm
           a == Found(f, 1)
           g == Taken(f, a, 1)
           z == 0
           B == m.mm[check]
           A == [B EXCEPT !.pt[z] = a]
           r == [m EXCEPT !.pmm = g]
           n == [r EXCEPT !.mm[check].pt[z] = a]
           w == WithTable(m, check, 0)
<1>1. Ready(m) = m /\ BootTakes(m, {}, k, a, g)
  BY BootTaken
<1>2. a \in Frame /\ m.ok = TRUE /\ Rec(m) /\ B \in AddressSpace /\ BootTypes(m) /\ BootSpace(B)
      /\ m.mm \in [Space -> AddressSpace \cup {None}]
  BY <1>1 DEF Boot, BootTypes, BootTakes, BootSpace
<1>3. w = n
  <2>1. w = [[m EXCEPT !.pmm = Taken(@, a, 1)] EXCEPT !.mm[check].pt[0] = a]
    BY <1>1, <1>2 DEF WithTable, alloc_page, Then
  <2> QED BY <2>1
<1>z. z \in Tabs
  BY CheckNumbers
<1> HIDE DEF f, a, g, w
<1>4. /\ Rec(r) /\ r.pmm = g /\ r.ok = m.ok /\ r.kernel = m.kernel /\ r.kstack = m.kstack
      /\ r.mm = m.mm /\ r.check_rp = m.check_rp /\ r.pra_list = m.pra_list
  BY <1>2 DEF Rec
<1>5. z = 0
  OBVIOUS
<1> HIDE DEF r, z
<1>6. /\ Rec(n) /\ n.pmm = g /\ n.ok = m.ok /\ n.kernel = m.kernel /\ n.kstack = m.kstack
      /\ n.mm = [m.mm EXCEPT ![check] = A] /\ n.check_rp = m.check_rp /\ n.pra_list = m.pra_list
  <2>1. /\ Rec(n) /\ n.pmm = r.pmm /\ n.ok = r.ok /\ n.kernel = r.kernel /\ n.kstack = r.kstack
        /\ n.mm = [r.mm EXCEPT ![check].pt[z] = a] /\ n.check_rp = r.check_rp
        /\ n.pra_list = r.pra_list
    BY <1>4 DEF Rec
  <2> HIDE DEF n
  <2> QED BY <1>4, <2>1
<1> HIDE DEF n, B
<1>7. /\ A \in AddressSpace /\ A.areas = B.areas /\ A.pd0 = B.pd0 /\ A.pte = B.pte
      /\ A.pt = [B.pt EXCEPT ![z] = a] /\ Moves(B, A, check, <<"pt", check, z>>, a)
  BY <1>2, <1>z, AnyPt
<1>8. A.pt[z] = a
  BY <1>2, <1>7, <1>z, AnySpace
<1> HIDE DEF A
<1>9. BootSpace(A)
  BY <1>2, <1>7 DEF BootSpace
<1>10. BootRemaps(m, n, A, g)
  BY <1>6 DEF BootRemaps
<1>11. Boot(n, {}, k) /\ n.mm[check] = A
  BY <1>1, <1>2, <1>7, <1>9, <1>10, BootPut DEF B
<1>12. /\ Boot(w, {}, k) /\ w.mm[check].pt[0] \in Frame
       /\ w.mm[check].pd0 = m.mm[check].pd0 /\ w.kstack = m.kstack /\ w.check_rp = m.check_rp
  BY <1>2, <1>3, <1>5, <1>6, <1>7, <1>8, <1>11 DEF B
<1> QED BY <1>12 DEF w

\* check_swap has taken i of K frames, in the order of addresses; the free ones are behind.
Took(b, n, i, K) ==
  /\ Boot(n, Rest(n.check_rp, 0), K - i)
  /\ n.check_rp \in Seq(Frame) /\ Len(n.check_rp) = i /\ Sorted(n.check_rp)
  /\ \A x \in Rest(n.check_rp, 0) : \A y \in FreeOf(n.pmm) : x < y
  /\ n.mm = b.mm /\ n.kstack = b.kstack

\* One more frame.
LEMMA TakeStep ==
  ASSUME NEW b, NEW n, NEW K \in Nat, NEW i \in Nat, i + 1 <= K, Took(b, n, i, K),
         NEW x, NEW w, w = TakeFrame(n, x)
  PROVE  Took(b, w, i + 1, K)
<1> DEFINE l == n.check_rp
           R == Rest(l, 0)
           a == Found(n.pmm, 1)
           g == Taken(n.pmm, a, 1)
           q == Append(l, a)
           r == [n EXCEPT !.pmm = g]
           v == [r EXCEPT !.check_rp = q]
           k == K - (i + 1)
           j == K - i
<1>1. Boot(n, R, j) /\ k \in Nat /\ j = k + 1 /\ l \in Seq(Frame) /\ Len(l) = i /\ Sorted(l)
  BY DEF Took
<1> HIDE DEF k, j
<1>2. Ready(n) = n /\ BootTakes(n, R, k, a, g)
  BY <1>1, BootTaken
<1>3. a \in Frame /\ n.ok = TRUE /\ Rec(n) /\ BootTypes(n)
  BY <1>1, <1>2 DEF Boot, BootTypes, BootTakes
<1>4. w = v
  <2>1. w = [[n EXCEPT !.pmm = Taken(@, a, 1)] EXCEPT !.check_rp = Append(@, a)]
    BY <1>2, <1>3 DEF TakeFrame, alloc_page, Then
  <2>2. r.check_rp = n.check_rp
    BY <1>3 DEF Rec
  <2> QED BY <2>1, <2>2
<1>5. /\ q \in Seq(Frame) /\ Len(q) = i + 1 /\ q[i + 1] = a
      /\ \A y \in 1..i : q[y] = l[y]
  BY <1>1, <1>3
<1>6. \A y \in 1..i + 1 : y \in 1..i \/ y = i + 1
  OBVIOUS
<1> HIDE DEF a, g, q
<1>7. /\ Rec(r) /\ r.pmm = g /\ r.ok = n.ok /\ r.kernel = n.kernel /\ r.kstack = n.kstack
      /\ r.mm = n.mm /\ r.pra_list = n.pra_list
  BY <1>3 DEF Rec
<1> HIDE DEF r
<1>8. /\ Rec(v) /\ v.pmm = g /\ v.ok = n.ok /\ v.kernel = n.kernel /\ v.kstack = n.kstack
      /\ v.mm = n.mm /\ v.pra_list = n.pra_list /\ v.check_rp = q
  BY <1>7 DEF Rec
<1> HIDE DEF v
<1>9. BootTypes(v)
  BY <1>3, <1>8 DEF BootTypes
<1>10. Rest(q, 0) = R \cup {a}
  <2>1. ASSUME NEW y \in Rest(q, 0) PROVE y \in R \cup {a}
    <3>1. PICK z \in 0 + 1..Len(q) : y = q[z]
      BY DEF Rest
    <3>2. z \in 1..i \/ z = i + 1
      BY <1>5, <1>6, <3>1
    <3> QED BY <1>1, <1>5, <3>1, <3>2 DEF Rest
  <2>2. ASSUME NEW y \in R PROVE y \in Rest(q, 0)
    <3>1. PICK z \in 0 + 1..Len(l) : y = l[z]
      BY DEF Rest
    <3>2. z \in 1..i /\ z \in 0 + 1..Len(q)
      BY <1>1, <1>5, <3>1
    <3> QED BY <1>5, <3>1, <3>2 DEF Rest
  <2>3. a \in Rest(q, 0)
    <3>1. i + 1 \in 0 + 1..Len(q)
      BY <1>5
    <3> QED BY <1>5, <3>1 DEF Rest
  <2> QED BY <2>1, <2>2, <2>3
<1>11. Owns(v) = Owns(n)
  BY <1>8, OwnsSame
<1>12. Boot(v, Rest(q, 0), k)
  BY <1>2, <1>8, <1>9, <1>10, <1>11 DEF Boot, BootTakes
<1>13. \A y \in R : \A z \in FreeOf(n.pmm) : y < z
  BY DEF Took
<1>14. a \in FreeOf(n.pmm) /\ FreeOf(g) = FreeOf(n.pmm) \ {a} /\ \A z \in FreeOf(g) : a < z
  BY <1>2 DEF BootTakes
<1> HIDE DEF R
<1>15. \A y \in Rest(q, 0) : \A z \in FreeOf(v.pmm) : y < z
  BY <1>8, <1>10, <1>13, <1>14
<1>16. Sorted(q)
  <2>1. ASSUME NEW y \in 1..Len(q), NEW z \in 1..Len(q), y < z PROVE q[y] < q[z]
    <3>1. y \in 1..i
      BY <1>1, <1>5, <2>1
    <3>2. l[y] \in R
      BY <1>1, <3>1 DEF Rest, R
    <3>3. CASE z = i + 1
      BY <1>5, <1>13, <1>14, <3>1, <3>2, <3>3
    <3>4. CASE z \in 1..i
      BY <1>1, <1>5, <2>1, <3>1, <3>4 DEF Sorted
    <3> QED BY <1>5, <1>6, <3>3, <3>4
  <2> QED BY <2>1 DEF Sorted
<1>17. v.mm = b.mm /\ v.kstack = b.kstack
  BY <1>8 DEF Took
<1>18. Took(b, v, i + 1, K)
  BY <1>5, <1>8, <1>12, <1>15, <1>16, <1>17 DEF Took, k
<1> QED BY <1>4, <1>18

TakeAll(m) == ForEach(m, Numbers(1, CHECK_VALID_PHY_PAGE_NUM), TakeFrame)

\* check_swap takes its frames in a loop as above.
LEMMA TakeRuns ==
  ASSUME NEW m
  PROVE  LET seq == Numbers(1, CHECK_VALID_PHY_PAGE_NUM) IN
         \E g : Runs("take", m, m, m, m, seq, g) /\ TakeAll(m) = g[Len(seq)]
<1> DEFINE seq == Numbers(1, CHECK_VALID_PHY_PAGE_NUM)
           Eq(g) == g = [i \in 0..Len(seq) |->
                           IF i = 0 THEN m
                           ELSE IF g[i - 1].ok THEN TakeFrame(g[i - 1], seq[i]) ELSE g[i - 1]]
           c == CHOOSE g : Eq(g)
<1>1. \A g : Runs("take", m, m, m, m, seq, g) <=> Eq(g)
  BY DEF Runs, Turn, Stepped
<1>4. Len(seq) \in Nat
  BY MemoryAssumption, NumbersIs
<1>2. Eq(c)
  BY <1>1, <1>4, RunsExist
<1>3. TakeAll(m) = c[Len(seq)]
  BY DEF TakeAll, ForEach
<1> HIDE DEF c
<1> QED BY <1>1, <1>2, <1>3

\* It gets them all.
LEMMA TakeAllFine ==
  ASSUME NEW m, Boot(m, {}, CHECK_VALID_PHY_PAGE_NUM), m.check_rp = <<>>
  PROVE  Took(m, TakeAll(m), CHECK_VALID_PHY_PAGE_NUM, CHECK_VALID_PHY_PAGE_NUM)
<1> DEFINE K == CHECK_VALID_PHY_PAGE_NUM
           seq == Numbers(1, K)
           n == TakeAll(m)
<1>0. K \in Nat
  BY MemoryAssumption
<1>1. PICK g : Runs("take", m, m, m, m, seq, g) /\ n = g[Len(seq)]
  BY TakeRuns
<1>2. Len(seq) = K
  <2> DEFINE a == 1
             S == Nat
  <2>1. a \in Nat /\ K \in Int /\ a <= K + 1 /\ (\A i \in a..K : i \in S) /\ K - a + 1 = K
    BY <1>0
  <2>2. seq = Numbers(a, K)
    OBVIOUS
  <2> HIDE DEF a, S, seq, K
  <2> QED BY <2>1, <2>2, NumbersIs
<1> HIDE DEF n, seq, K
<1> DEFINE D == {i \in Nat : i <= K => Took(m, g[i], i, K)}
<1>a. \A i \in 0..K : g[i] = IF i = 0 THEN m ELSE Turn("take", m, m, m, g[i - 1], seq[i])
  BY <1>1, <1>2 DEF Runs
<1>3. 0 \in D
  <2>1. g[0] = m
    BY <1>0, <1>a
  <2> DEFINE l == <<>>
             E == {}
             z == 0
  <2>2. m.check_rp = l /\ l \in Seq(Frame) /\ Len(l) = z /\ K - z = K
    BY <1>0
  <2>3. Rest(l, 0) = E /\ Sorted(l) /\ \A x \in E : FALSE
    BY DEF Rest, Sorted
  <2>4. Boot(m, E, K)
    BY DEF K
  <2>5. z = 0
    OBVIOUS
  <2> HIDE DEF l, E, z
  <2>6. Took(m, m, z, K)
    BY <2>2, <2>3, <2>4 DEF Took
  <2> QED BY <2>1, <2>5, <2>6
<1>4. ASSUME NEW i \in Nat, i \in D PROVE i + 1 \in D
  <2> SUFFICES ASSUME i + 1 <= K PROVE Took(m, g[i + 1], i + 1, K)
    OBVIOUS
  <2> DEFINE r == g[i]
             x == seq[i + 1]
             w == TakeFrame(r, x)
  <2>1. Took(m, r, i, K)
    BY <1>0, <1>4
  <2>2. r.ok = TRUE
    BY <2>1 DEF Took, Boot, BootTypes
  <2>3. g[i + 1] = w
    <3>1. i + 1 \in 0..K /\ i + 1 # 0 /\ (i + 1) - 1 = i
      BY <1>0
    <3> QED BY <1>a, <2>2, <3>1 DEF Turn, Stepped
  <2> HIDE DEF r, x
  <2>4. Took(m, w, i + 1, K)
    BY <1>0, <2>1, TakeStep
  <2> QED BY <2>3, <2>4
<1> HIDE DEF D
<1>5. Nat \subseteq D
  BY <1>3, <1>4, SetInduction
<1>6. Took(m, n, K, K)
  BY <1>0, <1>1, <1>2, <1>5 DEF D
<1> QED BY <1>6 DEF n, K

-----------------------------------------------------------------------------
\* check_swap gives its frames to an empty list, as b was: it has given i of them.
Upto(l, i) == {l[j] : j \in 1..i}

Given(b, n, i) ==
  \/ n.ok = FALSE
  \/ /\ Rec(n) /\ n.ok = TRUE /\ n.kernel = b.kernel /\ n.kstack = b.kstack /\ n.mm = b.mm
     /\ n.store = b.pmm /\ n.check_rp = b.check_rp /\ n.pra_list = b.pra_list
     /\ ShortList(n.pmm, Upto(b.check_rp, i)) /\ n.pmm.ok = TRUE
     /\ n.pmm.flags = b.pmm.flags \cup Upto(b.check_rp, i)

\* One more frame.
LEMMA GiveStep ==
  ASSUME NEW b, b.check_rp \in Seq(Frame), Sorted(b.check_rp), NEW n, NEW i \in Nat,
         i + 1 <= Len(b.check_rp), Given(b, n, i), n.ok = TRUE
  PROVE  Given(b, free_pages(n, b.check_rp[i + 1], 1), i + 1)
<1> DEFINE l == b.check_rp
           a == l[i + 1]
           Q == Upto(l, i)
           k == 1
           w == free_pages(n, a, 1)
<1>1. l \in Seq(Frame) /\ Sorted(l) /\ Len(l) \in Nat /\ i + 1 \in 1..Len(l)
  OBVIOUS
<1>2. a \in Frame /\ \A j \in 1..i : j \in 1..Len(l) /\ j < i + 1
  BY <1>1
<1>3. \A x \in Q : x < a
  BY <1>1, <1>2 DEF Sorted, Upto
<1>4. a \notin Q
  BY <1>2, <1>3, FrameNat
<1>5. Upto(l, i + 1) = Q \cup {a}
  <2>1. \A j \in 1..i + 1 : j \in 1..i \/ j = i + 1
    OBVIOUS
  <2>2. (\A j \in 1..i : j \in 1..i + 1) /\ i + 1 \in 1..i + 1
    OBVIOUS
  <2> QED BY <2>1, <2>2 DEF Upto
<1> HIDE DEF a, Q, l
<1>6. /\ Rec(n) /\ n.ok = TRUE /\ n.kernel = b.kernel /\ n.kstack = b.kstack /\ n.mm = b.mm
      /\ n.store = b.pmm /\ n.check_rp = b.check_rp /\ n.pra_list = b.pra_list
      /\ ShortList(n.pmm, Q) /\ n.pmm.ok = TRUE /\ n.pmm.flags = b.pmm.flags \cup Q
  BY DEF Given, l, Q
<1>7. PutBack(n, w, a)
  BY <1>6, PutBackIs
<1>8. Appends(n.pmm, Q, a, w.pmm)
  <2>1. w.pmm = Freed(n.pmm, a, k) /\ k = 1
    BY <1>7 DEF PutBack
  <2> HIDE DEF k, w
  <2>2. Appends(n.pmm, Q, a, Freed(n.pmm, a, k))
    BY <1>2, <1>3, <1>4, <1>6, <2>1, ShortFreed
  <2> QED BY <2>1, <2>2
<1> HIDE DEF w
<1>9. Given(b, w, i + 1)
  <2>1. CASE w.pmm.ok = FALSE
    BY <1>7, <2>1 DEF Given, PutBack
  <2>2. CASE w.pmm.ok # FALSE
    <3>1. /\ w.pmm.ok = TRUE /\ ShortList(w.pmm, Q \cup {a})
          /\ w.pmm.flags = n.pmm.flags \cup {a}
      BY <1>8, <2>2 DEF Appends
    <3>2. w.pmm.flags = b.pmm.flags \cup (Q \cup {a})
      BY <1>6, <3>1
    <3>3. Upto(b.check_rp, i + 1) = Q \cup {a}
      BY <1>5 DEF l
    <3> QED BY <1>6, <1>7, <3>1, <3>2, <3>3 DEF Given, PutBack
  <2> QED BY <2>1, <2>2
<1> QED BY <1>9 DEF w, a, l

\* It gives them all.
LEMMA GiveAllFine ==
  ASSUME NEW b, b.check_rp \in Seq(Frame), Sorted(b.check_rp), NEW m, Given(b, m, 0)
  PROVE  Given(b, FreeAll(m, b.check_rp), Len(b.check_rp))
<1> DEFINE seq == b.check_rp
           n == FreeAll(m, seq)
<1>1. PICK g : Runs("free", m, m, m, m, seq, g) /\ n = g[Len(seq)]
  BY FreeRuns
<1> HIDE DEF n
<1> DEFINE K == {i \in Nat : i <= Len(seq) => Given(b, g[i], i)}
<1>0. Len(seq) \in Nat
  OBVIOUS
<1>a. \A i \in 0..Len(seq) : g[i] = IF i = 0 THEN m ELSE Turn("free", m, m, m, g[i - 1], seq[i])
  BY <1>1 DEF Runs
<1>2. 0 \in K
  <2>1. g[0] = m
    BY <1>0, <1>a
  <2> QED BY <2>1
<1>3. ASSUME NEW i \in Nat, i \in K PROVE i + 1 \in K
  <2> SUFFICES ASSUME i + 1 <= Len(seq) PROVE Given(b, g[i + 1], i + 1)
    OBVIOUS
  <2> DEFINE r == g[i]
             h == free_pages(r, seq[i + 1], 1)
  <2>1. Given(b, r, i)
    BY <1>0, <1>3
  <2>2. g[i + 1] = IF r.ok THEN h ELSE r
    <3>1. i + 1 \in 0..Len(seq) /\ i + 1 # 0 /\ (i + 1) - 1 = i
      BY <1>0
    <3> QED BY <1>a, <3>1 DEF Turn, Stepped
  <2> HIDE DEF r
  <2>4. CASE r.ok = TRUE
    <3>1. Given(b, h, i + 1)
      BY <2>1, <2>4, GiveStep
    <3> HIDE DEF h
    <3> QED BY <2>2, <2>4, <3>1
  <2>5. CASE r.ok = FALSE
    <3> HIDE DEF h
    <3> QED BY <2>2, <2>5 DEF Given
  <2> QED BY <2>1, <2>4, <2>5 DEF Given
<1> HIDE DEF K
<1>4. Nat \subseteq K
  BY <1>2, <1>3, SetInduction
<1>5. Given(b, n, Len(seq))
  BY <1>0, <1>1, <1>4 DEF K
<1> QED BY <1>5 DEF n

\* list_init leaves an empty list.
LEMMA ListInit ==
  ASSUME NEW f, f \in WA
  PROVE  LET g == list_init(f) IN ShortList(g, {}) /\ g.flags = f.flags /\ g.ok = f.ok
<1> DEFINE z == 0
           e == free_list
           nx == [f.next EXCEPT ![e] = e]
           pv == [f.prev EXCEPT ![e] = e]
           g == [f EXCEPT !.next[e] = e, !.prev[e] = e, !.nr_free = z]
           E == {}
<1>1. f \in Allocator /\ \A a \in Frame : a + f.property[a] <= NFrames
  BY DEF WA
<1>2. e \in Link /\ f.next \in [Link -> Link] /\ f.prev \in [Link -> Link] /\ z \in Int
  BY <1>1, AllocatorFields DEF Link
<1>3. nx \in [Link -> Link] /\ pv \in [Link -> Link] /\ nx[e] = e /\ pv[e] = e
  BY <1>2
<1>e. e = free_list
  OBVIOUS
<1>4. g = list_init(f)
  BY DEF list_init
<1> HIDE DEF e, z
<1>5. /\ g \in Allocator /\ g.next = nx /\ g.prev = pv /\ g.property = f.property
      /\ g.flags = f.flags /\ g.nr_free = z /\ g.ok = f.ok
  <2> DEFINE g1 == [f EXCEPT !.next = nx]
             g2 == [g1 EXCEPT !.prev = pv]
             g3 == [g2 EXCEPT !.nr_free = z]
  <2>2. g = g3
    BY <1>1 DEF Allocator
  <2>3. /\ g1 \in Allocator /\ g1.next = nx /\ g1.prev = f.prev /\ g1.property = f.property
        /\ g1.flags = f.flags /\ g1.ok = f.ok
    BY <1>1, <1>3 DEF Allocator
  <2> HIDE DEF g1
  <2>4. /\ g2 \in Allocator /\ g2.next = nx /\ g2.prev = pv /\ g2.property = f.property
        /\ g2.flags = f.flags /\ g2.ok = f.ok
    BY <1>3, <2>3 DEF Allocator
  <2> HIDE DEF g2
  <2>5. /\ g3 \in Allocator /\ g3.next = nx /\ g3.prev = pv /\ g3.property = f.property
        /\ g3.flags = f.flags /\ g3.ok = f.ok /\ g3.nr_free = z
    BY <1>2, <2>4 DEF Allocator
  <2> HIDE DEF g3, g
  <2> QED BY <2>2, <2>5
<1> HIDE DEF g, nx, pv
<1>6. g \in WA
  BY <1>1, <1>5 DEF WA
<1>7. Chained(g.next, E)
  BY <1>3, <1>5, <1>e DEF Chained, After
<1>8. Cardinality(E) = 0
  BY FS_EmptySet
<1>9. ShortList(g, E)
  BY <1>3, <1>5, <1>6, <1>7, <1>8, <1>e DEF ShortList, z
<1> QED BY <1>4, <1>5, <1>9

\* The free list is put aside.
PutAside(b) == [b EXCEPT !.store = b.pmm, !.pmm = list_init(@)]

\* The flags stay as they are.
LEMMA AsideFine ==
  ASSUME NEW m, NEW b, NEW K, Took(m, b, K, K)
  PROVE  Given(b, PutAside(b), 0)
<1> DEFINE l == b.check_rp
           f == b.pmm
           g == list_init(f)
           n1 == [b EXCEPT !.store = f]
           n == [n1 EXCEPT !.pmm = g]
           E == {}
<1>1. BootTypes(b) /\ Exact(f) /\ f.ok = TRUE
  BY DEF Took, Boot
<1>2. f \in WA /\ Rec(b)
  BY <1>1 DEF Exact, Loose, BootTypes
<1>3. ShortList(g, E) /\ g.flags = f.flags /\ g.ok = f.ok
  BY <1>2, ListInit
<1>4. PutAside(b) = n
  BY <1>2 DEF PutAside, Rec
<1> HIDE DEF f, g
<1>5. /\ Rec(n1) /\ n1.ok = b.ok /\ n1.kernel = b.kernel /\ n1.kstack = b.kstack
      /\ n1.mm = b.mm /\ n1.store = f /\ n1.check_rp = b.check_rp /\ n1.pra_list = b.pra_list
  BY <1>2 DEF Rec
<1> HIDE DEF n1
<1>6. /\ Rec(n) /\ n.ok = b.ok /\ n.kernel = b.kernel /\ n.kstack = b.kstack /\ n.pmm = g
      /\ n.mm = b.mm /\ n.store = f /\ n.check_rp = b.check_rp /\ n.pra_list = b.pra_list
  BY <1>5 DEF Rec
<1> HIDE DEF n
<1>7. Upto(l, 0) = E
  BY DEF Upto
<1>8. f.flags = f.flags \cup E
  OBVIOUS
<1> HIDE DEF E
<1>9. Given(b, n, 0)
  BY <1>1, <1>3, <1>6, <1>7, <1>8 DEF Given, BootTypes, f
<1> QED BY <1>4, <1>9

\* Then check_swap begins.
LEMMA GivenTests ==
  ASSUME NEW m, NEW b, Took(m, b, CHECK_VALID_PHY_PAGE_NUM, CHECK_VALID_PHY_PAGE_NUM),
         m.mm[check].pd0[0] \in Frame, m.mm[check].pt[0] \in Frame,
         NEW n, Given(b, n, Len(b.check_rp))
  PROVE  n.ok = FALSE \/ \E Q : Testing(n, Q) /\ n.kstack = m.kstack
<1> DEFINE K == CHECK_VALID_PHY_PAGE_NUM
           l == b.check_rp
           Q == Rest(l, 0)
<1>1. SUFFICES ASSUME n.ok # FALSE PROVE Testing(n, Q) /\ n.kstack = m.kstack
  OBVIOUS
<1>2. /\ BootTypes(b) /\ Exact(b.pmm) /\ b.pmm.ok = TRUE /\ Owned(Owns(b), FreeOf(b.pmm), Q)
      /\ l \in Seq(Frame) /\ Len(l) = K /\ Sorted(l) /\ b.mm = m.mm /\ b.kstack = m.kstack
  BY DEF Took, Boot
<1>3. K \in Nat /\ K >= 1
  BY MemoryAssumption
<1>4. Upto(l, Len(l)) = Q
  <2>1. 1..Len(l) = 0 + 1..Len(l)
    OBVIOUS
  <2> QED BY <2>1 DEF Upto, Rest
<1>5. /\ Rec(n) /\ n.ok = TRUE /\ n.kernel = b.kernel /\ n.kstack = b.kstack /\ n.mm = b.mm
      /\ n.store = b.pmm /\ n.check_rp = l /\ n.pra_list = b.pra_list
      /\ ShortList(n.pmm, Q) /\ n.pmm.ok = TRUE /\ n.pmm.flags = b.pmm.flags \cup Q
  BY <1>1, <1>4 DEF Given
<1>6. CheckTypes(n)
  BY <1>2, <1>5 DEF BootTypes, CheckTypes, BootSpace, CheckSpace
<1>7. CheckFree(n, Q)
  <2> DEFINE O == Owns(b)
             F == FreeOf(b.pmm)
             R == Q
  <2>1. Owns(n) = O
    BY <1>5, OwnsSame
  <2>2. Owned(O, F, R) /\ Q \in SUBSET R /\ R \ Q = {}
    BY <1>2
  <2> HIDE DEF O, F, R, Q
  <2>3. Owned(O, F \cup Q, R \ Q) /\ Q \cap F = {}
    BY <2>2, OwnedReturn
  <2>4. Owned(O, F \cup Q, {}) /\ F \cap Q = {}
    BY <2>2, <2>3
  <2> QED BY <1>2, <1>5, <2>1, <2>4 DEF CheckFree, F
<1>8. CheckFrames(n, Q)
  <2>1. ASSUME NEW i \in 1..Len(l), NEW j \in 1..Len(l), l[i] = l[j] PROVE i = j
    <3>1. \A x \in 1..Len(l) : l[x] \in Int
      BY <1>2, FrameNat
    <3>2. ~(l[i] < l[j]) /\ ~(l[j] < l[i])
      BY <2>1, <3>1
    <3>3. i \in Int /\ j \in Int
      BY <1>2, <1>3
    <3> QED BY <1>2, <3>2, <3>3 DEF Sorted
  <2>2. \A i \in 1..Len(l) : l[i] \in Q
    BY <1>4 DEF Upto
  <2> QED BY <1>2, <1>3, <1>5, <2>1, <2>2 DEF CheckFrames, Distinct
<1>9. CheckFifo(n)
  <2>1. n.pra_list = <<>> /\ \A p \in Page : ~Mapped(n, p)
    BY <1>2, <1>5, NoFrame DEF BootTypes, BootSpace, Mapped
  <2> QED BY <2>1 DEF CheckFifo, Distinct
<1> QED BY <1>2, <1>5, <1>6, <1>7, <1>8, <1>9 DEF Testing

\* The kernel, the stack of initproc and what check_swap needs fit in the memory.
LEMMA Start ==
  LET start == HeapPages + KSTACKPAGE IN
  /\ start \in Frame /\ HeapPages \in Nat /\ KSTACKPAGE \in Nat /\ KSTACKPAGE >= 1
  /\ start \in Nat /\ NFrames - start \in Nat
  /\ NFrames - start >= CHECK_VALID_PHY_PAGE_NUM + 2 /\ CHECK_VALID_PHY_PAGE_NUM \in Nat
  /\ start + (NFrames - start) = NFrames
<1>1. /\ HeapPages \in Nat /\ KSTACKPAGE \in Nat /\ KSTACKPAGE >= 1
      /\ CHECK_VALID_PHY_PAGE_NUM \in Nat /\ NFrames \in Nat
  BY MemoryAssumption, PmmAssumption
<1>2. HeapPages + KSTACKPAGE + 2 + CHECK_VALID_PHY_PAGE_NUM <= NFrames
  BY BootAssumption
<1> QED BY <1>1, <1>2 DEF Frame

\* The list has one block.
LEMMA BootList ==
  ASSUME NEW start \in Frame, NEW k \in Nat, k >= 1, start + k = NFrames
  PROVE  LET f == [list_add(default_init, free_list, start) EXCEPT
                     !.property[start] = k, !.flags = {start}, !.nr_free = k] IN
         Exact(f) /\ f.ok = TRUE /\ f.nr_free = k /\ FreeOf(f) = start..NFrames - 1
<1> DEFINE d == default_init
           e == free_list
           n == d.next[e]
           b == list_add(d, e, start)
           S == {start}
           f1 == [b EXCEPT !.property[start] = k]
           f2 == [f1 EXCEPT !.flags = S]
           f3 == [f2 EXCEPT !.nr_free = k]
           f == [b EXCEPT !.property[start] = k, !.flags = S, !.nr_free = k]
<1>1. /\ d \in Allocator /\ d.next \in [Link -> Link] /\ d.prev \in [Link -> Link]
      /\ d.property \in [Frame -> Nat] /\ (\A a \in Frame : d.property[a] = 0)
      /\ d.ok = TRUE /\ d.tail = FALSE /\ d.next[e] = e
  BY Frames DEF default_init, Allocator
<1>2. e \in Link /\ start \in Link /\ n \in Link /\ n = e /\ e # start
  BY <1>1, Frames DEF Link
<1>3. b = Between(d, start, e, n)
  BY DEF list_add
<1>s. start \in Nat /\ start < NFrames /\ e < start /\ start \in Int /\ NFrames \in Nat
  BY Frames, FrameNat
<1> HIDE DEF d, e, n
<1>4. /\ b \in Allocator
      /\ b.next = [[d.next EXCEPT ![e] = start] EXCEPT ![start] = n]
      /\ b.prev = [[d.prev EXCEPT ![n] = start] EXCEPT ![start] = e]
      /\ b.property = d.property /\ b.ok = d.ok /\ b.tail = d.tail
  <2> DEFINE g == Between(d, start, e, n)
  <2>1. /\ g \in Allocator
        /\ g.next = [[d.next EXCEPT ![e] = start] EXCEPT ![start] = n]
        /\ g.prev = [[d.prev EXCEPT ![n] = start] EXCEPT ![start] = e]
        /\ g.property = d.property /\ g.flags = d.flags /\ g.nr_free = d.nr_free
        /\ g.ok = d.ok /\ g.tail = d.tail
    BY ONLY <1>1, <1>2, BetweenIs
  <2> HIDE DEF g, b
  <2>2. b = g
    BY <1>3 DEF g
  <2> QED BY <2>1, <2>2
<1> HIDE DEF b
<1>5. b.next[e] = start /\ b.next[start] = e /\ b.prev[e] = start /\ b.prev[start] = e
  BY <1>1, <1>2, <1>4
<1>6. f = f3
  BY <1>4 DEF Allocator
<1>7. S \in SUBSET Frame
  OBVIOUS
<1>x. S = {start}
  OBVIOUS
<1> HIDE DEF S
<1>8. /\ f1 \in Allocator /\ f1.next = b.next /\ f1.prev = b.prev /\ f1.ok = b.ok
      /\ f1.tail = b.tail /\ f1.property = [b.property EXCEPT ![start] = k]
  BY <1>4 DEF Allocator
<1> HIDE DEF f1
<1>9. /\ f2 \in Allocator /\ f2.next = b.next /\ f2.prev = b.prev /\ f2.ok = b.ok
      /\ f2.tail = b.tail /\ f2.property = f1.property /\ f2.flags = S
  BY <1>7, <1>8 DEF Allocator
<1> HIDE DEF f2
<1>10. /\ f3 \in Allocator /\ f3.next = b.next /\ f3.prev = b.prev /\ f3.ok = b.ok
       /\ f3.tail = b.tail /\ f3.property = f1.property /\ f3.flags = S /\ f3.nr_free = k
  BY <1>9 DEF Allocator
<1> HIDE DEF f3, f
<1>11. f.property[start] = k /\ \A a \in Frame : a # start => f.property[a] = 0
  BY <1>1, <1>4, <1>6, <1>8, <1>10
<1>12. f \in WA
  <2>1. \A a \in Frame : a + f.property[a] <= NFrames
    <3> SUFFICES ASSUME NEW a \in Frame PROVE a + f.property[a] <= NFrames
      OBVIOUS
    <3>1. a \in Nat /\ a < NFrames
      BY FrameNat
    <3> QED BY <1>11, <1>s, <3>1
  <2> QED BY <1>6, <1>10, <2>1 DEF WA
<1>13. Linked(f.next, f.prev, f.flags)
  <2>1. f.next = b.next /\ f.prev = b.prev /\ f.flags = {start}
    BY <1>6, <1>10, <1>x
  <2>2. e = free_list
    BY DEF e
  <2> QED BY <1>2, <1>5, <1>s, <2>1, <2>2 DEF Linked, Chained, After
<1>14. FreeOf(f) = start..NFrames - 1
  <2>1. FreeOf(f) = start..start + k - 1
    BY <1>6, <1>10, <1>11, <1>x DEF FreeOf
  <2>2. start + k - 1 = NFrames - 1
    BY <1>s
  <2> QED BY <2>1, <2>2
<1>15. Cardinality(FreeOf(f)) = k
  <2>1. start..start + k - 1 = start..NFrames - 1
    BY <1>s
  <2>a. start + k <= NFrames
    BY <1>s
  <2>2. Cardinality(start..start + k - 1) = k
    BY <2>a, RangeSize
  <2> QED BY <1>14, <2>1, <2>2
<1>16. Loose(f)
  <2>1. ~f.tail /\ f.nr_free = k /\ f.flags = {start}
    BY <1>1, <1>4, <1>6, <1>10, <1>x
  <2> QED BY <1>11, <1>12, <1>13, <1>15, <1>s, <2>1 DEF Loose
<1>17. Exact(f)
  <2>1. f.flags = {start}
    BY <1>6, <1>10, <1>x
  <2>2. start + k # start
    BY <1>s
  <2> QED BY <1>11, <1>16, <2>1, <2>2 DEF Exact, Touch
<1>18. Exact(f) /\ f.ok = TRUE /\ f.nr_free = k /\ FreeOf(f) = start..NFrames - 1
  BY <1>1, <1>4, <1>6, <1>10, <1>14, <1>17
<1> QED BY <1>18 DEF f, b, S, d, e

\* The address space that check_swap makes.
CheckMm == [mm_create EXCEPT !.areas = <<CheckArea>>]

CheckStart == [Booted EXCEPT !.mm[check] = CheckMm]

\* It has one area, no page, no table.
LEMMA CheckMmIs ==
  /\ BootSpace(CheckMm) /\ CheckMm.pd0[0] = None /\ CheckMm.pt[0] = None
  /\ \A k \in MapKinds : \A i, s : <<k, s, i>> \in Slot => Entry(CheckMm, k, i) = None
<1> DEFINE l == <<CheckArea>>
           A == [mm_create EXCEPT !.areas = l]
<1>1. CheckArea \in Nat \X Nat
  BY MemoryAssumption DEF CheckArea
<1>2. l \in Seq(Nat \X Nat)
  BY <1>1
<1>3. /\ A.areas = l /\ A.pgdir = None /\ A.pd0 = [d \in Dirs |-> None]
      /\ A.pt = [t \in Tabs |-> None] /\ A.pte = [p \in Page |-> None]
      /\ A = [areas |-> A.areas, pgdir |-> A.pgdir, pd0 |-> A.pd0, pt |-> A.pt, pte |-> A.pte]
  <2> HIDE DEF l
  <2> QED BY DEF mm_create
<1>4. A = CheckMm
  BY DEF CheckMm
<1> HIDE DEF A, l
<1>5. A \in AddressSpace
  BY <1>2, <1>3 DEF AddressSpace
<1>6. BootSpace(A)
  BY <1>3, <1>5 DEF BootSpace, l
<1>7. A.pd0[0] = None /\ A.pt[0] = None
  BY <1>3, CheckNumbers
<1>8. ASSUME NEW k \in MapKinds, NEW i, NEW s, <<k, s, i>> \in Slot PROVE Entry(A, k, i) = None
  <2>1. A # None
    BY <1>5, AnySpace
  <2>2. \/ k = "pgdir"
        \/ k = "pd0" /\ i \in Dirs
        \/ k = "pt" /\ i \in Tabs
        \/ k = "pte" /\ i \in Page
    BY <1>8, SlotIn DEF MapKinds
  <2> QED BY <1>3, <2>1, <2>2, Entries4
<1> QED BY <1>4, <1>6, <1>7, <1>8

\* What the boot has taken: the heap, and the stack of initproc behind it.
LEMMA BootOwned ==
  ASSUME NEW m, m.kernel = 0..HeapPages - 1,
         m.kstack = [p \in Proc |-> IF p = initproc THEN HeapPages ELSE None],
         m.mm \in [Space -> {None, CheckMm}], Fields(m)
  PROVE  Owned(Owns(m), HeapPages + KSTACKPAGE..NFrames - 1, {})
<1> DEFINE O == Owns(m)
           F == HeapPages + KSTACKPAGE..NFrames - 1
           H == HeapPages
<1>1. O \in [Slot -> Frame \cup {None}]
  BY OwnsType
<1>2. H \in Nat /\ KSTACKPAGE \in Nat /\ NFrames \in Nat /\ H + KSTACKPAGE \in Frame /\ H \in Frame
  BY Start, PmmAssumption, FrameNat DEF Frame
<1>3. F \in SUBSET Frame
  BY <1>2 DEF Frame
<1>4. \A x \in Slot :
        \/ O[x] = None
        \/ \E i \in 0..H - 1 : x = <<"heap", None, i>> /\ O[x] = i
        \/ \E i \in 0..KSTACKPAGE - 1 : x = <<"kstack", initproc, i>> /\ O[x] = H + i
  <2> SUFFICES ASSUME NEW x \in Slot
               PROVE  \/ O[x] = None
                      \/ \E i \in 0..H - 1 : x = <<"heap", None, i>> /\ O[x] = i
                      \/ \E i \in 0..KSTACKPAGE - 1 : x = <<"kstack", initproc, i>> /\ O[x] = H + i
    OBVIOUS
  <2>1. x = <<x[1], x[2], x[3]>>
    BY SlotIs
  <2> DEFINE k == x[1]
             s == x[2]
             i == x[3]
  <2>2. x = <<k, s, i>>
    BY <2>1
  <2>3. \/ k = "heap" /\ s = None /\ i \in Frame
        \/ k = "kstack" /\ s \in Proc /\ i \in 0..KSTACKPAGE - 1
        \/ k \in MapKinds /\ s \in Space
    BY SlotIs DEF MapKinds
  <2> HIDE DEF k, s, i
  <2>4. CASE k = "heap" /\ s = None /\ i \in Frame
    <3>1. O[x] = IF i \in m.kernel THEN i ELSE None
      BY <2>2, <2>4, OwnsAt
    <3> QED BY <2>2, <2>4, <3>1
  <2>5. CASE k = "kstack" /\ s \in Proc /\ i \in 0..KSTACKPAGE - 1
    <3>1. O[x] = IF m.kstack[s] = None THEN None ELSE m.kstack[s] + i
      BY <2>2, <2>5, OwnsAt
    <3>2. m.kstack[s] = IF s = initproc THEN H ELSE None
      BY <2>5
    <3>3. H # None
      BY <1>2, NoFrame
    <3> HIDE DEF O, H
    <3> QED BY <2>2, <2>5, <3>1, <3>2, <3>3
  <2>6. CASE k \in MapKinds /\ s \in Space
    <3>1. O[x] = Entry(m.mm[s], k, i)
      BY <2>2, <2>6, OwnsAt
    <3>2. m.mm[s] = None \/ m.mm[s] = CheckMm
      BY <2>6
    <3>3. Entry(m.mm[s], k, i) = None
      <4>1. CASE m.mm[s] = None
        BY <4>1 DEF Entry
      <4>2. CASE m.mm[s] = CheckMm
        <5>1. <<k, s, i>> \in Slot /\ k \in MapKinds
          BY <2>2, <2>6
        <5>2. Entry(CheckMm, k, i) = None
          BY <5>1, CheckMmIs
        <5> QED BY <4>2, <5>2
      <4> QED BY <3>2, <4>1, <4>2
    <3> QED BY <3>1, <3>3
  <2> QED BY <2>3, <2>4, <2>5, <2>6
<1> HIDE DEF O, H
<1>h. H = HeapPages
  BY DEF H
<1>5. ASSUME NEW x \in Slot, NEW y \in Slot, O[x] # None, O[x] = O[y] PROVE x = y
  <2>1. CASE \E i \in 0..H - 1 : x = <<"heap", None, i>> /\ O[x] = i
    <3>1. PICK i \in 0..H - 1 : x = <<"heap", None, i>> /\ O[x] = i
      BY <2>1
    <3>2. PICK j \in 0..H - 1 : y = <<"heap", None, j>> /\ O[y] = j
      <4>1. ~\E j \in 0..KSTACKPAGE - 1 : O[y] = H + j
        BY <1>2, <1>5, <3>1
      <4> QED BY <1>4, <1>5, <4>1
    <3> QED BY <1>5, <3>1, <3>2
  <2>2. CASE \E i \in 0..KSTACKPAGE - 1 : x = <<"kstack", initproc, i>> /\ O[x] = H + i
    <3>1. PICK i \in 0..KSTACKPAGE - 1 : x = <<"kstack", initproc, i>> /\ O[x] = H + i
      BY <2>2
    <3>2. PICK j \in 0..KSTACKPAGE - 1 : y = <<"kstack", initproc, j>> /\ O[y] = H + j
      <4>1. ~\E j \in 0..H - 1 : O[y] = j
        BY <1>2, <1>5, <3>1
      <4> QED BY <1>4, <1>5, <4>1
    <3>3. i = j
      BY <1>2, <1>5, <3>1, <3>2
    <3> QED BY <3>1, <3>2, <3>3
  <2> QED BY <1>4, <1>5, <2>1, <2>2
<1>6. ASSUME NEW x \in Slot PROVE O[x] \notin F
  <2>1. CASE O[x] = None
    BY <1>3, <2>1, NoFrame
  <2>2. CASE \E i \in 0..H - 1 : O[x] = i
    BY <1>2, <1>h, <2>2
  <2>3. CASE \E i \in 0..KSTACKPAGE - 1 : O[x] = H + i
    BY <1>2, <1>h, <2>3
  <2> QED BY <1>4, <2>1, <2>2, <2>3
<1>7. Owned(O, F, {})
  BY <1>1, <1>3, <1>5, <1>6 DEF Owned
<1> QED BY <1>7 DEF O

\* The memory before check_swap takes frames.
LEMMA StartFine ==
  LET m == CheckStart IN
  /\ Boot(m, {}, CHECK_VALID_PHY_PAGE_NUM + 2)
  /\ m.mm[check].pd0[0] = None /\ m.mm[check].pt[0] = None /\ m.check_rp = <<>>
  /\ m.kstack = [p \in Proc |-> IF p = initproc THEN HeapPages ELSE None]
<1> DEFINE start == HeapPages + KSTACKPAGE
           k == NFrames - start
           f == [list_add(default_init, free_list, start) EXCEPT
                   !.property[start] = k, !.flags = {start}, !.nr_free = k]
           H == 0..HeapPages - 1
           S == [p \in Proc |-> IF p = initproc THEN HeapPages ELSE None]
           N == [s \in Space |-> None]
           A == CheckMm
           c == check
           b == Booted
           m == [b EXCEPT !.mm[c] = A]
           e == <<>>
           T == TRUE
<1>1. /\ start \in Frame /\ HeapPages \in Nat /\ KSTACKPAGE \in Nat /\ KSTACKPAGE >= 1
      /\ start \in Nat /\ k \in Nat /\ k >= CHECK_VALID_PHY_PAGE_NUM + 2
      /\ CHECK_VALID_PHY_PAGE_NUM \in Nat /\ start + k = NFrames /\ k >= 1 /\ NFrames \in Nat
  <2>1. CHECK_VALID_PHY_PAGE_NUM >= 1 /\ NFrames \in Nat
    BY MemoryAssumption, PmmAssumption
  <2> QED BY <2>1, Start
<1>2. Exact(f) /\ f.ok = TRUE /\ f.nr_free = k /\ FreeOf(f) = start..NFrames - 1
  <2> HIDE DEF start, k
  <2> QED BY <1>1, BootList
<1>3. /\ Rec(b) /\ b.pmm = f /\ b.ok = T /\ b.kernel = H /\ b.kstack = S /\ b.mm = N
      /\ b.check_rp = e /\ b.pra_list = e
  <2> HIDE DEF f, H, S, N, e, T
  <2>1. /\ b.pmm = f /\ b.ok = TRUE /\ b.kernel = H /\ b.kstack = S /\ b.mm = N
        /\ b.check_rp = <<>> /\ b.pra_list = <<>>
    BY DEF Booted, f, H, S, N
  <2>2. Rec(b)
    BY DEF Booted, Rec
  <2> QED BY <2>1, <2>2 DEF e, T
<1>4. m = CheckStart
  BY DEF CheckStart
<1>5. c \in Space /\ c = check /\ (\A s \in Proc : s \in Space /\ s # c) /\ initproc \in Proc
  BY MemoryAssumption DEF Space
<1>6. N \in [Space -> AddressSpace \cup {None}] /\ \A s \in Space : N[s] = None
  OBVIOUS
<1>7. H \in SUBSET Frame
  BY <1>1 DEF Frame
<1>8. S \in [Proc -> KFrame \cup {None}]
  <2>1. HeapPages \in KFrame
    <3>1. HeapPages + KSTACKPAGE <= NFrames /\ HeapPages < NFrames
      BY <1>1
    <3> QED BY <1>1, <3>1 DEF KFrame, Frame
  <2> QED BY <2>1
<1>9. BootSpace(A) /\ A \in AddressSpace /\ A.pd0[0] = None /\ A.pt[0] = None
  BY CheckMmIs DEF BootSpace
<1>s. S = [p \in Proc |-> IF p = initproc THEN HeapPages ELSE None]
  OBVIOUS
<1>t. T = TRUE /\ e = <<>>
  OBVIOUS
<1>h. H = 0..HeapPages - 1
  OBVIOUS
<1> HIDE DEF f, H, S, N, A, c, b, e, T
<1>10. /\ Rec(m) /\ m.pmm = f /\ m.ok = T /\ m.kernel = H /\ m.kstack = S
       /\ m.mm = [N EXCEPT ![c] = A] /\ m.check_rp = e /\ m.pra_list = e
  BY <1>3 DEF Rec
<1> HIDE DEF m
<1>11. /\ m.mm \in [Space -> AddressSpace \cup {None}] /\ m.mm[c] = A
       /\ \A s \in Space : s # c => m.mm[s] = None
  BY <1>5, <1>6, <1>9, <1>10
<1>12. BootTypes(m)
  BY <1>5, <1>7, <1>8, <1>9, <1>10, <1>11, <1>t DEF BootTypes
<1>13. Owned(Owns(m), FreeOf(m.pmm), {})
  <2>1. Fields(m)
    BY <1>12 DEF Fields, BootTypes
  <2>2. m.mm \in [Space -> {None, CheckMm}]
    <3>1. \A s \in Space : m.mm[s] \in {None, CheckMm}
      BY <1>11 DEF A
    <3>2. m.mm = [s \in Space |-> m.mm[s]]
      BY <1>11
    <3> QED BY <3>1, <3>2
  <2>3. Owned(Owns(m), HeapPages + KSTACKPAGE..NFrames - 1, {})
    BY <1>10, <1>h, <1>s, <2>1, <2>2, BootOwned
  <2> QED BY <1>2, <1>10, <2>3
<1>14. Boot(m, {}, CHECK_VALID_PHY_PAGE_NUM + 2)
  BY <1>1, <1>2, <1>10, <1>12, <1>13 DEF Boot
<1>15. /\ m.mm[check].pd0[0] = None /\ m.mm[check].pt[0] = None /\ m.check_rp = <<>>
       /\ m.kstack = [p \in Proc |-> IF p = initproc THEN HeapPages ELSE None]
  BY <1>5, <1>9, <1>10, <1>11, <1>s, <1>t
<1> QED BY <1>4, <1>14, <1>15

\* What check_swap does first, in two loops.
LEMMA BegunIs ==
  LET m == get_pte(CheckStart, check, 1)
      r == TakeAll(m)
  IN  CheckBegun = IF r.ok THEN FreeAll(PutAside(r), r.check_rp) ELSE r
BY DEF CheckBegun, CheckStart, CheckMm, CheckArea, TakeAll, FreeAll, PutAside, Then

\* After it the check runs, unless the kernel has stopped.
LEMMA BegunFine ==
  \/ CheckBegun.ok = FALSE
  \/ \E Q : /\ Testing(CheckBegun, Q)
            /\ CheckBegun.kstack = [p \in Proc |-> IF p = initproc THEN HeapPages ELSE None]
<1> DEFINE K == CHECK_VALID_PHY_PAGE_NUM
           s == CheckStart
           d == WithDir(s, check, 0)
           m == WithTable(d, check, 0)
           r == TakeAll(m)
           q == PutAside(r)
           S == [p \in Proc |-> IF p = initproc THEN HeapPages ELSE None]
           k1 == K + 1
           k2 == K + 2
<1>1. K \in Nat /\ k1 \in Nat /\ k2 = k1 + 1 /\ k1 = K + 1
  BY MemoryAssumption
<1>2. /\ Boot(s, {}, k2) /\ s.mm[check].pd0[0] = None /\ s.mm[check].pt[0] = None
      /\ s.check_rp = <<>> /\ s.kstack = S
  BY StartFine
<1> HIDE DEF K, k1, k2, s, S
<1>3. /\ Boot(d, {}, k1) /\ d.mm[check].pd0[0] \in Frame
      /\ d.mm[check].pt = s.mm[check].pt /\ d.kstack = s.kstack /\ d.check_rp = s.check_rp
  BY <1>1, <1>2, BootDir
<1>4. d.mm[check].pt[0] = None
  BY <1>2, <1>3
<1> HIDE DEF d
<1>5. /\ Boot(m, {}, K) /\ m.mm[check].pt[0] \in Frame
      /\ m.mm[check].pd0 = d.mm[check].pd0 /\ m.kstack = d.kstack /\ m.check_rp = d.check_rp
  BY <1>1, <1>3, <1>4, BootTable
<1>6. m.mm[check].pd0[0] \in Frame /\ m.check_rp = <<>> /\ m.kstack = S
  BY <1>2, <1>3, <1>5
<1>7. get_pte(s, check, 1) = m
  BY CheckNumbers DEF get_pte, m, d
<1> HIDE DEF m
<1>8. Took(m, r, K, K)
  BY <1>5, <1>6, TakeAllFine DEF K
<1>9. r.ok = TRUE /\ r.check_rp \in Seq(Frame) /\ Sorted(r.check_rp)
  BY <1>8 DEF Took, Boot, BootTypes
<1>10. CheckBegun = FreeAll(q, r.check_rp)
  BY <1>7, <1>9, BegunIs DEF s
<1>11. Given(r, q, 0)
  BY <1>8, AsideFine
<1> HIDE DEF q, r
<1>12. Given(r, CheckBegun, Len(r.check_rp))
  BY <1>9, <1>10, <1>11, GiveAllFine
<1>13. CheckBegun.ok = FALSE \/ \E Q : Testing(CheckBegun, Q) /\ CheckBegun.kstack = m.kstack
  BY <1>5, <1>6, <1>8, <1>12, GivenTests DEF K
<1> QED BY <1>6, <1>13 DEF S

\* The invariant holds when check_swap has begun.
LEMMA MemoryInit ==
  ASSUME Init
  PROVE  MemoryInv
<1>1. M = CheckBegun /\ proc = [p \in Proc |-> IF p = initproc THEN "runs" ELSE "none"]
  BY DEF Init
<1>2. CASE M.ok = FALSE
  BY <1>2 DEF MemoryInv
<1>3. CASE M.ok # FALSE
  <2>1. PICK Q : /\ Testing(M, Q)
                 /\ M.kstack = [p \in Proc |-> IF p = initproc THEN HeapPages ELSE None]
    BY <1>1, <1>3, BegunFine
  <2>2. proc \in [Proc -> {"none", "runs", "zombie"}]
    BY <1>1
  <2>3. HeapPages # None
    BY Start, NoFrame DEF Frame
  <2>4. ASSUME NEW p \in Proc, proc[p] # "none" PROVE M.kstack[p] # None
    <3>1. p = initproc
      BY <1>1, <2>4
    <3> QED BY <2>1, <2>3, <3>1
  <2>5. Tested
    BY <2>1, <2>2, <2>4 DEF Tested
  <2> QED BY <2>5 DEF MemoryInv
<1> QED BY <1>2, <1>3

\* check_swap and, after it, page faults, stores, do_fork, do_execve, do_exit, do_wait and
\* the heap leave the free list and the places as MemoryInv says.
THEOREM MemoryCorrect == Spec => []MemoryInv
<1>1. Init => MemoryInv
  BY MemoryInit
<1>2. MemoryInv /\ [Bounded /\ Next]_vars => MemoryInv'
  BY MemoryNext
<1> QED BY <1>1, <1>2, PTL DEF Spec

-----------------------------------------------------------------------------
(***************************************************************************)
(* What the lists of the allocator say.                                    *)
(***************************************************************************)
LEMMA BlocksAre ==
  ASSUME NEW f, f.next \in [Link -> Link], NEW B \in SUBSET Frame, Chained(f.next, B)
  PROVE  Blocks(f) = B /\ Len(Walk(f)) <= NFrames /\ Ascending(f)
<1> DEFINE w == Walk(f)
<1>1. /\ w \in Seq(Frame) /\ Sorted(w) /\ Len(w) = Cardinality(B)
      /\ \A i \in 1..Len(w) : w[i] \in B
      /\ \A a \in B : \E i \in 1..Len(w) : w[i] = a
  BY WalkLists DEF InOrder
<1>2. Ascending(f) <=> \A i \in 1..Len(w) - 1 : w[i] < w[i + 1]
  BY DEF Ascending
<1>3. Blocks(f) = {w[i] : i \in DOMAIN w}
  BY DEF Blocks, Range
<1>4. DOMAIN w = 1..Len(w)
  BY <1>1
<1> HIDE DEF w
<1>5. Blocks(f) = B
  BY <1>1, <1>3, <1>4
<1>6. Cardinality(B) <= NFrames
  BY Frames
<1>7. ASSUME NEW i \in 1..Len(w) - 1 PROVE w[i] < w[i + 1]
  <2>1. i \in 1..Len(w) /\ i + 1 \in 1..Len(w) /\ i < i + 1
    BY <1>1
  <2> QED BY <1>1, <2>1 DEF Sorted
<1>8. Len(w) <= NFrames
  BY <1>1, <1>6
<1> QED BY <1>2, <1>5, <1>7, <1>8 DEF w

\* An exact list has the properties FreeListExact names.
LEMMA ExactMeans ==
  ASSUME NEW f, Exact(f)
  PROVE  /\ FreeFrames(f) = FreeOf(f)
         /\ Ascending(f) /\ Mirrored(f) /\ Apart(f) /\ Sized(f)
<1>1. Loose(f) /\ f.flags \in SUBSET Frame /\ f.next \in [Link -> Link]
      /\ f.property \in [Frame -> Nat] /\ Linked(f.next, f.prev, f.flags)
  BY FreeFacts, AllocatorFields DEF Exact, Loose, WA
<1>2. Blocks(f) = f.flags /\ Len(Walk(f)) <= NFrames /\ Ascending(f)
  BY <1>1, BlocksAre DEF Linked
<1>3. FreeFrames(f) = FreeOf(f)
  BY <1>2 DEF FreeFrames, FreeOf
<1>4. Mirrored(f)
  BY <1>1, <1>2 DEF Mirrored, Linked
<1>5. Apart(f)
  <2> SUFFICES ASSUME NEW a \in f.flags, NEW b \in f.flags, a < b PROVE a + f.property[a] < b
    BY <1>2 DEF Apart
  <2>1. a + f.property[a] <= b
    BY <1>1 DEF Loose
  <2>2. a \in Frame /\ b \in Frame /\ a + f.property[a] # b
    BY <1>1 DEF Exact, Touch
  <2>3. a \in Nat /\ b \in Nat /\ f.property[a] \in Nat
    BY <1>1, <2>2, FrameNat
  <2> QED BY <2>1, <2>2, <2>3
<1>6. Sized(f)
  BY <1>1, <1>2, <1>3 DEF Sized, Loose
<1> QED BY <1>2, <1>3, <1>4, <1>5, <1>6

\* The frames of the list while check_swap runs.
LEMMA ShortMeans ==
  ASSUME NEW f, NEW Q, ShortList(f, Q)
  PROVE  FreeFrames(f) = Q
<1>1. f \in Allocator /\ Q \in SUBSET Frame /\ Chained(f.next, Q) /\ \A a \in Q : f.property[a] = 1
  BY DEF ShortList, WA
<1>2. f.next \in [Link -> Link]
  BY <1>1, AllocatorFields
<1>3. Blocks(f) = Q
  BY <1>1, <1>2, BlocksAre
<1>4. \A a \in Q : a..a + f.property[a] - 1 = {a}
  <2> SUFFICES ASSUME NEW a \in Q PROVE a..a + f.property[a] - 1 = {a}
    OBVIOUS
  <2>1. a \in Int /\ f.property[a] = 1
    BY <1>1, FrameNat
  <2>2. a + f.property[a] - 1 = a
    BY <2>1
  <2> QED BY <2>1, <2>2
<1>5. FreeFrames(f) = UNION {{a} : a \in Q}
  BY <1>3, <1>4 DEF FreeFrames
<1> QED BY <1>5

\* After check_swap the list of default_pmm.c has the free blocks in ascending order, linked
\* both ways; no two of them touch, and nr_free counts their frames.
THEOREM FreeListCorrect == Spec => []FreeListExact
<1>1. ASSUME MemoryInv PROVE FreeListExact
  <2> SUFFICES ASSUME M.ok, ~Checking, Bounded
               PROVE  Ascending(M.pmm) /\ Mirrored(M.pmm) /\ Apart(M.pmm) /\ Sized(M.pmm)
    BY DEF FreeListExact
  <2>1. Running
    BY <1>1, TestsChecking DEF MemoryInv
  <2>2. Exact(M.pmm)
    BY <2>1 DEF Running, Sound, Bounded
  <2> QED BY <2>2, ExactMeans
<1> QED BY <1>1, MemoryCorrect, PTL

-----------------------------------------------------------------------------
(***************************************************************************)
(* What refers to frames.                                                  *)
(***************************************************************************)
\* The reference r is what the place x has.
Names(r, x) ==
  \/ \E a \in M.kernel : r = <<a, "heap">> /\ x = <<"heap", None, a>>
  \/ \E p \in Proc : \E i \in 0..KSTACKPAGE - 1 :
       M.kstack[p] # None /\ r = <<M.kstack[p] + i, p>> /\ x = <<"kstack", p, i>>
  \/ \E s \in Space :
       M.mm[s] # None /\ r = <<M.mm[s].pgdir, s, "pgdir">> /\ x = <<"pgdir", s, 0>>
  \/ \E s \in Space : \E d \in Dirs :
       M.mm[s] # None /\ r = <<M.mm[s].pd0[d], s, "pd0", d>> /\ x = <<"pd0", s, d>>
  \/ \E s \in Space : \E t \in Tabs :
       M.mm[s] # None /\ r = <<M.mm[s].pt[t], s, "pt", t>> /\ x = <<"pt", s, t>>
  \/ \E s \in Space : \E p \in Page :
       M.mm[s] # None /\ r = <<M.mm[s].pte[p], s, "pte", p>> /\ x = <<"pte", s, p>>

\* No two references are what one place has.
LEMMA NamesOne ==
  ASSUME NEW r, NEW q, NEW x, Names(r, x), Names(q, x)
  PROVE  r = q
<1>1. CASE \E a \in M.kernel : r = <<a, "heap">> /\ x = <<"heap", None, a>>
  <2>1. PICK a \in M.kernel : r = <<a, "heap">> /\ x = <<"heap", None, a>>
    BY <1>1
  <2>2. q = <<a, "heap">>
    BY <2>1 DEF Names
  <2> QED BY <2>1, <2>2
<1>2. CASE \E p \in Proc : \E i \in 0..KSTACKPAGE - 1 :
             M.kstack[p] # None /\ r = <<M.kstack[p] + i, p>> /\ x = <<"kstack", p, i>>
  <2>1. PICK p \in Proc, i \in 0..KSTACKPAGE - 1 :
               r = <<M.kstack[p] + i, p>> /\ x = <<"kstack", p, i>>
    BY <1>2
  <2>2. q = <<M.kstack[p] + i, p>>
    BY <2>1 DEF Names
  <2> QED BY <2>1, <2>2
<1>3. CASE \E s \in Space :
             M.mm[s] # None /\ r = <<M.mm[s].pgdir, s, "pgdir">> /\ x = <<"pgdir", s, 0>>
  <2>1. PICK s \in Space : r = <<M.mm[s].pgdir, s, "pgdir">> /\ x = <<"pgdir", s, 0>>
    BY <1>3
  <2>2. q = <<M.mm[s].pgdir, s, "pgdir">>
    BY <2>1 DEF Names
  <2> QED BY <2>1, <2>2
<1>4. CASE \E s \in Space : \E d \in Dirs :
             M.mm[s] # None /\ r = <<M.mm[s].pd0[d], s, "pd0", d>> /\ x = <<"pd0", s, d>>
  <2>1. PICK s \in Space, d \in Dirs : r = <<M.mm[s].pd0[d], s, "pd0", d>> /\ x = <<"pd0", s, d>>
    BY <1>4
  <2>2. q = <<M.mm[s].pd0[d], s, "pd0", d>>
    BY <2>1 DEF Names
  <2> QED BY <2>1, <2>2
<1>5. CASE \E s \in Space : \E t \in Tabs :
             M.mm[s] # None /\ r = <<M.mm[s].pt[t], s, "pt", t>> /\ x = <<"pt", s, t>>
  <2>1. PICK s \in Space, t \in Tabs : r = <<M.mm[s].pt[t], s, "pt", t>> /\ x = <<"pt", s, t>>
    BY <1>5
  <2>2. q = <<M.mm[s].pt[t], s, "pt", t>>
    BY <2>1 DEF Names
  <2> QED BY <2>1, <2>2
<1>6. CASE \E s \in Space : \E p \in Page :
             M.mm[s] # None /\ r = <<M.mm[s].pte[p], s, "pte", p>> /\ x = <<"pte", s, p>>
  <2>1. PICK s \in Space, p \in Page : r = <<M.mm[s].pte[p], s, "pte", p>> /\ x = <<"pte", s, p>>
    BY <1>6
  <2>2. q = <<M.mm[s].pte[p], s, "pte", p>>
    BY <2>1 DEF Names
  <2> QED BY <2>1, <2>2
<1> QED BY <1>1, <1>2, <1>3, <1>4, <1>5, <1>6 DEF Names

\* The place has the frame that the reference is to.
LEMMA NamesOwns ==
  ASSUME Fields(M), NEW r, NEW x, Names(r, x), r[1] \in Frame
  PROVE  x \in Slot /\ Owns(M)[x] = r[1]
<1>1. CASE \E a \in M.kernel : r = <<a, "heap">> /\ x = <<"heap", None, a>>
  <2>1. PICK a \in M.kernel : r = <<a, "heap">> /\ x = <<"heap", None, a>>
    BY <1>1
  <2>2. a \in Frame /\ r[1] = a
    BY <2>1 DEF Fields
  <2> QED BY <2>1, <2>2, IsSlot, OwnsAt
<1>2. CASE \E p \in Proc : \E i \in 0..KSTACKPAGE - 1 :
             M.kstack[p] # None /\ r = <<M.kstack[p] + i, p>> /\ x = <<"kstack", p, i>>
  <2>1. PICK p \in Proc, i \in 0..KSTACKPAGE - 1 :
             M.kstack[p] # None /\ r = <<M.kstack[p] + i, p>> /\ x = <<"kstack", p, i>>
    BY <1>2
  <2>2. r[1] = M.kstack[p] + i
    BY <2>1
  <2> QED BY <2>1, <2>2, IsSlot, OwnsAt
<1>3. CASE \E s \in Space :
             M.mm[s] # None /\ r = <<M.mm[s].pgdir, s, "pgdir">> /\ x = <<"pgdir", s, 0>>
  <2>1. PICK s \in Space :
             M.mm[s] # None /\ r = <<M.mm[s].pgdir, s, "pgdir">> /\ x = <<"pgdir", s, 0>>
    BY <1>3
  <2>2. r[1] = M.mm[s].pgdir /\ x \in Slot
    BY <2>1, IsSlot
  <2>3. Owns(M)[<<"pgdir", s, 0>>] = Entry(M.mm[s], "pgdir", 0)
    BY <2>1, <2>2, OwnsAt DEF MapKinds
  <2> QED BY <2>1, <2>2, <2>3, Entries4
<1>4. CASE \E s \in Space : \E d \in Dirs :
             M.mm[s] # None /\ r = <<M.mm[s].pd0[d], s, "pd0", d>> /\ x = <<"pd0", s, d>>
  <2>1. PICK s \in Space, d \in Dirs :
             M.mm[s] # None /\ r = <<M.mm[s].pd0[d], s, "pd0", d>> /\ x = <<"pd0", s, d>>
    BY <1>4
  <2>2. r[1] = M.mm[s].pd0[d] /\ x \in Slot
    BY <2>1, IsSlot
  <2>3. Owns(M)[<<"pd0", s, d>>] = Entry(M.mm[s], "pd0", d)
    BY <2>1, <2>2, OwnsAt DEF MapKinds
  <2> QED BY <2>1, <2>2, <2>3, Entries4
<1>5. CASE \E s \in Space : \E t \in Tabs :
             M.mm[s] # None /\ r = <<M.mm[s].pt[t], s, "pt", t>> /\ x = <<"pt", s, t>>
  <2>1. PICK s \in Space, t \in Tabs :
             M.mm[s] # None /\ r = <<M.mm[s].pt[t], s, "pt", t>> /\ x = <<"pt", s, t>>
    BY <1>5
  <2>2. r[1] = M.mm[s].pt[t] /\ x \in Slot
    BY <2>1, IsSlot
  <2>3. Owns(M)[<<"pt", s, t>>] = Entry(M.mm[s], "pt", t)
    BY <2>1, <2>2, OwnsAt DEF MapKinds
  <2> QED BY <2>1, <2>2, <2>3, Entries4
<1>6. CASE \E s \in Space : \E p \in Page :
             M.mm[s] # None /\ r = <<M.mm[s].pte[p], s, "pte", p>> /\ x = <<"pte", s, p>>
  <2>1. PICK s \in Space, p \in Page :
             M.mm[s] # None /\ r = <<M.mm[s].pte[p], s, "pte", p>> /\ x = <<"pte", s, p>>
    BY <1>6
  <2>2. r[1] = M.mm[s].pte[p] /\ x \in Slot
    BY <2>1, IsSlot
  <2>3. Owns(M)[<<"pte", s, p>>] = Entry(M.mm[s], "pte", p)
    BY <2>1, <2>2, OwnsAt DEF MapKinds
  <2>4. M.mm[s].pte[p] # Swapped
    BY <2>2, NoFrame
  <2> QED BY <2>1, <2>2, <2>3, <2>4, Entries4
<1> QED BY <1>1, <1>2, <1>3, <1>4, <1>5, <1>6 DEF Names

\* A reference is to a free frame of a list, or is what a place has.
IsFree(r) == \E f \in Lists : \E a \in FreeFrames(f) : r = <<a, f.nr_free>>

\* Every entry of an address space, stack or heap is what some place has.
LEMMA EntryNamed ==
  ASSUME NEW r \in Entries
  PROVE  \E x : Names(r, x)
<1> DEFINE mapped == {s \in Space : M.mm[s] # None}
           E1 == {<<M.mm[s].pgdir, s, "pgdir">> : s \in mapped}
           E2 == {<<M.mm[s].pd0[d], s, "pd0", d>> : s \in mapped, d \in Dirs}
           E3 == {<<M.mm[s].pt[t], s, "pt", t>> : s \in mapped, t \in Tabs}
           E4 == {<<M.mm[s].pte[p], s, "pte", p>> : s \in mapped, p \in Page}
<1>1. CASE r \in E1
  <2>1. PICK s \in Space : M.mm[s] # None /\ r = <<M.mm[s].pgdir, s, "pgdir">>
    BY <1>1
  <2>2. Names(r, <<"pgdir", s, 0>>)
    BY <2>1 DEF Names
  <2> QED BY <2>2
<1>2. CASE r \in E2
  <2>1. PICK s \in Space, d \in Dirs : M.mm[s] # None /\ r = <<M.mm[s].pd0[d], s, "pd0", d>>
    BY <1>2
  <2>2. Names(r, <<"pd0", s, d>>)
    BY <2>1 DEF Names
  <2> QED BY <2>2
<1>3. CASE r \in E3
  <2>1. PICK s \in Space, t \in Tabs : M.mm[s] # None /\ r = <<M.mm[s].pt[t], s, "pt", t>>
    BY <1>3
  <2>2. Names(r, <<"pt", s, t>>)
    BY <2>1 DEF Names
  <2> QED BY <2>2
<1>4. CASE r \in E4
  <2>1. PICK s \in Space, p \in Page : M.mm[s] # None /\ r = <<M.mm[s].pte[p], s, "pte", p>>
    BY <1>4
  <2>2. Names(r, <<"pte", s, p>>)
    BY <2>1 DEF Names
  <2> QED BY <2>2
<1>5. r \in E1 \cup E2 \cup E3 \cup E4
  BY DEF Entries
<1> HIDE DEF E1, E2, E3, E4
<1> QED BY <1>1, <1>2, <1>3, <1>4, <1>5

\* So is every reference, if it is not to a free frame.
LEMMA ReferenceIs ==
  ASSUME Fields(M), NEW r \in References
  PROVE  IsFree(r) \/ (r[1] \in Frame /\ \E x : Names(r, x))
<1>1. CASE r \in UNION {{<<a, f.nr_free>> : a \in FreeFrames(f)} : f \in Lists}
  BY <1>1 DEF IsFree
<1>2. CASE r \in {<<a, "heap">> : a \in M.kernel}
  <2>1. PICK a \in M.kernel : r = <<a, "heap">>
    BY <1>2
  <2>2. Names(r, <<"heap", None, a>>)
    BY <2>1 DEF Names
  <2> QED BY <2>1, <2>2 DEF Fields
<1>3. CASE r \in {<<M.kstack[p] + i, p>> : p \in {p \in Proc : M.kstack[p] # None},
                                           i \in 0..KSTACKPAGE - 1}
  <2>1. PICK p \in Proc, i \in 0..KSTACKPAGE - 1 :
          M.kstack[p] # None /\ r = <<M.kstack[p] + i, p>>
    BY <1>3
  <2>2. Names(r, <<"kstack", p, i>>)
    BY <2>1 DEF Names
  <2>3. M.kstack[p] + i \in Frame
    <3>1. M.kstack[p] \in Frame /\ M.kstack[p] + KSTACKPAGE <= NFrames
      BY <2>1 DEF Fields, KFrame
    <3>2. KSTACKPAGE \in Nat /\ NFrames \in Nat
      BY MemoryAssumption, PmmAssumption
    <3> DEFINE k == M.kstack[p]
    <3>3. k \in Nat /\ k + KSTACKPAGE <= NFrames
      BY <3>1, FrameNat
    <3> HIDE DEF k
    <3>4. k + i \in Frame
      BY <3>2, <3>3 DEF Frame
    <3> QED BY <3>4 DEF k
  <2>4. r[1] = M.kstack[p] + i
    BY <2>1
  <2>5. r[1] \in Frame
    BY <2>3, <2>4
  <2>6. \E x : Names(r, x)
    BY <2>2
  <2> QED BY <2>5, <2>6
<1>4. CASE r \in {e \in Entries : e[1] \in Frame}
  BY <1>4, EntryNamed
<1> QED BY <1>1, <1>2, <1>3, <1>4 DEF References

\* As many references as frames referred to: no two references are to one frame.
LEMMA OneEach ==
  ASSUME NEW S, NEW D, IsFiniteSet(D), \A r \in S : r[1] \in D,
         \A r, q \in S : r[1] = q[1] => r = q
  PROVE  Cardinality(S) = Cardinality({r[1] : r \in S})
<1> DEFINE T == {r[1] : r \in S}
           g == [a \in T |-> CHOOSE r \in S : r[1] = a]
<1>1. T \in SUBSET D
  OBVIOUS
<1>2. IsFiniteSet(T)
  BY <1>1, FS_Subset
<1>3. \A a \in T : g[a] \in S /\ g[a][1] = a
  <2> SUFFICES ASSUME NEW a \in T PROVE g[a] \in S /\ g[a][1] = a
    OBVIOUS
  <2>1. \E r \in S : r[1] = a
    OBVIOUS
  <2>2. g[a] = CHOOSE r \in S : r[1] = a
    OBVIOUS
  <2> HIDE DEF g
  <2> QED BY <2>1, <2>2
<1>4. \A r \in S : r[1] \in T
  OBVIOUS
<1>5. DOMAIN g = T
  OBVIOUS
<1>6. g \in [T -> S]
  BY <1>3
<1> HIDE DEF g, T
<1>7. IsInjective(g)
  BY <1>3, <1>5 DEF IsInjective
<1>8. \A r \in S : \E a \in T : g[a] = r
  <2> SUFFICES ASSUME NEW r \in S PROVE \E a \in T : g[a] = r
    OBVIOUS
  <2>1. r[1] \in T
    BY <1>4
  <2>2. g[r[1]] \in S /\ g[r[1]][1] = r[1]
    BY <1>3, <2>1
  <2> QED BY <2>1, <2>2
<1>9. ExistsBijection(T, S)
  <2>1. g \in Bijection(T, S)
    BY <1>6, <1>7, <1>8 DEF Bijection, Injection, Surjection
  <2> QED BY <2>1 DEF ExistsBijection
<1>10. Cardinality(S) = Cardinality(T)
  BY <1>2, <1>9, FS_Bijection
<1> QED BY <1>10 DEF T

\* The lists have different frames, which no place has.
LEMMA Alone ==
  ASSUME Fields(M), NEW F, Owned(Owns(M), F, {}),
         \A f \in Lists : FreeFrames(f) \in SUBSET F,
         \A f, g \in Lists : FreeFrames(f) \cap FreeFrames(g) # {} => f = g
  PROVE  Cardinality(References) = Cardinality({r[1] : r \in References})
<1>1. \A r \in References : IsFree(r) \/ (r[1] \in Frame /\ \E x : Names(r, x))
  BY ReferenceIs
<1>2. F \in SUBSET Frame
  BY DEF Owned
<1>3. \A r : IsFree(r) => r[1] \in F
  <2> SUFFICES ASSUME NEW r, IsFree(r) PROVE r[1] \in F
    OBVIOUS
  <2>1. PICK f \in Lists : \E a \in FreeFrames(f) : r = <<a, f.nr_free>>
    BY DEF IsFree
  <2> QED BY <2>1
<1>4. \A r \in References : r[1] \in Frame
  BY <1>1, <1>2, <1>3
<1>5. ASSUME NEW r \in References, NEW q \in References, r[1] = q[1] PROVE r = q
  <2>1. CASE IsFree(r) /\ IsFree(q)
    <3>f. PICK f \in Lists : \E a \in FreeFrames(f) : r = <<a, f.nr_free>>
      BY <2>1 DEF IsFree
    <3>1. PICK a \in FreeFrames(f) : r = <<a, f.nr_free>>
      BY <3>f
    <3>g. PICK g \in Lists : \E b \in FreeFrames(g) : q = <<b, g.nr_free>>
      BY <2>1 DEF IsFree
    <3>2. PICK b \in FreeFrames(g) : q = <<b, g.nr_free>>
      BY <3>g
    <3>3. a = b
      BY <1>5, <3>1, <3>2
    <3>4. f = g
      BY <3>1, <3>2, <3>3
    <3> QED BY <3>1, <3>2, <3>3, <3>4
  <2>2. ASSUME NEW u \in References, NEW v \in References, u[1] = v[1], IsFree(u), NEW x, Names(v, x)
        PROVE  FALSE
    <3>1. u[1] \in F /\ v[1] \in Frame
      BY <1>3, <1>4, <2>2
    <3>2. x \in Slot /\ Owns(M)[x] = v[1]
      BY <2>2, <3>1, NamesOwns
    <3>3. Owns(M)[x] \notin F
      BY <3>2 DEF Owned
    <3> QED BY <2>2, <3>1, <3>2, <3>3
  <2>3. ASSUME NEW x, NEW y, Names(r, x), Names(q, y) PROVE r = q
    <3>1. /\ x \in Slot /\ Owns(M)[x] = r[1] /\ r[1] \in Frame
          /\ y \in Slot /\ Owns(M)[y] = q[1]
      BY <1>4, <2>3, NamesOwns
    <3>2. x = y
      BY <1>5, <3>1, NoFrame DEF Owned
    <3> QED BY <2>3, <3>2, NamesOne
  <2> QED BY <1>1, <1>5, <2>1, <2>2, <2>3
<1>6. IsFiniteSet(Frame)
  BY Frames
<1> QED BY <1>4, <1>5, <1>6, OneEach

\* After check_swap no two references are to one frame,
LEMMA RunsAlone ==
  ASSUME Running, M.ok, Bounded
  PROVE  Cardinality(References) = Cardinality({r[1] : r \in References})
<1>1. Typed(M) /\ ~Checking
  BY DEF Running, Sound, Typed, Checking
<1>2. Exact(M.pmm) /\ Owned(Owns(M), FreeOf(M.pmm), {})
  BY <1>1 DEF Running, Sound, Bounded
<1>3. Lists = {M.pmm}
  <2>1. M.store = None /\ M.pmm # None
    BY <1>1, NoneAssumption DEF Typed, WA
  <2> QED BY <2>1 DEF Lists
<1>4. FreeFrames(M.pmm) = FreeOf(M.pmm)
  BY <1>2, ExactMeans
<1>5. Fields(M)
  BY <1>1, TypedFields
<1> DEFINE F == FreeOf(M.pmm)
<1>6. \A f \in Lists : FreeFrames(f) \in SUBSET F
  BY <1>3, <1>4
<1>7. \A f, g \in Lists : FreeFrames(f) \cap FreeFrames(g) # {} => f = g
  BY <1>3
<1>8. Owned(Owns(M), F, {})
  BY <1>2
<1> HIDE DEF F
<1> QED BY <1>5, <1>6, <1>7, <1>8, Alone

\* and while it runs there are none.
LEMMA TestsAlone ==
  ASSUME Tested
  PROVE  Cardinality(References) = Cardinality({r[1] : r \in References})
<1>1. PICK Q : Testing(M, Q)
  BY DEF Tested
<1>2. /\ ShortList(M.pmm, Q) /\ Exact(M.store) /\ FreeOf(M.store) \cap Q = {}
      /\ Owned(Owns(M), FreeOf(M.store) \cup Q, {})
  BY <1>1 DEF Testing, CheckFree
<1>3. FreeFrames(M.pmm) = Q /\ FreeFrames(M.store) = FreeOf(M.store)
  BY <1>2, ExactMeans, ShortMeans
<1>4. Fields(M)
  BY <1>1, TestFields DEF Testing
<1> DEFINE F == FreeOf(M.store) \cup Q
<1>5. \A f \in Lists : f = M.pmm \/ f = M.store
  BY DEF Lists
<1>6. \A f \in Lists : FreeFrames(f) \in SUBSET F
  BY <1>3, <1>5
<1>7. \A f, g \in Lists : FreeFrames(f) \cap FreeFrames(g) # {} => f = g
  BY <1>2, <1>3, <1>5
<1>8. Owned(Owns(M), F, {})
  BY <1>2
<1> HIDE DEF F
<1> QED BY <1>4, <1>6, <1>7, <1>8, Alone

\* No frame is free and in use, or in two places: the free lists, the kernel heap, kernel
\* stacks, page directories, page tables and pages (alloc_pages, free_pages and all that
\* calls them).
THEOREM OneOwnerCorrect == Spec => []OneOwner
<1>1. ASSUME MemoryInv PROVE OneOwner
  <2> SUFFICES ASSUME M.ok, Bounded
               PROVE  Cardinality(References) = Cardinality({r[1] : r \in References})
    BY DEF OneOwner
  <2>1. Tested \/ Running
    BY <1>1 DEF MemoryInv
  <2> QED BY <2>1, TestsAlone, RunsAlone
<1> QED BY <1>1, MemoryCorrect, PTL
=============================================================================
