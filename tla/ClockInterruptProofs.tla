------------------------ MODULE ClockInterruptProofs ------------------------
(***************************************************************************)
(* Proofs about the clock interrupt, for any number of processes, any      *)
(* longest time to sleep, any sizes of the two key buffers and any bounds  *)
(* on what is typed and asked for: all the properties of run               *)
(* clock_interrupt, the refinement of AlarmClock among them.               *)
(*                                                                         *)
(* What add_timer counts is a sum along the list, a recursive function     *)
(* (Through): its equations, and what an insertion, a removal and a tick   *)
(* make of it, are proved by induction in the form of SetInduction.        *)
(***************************************************************************)
EXTENDS ClockInterrupt, SequenceTheorems, WellFoundedInduction, TLAPS

-----------------------------------------------------------------------------
(***************************************************************************)
(* Numbers.                                                                *)
(***************************************************************************)

LEMMA NatOrdered ==
  \E R : IsWellFoundedOn(R, Nat) /\ R = {ss \in Nat \X Nat : ss[1] < ss[2]}
<1>1. IsWellFoundedOn(OpToRel(<, Nat), Nat)
  BY NatLessThanWellFounded
<1>2. IsWellFoundedOn({ss \in Nat \X Nat : ss[1] < ss[2]}, Nat)
  BY <1>1 DEF OpToRel
<1> QED BY <1>2

\* A nonempty set of numbers has a least one.
LEMMA LeastNumber ==
  ASSUME NEW S \in SUBSET Nat, S # {}
  PROVE  \E x \in S : \A y \in S : x <= y
<1>1. PICK R : IsWellFoundedOn(R, Nat) /\ R = {ss \in Nat \X Nat : ss[1] < ss[2]}
  BY NatOrdered
<1>2. PICK x \in S : \A y \in S : <<y, x>> \notin R
  BY <1>1, WFMin
<1>3. ASSUME NEW y \in S PROVE x <= y
  <2>1. x \in Nat /\ y \in Nat /\ <<y, x>> \notin R
    BY <1>2
  <2>2. ~ (y < x)
    BY <1>1, <2>1
  <2> QED BY <2>1, <2>2
<1> QED BY <1>3

\* A nonempty set of numbers up to n has a greatest one.
LEMMA GreatestNumber ==
  ASSUME NEW n \in Nat, NEW S \in SUBSET (1..n), S # {}
  PROVE  \E x \in S : \A y \in S : y <= x
<1> DEFINE M == {n - x : x \in S}
<1>1. M \in SUBSET Nat /\ M # {}
  <2>1. \A x \in S : n - x \in Nat
    OBVIOUS
  <2> QED BY <2>1
<1>2. PICK m \in M : \A y \in M : m <= y
  <2> HIDE DEF M
  <2> QED BY <1>1, LeastNumber
<1>3. PICK x \in S : m = n - x
  BY <1>2
<1>4. ASSUME NEW y \in S PROVE y <= x
  <2>1. n - y \in M
    OBVIOUS
  <2>2. m <= n - y
    BY <1>2, <2>1
  <2>3. x \in 1..n /\ y \in 1..n
    OBVIOUS
  <2> QED BY <1>3, <2>2, <2>3
<1> QED BY <1>4

\* Induction, for a set of numbers: the sets in question are those of the numbers for
\* which a formula holds.
LEMMA SetInduction ==
  ASSUME NEW S, 0 \in S, \A n \in Nat : n \in S => n + 1 \in S
  PROVE  Nat \subseteq S
<1> SUFFICES ASSUME Nat \ S # {} PROVE FALSE
  OBVIOUS
<1>1. PICK x \in Nat \ S : \A y \in Nat \ S : x <= y
  BY LeastNumber
<1>2. x # 0 /\ x - 1 \in Nat /\ x = (x - 1) + 1
  OBVIOUS
<1>3. x - 1 \notin S
  BY <1>2
<1> QED BY <1>1, <1>2, <1>3

\* Remainders: the places on a ring.
LEMMA ModRange ==
  ASSUME NEW C \in Nat \ {0}, NEW a \in Int
  PROVE  a % C \in 0..(C - 1)
OBVIOUS

LEMMA ModSmall ==
  ASSUME NEW C \in Nat \ {0}, NEW a \in 0..(C - 1)
  PROVE  a % C = a
OBVIOUS

LEMMA ModDiv ==
  ASSUME NEW C \in Nat \ {0}, NEW a \in Int
  PROVE  \E q \in Int : a = C * q + (a % C)
<1>1. a \div C \in Int /\ a = C * (a \div C) + (a % C)
  OBVIOUS
<1> QED BY <1>1

LEMMA ModUnique ==
  ASSUME NEW C \in Nat \ {0}, NEW a \in Int, NEW q \in Int, NEW r \in 0..(C - 1),
         a = C * q + r
  PROVE  a % C = r
OBVIOUS

LEMMA ModAdd ==
  ASSUME NEW C \in Nat \ {0}, NEW a \in Int, NEW b \in Int
  PROVE  ((a % C) + b) % C = (a + b) % C
<1> DEFINE r == a % C
           z == (r + b) % C
<1>1. PICK q \in Int : a = C * q + r
  BY ModDiv
<1>2. r \in 0..(C - 1) /\ r + b \in Int
  BY ModRange
<1>3. PICK p \in Int : r + b = C * p + z
  BY <1>2, ModDiv
<1>4. z \in 0..(C - 1)
  BY <1>2, ModRange
<1> HIDE DEF r, z
<1>5. a + b = C * (q + p) + z
  <2>1. C * (q + p) = C * q + C * p
    OBVIOUS
  <2> QED BY <1>1, <1>2, <1>3, <1>4, <2>1
<1>6. a + b \in Int /\ q + p \in Int
  OBVIOUS
<1> QED BY <1>4, <1>5, <1>6, ModUnique DEF z, r

\* Numbers less than a turn apart have different places.
LEMMA ModDistinct ==
  ASSUME NEW C \in Nat \ {0}, NEW a \in Int, NEW b \in Int, a < b, b - a < C
  PROVE  a % C # b % C
<1> SUFFICES ASSUME a % C = b % C PROVE FALSE
  OBVIOUS
<1>1. PICK q \in Int : a = C * q + (a % C)
  BY ModDiv
<1>2. PICK p \in Int : b = C * p + (b % C)
  BY ModDiv
<1>3. a % C \in Int
  BY ModRange
<1>4. b - a = C * p - C * q
  BY <1>1, <1>2, <1>3
<1>5. CASE p <= q
  <2>1. C * p <= C * q
    BY <1>5
  <2> QED BY <1>4, <2>1
<1>6. CASE p >= q + 1
  <2>1. C * p >= C * (q + 1) /\ C * (q + 1) = C * q + C
    BY <1>6
  <2> QED BY <1>4, <2>1
<1> QED BY <1>5, <1>6

\* Whole turns make no difference.
LEMMA ModTurns ==
  ASSUME NEW C \in Nat \ {0}, NEW a \in Int, NEW t \in Int
  PROVE  (a + C * t) % C = a % C
<1>1. PICK q \in Int : a = C * q + (a % C)
  BY ModDiv
<1>2. a % C \in 0..(C - 1)
  BY ModRange
<1>3. C * (q + t) = C * q + C * t /\ C * t \in Int
  OBVIOUS
<1>4. a + C * t = C * (q + t) + (a % C)
  BY <1>1, <1>2, <1>3
<1>5. a + C * t \in Int /\ q + t \in Int
  BY <1>3
<1> QED BY <1>2, <1>4, <1>5, ModUnique

\* Two places on a ring are the same if it is no way from one to the other.
LEMMA ModZero ==
  ASSUME NEW C \in Nat \ {0}, NEW r \in 0..(C - 1), NEW w \in 0..(C - 1)
  PROVE  (w - r) % C = 0 <=> w = r
<1>1. CASE w >= r
  <2>1. (w - r) % C = w - r
    <3>1. w - r \in 0..(C - 1)
      BY <1>1
    <3> QED BY <3>1, ModSmall
  <2> QED BY <2>1
<1>2. CASE w < r
  <2>1. w - r = C * (-1) + (w - r + C) /\ w - r + C \in 1..(C - 1)
    BY <1>2
  <2>2. w - r + C \in 0..(C - 1) /\ w - r \in Int /\ -1 \in Int
    BY <2>1
  <2>3. (w - r) % C = w - r + C
    BY <2>1, <2>2, ModUnique
  <2> QED BY <1>2, <2>1, <2>3
<1> QED BY <1>1, <1>2

-----------------------------------------------------------------------------
(***************************************************************************)
(* Sums along the list.                                                    *)
(***************************************************************************)

\* Through(i), of a list tl and the expires e of its timers.
Sum(tl, e, i) ==
  LET sum[j \in 0..i] == IF j = 0 THEN 0 ELSE sum[j - 1] + e[tl[j]]
  IN  sum[i]

\* s adds up what e has of the first n members of tl.
AddsUp(s, tl, e, n) == s[0] = 0 /\ \A j \in 1..n : s[j] = s[j - 1] + e[tl[j]]

\* The sum that add_timer computes is the only one (the equations of Through have a
\* solution, and one only).
LEMMA SumIs ==
  ASSUME NEW tl, NEW e, NEW n \in Nat, NEW s \in [0..n -> Int], AddsUp(s, tl, e, n),
         NEW i \in 0..n
  PROVE  Sum(tl, e, i) = s[i]
<1> DEFINE r == [j \in 0..i |-> s[j]]
           E(f) == f = [j \in 0..i |-> IF j = 0 THEN 0 ELSE f[j - 1] + e[tl[j]]]
           c == CHOOSE f : E(f)
<1> USE DEF AddsUp
<1>1. E(r)
  <2>1. ASSUME NEW j \in 0..i PROVE r[j] = IF j = 0 THEN 0 ELSE r[j - 1] + e[tl[j]]
    OBVIOUS
  <2> QED BY <2>1
<1> HIDE DEF E
<1>2. E(c)
  BY <1>1
<1> USE DEF E
<1>3. \A j \in 0..i : c[j] = IF j = 0 THEN 0 ELSE c[j - 1] + e[tl[j]]
  <2> HIDE DEF c
  <2> QED BY <1>2
<1> HIDE DEF c, E
<1>4. c[i] = s[i]
  <2> DEFINE T == {k \in Nat : k \in 0..i => c[k] = s[k]}
  <2>1. 0 \in T
    BY <1>3
  <2>2. \A k \in Nat : k \in T => k + 1 \in T
    <3> SUFFICES ASSUME NEW k \in Nat, k \in T, k + 1 \in 0..i PROVE c[k + 1] = s[k + 1]
      OBVIOUS
    <3> QED BY <1>3
  <2> HIDE DEF T
  <2>3. Nat \subseteq T
    BY <2>1, <2>2, SetInduction
  <2>4. i \in T
    BY <2>3
  <2> QED BY <2>4 DEF T
<1>5. Sum(tl, e, i) = c[i]
  BY DEF Sum, c, E
<1> QED BY <1>4, <1>5

\* There is such a sum.
LEMMA SumExists ==
  ASSUME NEW tl, NEW e, NEW n \in Nat, \A j \in 1..n : e[tl[j]] \in Nat
  PROVE  \E s \in [0..n -> Nat] : AddsUp(s, tl, e, n)
<1> DEFINE T == {k \in Nat : k <= n => \E s \in [0..k -> Nat] : AddsUp(s, tl, e, k)}
<1>1. 0 \in T
  <2>1. [j \in 0..0 |-> 0] \in [0..0 -> Nat] /\ AddsUp([j \in 0..0 |-> 0], tl, e, 0)
    BY DEF AddsUp
  <2> QED BY <2>1
<1>2. \A k \in Nat : k \in T => k + 1 \in T
  <2> SUFFICES ASSUME NEW k \in Nat, k \in T, k + 1 <= n
               PROVE  \E s \in [0..(k + 1) -> Nat] : AddsUp(s, tl, e, k + 1)
    OBVIOUS
  <2>1. PICK s \in [0..k -> Nat] : AddsUp(s, tl, e, k)
    OBVIOUS
  <2> DEFINE u == [j \in 0..(k + 1) |-> IF j = k + 1 THEN s[k] + e[tl[k + 1]] ELSE s[j]]
  <2>2. u \in [0..(k + 1) -> Nat]
    OBVIOUS
  <2>3. AddsUp(u, tl, e, k + 1)
    <3>1. u[0] = 0
      BY <2>1 DEF AddsUp
    <3>2. ASSUME NEW j \in 1..(k + 1) PROVE u[j] = u[j - 1] + e[tl[j]]
      BY <2>1 DEF AddsUp
    <3> QED BY <3>1, <3>2 DEF AddsUp
  <2> QED BY <2>2, <2>3
<1> HIDE DEF T
<1>3. Nat \subseteq T
  BY <1>1, <1>2, SetInduction
<1>4. n \in T
  BY <1>3
<1> QED BY <1>4 DEF T

\* The equations of the sum.
LEMMA SumSteps ==
  ASSUME NEW tl, NEW e, NEW n \in Nat, \A j \in 1..n : e[tl[j]] \in Nat
  PROVE  /\ \A i \in 0..n : Sum(tl, e, i) \in Nat
         /\ Sum(tl, e, 0) = 0
         /\ \A i \in 1..n : Sum(tl, e, i) = Sum(tl, e, i - 1) + e[tl[i]]
<1>1. PICK s \in [0..n -> Nat] : AddsUp(s, tl, e, n)
  BY SumExists
<1>2. ASSUME NEW i \in 0..n PROVE Sum(tl, e, i) = s[i]
  <2>1. s \in [0..n -> Int]
    OBVIOUS
  <2> QED BY <1>1, <2>1, SumIs
<1> QED BY <1>1, <1>2 DEF AddsUp

\* It does not fall.
LEMMA SumRises ==
  ASSUME NEW tl, NEW e, NEW n \in Nat, \A j \in 1..n : e[tl[j]] \in Nat,
         NEW j \in 0..n, NEW i \in 0..j
  PROVE  Sum(tl, e, i) <= Sum(tl, e, j)
<1> DEFINE S(k) == Sum(tl, e, k)
<1>1. /\ \A k \in 0..n : S(k) \in Nat
      /\ \A k \in 1..n : S(k) = S(k - 1) + e[tl[k]]
  BY SumSteps
<1> HIDE DEF S
<1> DEFINE T == {k \in Nat : i + k <= n => S(i) <= S(i + k)}
<1>2. 0 \in T
  BY <1>1
<1>3. \A k \in Nat : k \in T => k + 1 \in T
  <2> SUFFICES ASSUME NEW k \in Nat, k \in T, i + (k + 1) <= n PROVE S(i) <= S(i + (k + 1))
    OBVIOUS
  <2>1. S(i) <= S(i + k)
    OBVIOUS
  <2>2. S(i + (k + 1)) = S(i + k) + e[tl[i + (k + 1)]] /\ e[tl[i + (k + 1)]] \in Nat
    <3>1. i + (k + 1) \in 1..n /\ i + (k + 1) - 1 = i + k
      OBVIOUS
    <3> QED BY <1>1, <3>1
  <2>3. S(i) \in Nat /\ S(i + k) \in Nat
    BY <1>1
  <2> QED BY <2>1, <2>2, <2>3
<1> HIDE DEF T
<1>4. j - i \in T
  <2>1. Nat \subseteq T
    BY <1>2, <1>3, SetInduction
  <2> QED BY <2>1
<1>5. S(i) <= S(i + (j - i)) /\ i + (j - i) = j
  BY <1>4 DEF T
<1> QED BY <1>5 DEF S

-----------------------------------------------------------------------------
(***************************************************************************)
(* Sequences.                                                              *)
(***************************************************************************)

LEMMA InsertProperties ==
  ASSUME NEW S, NEW s \in Seq(S), NEW i \in 1..(Len(s) + 1), NEW x \in S
  PROVE  /\ InsertAt(s, i, x) \in Seq(S)
         /\ Len(InsertAt(s, i, x)) = Len(s) + 1
         /\ \A j \in 1..(Len(s) + 1) :
              InsertAt(s, i, x)[j] = IF j < i THEN s[j] ELSE IF j = i THEN x ELSE s[j - 1]
<1> DEFINE a == SubSeq(s, 1, i - 1)
           b == SubSeq(s, i, Len(s))
<1>1. Len(s) \in Nat /\ \A j \in 1..Len(s) : s[j] \in S
  BY LenProperties, ElementOfSeq
<1>2. /\ a \in Seq(S) /\ Len(a) = i - 1
      /\ \A j \in 1..(i - 1) : a[j] = s[j]
  <2>1. /\ a \in Seq(S)
        /\ Len(a) = IF 1 <= i - 1 THEN (i - 1) - 1 + 1 ELSE 0
        /\ \A j \in 1..((i - 1) - 1 + 1) : a[j] = s[1 + j - 1]
    BY <1>1, SubSeqProperties
  <2> HIDE DEF a
  <2> QED BY <2>1
<1>3. /\ b \in Seq(S) /\ Len(b) = Len(s) - i + 1
      /\ \A j \in 1..(Len(s) - i + 1) : b[j] = s[i + j - 1]
  <2>1. /\ b \in Seq(S)
        /\ Len(b) = IF i <= Len(s) THEN Len(s) - i + 1 ELSE 0
        /\ \A j \in 1..(Len(s) - i + 1) : b[j] = s[i + j - 1]
    BY <1>1, SubSeqProperties
  <2> HIDE DEF b
  <2> QED BY <1>1, <2>1
<1> HIDE DEF a, b
<1>4. /\ <<x>> \in Seq(S) /\ Len(<<x>>) = 1 /\ <<x>>[1] = x
  OBVIOUS
<1>5. /\ a \o <<x>> \in Seq(S) /\ Len(a \o <<x>>) = i
      /\ \A j \in 1..i : (a \o <<x>>)[j] = IF j < i THEN s[j] ELSE x
  BY <1>2, <1>4, ConcatProperties
<1> DEFINE c == a \o <<x>>
<1> HIDE DEF c
<1>6. /\ c \o b \in Seq(S) /\ Len(c \o b) = Len(s) + 1
      /\ \A j \in 1..(Len(s) + 1) : (c \o b)[j] = IF j <= i THEN c[j] ELSE b[j - i]
  <2>1. c \in Seq(S) /\ Len(c) = i
    BY <1>5 DEF c
  <2>2. /\ c \o b \in Seq(S) /\ Len(c \o b) = Len(c) + Len(b)
        /\ \A j \in 1..(Len(c) + Len(b)) :
             (c \o b)[j] = IF j <= Len(c) THEN c[j] ELSE b[j - Len(c)]
    BY <1>3, <2>1, ConcatProperties
  <2>3. Len(c) + Len(b) = Len(s) + 1
    BY <1>1, <1>3, <2>1
  <2> QED BY <2>1, <2>2, <2>3
<1>7. InsertAt(s, i, x) = c \o b
  BY DEF InsertAt, a, b, c
<1>8. ASSUME NEW j \in 1..(Len(s) + 1)
      PROVE  (c \o b)[j] = IF j < i THEN s[j] ELSE IF j = i THEN x ELSE s[j - 1]
  <2>1. CASE j <= i
    BY <1>5, <1>6, <2>1 DEF c
  <2>2. CASE j > i
    <3>1. j - i \in 1..(Len(s) - i + 1) /\ i + (j - i) - 1 = j - 1
      BY <1>1, <2>2
    <3>2. (c \o b)[j] = b[j - i]
      BY <1>6, <2>2
    <3>3. b[j - i] = s[i + (j - i) - 1]
      BY <1>3, <3>1
    <3> QED BY <1>1, <2>2, <3>1, <3>2, <3>3
  <2>3. j <= i \/ j > i
    BY <1>1
  <2> QED BY ONLY <2>1, <2>2, <2>3
<1> QED BY <1>6, <1>7, <1>8

LEMMA RemoveProperties ==
  ASSUME NEW S, NEW s \in Seq(S), NEW i \in 1..Len(s)
  PROVE  /\ RemoveAt(s, i) \in Seq(S)
         /\ Len(RemoveAt(s, i)) = Len(s) - 1
         /\ \A j \in 1..(Len(s) - 1) : RemoveAt(s, i)[j] = IF j < i THEN s[j] ELSE s[j + 1]
<1> DEFINE a == SubSeq(s, 1, i - 1)
           b == SubSeq(s, i + 1, Len(s))
<1>1. Len(s) \in Nat /\ \A j \in 1..Len(s) : s[j] \in S
  BY LenProperties, ElementOfSeq
<1>2. /\ a \in Seq(S) /\ Len(a) = i - 1
      /\ \A j \in 1..(i - 1) : a[j] = s[j]
  <2>1. /\ a \in Seq(S)
        /\ Len(a) = IF 1 <= i - 1 THEN (i - 1) - 1 + 1 ELSE 0
        /\ \A j \in 1..((i - 1) - 1 + 1) : a[j] = s[1 + j - 1]
    BY <1>1, SubSeqProperties
  <2> HIDE DEF a
  <2> QED BY <2>1
<1>3. /\ b \in Seq(S) /\ Len(b) = Len(s) - i
      /\ \A j \in 1..(Len(s) - i) : b[j] = s[i + j]
  <2>1. /\ b \in Seq(S)
        /\ Len(b) = IF i + 1 <= Len(s) THEN Len(s) - (i + 1) + 1 ELSE 0
        /\ \A j \in 1..(Len(s) - (i + 1) + 1) : b[j] = s[(i + 1) + j - 1]
    BY <1>1, SubSeqProperties
  <2> HIDE DEF b
  <2> QED BY <1>1, <2>1
<1> HIDE DEF a, b
<1>4. /\ a \o b \in Seq(S) /\ Len(a \o b) = Len(s) - 1
      /\ \A j \in 1..(Len(s) - 1) : (a \o b)[j] = IF j < i THEN a[j] ELSE b[j - (i - 1)]
  <2>1. /\ a \o b \in Seq(S) /\ Len(a \o b) = Len(a) + Len(b)
        /\ \A j \in 1..(Len(a) + Len(b)) :
             (a \o b)[j] = IF j <= Len(a) THEN a[j] ELSE b[j - Len(a)]
    BY <1>2, <1>3, ConcatProperties
  <2>2. Len(a) + Len(b) = Len(s) - 1
    BY <1>1, <1>2, <1>3
  <2>3. \A j \in 1..(Len(s) - 1) : j <= Len(a) <=> j < i
    BY <1>2
  <2> QED BY <1>2, <2>1, <2>2, <2>3
<1>5. RemoveAt(s, i) = a \o b
  BY DEF RemoveAt, a, b
<1>6. ASSUME NEW j \in 1..(Len(s) - 1)
      PROVE  (a \o b)[j] = IF j < i THEN s[j] ELSE s[j + 1]
  <2>1. CASE j < i
    BY <1>2, <1>4, <2>1
  <2>2. CASE j >= i
    <3>1. j - (i - 1) \in 1..(Len(s) - i) /\ i + (j - (i - 1)) = j + 1
      BY <1>1, <2>2
    <3>2. (a \o b)[j] = b[j - (i - 1)]
      BY <1>1, <1>4, <2>2
    <3>3. b[j - (i - 1)] = s[i + (j - (i - 1))]
      BY <1>3, <3>1
    <3> QED BY <1>1, <2>2, <3>1, <3>2, <3>3
  <2>3. j < i \/ j >= i
    BY <1>1
  <2> QED BY ONLY <2>1, <2>2, <2>3
<1> QED BY <1>4, <1>5, <1>6

\* What is left when the first n members have gone.
LEMMA DropProperties ==
  ASSUME NEW S, NEW s \in Seq(S), NEW n \in 0..Len(s)
  PROVE  /\ SubSeq(s, n + 1, Len(s)) \in Seq(S)
         /\ Len(SubSeq(s, n + 1, Len(s))) = Len(s) - n
         /\ \A j \in 1..(Len(s) - n) : SubSeq(s, n + 1, Len(s))[j] = s[n + j]
<1> DEFINE b == SubSeq(s, n + 1, Len(s))
<1>1. Len(s) \in Nat /\ \A j \in 1..Len(s) : s[j] \in S
  BY LenProperties, ElementOfSeq
<1>2. /\ b \in Seq(S)
      /\ Len(b) = IF n + 1 <= Len(s) THEN Len(s) - (n + 1) + 1 ELSE 0
      /\ \A j \in 1..(Len(s) - (n + 1) + 1) : b[j] = s[(n + 1) + j - 1]
  BY <1>1, SubSeqProperties
<1> HIDE DEF b
<1>3. /\ b \in Seq(S) /\ Len(b) = Len(s) - n
      /\ \A j \in 1..(Len(s) - n) : b[j] = s[n + j]
  BY <1>1, <1>2
<1> QED BY <1>3 DEF b

-----------------------------------------------------------------------------
(***************************************************************************)
(* The inductive invariant.                                                *)
(***************************************************************************)

\* Processes: who is asleep is in one of the two calls.
Positions ==
  /\ at \in [Process -> {"user", "sleep", "read"}]
  /\ asleep \subseteq Process /\ exiting \subseteq Process
  /\ \A p \in asleep : at[p] # "user"

\* The timer list: no timer is linked twice, and what has to go by until one rings is a
\* time somebody may ask for.
List ==
  /\ timer_list \in Seq(Timer) /\ IsInjective(timer_list)
  /\ expires \in [Timer -> 0..MaxTime]
  /\ HeadNotDue
  /\ \A i \in 0..Len(timer_list) : Through(i) <= MaxTime

\* A linked timer belongs to a process in do_sleep, which is not woken before its timer
\* is off the list unless it is killed.
Timers ==
  /\ List
  /\ \A t \in Linked : at[t] = "sleep"
  /\ \A t \in asleep : at[t] = "sleep" => t \in Linked

\* The readers of stdin: who is in the wait queue has not been woken by a key; who
\* is off it has been, and runs; who is in it and runs has been killed.
Readers ==
  /\ call \in [Process -> [len : Nat, ret : Nat]]
  /\ \A p \in Process : IF at[p] = "read" THEN call[p].ret < call[p].len ELSE call[p] = NoCall
  /\ wait_queue \in Seq(Process) /\ IsInjective(wait_queue)
  /\ wakeup_flags \in [Process -> {"WT_INTERRUPTED", "WT_KBD"}]
  /\ \A p \in Queued : /\ at[p] = "read" /\ wakeup_flags[p] = "WT_INTERRUPTED"
                       /\ p \notin asleep => p \in exiting
  /\ \A p \in Process \ Queued :
       at[p] = "read" => wakeup_flags[p] = "WT_KBD" /\ p \notin asleep
  /\ \A p \in asleep : at[p] = "read" => p_rpos = p_wpos

\* How many keys are in the console's buffer.
Pending == (cons.wpos - cons.rpos) % CONSBUFSIZE

\* The console's buffer holds the keys typed last.
Console ==
  /\ cons \in [buf : [0..(CONSBUFSIZE - 1) -> Nat],
               rpos : 0..(CONSBUFSIZE - 1), wpos : 0..(CONSBUFSIZE - 1)]
  /\ typed \in Nat /\ Pending <= typed
  /\ \A i \in 1..Pending :
       cons.buf[(cons.rpos + i - 1) % CONSBUFSIZE] = typed - Pending + i

\* The i-th key that has been put into the ring and stayed there until it was read, or
\* is still in it.
KeyOf(i) == IF i <= p_rpos THEN got[i] ELSE stdin_buffer[(i - 1) % STDIN_BUFSIZE]

\* The ring of stdin: its keys and those read are different and have left the console's
\* buffer; they are in order until a buffer overruns.
Ring ==
  /\ stdin_buffer \in [0..(STDIN_BUFSIZE - 1) -> Nat]
  /\ p_rpos \in Nat /\ p_wpos \in p_rpos..(p_rpos + STDIN_BUFSIZE)
  /\ got \in Seq(Nat) /\ Len(got) = p_rpos
  /\ overrun \in BOOLEAN
  /\ \A i \in 1..p_wpos : KeyOf(i) \in 1..(typed - Pending)
  /\ \A i, j \in 1..p_wpos : KeyOf(i) = KeyOf(j) => i = j
  /\ ~overrun => p_wpos = typed - Pending /\ \A i \in 1..p_wpos : KeyOf(i) = i

IInv == Positions /\ Timers /\ Readers /\ Console /\ Ring

-----------------------------------------------------------------------------
(***************************************************************************)
(* The timer list: what each operation makes of the ticks to go.           *)
(***************************************************************************)

\* Position and the ticks to go, of a list tl and the expires e of its timers.
PositionIn(tl, t) == CHOOSE i \in 1..Len(tl) : tl[i] = t
ToGoIn(tl, e, t)  == Sum(tl, e, PositionIn(tl, t))

ToGo(t) == Through(Position(t))

LEMMA PositionIs ==
  ASSUME NEW tl \in Seq(Timer), IsInjective(tl), NEW i \in 1..Len(tl)
  PROVE  PositionIn(tl, tl[i]) = i
<1>1. DOMAIN tl = 1..Len(tl)
  BY LenProperties
<1>2. \A j \in 1..Len(tl) : tl[j] = tl[i] => j = i
  BY <1>1 DEF IsInjective
<1> QED BY <1>2 DEF PositionIn

LEMMA ThroughIsSum ==
  /\ \A i : Through(i) = Sum(timer_list, expires, i)
  /\ \A t : ToGo(t) = ToGoIn(timer_list, expires, t)
BY DEF Through, Sum, ToGo, ToGoIn, Position, PositionIn

\* The same after a step.
LEMMA ThroughIsSumNext ==
  /\ \A i : (Through(i))' = Sum(timer_list', expires', i)
  /\ \A t : (ToGo(t))' = ToGoIn(timer_list', expires', t)
BY DEF Through, Sum, ToGo, ToGoIn, Position, PositionIn

LEMMA LinkedIs ==
  ASSUME NEW tl \in Seq(Timer)
  PROVE  ToSet(tl) = {tl[i] : i \in 1..Len(tl)}
BY LenProperties DEF ToSet

\* The equations of Through, and what is known of a list.
LEMMA ListFacts ==
  ASSUME List
  PROVE  /\ timer_list \in Seq(Timer) /\ Len(timer_list) \in Nat
         /\ \A i \in 1..Len(timer_list) : timer_list[i] \in Timer
         /\ \A i, j \in 1..Len(timer_list) : timer_list[i] = timer_list[j] => i = j
         /\ \A i \in 1..Len(timer_list) : expires[timer_list[i]] \in 0..MaxTime
         /\ \A i \in 0..Len(timer_list) : Through(i) \in 0..MaxTime
         /\ Through(0) = 0
         /\ \A i \in 1..Len(timer_list) :
              Through(i) = Through(i - 1) + expires[timer_list[i]]
         /\ \A j \in 0..Len(timer_list) : \A i \in 0..j : Through(i) <= Through(j)
         /\ \A i \in 1..Len(timer_list) : Through(i) > 0
         /\ \A i \in 1..Len(timer_list) : ToGo(timer_list[i]) = Through(i)
         /\ Linked = {timer_list[i] : i \in 1..Len(timer_list)}
<1> USE TimerAssumption
<1> DEFINE n == Len(timer_list)
<1>1. /\ timer_list \in Seq(Timer) /\ IsInjective(timer_list)
      /\ expires \in [Timer -> 0..MaxTime]
      /\ \A i \in 0..n : Through(i) <= MaxTime
  BY DEF List
<1>2. n \in Nat /\ \A i \in 1..n : timer_list[i] \in Timer
  BY <1>1, LenProperties, ElementOfSeq
<1>3. \A i, j \in 1..n : timer_list[i] = timer_list[j] => i = j
  BY <1>1, LenProperties DEF IsInjective
<1>4. \A i \in 1..n : expires[timer_list[i]] \in 0..MaxTime
  BY <1>1, <1>2
<1>5. \A i \in 1..n : expires[timer_list[i]] \in Nat
  BY <1>4
<1> HIDE DEF n
<1>6. /\ \A i \in 0..n : Through(i) \in Nat
      /\ Through(0) = 0
      /\ \A i \in 1..n : Through(i) = Through(i - 1) + expires[timer_list[i]]
  BY <1>2, <1>5, SumSteps, ThroughIsSum
<1>7. \A j \in 0..n : \A i \in 0..j : Through(i) <= Through(j)
  BY <1>2, <1>5, SumRises, ThroughIsSum
<1>8. \A i \in 1..n : Through(i) > 0
  <2> SUFFICES ASSUME NEW i \in 1..n PROVE Through(i) > 0
    OBVIOUS
  <2>1. expires[timer_list[1]] # 0
    <3>1. timer_list # <<>>
      BY <1>1, <1>2, EmptySeq DEF n
    <3> QED BY <3>1 DEF List, HeadNotDue
  <2>2. 1 \in 1..n /\ i \in 0..n /\ 1 \in 0..i
    BY <1>2
  <2>3. Through(1) = 0 + expires[timer_list[1]] /\ expires[timer_list[1]] \in Nat
    BY <1>5, <1>6, <2>2
  <2>4. Through(1) <= Through(i)
    BY <1>7, <2>2
  <2>5. Through(i) \in Nat
    BY <1>6, <2>2
  <2> QED BY <2>1, <2>3, <2>4, <2>5
<1>9. \A i \in 1..n : ToGo(timer_list[i]) = Through(i)
  BY <1>1, PositionIs, ThroughIsSum DEF ToGoIn, n
<1>10. Linked = {timer_list[i] : i \in 1..n}
  BY <1>1, LinkedIs DEF Linked, n
<1>11. \A i \in 0..n : Through(i) \in 0..MaxTime
  BY <1>1, <1>6 DEF n
<1> QED BY <1>1, <1>2, <1>3, <1>4, <1>6, <1>7, <1>8, <1>9, <1>10, <1>11 DEF n

\* To know a new list it is enough to have its members and a sum for it.
LEMMA NewList ==
  ASSUME timer_list' \in Seq(Timer),
         \A i, j \in 1..Len(timer_list') : timer_list'[i] = timer_list'[j] => i = j,
         expires' \in [Timer -> 0..MaxTime],
         timer_list' # <<>> => expires'[timer_list'[1]] # 0,
         NEW s \in [0..Len(timer_list') -> 0..MaxTime],
         AddsUp(s, timer_list', expires', Len(timer_list'))
  PROVE  /\ List'
         /\ \A t \in Timer, i \in 1..Len(timer_list') : timer_list'[i] = t => (ToGo(t))' = s[i]
         /\ Linked' = {timer_list'[i] : i \in 1..Len(timer_list')}
<1> USE TimerAssumption
<1> DEFINE n == Len(timer_list')
<1>1. n \in Nat /\ DOMAIN timer_list' = 1..n
  BY LenProperties
<1>2. IsInjective(timer_list')
  BY <1>1 DEF IsInjective
<1>3. s \in [0..n -> Int]
  OBVIOUS
<1>4. \A i \in 0..n : Sum(timer_list', expires', i) = s[i]
  <2> HIDE DEF n
  <2>1. AddsUp(s, timer_list', expires', n)
    BY DEF n
  <2> QED BY <1>1, <1>3, <2>1, SumIs
<1>5. \A i \in 0..n : (Through(i))' = s[i]
  BY <1>4, ThroughIsSumNext
<1>6. (\A i \in 0..Len(timer_list) : Through(i) <= MaxTime)'
  BY <1>5
<1>7. HeadNotDue'
  BY DEF HeadNotDue
<1>8. List'
  BY <1>2, <1>6, <1>7 DEF List
<1>9. \A t \in Timer, i \in 1..n : timer_list'[i] = t => (ToGo(t))' = s[i]
  <2> SUFFICES ASSUME NEW t \in Timer, NEW i \in 1..n, timer_list'[i] = t
               PROVE  (ToGo(t))' = s[i]
    OBVIOUS
  <2>1. PositionIn(timer_list', t) = i
    BY <1>2, PositionIs
  <2>2. (ToGo(t))' = Sum(timer_list', expires', i)
    BY <2>1, ThroughIsSumNext DEF ToGoIn
  <2>3. i \in 0..n
    BY <1>1
  <2> QED BY <1>4, <2>2, <2>3
<1>10. Linked' = {timer_list'[i] : i \in 1..n}
  BY LinkedIs DEF Linked
<1> QED BY <1>8, <1>9, <1>10

\* add_timer: the loop finds a place, and the new timer rings at its time; the others
\* keep theirs.
LEMMA PlaceExists ==
  ASSUME List, NEW time \in 1..MaxTime
  PROVE  /\ Place(time) \in 1..(Len(timer_list) + 1)
         /\ \A j \in 1..(Place(time) - 1) : Through(j) <= time
         /\ Place(time) <= Len(timer_list) => time < Through(Place(time))
<1> USE TimerAssumption
<1> DEFINE n == Len(timer_list)
           S == {i \in 1..(n + 1) : i <= n => time < Through(i)}
<1>1. n \in Nat /\ \A i \in 1..n : Through(i) \in Nat
  BY ListFacts
<1> HIDE DEF n
<1>2. S \in SUBSET Nat /\ n + 1 \in S
  BY <1>1
<1>3. PICK i \in S : \A y \in S : i <= y
  BY <1>2, LeastNumber
<1>4. \A j \in 1..(i - 1) : Through(j) <= time
  BY <1>1, <1>3
<1>5. /\ i \in 1..(n + 1)
      /\ \A j \in 1..(i - 1) : Through(j) <= time
      /\ i <= n => time < Through(i)
  BY <1>3, <1>4
<1> HIDE DEF S
<1>6. Place(time) = CHOOSE k \in 1..(n + 1) : /\ \A j \in 1..(k - 1) : Through(j) <= time
                                              /\ k <= n => time < Through(k)
  BY DEF Place, n
<1> QED BY <1>5, <1>6 DEF n

LEMMA AddTimer ==
  ASSUME List, NEW t \in Timer, t \notin Linked, NEW time \in 1..MaxTime, add_timer(t, time)
  PROVE  /\ List'
         /\ Linked' = Linked \cup {t}
         /\ (ToGo(t))' = time
         /\ \A u \in Linked : (ToGo(u))' = ToGo(u)
<1> USE TimerAssumption
<1> DEFINE n == Len(timer_list)
           T(j) == Through(j)
           i == Place(time)
           left == time - T(i - 1)
<1>1. /\ timer_list \in Seq(Timer) /\ n \in Nat
      /\ \A j \in 1..n : timer_list[j] \in Timer
      /\ \A j, k \in 1..n : timer_list[j] = timer_list[k] => j = k
      /\ \A j \in 1..n : expires[timer_list[j]] \in 0..MaxTime
      /\ \A j \in 0..n : T(j) \in 0..MaxTime
      /\ T(0) = 0
      /\ \A j \in 1..n : T(j) = T(j - 1) + expires[timer_list[j]]
      /\ \A j \in 1..n : ToGo(timer_list[j]) = T(j)
      /\ Linked = {timer_list[j] : j \in 1..n}
  BY ListFacts
<1>2. expires \in [Timer -> 0..MaxTime] /\ (timer_list # <<>> => expires[timer_list[1]] # 0)
  BY DEF List, HeadNotDue
<1>3. /\ i \in 1..(n + 1)
      /\ \A j \in 1..(i - 1) : T(j) <= time
      /\ i <= n => time < T(i)
  BY PlaceExists
<1>4. timer_list' = InsertAt(timer_list, i, t) /\ expires' = NextReduced(t, i, left)
  BY DEF add_timer
<1>5. \A j \in 1..n : timer_list[j] # t
  BY <1>1
<1> HIDE DEF n, T, i, left
<1>6. T(i - 1) \in 0..time /\ left \in 0..MaxTime /\ left = time - T(i - 1)
  <2>1. i = 1 \/ i - 1 \in 1..(i - 1)
    BY <1>1, <1>3
  <2>2. T(i - 1) <= time
    BY <1>1, <1>3, <2>1
  <2>3. i - 1 \in 0..n
    BY <1>1, <1>3
  <2>4. T(i - 1) \in 0..MaxTime
    BY <1>1, <2>3
  <2> QED BY <2>2, <2>4 DEF left
<1>7. /\ timer_list' \in Seq(Timer)
      /\ Len(timer_list') = n + 1
      /\ \A j \in 1..(n + 1) :
           timer_list'[j] = IF j < i THEN timer_list[j] ELSE IF j = i THEN t
                            ELSE timer_list[j - 1]
  <2>1. i \in 1..(Len(timer_list) + 1)
    BY <1>3 DEF n
  <2>2. /\ InsertAt(timer_list, i, t) \in Seq(Timer)
        /\ Len(InsertAt(timer_list, i, t)) = Len(timer_list) + 1
        /\ \A j \in 1..(Len(timer_list) + 1) : InsertAt(timer_list, i, t)[j] =
             IF j < i THEN timer_list[j] ELSE IF j = i THEN t ELSE timer_list[j - 1]
    <3>1. timer_list \in Seq(Timer)
      BY <1>1
    <3> QED BY <2>1, <3>1, InsertProperties
  <2> QED BY <1>4, <2>2 DEF n
\* The next one counts from the new one on.
<1>8. /\ expires' \in [Timer -> 0..MaxTime]
      /\ expires'[t] = left
      /\ i <= n => expires'[timer_list[i]] = T(i) - time
      /\ \A u \in Timer : u # t /\ (i <= n => u # timer_list[i]) => expires'[u] = expires[u]
  <2>1. CASE i <= n
    <3>1. i \in 1..n /\ timer_list[i] \in Timer /\ timer_list[i] # t
      BY <1>1, <1>3, <1>5, <2>1
    <3>2. expires[timer_list[i]] - left = T(i) - time /\ T(i) - time \in 0..MaxTime
      <4>1. /\ T(i) = T(i - 1) + expires[timer_list[i]] /\ time < T(i) /\ T(i) \in 0..MaxTime
            /\ expires[timer_list[i]] \in 0..MaxTime
        BY <1>1, <1>3, <2>1, <3>1
      <4> QED BY <1>6, <4>1
    <3>3. Wrap(expires[timer_list[i]] - left) = T(i) - time
      <4>1. MaxTime + 1 \in Nat \ {0}
        OBVIOUS
      <4>2. T(i) - time \in 0..((MaxTime + 1) - 1)
        BY <3>2
      <4>3. (T(i) - time) % (MaxTime + 1) = T(i) - time
        BY <4>1, <4>2, ModSmall
      <4> QED BY <3>2, <4>3 DEF Wrap
    <3>4. expires' = [expires EXCEPT ![t] = left,
                                     ![timer_list[i]] = Wrap(expires[timer_list[i]] - left)]
      BY <1>2, <1>4, <2>1, <3>1 DEF NextReduced, n
    <3> QED BY <1>2, <1>6, <2>1, <3>1, <3>2, <3>3, <3>4
  <2>2. CASE i > n
    <3>1. expires' = [expires EXCEPT ![t] = left]
      BY <1>1, <1>3, <1>4, <2>2 DEF NextReduced, n
    <3> QED BY <1>1, <1>2, <1>3, <1>6, <2>2, <3>1
  <2>3. i <= n \/ i > n
    BY <1>1, <1>3
  <2> QED BY ONLY <2>1, <2>2, <2>3
<1> DEFINE s == [j \in 0..(n + 1) |-> IF j < i THEN T(j) ELSE IF j = i THEN time ELSE T(j - 1)]
<1>9. s \in [0..(n + 1) -> 0..MaxTime]
  <2> SUFFICES ASSUME NEW j \in 0..(n + 1)
               PROVE  (IF j < i THEN T(j) ELSE IF j = i THEN time ELSE T(j - 1)) \in 0..MaxTime
    OBVIOUS
  <2>1. CASE j < i
    <3>1. j \in 0..n
      BY <1>1, <1>3, <2>1
    <3> QED BY <1>1, <2>1, <3>1
  <2>2. CASE j = i
    BY <2>2
  <2>3. CASE j > i
    <3>1. j - 1 \in 0..n
      BY <1>1, <1>3, <2>3
    <3> QED BY <1>1, <1>3, <2>3, <3>1
  <2>4. j < i \/ j = i \/ j > i
    BY <1>1, <1>3
  <2> QED BY ONLY <2>1, <2>2, <2>3, <2>4
<1>10. AddsUp(s, timer_list', expires', n + 1)
  <2>1. s[0] = 0
    BY <1>1, <1>3
  <2>2. ASSUME NEW j \in 1..(n + 1) PROVE s[j] = s[j - 1] + expires'[timer_list'[j]]
    <3>0. j - 1 \in 0..(n + 1) /\ j \in 0..(n + 1)
      BY <1>1
    <3>1. CASE j < i
      <4>1. j \in 1..n /\ j - 1 < i
        BY <1>1, <1>3, <3>1
      <4>2. timer_list'[j] = timer_list[j] /\ timer_list[j] # t /\ timer_list[j] \in Timer
        BY <1>1, <1>5, <1>7, <3>1, <4>1
      <4>3. i <= n => timer_list[j] # timer_list[i]
        BY <1>1, <1>3, <3>1, <4>1
      <4>4. expires'[timer_list'[j]] = expires[timer_list[j]]
        BY <1>8, <4>2, <4>3
      <4>5. s[j] = T(j) /\ s[j - 1] = T(j - 1)
        BY <3>0, <3>1, <4>1
      <4> QED BY <1>1, <4>1, <4>4, <4>5
    <3>2. CASE j = i
      <4>0. ~(j < i)
        BY <1>3, <3>2
      <4>1. timer_list'[j] = t
        BY <1>7, <3>2, <4>0
      <4>2. s[j] = time
        BY <3>0, <3>2
      <4>3. j - 1 < i
        BY <1>3, <3>2
      <4>4. s[j - 1] = T(i - 1)
        BY <3>0, <3>2, <4>3
      <4> QED BY <1>6, <1>8, <4>1, <4>2, <4>4
    <3>3. CASE j = i + 1
      <4>0. n \in Nat /\ i \in 1..(n + 1) /\ j \in 1..(n + 1)
        BY <1>1, <1>3
      <4>1. i \in 1..n /\ j - 1 = i
        BY ONLY <4>0, <3>3
      <4>2. timer_list'[j] = timer_list[i]
        <5>1. ~(j < i) /\ j # i
          BY ONLY <4>0, <3>3
        <5> QED BY <1>7, <4>1, <5>1
      <4>3. s[j] = T(i)
        BY <1>3, <3>0, <3>3
      <4>4. s[j - 1] = time
        BY <3>0, <4>1
      <4>5. T(i) \in Int
        BY <1>1, <4>1
      <4> QED BY <1>8, <4>1, <4>2, <4>3, <4>4, <4>5
    <3>4. CASE j > i + 1
      <4>1. j - 1 \in 1..n /\ j - 1 > i /\ i \in 1..n /\ ~ (j < i) /\ j # i
        BY <1>1, <1>3, <3>4
      <4>2. timer_list'[j] = timer_list[j - 1]
        BY <1>7, <4>1
      <4>3. /\ timer_list[j - 1] # t /\ timer_list[j - 1] \in Timer
            /\ timer_list[j - 1] # timer_list[i]
        BY <1>1, <1>5, <4>1
      <4>4. expires'[timer_list'[j]] = expires[timer_list[j - 1]]
        BY <1>8, <4>2, <4>3
      <4>5. s[j] = T(j - 1)
        BY <3>0, <4>1
      <4>6. s[j - 1] = T(j - 1 - 1)
        BY <1>3, <3>0, <4>1
      <4> QED BY <1>1, <4>1, <4>4, <4>5, <4>6
    <3>5. j < i \/ j = i \/ j = i + 1 \/ j > i + 1
      BY <1>1, <1>3
    <3> QED BY ONLY <3>1, <3>2, <3>3, <3>4, <3>5
  <2> QED BY <2>1, <2>2 DEF AddsUp
<1>11. \A j, k \in 1..(n + 1) : timer_list'[j] = timer_list'[k] => j = k
  <2> SUFFICES ASSUME NEW j \in 1..(n + 1), NEW k \in 1..(n + 1),
                      timer_list'[j] = timer_list'[k], j < k
               PROVE  FALSE
    BY <1>1
  <2>0. /\ timer_list'[j] = IF j < i THEN timer_list[j] ELSE IF j = i THEN t
                            ELSE timer_list[j - 1]
        /\ timer_list'[k] = IF k < i THEN timer_list[k] ELSE IF k = i THEN t
                            ELSE timer_list[k - 1]
    BY <1>7
  <2>1. CASE k < i
    <3>1. j \in 1..n /\ k \in 1..n /\ j < i /\ j # k
      BY <1>1, <1>3, <2>1
    <3>2. timer_list[j] = timer_list[k]
      BY <2>0, <2>1, <3>1
    <3> QED BY <1>1, <3>1, <3>2
  <2>2. CASE k = i
    <3>1. j \in 1..n /\ j < i /\ ~(k < i)
      BY <1>1, <1>3, <2>2
    <3>2. timer_list[j] = t
      BY <2>0, <2>2, <3>1
    <3> QED BY <1>5, <3>1, <3>2
  <2>3. CASE k > i /\ j = i
    <3>1. k - 1 \in 1..n /\ ~(k < i) /\ k # i /\ ~(j < i)
      BY <1>1, <1>3, <2>3
    <3>2. timer_list[k - 1] = t
      BY <2>0, <2>3, <3>1
    <3> QED BY <1>5, <3>1, <3>2
  <2>4. CASE k > i /\ j < i
    <3>1. k - 1 \in 1..n /\ j \in 1..n /\ j # k - 1 /\ ~(k < i) /\ k # i
      BY <1>1, <1>3, <2>4
    <3>2. timer_list[j] = timer_list[k - 1]
      BY <2>0, <2>4, <3>1
    <3> QED BY <1>1, <3>1, <3>2
  <2>5. CASE k > i /\ j > i
    <3>1. /\ k - 1 \in 1..n /\ j - 1 \in 1..n /\ j - 1 # k - 1
          /\ ~(k < i) /\ k # i /\ ~(j < i) /\ j # i
      BY <1>1, <1>3, <2>5
    <3>2. timer_list[j - 1] = timer_list[k - 1]
      BY <2>0, <3>1
    <3> QED BY <1>1, <3>1, <3>2
  <2>6. k < i \/ k = i \/ (k > i /\ (j < i \/ j = i \/ j > i))
    BY <1>1, <1>3
  <2> QED BY <2>1, <2>2, <2>3, <2>4, <2>5, <2>6
<1>12. expires'[timer_list'[1]] # 0
  <2>1. CASE i = 1
    <3>1. timer_list'[1] = t /\ left = time
      BY <1>1, <1>6, <1>7, <2>1
    <3> QED BY <1>8, <3>1
  <2>2. CASE i > 1
    <3>1. /\ 1 \in 1..n /\ timer_list'[1] = timer_list[1]
          /\ timer_list # <<>>
      <4>1. 1 \in 1..n /\ 1 < i
        BY <1>1, <1>3, <2>2
      <4>2. timer_list # <<>>
        BY <4>1, EmptySeq DEF n
      <4> QED BY <1>1, <1>7, <4>1, <4>2
    <3>2. timer_list[1] # t /\ (i <= n => timer_list[1] # timer_list[i]) /\ timer_list[1] \in Timer
      BY <1>1, <1>3, <1>5, <2>2, <3>1
    <3> QED BY <1>2, <1>8, <3>1, <3>2
  <2> QED BY <1>3, <2>1, <2>2
<1> HIDE DEF s
<1>13. /\ List'
       /\ \A u \in Timer, j \in 1..(n + 1) : timer_list'[j] = u => (ToGo(u))' = s[j]
       /\ Linked' = {timer_list'[j] : j \in 1..(n + 1)}
  <2>1. /\ s \in [0..Len(timer_list') -> 0..MaxTime]
        /\ AddsUp(s, timer_list', expires', Len(timer_list'))
        /\ \A j, k \in 1..Len(timer_list') : timer_list'[j] = timer_list'[k] => j = k
    BY <1>7, <1>9, <1>10, <1>11
  <2>2. timer_list' \in Seq(Timer) /\ expires' \in [Timer -> 0..MaxTime]
    BY <1>7, <1>8
  <2>3. /\ List'
        /\ \A u \in Timer, j \in 1..Len(timer_list') : timer_list'[j] = u => (ToGo(u))' = s[j]
        /\ Linked' = {timer_list'[j] : j \in 1..Len(timer_list')}
    BY <1>12, <2>1, <2>2, NewList
  <2> QED BY <1>7, <2>3
<1>14. (ToGo(t))' = time
  <2>1. timer_list'[i] = t /\ s[i] = time
    BY <1>1, <1>3, <1>7 DEF s
  <2> QED BY <1>3, <1>13, <2>1
<1>15. ASSUME NEW u \in Linked PROVE u \in Linked' /\ (ToGo(u))' = ToGo(u)
  <2>1. PICK j \in 1..n : timer_list[j] = u
    BY <1>1
  <2>2. ToGo(u) = T(j) /\ u \in Timer
    BY <1>1, <2>1
  <2>3. CASE j < i
    <3>1. j \in 1..(n + 1) /\ timer_list'[j] = u /\ s[j] = T(j)
      BY <1>1, <1>3, <1>7, <2>1, <2>3 DEF s
    <3> QED BY <1>13, <2>2, <3>1
  <2>4. CASE j >= i
    <3>1. j + 1 \in 1..(n + 1) /\ ~(j + 1 < i) /\ j + 1 # i /\ (j + 1) - 1 = j
      BY <1>1, <1>3, <2>4
    <3>2. timer_list'[j + 1] = u
      BY <1>7, <2>1, <3>1
    <3>3. s[j + 1] = T(j)
      BY <3>1 DEF s
    <3> QED BY <1>13, <2>2, <3>1, <3>2, <3>3
  <2>5. j < i \/ j >= i
    BY <1>1, <1>3
  <2> QED BY <2>3, <2>4, <2>5
<1>16. Linked' = Linked \cup {t}
  <2>1. ASSUME NEW u \in Linked' PROVE u \in Linked \cup {t}
    <3>1. PICK j \in 1..(n + 1) : timer_list'[j] = u
      BY <1>13
    <3>2. CASE j < i
      <4>1. j \in 1..n
        BY <1>1, <1>3, <3>2
      <4> QED BY <1>1, <1>7, <3>1, <3>2, <4>1
    <3>3. CASE j = i
      <4>1. ~(j < i)
        BY <1>3, <3>3
      <4> QED BY <1>7, <3>1, <3>3, <4>1
    <3>4. CASE j > i
      <4>1. j - 1 \in 1..n /\ ~(j < i) /\ j # i
        BY <1>1, <1>3, <3>4
      <4> QED BY <1>1, <1>7, <3>1, <4>1
    <3> QED BY <1>1, <1>3, <3>2, <3>3, <3>4
  <2>2. t \in Linked'
    <3>1. timer_list'[i] = t
      BY <1>1, <1>3, <1>7
    <3> QED BY <1>3, <1>13, <3>1
  <2> QED BY <1>15, <2>1, <2>2
<1> QED BY <1>13, <1>14, <1>15, <1>16

\* del_timer: the others keep the ticks they have to go.
LEMMA DelTimer ==
  ASSUME List, NEW t \in Timer, del_timer(t)
  PROVE  /\ List'
         /\ Linked' = Linked \ {t}
         /\ \A u \in Linked' : (ToGo(u))' = ToGo(u)
<1> USE TimerAssumption
<1>0. CASE t \notin Linked /\ UNCHANGED tvars
  BY <1>0 DEF tvars, List, HeadNotDue, Linked, ToGo, Through, Position
<1> SUFFICES ASSUME t \in Linked, timer_list' = Unlinked(t), expires' = TimePassedOn(t)
             PROVE  /\ List'
                    /\ Linked' = Linked \ {t}
                    /\ \A u \in Linked' : (ToGo(u))' = ToGo(u)
  BY <1>0 DEF del_timer
<1> DEFINE n == Len(timer_list)
           T(j) == Through(j)
           i == Position(t)
<1>1. /\ timer_list \in Seq(Timer) /\ n \in Nat
      /\ \A j \in 1..n : timer_list[j] \in Timer
      /\ \A j, k \in 1..n : timer_list[j] = timer_list[k] => j = k
      /\ \A j \in 1..n : expires[timer_list[j]] \in 0..MaxTime
      /\ \A j \in 0..n : T(j) \in 0..MaxTime
      /\ T(0) = 0
      /\ \A j \in 1..n : T(j) = T(j - 1) + expires[timer_list[j]]
      /\ \A j \in 1..n : ToGo(timer_list[j]) = T(j)
      /\ Linked = {timer_list[j] : j \in 1..n}
  BY ListFacts
<1>2. expires \in [Timer -> 0..MaxTime] /\ (timer_list # <<>> => expires[timer_list[1]] # 0)
  BY DEF List, HeadNotDue
<1>3. i \in 1..n /\ timer_list[i] = t
  <2>1. \E j \in 1..n : timer_list[j] = t
    BY <1>1
  <2> QED BY <2>1 DEF Position
<1> HIDE DEF n, T, i
<1>4. /\ timer_list' \in Seq(Timer)
      /\ Len(timer_list') = n - 1
      /\ \A j \in 1..(n - 1) :
           timer_list'[j] = IF j < i THEN timer_list[j] ELSE timer_list[j + 1]
  <2>1. i \in 1..Len(timer_list) /\ timer_list \in Seq(Timer)
    BY <1>1, <1>3 DEF n
  <2>2. /\ RemoveAt(timer_list, i) \in Seq(Timer)
        /\ Len(RemoveAt(timer_list, i)) = Len(timer_list) - 1
        /\ \A j \in 1..(Len(timer_list) - 1) :
             RemoveAt(timer_list, i)[j] = IF j < i THEN timer_list[j] ELSE timer_list[j + 1]
    BY <2>1, RemoveProperties
  <2> QED BY <2>2 DEF Unlinked, n, i
\* The next one counts from the one before t on.
<1>5. /\ expires' \in [Timer -> 0..MaxTime]
      /\ i < n => expires'[timer_list[i + 1]] = T(i + 1) - T(i - 1)
      /\ \A u \in Timer : u # t /\ (i < n => u # timer_list[i + 1]) => expires'[u] = expires[u]
  <2>1. CASE i < n
    <3>1. /\ i + 1 \in 1..n /\ timer_list[i + 1] \in Timer /\ timer_list[i + 1] # t
          /\ i - 1 \in 0..n /\ i + 1 \in 0..n
      <4>1. i + 1 \in 1..n /\ i + 1 # i /\ i - 1 \in 0..n
        BY <1>1, <1>3, <2>1
      <4> QED BY <1>1, <1>3, <4>1
    <3>2. /\ expires[timer_list[i + 1]] + expires[t] = T(i + 1) - T(i - 1)
          /\ T(i + 1) - T(i - 1) \in 0..MaxTime
      <4>1. T(i + 1) = T((i + 1) - 1) + expires[timer_list[i + 1]]
        BY <1>1, <3>1
      <4>2. T(i) = T(i - 1) + expires[t]
        BY <1>1, <1>3
      <4>3. /\ T(i + 1) \in 0..MaxTime /\ T(i - 1) \in 0..MaxTime
            /\ expires[timer_list[i + 1]] \in 0..MaxTime /\ expires[t] \in 0..MaxTime
        BY <1>1, <1>3, <3>1
      <4>4. (i + 1) - 1 = i
        BY <1>3
      <4> QED BY <4>1, <4>2, <4>3, <4>4
    <3>3. Wrap(expires[timer_list[i + 1]] + expires[t]) = T(i + 1) - T(i - 1)
      <4>1. MaxTime + 1 \in Nat \ {0}
        OBVIOUS
      <4>2. T(i + 1) - T(i - 1) \in 0..((MaxTime + 1) - 1)
        BY <3>2
      <4>3. (T(i + 1) - T(i - 1)) % (MaxTime + 1) = T(i + 1) - T(i - 1)
        BY <4>1, <4>2, ModSmall
      <4> QED BY <3>2, <4>3 DEF Wrap
    <3>4. expires' = [expires EXCEPT
                        ![timer_list[i + 1]] = Wrap(expires[timer_list[i + 1]] + expires[t]),
                        ![t] = 0]
      BY <2>1 DEF TimePassedOn, n, i
    <3> QED BY <1>2, <2>1, <3>1, <3>2, <3>3, <3>4
  <2>2. CASE i = n
    <3>1. expires' = [expires EXCEPT ![t] = 0]
      BY <1>1, <2>2 DEF TimePassedOn, n, i
    <3> QED BY <1>1, <1>2, <2>2, <3>1
  <2>3. i < n \/ i = n
    BY <1>1, <1>3
  <2> QED BY ONLY <2>1, <2>2, <2>3
<1> DEFINE s == [j \in 0..(n - 1) |-> IF j < i THEN T(j) ELSE T(j + 1)]
<1>6. s \in [0..(n - 1) -> 0..MaxTime]
  <2> SUFFICES ASSUME NEW j \in 0..(n - 1)
               PROVE  (IF j < i THEN T(j) ELSE T(j + 1)) \in 0..MaxTime
    OBVIOUS
  <2>1. j \in 0..n /\ j + 1 \in 0..n
    BY <1>1
  <2> QED BY <1>1, <2>1
<1>7. AddsUp(s, timer_list', expires', n - 1)
  <2>1. s[0] = 0
    BY <1>1, <1>3
  <2>2. ASSUME NEW j \in 1..(n - 1) PROVE s[j] = s[j - 1] + expires'[timer_list'[j]]
    <3>0. j - 1 \in 0..(n - 1) /\ j \in 0..(n - 1) /\ j \in 1..n /\ j + 1 \in 1..n
      BY <1>1
    <3>1. CASE j < i
      <4>1. j - 1 < i
        BY <1>3, <3>1
      <4>2. timer_list'[j] = timer_list[j] /\ timer_list[j] # t /\ timer_list[j] \in Timer
        <5>1. timer_list'[j] = timer_list[j]
          BY <1>4, <3>1
        <5>2. j # i
          BY <1>3, <3>1
        <5> QED BY <1>1, <1>3, <3>0, <5>1, <5>2
      <4>3. i < n => timer_list[j] # timer_list[i + 1]
        <5>1. i < n => i + 1 \in 1..n /\ j # i + 1
          BY <1>1, <1>3, <3>1
        <5> QED BY <1>1, <3>0, <5>1
      <4>4. expires'[timer_list'[j]] = expires[timer_list[j]]
        BY <1>5, <4>2, <4>3
      <4>5. s[j] = T(j) /\ s[j - 1] = T(j - 1)
        BY <3>0, <3>1, <4>1
      <4> QED BY <1>1, <3>0, <4>4, <4>5
    <3>2. CASE j = i
      <4>1. ~(j < i) /\ j - 1 < i /\ i < n
        BY <1>1, <1>3, <3>2
      <4>2. timer_list'[j] = timer_list[i + 1]
        BY <1>4, <3>2, <4>1
      <4>3. s[j] = T(i + 1) /\ s[j - 1] = T(i - 1)
        BY <3>0, <3>2, <4>1
      <4>4. expires'[timer_list'[j]] = T(i + 1) - T(i - 1)
        BY <1>5, <4>1, <4>2
      <4>5. T(i + 1) \in Int /\ T(i - 1) \in Int
        <5>1. i + 1 \in 0..n /\ i - 1 \in 0..n
          BY <1>1, <1>3, <4>1
        <5> QED BY <1>1, <5>1
      <4> QED BY <4>3, <4>4, <4>5
    <3>3. CASE j > i
      <4>1. ~(j < i) /\ ~(j - 1 < i)
        BY <1>3, <3>3
      <4>2. timer_list'[j] = timer_list[j + 1]
        BY <1>4, <4>1
      <4>3. /\ timer_list[j + 1] # t /\ timer_list[j + 1] \in Timer
            /\ i < n => timer_list[j + 1] # timer_list[i + 1]
        <5>1. j + 1 # i /\ (i < n => i + 1 \in 1..n /\ j + 1 # i + 1)
          BY <1>1, <1>3, <3>3
        <5> QED BY <1>1, <1>3, <3>0, <5>1
      <4>4. expires'[timer_list'[j]] = expires[timer_list[j + 1]]
        BY <1>5, <4>2, <4>3
      <4>5. s[j] = T(j + 1) /\ s[j - 1] = T((j - 1) + 1)
        BY <3>0, <4>1
      <4>6. (j - 1) + 1 = (j + 1) - 1
        OBVIOUS
      <4>7. T(j + 1) = T((j + 1) - 1) + expires[timer_list[j + 1]]
        BY <1>1, <3>0
      <4> QED BY <4>4, <4>5, <4>6, <4>7
    <3>4. j < i \/ j = i \/ j > i
      BY <1>1, <1>3
    <3> QED BY ONLY <3>1, <3>2, <3>3, <3>4
  <2> QED BY <2>1, <2>2 DEF AddsUp
<1> DEFINE old(j) == IF j < i THEN j ELSE j + 1
<1>8. \A j \in 1..(n - 1) : old(j) \in 1..n /\ old(j) # i /\ timer_list'[j] = timer_list[old(j)]
                            /\ s[j] = T(old(j))
  <2> SUFFICES ASSUME NEW j \in 1..(n - 1)
               PROVE  /\ old(j) \in 1..n /\ old(j) # i /\ timer_list'[j] = timer_list[old(j)]
                      /\ s[j] = T(old(j))
    OBVIOUS
  <2>1. j \in 1..n /\ j + 1 \in 1..n /\ j \in 0..(n - 1)
    BY <1>1
  <2>2. CASE j < i
    BY <1>3, <1>4, <2>1, <2>2
  <2>3. CASE ~(j < i)
    <3>1. j + 1 # i
      BY <1>3, <2>3
    <3> QED BY <1>4, <2>1, <2>3, <3>1
  <2> QED BY <2>2, <2>3
<1>9. \A j, k \in 1..(n - 1) : timer_list'[j] = timer_list'[k] => j = k
  <2> SUFFICES ASSUME NEW j \in 1..(n - 1), NEW k \in 1..(n - 1), timer_list'[j] = timer_list'[k]
               PROVE  j = k
    OBVIOUS
  <2>1. old(j) = old(k)
    <3> HIDE DEF old
    <3>1. /\ old(j) \in 1..n /\ timer_list'[j] = timer_list[old(j)]
          /\ old(k) \in 1..n /\ timer_list'[k] = timer_list[old(k)]
      BY <1>8
    <3>2. timer_list[old(j)] = timer_list[old(k)]
      BY <3>1
    <3>3. \A x, y \in 1..n : timer_list[x] = timer_list[y] => x = y
      BY <1>1
    <3> QED BY ONLY <3>1, <3>2, <3>3
  <2> QED BY <1>1, <1>3, <2>1
<1>10. timer_list' # <<>> => expires'[timer_list'[1]] # 0
  <2> SUFFICES ASSUME timer_list' # <<>> PROVE expires'[timer_list'[1]] # 0
    OBVIOUS
  <2>1. 1 \in 1..(n - 1) /\ 1 \in 1..n /\ 2 \in 1..n
    BY <1>1, <1>4, EmptySeq
  <2>2. expires[timer_list[1]] # 0
    <3>1. timer_list # <<>>
      BY <2>1, EmptySeq DEF n
    <3> QED BY <1>2, <3>1
  <2>3. CASE i = 1
    <3>1. timer_list'[1] = timer_list[2]
      BY <1>4, <2>1, <2>3
    <3>2. expires'[timer_list[2]] = T(2) - T(0)
      <4>1. i < n /\ i + 1 = 2 /\ i - 1 = 0
        BY <1>1, <2>1, <2>3
      <4> QED BY <1>5, <4>1
    <3>3. T(1) = T(0) + expires[timer_list[1]] /\ T(2) = T(1) + expires[timer_list[2]]
      BY <1>1, <2>1
    <3>4. expires[timer_list[1]] \in 0..MaxTime /\ expires[timer_list[2]] \in 0..MaxTime /\ T(0) = 0
      BY <1>1, <2>1
    <3> QED BY <2>2, <3>1, <3>2, <3>3, <3>4
  <2>4. CASE i # 1
    <3>1. 1 < i /\ 1 # i /\ (i < n => 1 # i + 1 /\ i + 1 \in 1..n)
      BY <1>1, <1>3, <2>4
    <3>2. timer_list'[1] = timer_list[1]
      BY <1>4, <2>1, <3>1
    <3>3. timer_list[1] # t /\ (i < n => timer_list[1] # timer_list[i + 1]) /\ timer_list[1] \in Timer
      BY <1>1, <1>3, <2>1, <3>1
    <3> QED BY <1>5, <2>2, <3>2, <3>3
  <2> QED BY <2>3, <2>4
<1>11. /\ List'
       /\ \A u \in Timer, j \in 1..(n - 1) : timer_list'[j] = u => (ToGo(u))' = s[j]
       /\ Linked' = {timer_list'[j] : j \in 1..(n - 1)}
  <2> HIDE DEF s
  <2>1. /\ s \in [0..Len(timer_list') -> 0..MaxTime]
        /\ AddsUp(s, timer_list', expires', Len(timer_list'))
        /\ \A j, k \in 1..Len(timer_list') : timer_list'[j] = timer_list'[k] => j = k
    BY <1>4, <1>6, <1>7, <1>9
  <2>2. timer_list' \in Seq(Timer) /\ expires' \in [Timer -> 0..MaxTime]
    BY <1>4, <1>5
  <2>3. /\ List'
        /\ \A u \in Timer, j \in 1..Len(timer_list') : timer_list'[j] = u => (ToGo(u))' = s[j]
        /\ Linked' = {timer_list'[j] : j \in 1..Len(timer_list')}
    BY <1>10, <2>1, <2>2, NewList
  <2> QED BY <1>4, <2>3
<1> HIDE DEF s
<1>12. ASSUME NEW u \in Linked' PROVE u \in Linked /\ u # t /\ (ToGo(u))' = ToGo(u)
  <2> HIDE DEF old
  <2>1. PICK j \in 1..(n - 1) : timer_list'[j] = u
    BY <1>11
  <2>2. /\ old(j) \in 1..n /\ old(j) # i /\ u = timer_list[old(j)] /\ s[j] = T(old(j))
    BY <1>8, <2>1
  <2>3. u \in Linked /\ u \in Timer /\ u # t /\ ToGo(u) = T(old(j))
    BY <1>1, <1>3, <2>2
  <2> QED BY <1>11, <2>1, <2>2, <2>3
<1>13. ASSUME NEW u \in Linked, u # t PROVE u \in Linked'
  <2>1. PICK k \in 1..n : timer_list[k] = u /\ k # i
    BY <1>1, <1>3, <1>13
  <2>2. CASE k < i
    <3>1. k \in 1..(n - 1)
      BY <1>1, <1>3, <2>2
    <3> QED BY <1>4, <1>11, <2>1, <2>2, <3>1
  <2>3. CASE k > i
    <3>1. k - 1 \in 1..(n - 1) /\ ~(k - 1 < i) /\ (k - 1) + 1 = k
      BY <1>1, <1>3, <2>3
    <3>2. timer_list'[k - 1] = u
      BY <1>4, <2>1, <3>1
    <3> QED BY <1>11, <3>1, <3>2
  <2> QED BY <1>1, <1>3, <2>1, <2>2, <2>3
<1> QED BY <1>11, <1>12, <1>13

\* run_timer_list: one tick less for all; exactly those for which it was the last are off
\* the list.
LEMMA RunTimers ==
  ASSUME List, run_timer_list
  PROVE  /\ List'
         /\ Linked' = {u \in Linked : ToGo(u) > 1}
         /\ \A u \in Linked' : (ToGo(u))' = ToGo(u) - 1
<1> USE TimerAssumption
<1> DEFINE n == Len(timer_list)
           T(j) == Through(j)
           d == Due(Countdown)
<1>1. /\ timer_list \in Seq(Timer) /\ n \in Nat
      /\ \A j \in 1..n : timer_list[j] \in Timer
      /\ \A j, k \in 1..n : timer_list[j] = timer_list[k] => j = k
      /\ \A j \in 1..n : expires[timer_list[j]] \in 0..MaxTime
      /\ \A j \in 0..n : T(j) \in 0..MaxTime
      /\ T(0) = 0
      /\ \A j \in 1..n : T(j) = T(j - 1) + expires[timer_list[j]]
      /\ \A j \in 1..n : T(j) > 0
      /\ \A j \in 0..n : \A i \in 0..j : T(i) <= T(j)
      /\ \A j \in 1..n : ToGo(timer_list[j]) = T(j)
      /\ Linked = {timer_list[j] : j \in 1..n}
  BY ListFacts
<1>2. expires \in [Timer -> 0..MaxTime] /\ (timer_list # <<>> => expires[timer_list[1]] # 0)
  BY DEF List, HeadNotDue
<1>3. CASE timer_list = <<>> /\ UNCHANGED tvars
  <2>1. List' /\ Linked' = Linked
    BY <1>3 DEF tvars, List, HeadNotDue, Linked, Through
  <2>2. Linked = {}
    BY <1>1, <1>3
  <2> QED BY <2>1, <2>2
<1> SUFFICES ASSUME timer_list # <<>>, expires' = Countdown,
                    timer_list' = SubSeq(timer_list, d + 1, n)
             PROVE  /\ List'
                    /\ Linked' = {u \in Linked : ToGo(u) > 1}
                    /\ \A u \in Linked' : (ToGo(u))' = ToGo(u) - 1
  BY <1>3 DEF run_timer_list
<1>4. 1 \in 1..n /\ expires[timer_list[1]] \in 1..MaxTime /\ timer_list[1] \in Timer
  <2>1. 1 \in 1..n
    BY <1>1, EmptySeq
  <2>2. expires[timer_list[1]] \in 0..MaxTime /\ expires[timer_list[1]] # 0
    BY <1>1, <1>2, <2>1
  <2> QED BY <1>1, <2>1, <2>2
\* No wrapping: the head has not been due.
<1>5. /\ expires' \in [Timer -> 0..MaxTime]
      /\ expires'[timer_list[1]] = expires[timer_list[1]] - 1
      /\ \A j \in 1..n : j # 1 => expires'[timer_list[j]] = expires[timer_list[j]]
  <2>1. Wrap(expires[timer_list[1]] - 1) = expires[timer_list[1]] - 1
    <3>1. MaxTime + 1 \in Nat \ {0}
      OBVIOUS
    <3>2. expires[timer_list[1]] - 1 \in 0..((MaxTime + 1) - 1)
      BY <1>4
    <3>3. (expires[timer_list[1]] - 1) % (MaxTime + 1) = expires[timer_list[1]] - 1
      BY <3>1, <3>2, ModSmall
    <3> QED BY <3>3 DEF Wrap
  <2>2. expires' = [expires EXCEPT ![timer_list[1]] = expires[timer_list[1]] - 1]
    <3>1. Head(timer_list) = timer_list[1]
      BY <1>1
    <3> QED BY <2>1, <3>1 DEF Countdown
  <2> QED BY <1>1, <1>2, <1>4, <2>2
<1>6. \A j \in 1..n : expires'[timer_list[j]] \in Nat
  BY <1>1, <1>5
<1>7. /\ d \in 0..n
      /\ \A i \in 1..d : expires'[timer_list[i]] = 0
      /\ d < n => expires'[timer_list[d + 1]] # 0
  <2> DEFINE S == {k \in 0..n : k < n => expires'[timer_list[k + 1]] # 0}
  <2> HIDE DEF n
  <2>1. S \in SUBSET Nat /\ n \in S
    BY <1>1
  <2>2. PICK k \in S : \A y \in S : k <= y
    BY <2>1, LeastNumber
  <2>3. ASSUME NEW i \in 1..k PROVE expires'[timer_list[i]] = 0
    <3>1. i - 1 \in 0..n /\ i - 1 < n /\ (i - 1) + 1 = i /\ ~(k <= i - 1)
      <4>1. k \in 0..n
        BY <2>2
      <4> QED BY <1>1, <4>1
    <3>2. i - 1 \notin S
      BY <2>2, <3>1
    <3> QED BY <3>1, <3>2
  <2>4. /\ k \in 0..n
        /\ \A i \in 1..k : expires'[timer_list[i]] = 0
        /\ k < n => expires'[timer_list[k + 1]] # 0
    BY <2>2, <2>3
  <2> HIDE DEF S
  <2>5. d = CHOOSE m \in 0..n : /\ \A i \in 1..m : expires'[timer_list[i]] = 0
                                /\ m < n => expires'[timer_list[m + 1]] # 0
    BY DEF Due, n
  <2> QED BY <2>4, <2>5
<1> HIDE DEF n, T, d
<1>8. /\ timer_list' \in Seq(Timer)
      /\ Len(timer_list') = n - d
      /\ \A j \in 1..(n - d) : timer_list'[j] = timer_list[d + j]
  <2>1. d \in 0..Len(timer_list)
    BY <1>7 DEF n
  <2> QED BY <1>1, <2>1, DropProperties DEF n
\* What the due ones had to go was one tick.
<1>9. \A j \in 1..d : T(j) = 1
  <2> DEFINE u == [j \in 0..n |-> IF j = 0 THEN 0 ELSE T(j) - 1]
  <2>1. u \in [0..n -> Int]
    BY <1>1
  <2>2. AddsUp(u, timer_list, expires', n)
    <3>1. u[0] = 0
      BY <1>1
    <3>2. ASSUME NEW j \in 1..n PROVE u[j] = u[j - 1] + expires'[timer_list[j]]
      <4>1. j \in 0..n /\ j - 1 \in 0..n
        BY <1>1
      <4>2. CASE j = 1
        BY <1>1, <1>4, <1>5, <4>1, <4>2
      <4>3. CASE j # 1
        <5>1. u[j] = T(j) - 1 /\ u[j - 1] = T(j - 1) - 1
          BY <4>1, <4>3
        <5>2. T(j) = T(j - 1) + expires'[timer_list[j]] /\ expires'[timer_list[j]] \in Nat
          BY <1>1, <1>5, <1>6, <4>3
        <5>3. T(j - 1) \in Int
          BY <1>1, <4>1
        <5> QED BY <5>1, <5>2, <5>3
      <4> QED BY <4>2, <4>3
    <3> QED BY <3>1, <3>2 DEF AddsUp
  <2> HIDE DEF u
  <2> DEFINE R == {k \in Nat : k <= d => u[k] = 0}
  <2>3. 0 \in R
    BY <2>2 DEF AddsUp
  <2>4. \A k \in Nat : k \in R => k + 1 \in R
    <3> SUFFICES ASSUME NEW k \in Nat, k \in R, k + 1 <= d PROVE u[k + 1] = 0
      OBVIOUS
    <3>1. k + 1 \in 1..n /\ k + 1 \in 1..d /\ (k + 1) - 1 = k
      BY <1>1, <1>7
    <3>2. u[k] = 0 /\ expires'[timer_list[k + 1]] = 0
      BY <1>7, <3>1
    <3>3. u[k + 1] = u[(k + 1) - 1] + expires'[timer_list[k + 1]]
      BY <2>2, <3>1 DEF AddsUp
    <3> QED BY <3>1, <3>2, <3>3
  <2> HIDE DEF R
  <2>5. Nat \subseteq R
    BY <2>3, <2>4, SetInduction
  <2> SUFFICES ASSUME NEW j \in 1..d PROVE T(j) = 1
    OBVIOUS
  <2>6. j \in 0..n /\ j # 0 /\ j \in Nat /\ j <= d
    BY <1>1, <1>7
  <2>7. u[j] = 0
    BY <2>5, <2>6 DEF R
  <2>8. u[j] = T(j) - 1 /\ T(j) \in Int
    BY <1>1, <2>6 DEF u
  <2> QED BY <2>7, <2>8
<1>10. \A j \in 1..n : j > d => T(j) > 1
  <2> SUFFICES ASSUME NEW j \in 1..n, j > d PROVE T(j) > 1
    OBVIOUS
  <2>1. /\ d + 1 \in 1..n /\ d + 1 \in 0..n /\ d + 1 \in 0..j /\ j \in 0..n
        /\ (d + 1) - 1 = d /\ d \in 0..n
    BY <1>1, <1>7
  <2>2. T(d + 1) <= T(j)
    BY <1>1, <2>1
  <2>3. T(d + 1) = T(d) + expires[timer_list[d + 1]]
    BY <1>1, <2>1
  <2>4. T(d + 1) > 1
    <3>1. expires'[timer_list[d + 1]] \in Nat \ {0}
      <4>1. d < n
        BY <1>1, <1>7, <2>1
      <4> QED BY <1>6, <1>7, <2>1, <4>1
    <3>2. CASE d = 0
      <4>1. expires'[timer_list[1]] \in Nat \ {0}
        BY <3>1, <3>2
      <4>2. expires'[timer_list[1]] = expires[timer_list[1]] - 1
        BY <1>5
      <4>3. T(1) = 0 + expires[timer_list[1]]
        BY <1>1, <2>3, <3>2
      <4> QED BY <1>4, <3>2, <4>1, <4>2, <4>3
    <3>3. CASE d # 0
      <4>1. T(d) = 1
        BY <1>7, <1>9, <3>3
      <4>2. expires[timer_list[d + 1]] \in Nat \ {0}
        <5>1. d + 1 # 1
          BY <1>7, <3>3
        <5> QED BY <1>5, <2>1, <3>1, <5>1
      <4> QED BY <2>3, <4>1, <4>2
    <3> QED BY <3>2, <3>3
  <2>5. T(d + 1) \in Int /\ T(j) \in Int
    BY <1>1, <2>1
  <2> QED BY <2>2, <2>4, <2>5
<1> DEFINE s == [j \in 0..(n - d) |-> IF j = 0 THEN 0 ELSE T(d + j) - 1]
<1>11. s \in [0..(n - d) -> 0..MaxTime]
  <2> SUFFICES ASSUME NEW j \in 0..(n - d), j # 0 PROVE T(d + j) - 1 \in 0..MaxTime
    OBVIOUS
  <2>1. d + j \in 1..n /\ d + j \in 0..n /\ d + j > d
    BY <1>1, <1>7
  <2> QED BY <1>1, <1>10, <2>1
<1>12. AddsUp(s, timer_list', expires', n - d)
  <2>1. s[0] = 0
    BY <1>1, <1>7
  <2>2. ASSUME NEW j \in 1..(n - d) PROVE s[j] = s[j - 1] + expires'[timer_list'[j]]
    <3> DEFINE m == d + j
               e == expires[timer_list[m]]
    <3>1. /\ j \in 0..(n - d) /\ j - 1 \in 0..(n - d) /\ j # 0
          /\ m \in 1..n /\ m \in 0..n /\ m - 1 \in 0..n /\ d + (j - 1) = m - 1
          /\ j = 1 => m - 1 = d
          /\ j # 1 => m # 1
          /\ d # 0 => m # 1
      BY <1>1, <1>7
    <3>2. timer_list'[j] = timer_list[m]
      BY <1>8
    <3>3. s[j] = T(m) - 1
      BY <3>1
    <3>4. j # 1 => s[j - 1] = T(m - 1) - 1
      <4>1. j # 1 => j - 1 # 0
        OBVIOUS
      <4> QED BY <3>1, <4>1
    <3> HIDE DEF m, s
    <3>5. T(m) = T(m - 1) + e
      BY <1>1, <3>1
    <3>6. T(m) \in Int /\ T(m - 1) \in Int /\ e \in Int
      <4>1. T(m) \in Int /\ T(m - 1) \in Int
        BY <1>1, <3>1
      <4>2. timer_list[m] \in Timer
        BY <1>1, <3>1
      <4>3. e \in 0..MaxTime
        BY <1>2, <4>2
      <4> QED BY <4>1, <4>3
    <3>7. m # 1 => expires'[timer_list[m]] = e
      BY <1>5, <3>1
    <3> HIDE DEF e
    <3>8. CASE j # 1
      BY ONLY <3>1, <3>2, <3>3, <3>4, <3>5, <3>6, <3>7, <3>8
    <3>9. CASE j = 1 /\ d = 0
      <4>1. m = 1 /\ T(m - 1) = 0 /\ s[j - 1] = 0
        BY <1>1, <2>1, <3>1, <3>9
      <4>2. expires'[timer_list[m]] = e - 1
        BY <1>5, <4>1 DEF e
      <4> QED BY ONLY <3>2, <3>3, <3>5, <3>6, <4>1, <4>2
    <3>10. CASE j = 1 /\ d # 0
      <4>1. m - 1 = d /\ m # 1 /\ d \in 1..d /\ s[j - 1] = 0
        BY <1>7, <2>1, <3>1, <3>10
      <4>2. T(m - 1) = 1
        BY <1>9, <4>1
      <4> QED BY ONLY <3>2, <3>3, <3>5, <3>6, <3>7, <4>1, <4>2
    <3> QED BY <3>8, <3>9, <3>10
  <2> QED BY <2>1, <2>2 DEF AddsUp
<1>13. \A j, k \in 1..(n - d) : timer_list'[j] = timer_list'[k] => j = k
  <2> SUFFICES ASSUME NEW j \in 1..(n - d), NEW k \in 1..(n - d), timer_list'[j] = timer_list'[k]
               PROVE  j = k
    OBVIOUS
  <2>1. d + j \in 1..n /\ d + k \in 1..n
    BY <1>1, <1>7
  <2>2. timer_list[d + j] = timer_list[d + k]
    BY <1>8
  <2>3. d + j = d + k
    BY <1>1, <2>1, <2>2
  <2> QED BY <1>1, <1>7, <2>3
<1>14. timer_list' # <<>> => expires'[timer_list'[1]] # 0
  <2> SUFFICES ASSUME timer_list' # <<>> PROVE expires'[timer_list'[1]] # 0
    OBVIOUS
  <2>1. 1 \in 1..(n - d)
    BY <1>1, <1>7, <1>8, EmptySeq
  <2>2. d < n /\ timer_list'[1] = timer_list[d + 1]
    BY <1>1, <1>7, <1>8, <2>1
  <2> QED BY <1>7, <2>2
<1>15. /\ List'
       /\ \A u \in Timer, j \in 1..(n - d) : timer_list'[j] = u => (ToGo(u))' = s[j]
       /\ Linked' = {timer_list'[j] : j \in 1..(n - d)}
  <2> HIDE DEF s
  <2>1. /\ s \in [0..Len(timer_list') -> 0..MaxTime]
        /\ AddsUp(s, timer_list', expires', Len(timer_list'))
        /\ \A j, k \in 1..Len(timer_list') : timer_list'[j] = timer_list'[k] => j = k
    BY <1>8, <1>11, <1>12, <1>13
  <2>2. timer_list' \in Seq(Timer) /\ expires' \in [Timer -> 0..MaxTime]
    BY <1>5, <1>8
  <2>3. /\ List'
        /\ \A u \in Timer, j \in 1..Len(timer_list') : timer_list'[j] = u => (ToGo(u))' = s[j]
        /\ Linked' = {timer_list'[j] : j \in 1..Len(timer_list')}
    BY <1>14, <2>1, <2>2, NewList
  <2> QED BY <1>8, <2>3
<1>16. ASSUME NEW u \in Linked' PROVE u \in Linked /\ ToGo(u) > 1 /\ (ToGo(u))' = ToGo(u) - 1
  <2>1. PICK j \in 1..(n - d) : timer_list'[j] = u
    BY <1>15
  <2>2. d + j \in 1..n /\ d + j > d /\ j # 0 /\ j \in 0..(n - d)
    BY <1>1, <1>7
  <2>3. timer_list[d + j] = u /\ s[j] = T(d + j) - 1
    BY <1>8, <2>1, <2>2
  <2>4. u \in Linked /\ u \in Timer /\ ToGo(u) = T(d + j) /\ T(d + j) > 1
    BY <1>1, <1>10, <2>2, <2>3
  <2> HIDE DEF s
  <2> QED BY <1>15, <2>1, <2>3, <2>4
<1>17. ASSUME NEW u \in Linked, ToGo(u) > 1 PROVE u \in Linked'
  <2>1. PICK k \in 1..n : timer_list[k] = u
    BY <1>1
  <2>2. k > d
    <3>1. ToGo(u) = T(k)
      BY <1>1, <2>1
    <3>2. k \in 1..d => T(k) = 1
      BY <1>9
    <3> QED BY <1>1, <1>7, <1>17, <3>1, <3>2
  <2>3. k - d \in 1..(n - d) /\ d + (k - d) = k
    BY <1>1, <1>7, <2>2
  <2>4. timer_list'[k - d] = u
    BY <1>8, <2>1, <2>3
  <2> QED BY <1>15, <2>3, <2>4
<1> QED BY <1>15, <1>16, <1>17

-----------------------------------------------------------------------------
(***************************************************************************)
(* The keyboard.                                                           *)
(***************************************************************************)

\* cons_intr, n times: the buffer then holds the keys typed last, as many as the
\* distance of wpos from rpos tells.
LEMMA ConsoleFilled ==
  ASSUME Console, NEW n \in Nat
  PROVE  LET F  == Filled(n)
             n1 == (Pending + n) % CONSBUFSIZE
         IN  /\ F \in [buf : [0..(CONSBUFSIZE - 1) -> Nat],
                       rpos : 0..(CONSBUFSIZE - 1), wpos : 0..(CONSBUFSIZE - 1)]
             /\ (F.wpos - F.rpos) % CONSBUFSIZE = n1
             /\ n1 <= Pending + n
             /\ \A j \in 1..n1 :
                  F.buf[(F.rpos + j - 1) % CONSBUFSIZE] = typed + n - n1 + j
<1> DEFINE C == CONSBUFSIZE
           r == cons.rpos
           w == cons.wpos
           new(i) == {k \in 1..n : (w + k - 1) % C = i}
           top(i) == CHOOSE k \in new(i) : \A j \in new(i) : j <= k
           F == Filled(n)
           n0 == Pending
           n1 == (n0 + n) % C
<1>1. C \in Nat \ {0}
  BY StdinAssumption
<1>2. /\ cons \in [buf : [0..(C - 1) -> Nat], rpos : 0..(C - 1), wpos : 0..(C - 1)]
      /\ r \in 0..(C - 1) /\ w \in 0..(C - 1) /\ cons.buf \in [0..(C - 1) -> Nat]
      /\ typed \in Nat
  BY DEF Console
<1>3. n0 = (w - r) % C /\ n0 \in 0..(C - 1) /\ n0 \in Int
  <2>1. w - r \in Int
    BY <1>1, <1>2
  <2>2. (w - r) % C \in 0..(C - 1)
    BY <1>1, <2>1, ModRange
  <2> QED BY <1>1, <2>2 DEF Pending
<1>4. \A i : new(i) # {} => top(i) \in new(i) /\ \A j \in new(i) : j <= top(i)
  <2> SUFFICES ASSUME NEW i, new(i) # {}
               PROVE  top(i) \in new(i) /\ \A j \in new(i) : j <= top(i)
    OBVIOUS
  <2>1. new(i) \in SUBSET (1..n)
    OBVIOUS
  <2> HIDE DEF new
  <2>2. \E x \in new(i) : \A y \in new(i) : y <= x
    BY <2>1, GreatestNumber
  <2> QED BY <2>2
<1>5. F = [buf  |-> [i \in 0..(C - 1) |-> IF new(i) = {} THEN cons.buf[i] ELSE typed + top(i)],
           rpos |-> r, wpos |-> (w + n) % C]
  <2> DEFINE b == [i \in 0..(C - 1) |-> IF new(i) = {} THEN cons.buf[i] ELSE typed + top(i)]
  <2>1. DOMAIN cons.buf = 0..(C - 1)
    BY <1>2
  <2>2. F = [cons EXCEPT
               !.buf  = [i \in DOMAIN cons.buf |->
                           IF new(i) = {} THEN cons.buf[i] ELSE typed + top(i)],
               !.wpos = (w + n) % C]
    BY DEF Filled
  <2>3. F = [cons EXCEPT !.buf = b, !.wpos = (w + n) % C]
    BY <2>1, <2>2
  <2> HIDE DEF b, F
  <2>4. F = [buf |-> b, rpos |-> r, wpos |-> (w + n) % C]
    BY <1>2, <2>3
  <2> QED BY <2>4 DEF b
<1> HIDE DEF top, F, C, r, w, n0
<1>6. (w + n) % C \in 0..(C - 1)
  BY <1>1, <1>2, ModRange
<1>7. \A i \in 0..(C - 1) : (IF new(i) = {} THEN cons.buf[i] ELSE typed + top(i)) \in Nat
  <2> SUFFICES ASSUME NEW i \in 0..(C - 1), new(i) # {} PROVE typed + top(i) \in Nat
    BY <1>2
  <2>1. top(i) \in new(i)
    BY <1>4
  <2>2. top(i) \in Nat
    BY <2>1
  <2> QED BY <1>2, <2>2
<1> HIDE DEF new
<1>8. F \in [buf : [0..(C - 1) -> Nat], rpos : 0..(C - 1), wpos : 0..(C - 1)]
  BY <1>2, <1>5, <1>6, <1>7
<1>9. (F.wpos - F.rpos) % C = (w + n - r) % C
  <2>1. w + n \in Int /\ -r \in Int /\ w + n - r = (w + n) + (-r)
    BY <1>1, <1>2
  <2>2. (((w + n) % C) + (-r)) % C = ((w + n) + (-r)) % C
    BY <1>1, <2>1, ModAdd
  <2>3. ((w + n) % C) + (-r) = ((w + n) % C) - r
    BY <1>1, <1>2, <1>6
  <2> QED BY <1>5, <2>1, <2>2, <2>3
<1>10. n1 = (w + n - r) % C
  <2>1. (((w - r) % C) + n) % C = ((w - r) + n) % C
    <3>1. w - r \in Int
      BY <1>1, <1>2
    <3> QED BY <1>1, <3>1, ModAdd
  <2>2. (w - r) + n = w + n - r
    BY <1>1, <1>2
  <2> QED BY <1>3, <2>1, <2>2
<1>11. n1 \in 0..(C - 1) /\ n1 <= n0 + n
  <2>1. n1 \in 0..(C - 1)
    BY <1>1, <1>3, ModRange
  <2>2. CASE n0 + n <= C - 1
    <3>1. n0 + n \in 0..(C - 1)
      BY <1>3, <2>2
    <3>2. n1 = n0 + n
      BY <1>1, <3>1, ModSmall
    <3> QED BY <1>3, <2>1, <3>2
  <2>3. CASE n0 + n >= C
    BY <1>1, <1>3, <2>1, <2>3
  <2>4. n0 + n <= C - 1 \/ n0 + n >= C
    BY <1>1, <1>3
  <2> QED BY <2>1, <2>2, <2>3, <2>4
<1> HIDE DEF n1
<1>12. ASSUME NEW j \in 1..n1
       PROVE  F.buf[(F.rpos + j - 1) % C] = typed + n - n1 + j
  <2> DEFINE K == n - n1 + j
             x == (r + j - 1) % C
  <2>1. K \in Int /\ K <= n /\ r + j - 1 \in Int /\ w + n - r \in Int
    BY <1>1, <1>2, <1>11
  <2>2. x \in 0..(C - 1)
    BY <1>1, <2>1, ModRange
\* The place of the K-th new key.
  <2>3. (w + K - 1) % C = x
    <3>1. PICK q \in Int : w + n - r = C * q + n1
      BY <1>1, <1>10, <2>1, ModDiv
    <3>2. w + K - 1 = (r + j - 1) + C * q
      <4>1. C * q \in Int
        BY <1>1
      <4> QED BY <1>1, <1>2, <1>11, <3>1, <4>1
    <3>3. ((r + j - 1) + C * q) % C = (r + j - 1) % C
      BY <1>1, <2>1, ModTurns
    <3> QED BY <3>2, <3>3
  <2> HIDE DEF x
\* No later one has it.
  <2>4. ASSUME NEW k \in new(x) PROVE k <= K
    <3> SUFFICES ASSUME k > K PROVE FALSE
      <4>1. k \in Int
        BY DEF new
      <4> QED BY <2>1, <4>1
    <3>1. k \in 1..n /\ (w + k - 1) % C = x
      BY DEF new
    <3>2. /\ w + K - 1 \in Int /\ w + k - 1 \in Int
          /\ w + K - 1 < w + k - 1 /\ (w + k - 1) - (w + K - 1) < C
      BY <1>1, <1>2, <1>11, <3>1
    <3> QED BY <1>1, <2>3, <3>1, <3>2, ModDistinct
  <2>5. F.rpos = r /\ F.buf[x] = IF new(x) = {} THEN cons.buf[x] ELSE typed + top(x)
    BY <1>5, <2>2
  <2>6. CASE K >= 1
    <3>1. K \in new(x)
      <4>1. K \in 1..n
        BY <2>1, <2>6
      <4> QED BY <2>3, <4>1 DEF new
    <3>2. top(x) \in new(x) /\ K <= top(x) /\ top(x) <= K
      BY <1>4, <2>4, <3>1
    <3>3. top(x) \in Int
      BY <3>2 DEF new
    <3>4. top(x) = K
      BY <2>1, <3>2, <3>3
    <3> QED BY <1>2, <1>11, <2>5, <3>1, <3>4 DEF x
  <2>7. CASE K < 1
    <3>1. new(x) = {}
      <4> SUFFICES ASSUME NEW k \in new(x) PROVE FALSE
        OBVIOUS
      <4>1. k <= K /\ k \in 1..n
        BY <2>4 DEF new
      <4> QED BY <2>1, <2>7, <4>1
    <3>2. n1 = n0 + n
      <4>1. CASE n0 + n <= C - 1
        <5>1. n0 + n \in 0..(C - 1)
          BY <1>3, <4>1
        <5> QED BY <1>1, <5>1, ModSmall DEF n1
      <4>2. CASE n0 + n >= C
        <5>1. n0 + n - C \in 0..(C - 1)
          <6>1. n < n1
            BY <1>11, <2>7
          <6> QED BY <1>1, <1>3, <1>11, <4>2, <6>1
        <5>2. n0 + n = C * 1 + (n0 + n - C) /\ n0 + n \in Int /\ 1 \in Int
          BY <1>1, <1>3
        <5>3. n1 = n0 + n - C
          BY <1>1, <5>1, <5>2, ModUnique DEF n1
        <5> QED BY <1>1, <1>3, <1>11, <2>7, <5>3
      <4>3. n0 + n <= C - 1 \/ n0 + n >= C
        BY <1>1, <1>3
      <4> QED BY <4>1, <4>2, <4>3
    <3>3. j \in 1..n0
      BY <1>3, <1>11, <2>7, <3>2
    <3>4. cons.buf[x] = typed - n0 + j
      BY <3>3 DEF Console, x, n0, r, C
    <3>5. F.buf[x] = typed - n0 + j
      BY <2>5, <3>1, <3>4
    <3>6. typed - n0 + j = typed + n - n1 + j
      BY <1>2, <1>3, <3>2
    <3>7. (F.rpos + j - 1) % C = x
      BY <2>5 DEF x
    <3> QED BY <3>5, <3>6, <3>7
  <2>8. K >= 1 \/ K < 1
    BY <2>1
  <2> QED BY ONLY <2>6, <2>7, <2>8
<1> QED BY <1>8, <1>9, <1>10, <1>11, <1>12 DEF C, F, n0, n1

\* cons_getc: the oldest key of the buffer, and the rest stays.  The keys that have left
\* the buffer, whether read or lost, become more by those that dev_stdin_write gets.
LEMMA ConsoleKept ==
  ASSUME Console, NEW n \in Nat, keyboard(n)
  PROVE  LET c == NextKey(Filled(n))
         IN  /\ Console' /\ typed' = typed + n
             /\ typed' - Pending' >= typed - Pending
             /\ c # NoKey => c = typed' - Pending' /\ c > typed - Pending
             /\ Pending + n < CONSBUFSIZE =>
                  typed' - Pending' = typed - Pending + (IF c = NoKey THEN 0 ELSE 1)
             /\ c \in Nat /\ Pending \in 0..typed /\ Pending' \in 0..typed'
<1> DEFINE C == CONSBUFSIZE
           F == Filled(n)
           c == NextKey(F)
           n0 == Pending
           n1 == (n0 + n) % C
<1>1. C \in Nat \ {0}
  BY StdinAssumption
<1>2. /\ F \in [buf : [0..(C - 1) -> Nat], rpos : 0..(C - 1), wpos : 0..(C - 1)]
      /\ (F.wpos - F.rpos) % C = n1
      /\ n1 <= n0 + n
      /\ \A j \in 1..n1 : F.buf[(F.rpos + j - 1) % C] = typed + n - n1 + j
  BY ConsoleFilled
<1>3. cons' = KeyTaken(F) /\ typed' = typed + n
  BY DEF keyboard
<1>4. n0 \in 0..(C - 1) /\ n0 \in 0..typed /\ typed \in Nat
  <2>1. cons.wpos - cons.rpos \in Int /\ typed \in Nat /\ n0 <= typed
    BY <1>1 DEF Console
  <2>2. n0 \in 0..(C - 1)
    BY <1>1, <2>1, ModRange DEF Pending
  <2> QED BY <1>1, <2>1, <2>2
<1>5. n1 \in 0..(C - 1) /\ (n0 + n < C => n1 = n0 + n)
  <2>1. n0 + n \in Int
    BY <1>4
  <2>2. n1 \in 0..(C - 1)
    BY <1>1, <2>1, ModRange
  <2>3. n0 + n < C => n0 + n \in 0..(C - 1)
    BY <1>1, <1>4
  <2> QED BY <1>1, <2>2, <2>3, ModSmall
<1>6. F.rpos \in 0..(C - 1) /\ F.wpos \in 0..(C - 1) /\ F.buf \in [0..(C - 1) -> Nat]
  BY <1>2
<1>7. n1 = 0 <=> F.rpos = F.wpos
  <2> DEFINE x == F.rpos
             y == F.wpos
  <2>1. x \in 0..(C - 1) /\ y \in 0..(C - 1) /\ (y - x) % C = n1
    BY <1>2, <1>6
  <2> HIDE DEF F, C, n1, x, y
  <2>2. (y - x) % C = 0 <=> y = x
    BY ONLY <1>1, <2>1, ModZero
  <2> QED BY <2>1, <2>2 DEF x, y
<1> HIDE DEF F, n0, n1
<1>8. CASE n1 = 0
  <2>1. c = NoKey /\ cons' = F
    BY <1>3, <1>7, <1>8 DEF NextKey, KeyTaken
  <2>2. Pending' = 0
    BY <1>2, <1>8, <2>1 DEF Pending
  <2>3. Console'
    <3>1. \A i \in 1..Pending' :
            cons'.buf[(cons'.rpos + i - 1) % C] = typed' - Pending' + i
      BY <2>2
    <3> QED BY <1>2, <1>3, <1>4, <2>1, <2>2, <3>1 DEF Console
  <2>4. n0 + n < C => n0 = 0 /\ n = 0
    BY <1>4, <1>5, <1>8
  <2>5. /\ typed' - Pending' >= typed - n0
        /\ n0 + n < C => typed' - Pending' = typed - n0 + 0
    BY <1>3, <1>4, <2>2, <2>4
  <2>6. NoKey \in Nat /\ Pending' \in 0..typed'
    BY <1>3, <1>4, <2>2 DEF NoKey
  <2> QED BY <1>3, <1>4, <2>1, <2>3, <2>5, <2>6 DEF n0, F
<1>9. CASE n1 # 0
  <2>0. n1 \in Nat \ {0} /\ F.rpos # F.wpos /\ 1 \in 1..n1 /\ F.rpos + 1 \in Int
    BY <1>1, <1>5, <1>6, <1>7, <1>9
  <2>1. c = F.buf[F.rpos] /\ cons' = [F EXCEPT !.rpos = (F.rpos + 1) % C]
    BY <1>3, <2>0 DEF NextKey, KeyTaken
  <2>2. c = typed + n - n1 + 1
    <3>1. (F.rpos + 1 - 1) % C = F.rpos
      <4>1. F.rpos + 1 - 1 = F.rpos
        BY <1>1, <1>6
      <4> QED BY <1>1, <1>6, <4>1, ModSmall
    <3> QED BY <1>2, <2>0, <2>1, <3>1
  <2>3. (F.rpos + 1) % C \in 0..(C - 1)
    BY <1>1, <2>0, ModRange
  <2>4. /\ cons' \in [buf : [0..(C - 1) -> Nat], rpos : 0..(C - 1), wpos : 0..(C - 1)]
        /\ cons'.buf = F.buf /\ cons'.rpos = (F.rpos + 1) % C /\ cons'.wpos = F.wpos
    BY <1>2, <2>1, <2>3
  <2>5. Pending' = n1 - 1
    <3>1. Pending' = (F.wpos - ((F.rpos + 1) % C)) % C
      BY <2>4 DEF Pending
    <3>2. PICK q \in Int : F.rpos + 1 = C * q + ((F.rpos + 1) % C)
      BY <1>1, <2>0, ModDiv
    <3>3. PICK p \in Int : F.wpos - F.rpos = C * p + n1
      <4>1. F.wpos - F.rpos \in Int
        BY <1>1, <1>6
      <4> QED BY <1>1, <1>2, <4>1, ModDiv
    <3>4. F.wpos - ((F.rpos + 1) % C) = C * (p + q) + (n1 - 1)
      <4>1. C * (p + q) = C * p + C * q /\ C * p \in Int /\ C * q \in Int
        BY <1>1
      <4>2. (F.rpos + 1) % C \in Int
        BY <1>1, <2>3
      <4>3. F.rpos \in Int /\ F.wpos \in Int
        BY <1>1, <1>6
      <4> DEFINE a == C * p
                 b == C * q
                 x == (F.rpos + 1) % C
      <4>4. /\ F.rpos + 1 = b + x /\ F.wpos - F.rpos = a + n1 /\ C * (p + q) = a + b
            /\ a \in Int /\ b \in Int /\ x \in Int
        BY <3>2, <3>3, <4>1, <4>2
      <4> HIDE DEF a, b, x
      <4>5. F.wpos - x = (a + b) + (n1 - 1)
        BY <2>0, <4>3, <4>4
      <4> QED BY <4>4, <4>5 DEF x
    <3>5. /\ n1 - 1 \in 0..(C - 1) /\ p + q \in Int
          /\ F.wpos - ((F.rpos + 1) % C) \in Int
      BY <1>1, <1>5, <1>6, <2>0, <2>3
    <3> QED BY <1>1, <3>1, <3>4, <3>5, ModUnique
  <2>6. ASSUME NEW i \in 1..(n1 - 1)
        PROVE  cons'.buf[(cons'.rpos + i - 1) % C] = typed' - (n1 - 1) + i
    <3>1. /\ F.rpos + 1 \in Int /\ i - 1 \in Int /\ i + 1 \in 1..n1
          /\ (F.rpos + 1) + (i - 1) = F.rpos + (i + 1) - 1
      BY <1>1, <1>6, <2>0
    <3>2. (((F.rpos + 1) % C) + (i - 1)) % C = (F.rpos + (i + 1) - 1) % C
      BY <1>1, <3>1, ModAdd
    <3>3. cons'.rpos + i - 1 = ((F.rpos + 1) % C) + (i - 1)
      BY <1>1, <2>3, <2>4
    <3>4. F.buf[(F.rpos + (i + 1) - 1) % C] = typed + n - n1 + (i + 1)
      BY <1>2, <3>1
    <3>5. typed + n - n1 + (i + 1) = typed' - (n1 - 1) + i
      BY <1>3, <1>4, <2>0
    <3> QED BY <2>4, <3>2, <3>3, <3>4, <3>5
  <2>7. Pending' \in 0..typed' /\ typed' \in Nat
    BY <1>2, <1>3, <1>4, <2>0, <2>5
  <2>8. Console'
    <3>1. \A i \in 1..Pending' :
            cons'.buf[(cons'.rpos + i - 1) % C] = typed' - Pending' + i
      BY <2>5, <2>6
    <3> QED BY <2>4, <2>7, <3>1 DEF Console
  <2>9. /\ c = typed' - Pending' /\ c > typed - n0 /\ c # 0 /\ c \in Nat
        /\ n0 + n < C => typed' - Pending' = typed - n0 + 1
    BY <1>2, <1>3, <1>4, <1>5, <2>0, <2>2, <2>5
  <2>10. typed' - Pending' >= typed - n0
    <3>1. typed' - Pending' \in Int /\ typed - n0 \in Int
      BY <1>4, <2>7
    <3>2. c = typed' - Pending' /\ c > typed - n0
      BY <2>9
    <3> HIDE DEF c
    <3> QED BY <3>1, <3>2
  <2> HIDE DEF c
  <2> QED BY <1>3, <1>4, <2>7, <2>8, <2>9, <2>10 DEF n0, F, c, NoKey
<1> QED BY <1>8, <1>9

\* dev_stdin_write: a new key goes behind those in the ring, or takes the place of the
\* oldest; what has been read and what is in the ring stay different keys.
LEMMA RingWritten ==
  ASSUME Ring, Console, NEW n \in Nat, keyboard(n)
  PROVE  Ring'
<1> DEFINE C == CONSBUFSIZE
           B == STDIN_BUFSIZE
           c == NextKey(Filled(n))
           gone == typed - Pending
           K(i) == KeyOf(i)
<1>1. C \in Nat \ {0} /\ B \in Nat \ {0}
  BY StdinAssumption
<1>2. /\ typed' - Pending' >= gone
      /\ c # NoKey => c = typed' - Pending' /\ c > gone
      /\ Pending + n < C => typed' - Pending' = gone + (IF c = NoKey THEN 0 ELSE 1)
      /\ c \in Nat /\ Pending \in 0..typed /\ Pending' \in 0..typed'
      /\ typed \in Nat /\ typed' \in Nat
  <2>1. typed \in Nat /\ typed' = typed + n
    BY DEF Console, keyboard
  <2> QED BY <2>1, ConsoleKept
<1>3. /\ stdin_buffer \in [0..(B - 1) -> Nat]
      /\ p_rpos \in Nat /\ p_wpos \in p_rpos..(p_rpos + B) /\ p_wpos \in Nat
      /\ got \in Seq(Nat) /\ Len(got) = p_rpos
      /\ overrun \in BOOLEAN
      /\ \A i \in 1..p_wpos : K(i) \in 1..gone
      /\ \A i, j \in 1..p_wpos : K(i) = K(j) => i = j
      /\ ~overrun => p_wpos = gone /\ \A i \in 1..p_wpos : K(i) = i
  BY <1>1 DEF Ring
<1>4. p_rpos' = p_rpos /\ got' = got
  BY DEF keyboard
<1>5. /\ overrun' \in BOOLEAN
      /\ ~overrun' => /\ ~overrun /\ Pending + n < C
                      /\ c # NoKey => p_wpos - p_rpos < B
  <2>1. Len(InConsole) = Pending
    BY <1>2 DEF InConsole, Pending
  <2>2. overrun' = (\/ overrun
                    \/ Len(InConsole) + n >= C
                    \/ c # NoKey /\ p_wpos - p_rpos >= B)
    BY DEF keyboard
  <2> QED BY <1>1, <1>2, <1>3, <2>1, <2>2
<1> DEFINE gone1 == typed' - Pending'
<1> HIDE DEF c
<1>6. gone \in Nat /\ gone1 \in Nat /\ gone1 >= gone
  <2>1. Pending \in 0..typed /\ typed \in Nat
    BY <1>2
  <2>2. Pending' \in 0..typed' /\ typed' \in Nat
    BY <1>2
  <2>3. gone \in Nat
    BY <2>1
  <2>4. gone1 \in Nat
    <3>1. \A a, b : a \in Nat /\ b \in 0..a => a - b \in Nat
      OBVIOUS
    <3> QED BY <2>2, <3>1
  <2> QED BY <1>2, <2>3, <2>4
<1> HIDE DEF gone, gone1
<1>7. CASE c = NoKey
  <2>1. stdin_buffer' = stdin_buffer /\ p_wpos' = p_wpos
    BY <1>7 DEF keyboard, dev_stdin_write, c
  <2>2. \A i : (KeyOf(i))' = K(i)
    BY <1>4, <2>1 DEF KeyOf
  <2> HIDE DEF K
  <2>3. \A i \in 1..p_wpos : K(i) \in 1..gone1
    BY <1>3, <1>6
  <2>4. ~overrun' => p_wpos = gone1 /\ \A i \in 1..p_wpos : K(i) = i
    <3>1. Pending + n < C => gone1 = gone + 0
      BY <1>2, <1>7 DEF gone1
    <3>2. ~overrun' => gone1 = gone
      BY <1>5, <1>6, <3>1
    <3> QED BY <1>3, <1>5, <3>2
  <2> QED BY <1>3, <1>4, <1>5, <2>1, <2>2, <2>3, <2>4 DEF Ring, gone1
<1>8. CASE c # NoKey
  <2>0. c = gone1 /\ c > gone /\ c \in Nat
    BY <1>2, <1>8 DEF gone1
  <2>1. /\ stdin_buffer' = [stdin_buffer EXCEPT ![p_wpos % B] = c]
        /\ p_wpos' = NextWpos
    BY <1>8 DEF keyboard, dev_stdin_write, c
  <2>2. p_wpos % B \in 0..(B - 1)
    BY <1>1, <1>3, ModRange
  <2>3. /\ stdin_buffer' \in [0..(B - 1) -> Nat]
        /\ stdin_buffer'[p_wpos % B] = c
        /\ \A i \in Int : i % B # p_wpos % B => stdin_buffer'[i % B] = stdin_buffer[i % B]
    <3>1. \A i \in Int : i % B \in 0..(B - 1)
      BY <1>1, ModRange
    <3> QED BY <1>3, <2>0, <2>1, <2>2, <3>1
  <2>4. CASE p_wpos - p_rpos < B
    <3>1. p_wpos' = p_wpos + 1
      BY <2>1, <2>4 DEF NextWpos
    <3>2. ASSUME NEW i \in 1..p_wpos PROVE (KeyOf(i))' = K(i)
      <4>1. CASE i <= p_rpos
        BY <1>4, <4>1 DEF KeyOf
      <4>2. CASE ~(i <= p_rpos)
        <5>1. i - 1 \in Int /\ p_wpos \in Int /\ i - 1 < p_wpos /\ p_wpos - (i - 1) < B
          <6>1. i > p_rpos
            BY <1>3, <4>2
          <6> QED BY <1>1, <1>3, <2>4, <6>1
        <5>2. (i - 1) % B # p_wpos % B
          BY <1>1, <5>1, ModDistinct
        <5>3. stdin_buffer'[(i - 1) % B] = stdin_buffer[(i - 1) % B]
          BY <2>3, <5>1, <5>2
        <5> QED BY <1>4, <4>2, <5>3 DEF KeyOf
      <4> QED BY <4>1, <4>2
    <3>0. PICK w \in Nat : w = p_wpos
      BY <1>3
    <3>3. (KeyOf(w + 1))' = c
      <4>1. ~(w + 1 <= p_rpos) /\ (w + 1) - 1 = p_wpos
        BY <1>3, <3>0
      <4> QED BY <1>4, <2>3, <4>1 DEF KeyOf
    <3> DEFINE L(i) == (KeyOf(i))'
    <3>4. /\ \A i \in 1..p_wpos : L(i) = K(i)
          /\ L(w + 1) = c
      BY <3>2, <3>3
    <3> HIDE DEF K, L
    <3>5. \A i \in 1..(p_wpos + 1) : i \in 1..p_wpos \/ i = p_wpos + 1
      BY <1>3
    <3>6. \A i \in 1..(p_wpos + 1) : L(i) \in 1..gone1
      <4>1. c \in 1..gone1
        BY <1>6, <2>0
      <4>2. \A i \in 1..p_wpos : L(i) \in 1..gone1
        BY <1>3, <1>6, <3>4
      <4> QED BY <3>0, <3>4, <3>5, <4>1, <4>2
    <3>7. \A i, j \in 1..(p_wpos + 1) : L(i) = L(j) => i = j
      <4>1. \A i \in 1..p_wpos : L(i) = K(i) /\ L(i) # c
        BY <1>3, <1>6, <2>0, <3>4
      <4> QED BY <1>3, <3>0, <3>4, <3>5, <4>1
    <3>8. ~overrun' => p_wpos + 1 = gone1 /\ \A i \in 1..(p_wpos + 1) : L(i) = i
      <4> SUFFICES ASSUME ~overrun'
                   PROVE  p_wpos + 1 = gone1 /\ \A i \in 1..(p_wpos + 1) : L(i) = i
        OBVIOUS
      <4>1. p_wpos = gone /\ gone1 = gone + 1 /\ \A i \in 1..p_wpos : K(i) = i
        BY <1>2, <1>3, <1>5, <1>8 DEF gone1
      <4> QED BY <2>0, <3>0, <3>4, <3>5, <4>1
    <3>9. p_wpos + 1 \in p_rpos..(p_rpos + B)
      BY <1>1, <1>3, <2>4
    <3> QED BY <1>3, <1>4, <1>5, <2>3, <3>1, <3>6, <3>7, <3>8, <3>9 DEF Ring, L, gone1
\* A full ring: p_wpos is a turn ahead of p_rpos.
  <2>5. CASE ~(p_wpos - p_rpos < B)
    <3>0. p_wpos = p_rpos + B /\ overrun'
      BY <1>1, <1>3, <1>5, <1>8, <2>5
    <3>1. p_wpos' = p_wpos
      BY <2>1, <2>5 DEF NextWpos
    <3>2. p_wpos % B = p_rpos % B
      <4>0. p_rpos \in Int /\ 1 \in Int /\ p_rpos + B * 1 = p_rpos + B
        BY <1>1, <1>3
      <4>1. (p_rpos + B * 1) % B = p_rpos % B
        BY <1>1, <4>0, ModTurns
      <4> QED BY <3>0, <4>0, <4>1
    <3>3. ASSUME NEW i \in 1..p_wpos, i # p_rpos + 1 PROVE (KeyOf(i))' = K(i)
      <4>1. CASE i <= p_rpos
        BY <1>4, <4>1 DEF KeyOf
      <4>2. CASE ~(i <= p_rpos)
        <5>1. i - 1 \in Int /\ p_rpos \in Int /\ p_rpos < i - 1 /\ (i - 1) - p_rpos < B
          <6>1. i > p_rpos
            BY <1>3, <4>2
          <6> QED BY <1>1, <1>3, <3>0, <3>3, <6>1
        <5>2. (i - 1) % B # p_wpos % B
          BY <1>1, <3>2, <5>1, ModDistinct
        <5>3. stdin_buffer'[(i - 1) % B] = stdin_buffer[(i - 1) % B]
          BY <2>3, <5>1, <5>2
        <5> QED BY <1>4, <4>2, <5>3 DEF KeyOf
      <4> QED BY <4>1, <4>2
    <3>4. (KeyOf(p_rpos + 1))' = c
      <4>1. ~(p_rpos + 1 <= p_rpos) /\ (p_rpos + 1) - 1 = p_rpos
        BY <1>3
      <4> QED BY <1>4, <2>3, <3>2, <4>1 DEF KeyOf
    <3> DEFINE L(i) == (KeyOf(i))'
    <3>5. /\ \A i \in 1..p_wpos : i # p_rpos + 1 => L(i) = K(i)
          /\ L(p_rpos + 1) = c
      BY <3>3, <3>4
    <3> HIDE DEF K, L
    <3>6. \A i \in 1..p_wpos : L(i) \in 1..gone1
      <4>1. c \in 1..gone1
        BY <1>6, <2>0
      <4>2. \A i \in 1..p_wpos : i # p_rpos + 1 => L(i) \in 1..gone1
        BY <1>3, <1>6, <3>5
      <4> QED BY <3>5, <4>1, <4>2
    <3>7. \A i, j \in 1..p_wpos : L(i) = L(j) => i = j
      <4>1. \A i \in 1..p_wpos : i # p_rpos + 1 => L(i) = K(i) /\ L(i) # c
        BY <1>3, <1>6, <2>0, <3>5
      <4> QED BY <1>3, <3>5, <4>1
    <3> QED BY <1>3, <1>4, <1>5, <2>3, <3>0, <3>1, <3>6, <3>7 DEF Ring, L, gone1
  <2> QED BY <2>4, <2>5
<1> QED BY <1>7, <1>8

\* dev_stdin_read, between two calls of schedule(): keys go from the ring to the reader,
\* which sleeps only when there are no more.
LEMMA RingRead ==
  ASSUME Ring, Console, NEW r \in Process, NEW ret \in Nat, NEW len \in Nat, ret < len,
         ReadOn(r, ret, len)
  PROVE  /\ Ring' /\ Console'
         /\ Taken(r, ret, len) \in 0..(len - ret)
         /\ p_rpos' = p_rpos + Taken(r, ret, len) /\ p_wpos' = p_wpos
         /\ ret + Taken(r, ret, len) < len => p_rpos' = p_wpos'
         /\ p_rpos = p_wpos => Taken(r, ret, len) = 0
<1> DEFINE B == STDIN_BUFSIZE
           k == Taken(r, ret, len)
           K(i) == KeyOf(i)
           part == SubSeq(InRing, 1, k)
<1>1. B \in Nat \ {0}
  BY StdinAssumption
<1>2. /\ stdin_buffer \in [0..(B - 1) -> Nat]
      /\ p_rpos \in Nat /\ p_wpos \in p_rpos..(p_rpos + B) /\ p_wpos \in Nat
      /\ got \in Seq(Nat) /\ Len(got) = p_rpos
  BY <1>1 DEF Ring
<1>3. /\ p_rpos' = p_rpos + k /\ got' = got \o part
      /\ stdin_buffer' = stdin_buffer /\ p_wpos' = p_wpos /\ overrun' = overrun
      /\ cons' = cons /\ typed' = typed
  BY DEF ReadOn, console
<1>4. /\ k \in 0..(len - ret) /\ k \in 0..(p_wpos - p_rpos)
      /\ ret + k < len => k = p_wpos - p_rpos
      /\ p_rpos = p_wpos => k = 0
  BY <1>2 DEF Taken
<1>5. Console' /\ Pending' = Pending
  BY <1>3 DEF Console, Pending
<1> HIDE DEF k
<1>6. \A i \in 1..k : InRing[i] = stdin_buffer[(p_rpos + i - 1) % B] /\ InRing[i] \in Nat
  <2> SUFFICES ASSUME NEW i \in 1..k
               PROVE  InRing[i] = stdin_buffer[(p_rpos + i - 1) % B] /\ InRing[i] \in Nat
    OBVIOUS
  <2>1. i \in 1..(p_wpos - p_rpos) /\ p_rpos + i - 1 \in Int
    BY <1>2, <1>4
  <2>2. (p_rpos + i - 1) % B \in 0..(B - 1)
    BY <1>1, <2>1, ModRange
  <2>3. InRing[i] = stdin_buffer[(p_rpos + i - 1) % B]
    BY <2>1 DEF InRing
  <2> QED BY <1>2, <2>2, <2>3
<1>7. /\ part \in Seq(Nat) /\ Len(part) = k
      /\ \A i \in 1..k : part[i] = InRing[i]
  <2> DEFINE s == InRing
  <2> HIDE DEF s
  <2>1. 1 \in Int /\ k \in Int /\ \A i \in 1..k : s[i] \in Nat
    BY <1>4, <1>6 DEF s
  <2>2. /\ SubSeq(s, 1, k) \in Seq(Nat)
        /\ Len(SubSeq(s, 1, k)) = IF 1 <= k THEN k - 1 + 1 ELSE 0
        /\ \A i \in 1..(k - 1 + 1) : SubSeq(s, 1, k)[i] = s[1 + i - 1]
    BY <2>1, SubSeqProperties
  <2>3. k - 1 + 1 = k /\ \A i \in 1..k : 1 + i - 1 = i
    BY <2>1
  <2>4. k \in Nat
    BY <1>4
  <2> DEFINE u == SubSeq(s, 1, k)
  <2> HIDE DEF u
  <2>5. u \in Seq(Nat) /\ Len(u) = k /\ \A i \in 1..k : u[i] = s[i]
    BY <2>2, <2>3, <2>4 DEF u
  <2> QED BY <2>5 DEF u, s
<1> HIDE DEF part
<1>8. /\ got' \in Seq(Nat) /\ Len(got') = p_rpos + k
      /\ \A i \in 1..(p_rpos + k) : got'[i] = IF i <= p_rpos THEN got[i] ELSE part[i - p_rpos]
  <2>1. /\ got \o part \in Seq(Nat)
        /\ Len(got \o part) = Len(got) + Len(part)
        /\ \A i \in 1..(Len(got) + Len(part)) :
             (got \o part)[i] = IF i <= Len(got) THEN got[i] ELSE part[i - Len(got)]
    BY <1>2, <1>7, ConcatProperties
  <2> QED BY <1>2, <1>3, <1>7, <2>1
<1>9. ASSUME NEW i \in 1..p_wpos PROVE (KeyOf(i))' = K(i)
  <2>1. (KeyOf(i))' = IF i <= p_rpos + k THEN got'[i] ELSE stdin_buffer[(i - 1) % B]
    BY <1>3 DEF KeyOf
  <2>2. CASE i <= p_rpos
    <3>1. i \in 1..(p_rpos + k) /\ i <= p_rpos + k
      BY <1>2, <1>4, <2>2
    <3> QED BY <1>8, <2>1, <2>2, <3>1 DEF KeyOf
  <2>3. CASE i > p_rpos /\ i <= p_rpos + k
    <3>1. /\ i \in 1..(p_rpos + k) /\ i - p_rpos \in 1..k /\ ~(i <= p_rpos)
          /\ p_rpos + (i - p_rpos) - 1 = i - 1
      BY <1>2, <1>4, <2>3
    <3>2. got'[i] = part[i - p_rpos]
      BY <1>8, <3>1
    <3>3. part[i - p_rpos] = stdin_buffer[(p_rpos + (i - p_rpos) - 1) % B]
      BY <1>6, <1>7, <3>1
    <3> QED BY <2>1, <2>3, <3>1, <3>2, <3>3 DEF KeyOf
  <2>4. CASE i > p_rpos + k
    <3>1. ~(i <= p_rpos) /\ ~(i <= p_rpos + k)
      BY <1>2, <1>4, <2>4
    <3> QED BY <2>1, <3>1 DEF KeyOf
  <2> QED BY <1>2, <1>4, <2>2, <2>3, <2>4
<1>10. Ring'
  <2> DEFINE L(i) == (KeyOf(i))'
  <2>1. \A i \in 1..p_wpos : L(i) = K(i)
    BY <1>9
  <2>2. /\ \A i \in 1..p_wpos : K(i) \in 1..(typed - Pending)
        /\ \A i, j \in 1..p_wpos : K(i) = K(j) => i = j
        /\ ~overrun => p_wpos = typed - Pending /\ \A i \in 1..p_wpos : K(i) = i
        /\ overrun \in BOOLEAN
    BY DEF Ring
  <2> HIDE DEF K, L
  <2>3. /\ \A i \in 1..p_wpos : L(i) \in 1..(typed - Pending)
        /\ \A i, j \in 1..p_wpos : L(i) = L(j) => i = j
        /\ ~overrun => p_wpos = typed - Pending /\ \A i \in 1..p_wpos : L(i) = i
    BY <2>1, <2>2
  <2>4. p_rpos' \in Nat /\ p_wpos \in p_rpos'..(p_rpos' + B)
    BY <1>1, <1>2, <1>3, <1>4
  <2> QED BY <1>2, <1>3, <1>5, <1>8, <2>2, <2>3, <2>4 DEF Ring, L
<1>11. ret + k < len => p_rpos' = p_wpos'
  BY <1>2, <1>3, <1>4
<1> QED BY <1>3, <1>4, <1>5, <1>10, <1>11 DEF k

-----------------------------------------------------------------------------
(***************************************************************************)
(* The wait queue of stdin.                                                *)
(***************************************************************************)

\* wait_queue_add.
LEMMA QueueAppended ==
  ASSUME wait_queue \in Seq(Process), IsInjective(wait_queue),
         NEW p \in Process, p \notin Queued, wait_queue' = Append(wait_queue, p)
  PROVE  /\ wait_queue' \in Seq(Process) /\ IsInjective(wait_queue')
         /\ Queued' = Queued \cup {p}
<1> DEFINE n == Len(wait_queue)
<1>1. n \in Nat /\ DOMAIN wait_queue = 1..n
  BY LenProperties
<1>2. /\ wait_queue' \in Seq(Process) /\ Len(wait_queue') = n + 1
      /\ \A i \in 1..n : wait_queue'[i] = wait_queue[i]
      /\ wait_queue'[n + 1] = p
  BY AppendProperties
<1>3. /\ \A i, j \in 1..n : wait_queue[i] = wait_queue[j] => i = j
      /\ \A i \in 1..n : wait_queue[i] # p
  BY <1>1 DEF IsInjective, Queued
<1>4. DOMAIN wait_queue' = 1..(n + 1)
  BY <1>2, LenProperties
<1> DEFINE q(i) == wait_queue[i]
           u(i) == wait_queue'[i]
<1>5. /\ Queued = {q(i) : i \in 1..n}
      /\ Queued' = {u(i) : i \in 1..(n + 1)}
  BY <1>2 DEF Queued
<1>6. /\ \A i \in 1..n : u(i) = q(i) /\ q(i) # p
      /\ u(n + 1) = p
      /\ \A i, j \in 1..n : q(i) = q(j) => i = j
  BY <1>2, <1>3
<1> HIDE DEF n
<1>7. \A i \in 1..(n + 1) : i \in 1..n \/ i = n + 1
  BY <1>1
<1>8. \A i \in 1..n : i \in 1..(n + 1)
  BY <1>1
<1>9. n + 1 \in 1..(n + 1)
  BY <1>1
<1>10. IsInjective(wait_queue')
  <2>1. \A i, j \in 1..(n + 1) : u(i) = u(j) => i = j
    <3> HIDE DEF u, q
    <3> QED BY <1>6, <1>7
  <2> QED BY <1>4, <2>1 DEF IsInjective
<1> HIDE DEF u, q
<1>11. Queued' = Queued \cup {p}
  BY <1>5, <1>6, <1>7, <1>8, <1>9
<1> QED BY <1>2, <1>10, <1>11

\* wait_queue_del, of a wait_t that may have left the queue.
LEMMA QueueRemoved ==
  ASSUME wait_queue \in Seq(Process), IsInjective(wait_queue),
         NEW p \in Process, wait_queue' = wait_current_del(p)
  PROVE  /\ wait_queue' \in Seq(Process) /\ IsInjective(wait_queue')
         /\ Queued' = Queued \ {p}
<1> DEFINE n == Len(wait_queue)
           k == CHOOSE i \in 1..n : wait_queue[i] = p
           q(i) == wait_queue[i]
           u(i) == wait_queue'[i]
<1>1. n \in Nat /\ DOMAIN wait_queue = 1..n
  BY LenProperties
<1>2. \A i, j \in 1..n : q(i) = q(j) => i = j
  BY <1>1 DEF IsInjective
<1>3. CASE p \notin Queued
  <2>1. wait_queue' = wait_queue
    BY <1>3 DEF wait_current_del
  <2>2. Queued' = Queued
    BY <2>1 DEF Queued
  <2> QED BY <1>3, <2>1, <2>2
<1>4. CASE p \in Queued
  <2>1. k \in 1..n /\ q(k) = p
    <3>1. \E i \in 1..n : wait_queue[i] = p
      BY <1>4 DEF Queued
    <3> QED BY <3>1
  <2>2. wait_queue' = RemoveAt(wait_queue, k)
    BY <1>4 DEF wait_current_del
  <2> HIDE DEF k
  <2>3. /\ wait_queue' \in Seq(Process) /\ Len(wait_queue') = n - 1
        /\ \A j \in 1..(n - 1) : wait_queue'[j] = IF j < k THEN q(j) ELSE q(j + 1)
    BY <2>1, <2>2, RemoveProperties
  <2>4. DOMAIN wait_queue' = 1..(n - 1)
    BY <2>3, LenProperties
  <2>5. /\ Queued = {q(i) : i \in 1..n}
        /\ Queued' = {u(i) : i \in 1..(n - 1)}
    BY <2>3 DEF Queued
  <2> HIDE DEF n
  <2> DEFINE old(j) == IF j < k THEN j ELSE j + 1
  <2>6. \A j \in 1..(n - 1) : old(j) \in 1..n /\ old(j) # k /\ u(j) = q(old(j))
    <3> SUFFICES ASSUME NEW j \in 1..(n - 1)
                 PROVE  old(j) \in 1..n /\ old(j) # k /\ u(j) = q(old(j))
      OBVIOUS
    <3>1. j \in 1..n /\ j + 1 \in 1..n
      BY <1>1
    <3>2. CASE j < k
      <4>1. u(j) = q(j) /\ j # k
        BY <2>1, <2>3, <3>2
      <4> QED BY <3>1, <3>2, <4>1
    <3>3. CASE ~(j < k)
      <4>1. u(j) = q(j + 1) /\ j + 1 # k
        BY <2>1, <2>3, <3>3
      <4> QED BY <3>1, <3>3, <4>1
    <3> QED BY <3>2, <3>3
  <2>7. \A i, j \in 1..(n - 1) : u(i) = u(j) => i = j
    <3> SUFFICES ASSUME NEW i \in 1..(n - 1), NEW j \in 1..(n - 1), u(i) = u(j)
                 PROVE  i = j
      OBVIOUS
    <3>1. old(i) = old(j)
      <4> HIDE DEF old, u, q
      <4> QED BY <1>2, <2>6
    <3> QED BY <1>1, <2>1, <3>1
  <2>8. IsInjective(wait_queue')
    BY <2>4, <2>7 DEF IsInjective
  <2>9. ASSUME NEW x \in Queued, x # p PROVE x \in Queued'
    <3>1. PICK i \in 1..n : x = q(i)
      BY <2>5
    <3>2. i # k
      BY <2>1, <2>9, <3>1
    <3>3. CASE i < k
      <4>1. i \in 1..(n - 1) /\ u(i) = q(i)
        <5>1. i \in 1..(n - 1)
          BY <1>1, <2>1, <3>3
        <5> QED BY <2>3, <3>3, <5>1
      <4> HIDE DEF u, q
      <4> QED BY <2>5, <3>1, <4>1
    <3>4. CASE i > k
      <4>1. i - 1 \in 1..(n - 1) /\ u(i - 1) = q(i)
        <5>1. i - 1 \in 1..(n - 1) /\ ~(i - 1 < k) /\ (i - 1) + 1 = i
          BY <1>1, <2>1, <3>4
        <5> QED BY <2>3, <5>1
      <4> HIDE DEF u, q
      <4> QED BY <2>5, <3>1, <4>1
    <3> QED BY <1>1, <2>1, <3>2, <3>3, <3>4
  <2>10. ASSUME NEW x \in Queued' PROVE x \in Queued /\ x # p
    <3> HIDE DEF u, q, old
    <3>1. PICK j \in 1..(n - 1) : x = u(j)
      BY <2>5
    <3>2. x = q(old(j)) /\ old(j) \in 1..n /\ old(j) # k
      BY <2>6, <3>1
    <3> QED BY <1>2, <2>1, <2>5, <3>2
  <2> QED BY <2>3, <2>8, <2>9, <2>10
<1> QED BY <1>3, <1>4

-----------------------------------------------------------------------------
(***************************************************************************)
(* The invariant is preserved.                                             *)
(***************************************************************************)

LEMMA ListSame ==
  ASSUME List, UNCHANGED tvars
  PROVE  /\ List' /\ Linked' = Linked
         /\ \A t \in Timer : (ToGo(t))' = ToGo(t)
BY DEF tvars, List, HeadNotDue, Linked, Through, ToGo, Position

LEMMA KeysSame ==
  ASSUME Console, Ring, UNCHANGED svars
  PROVE  Console' /\ Ring'
BY DEF svars, Console, Ring, KeyOf, Pending

LEMMA InitOK == Init => IInv
<1> SUFFICES ASSUME Init PROVE IInv
  OBVIOUS
<1> USE StdinAssumption, TimerAssumption, ClockAssumption
<1> USE DEF Init, timer_init_list, stdin_device_init
<1>1. Positions
  BY DEF Positions
<1>2. Timers
  <2>1. timer_list \in Seq(Timer) /\ Len(timer_list) = 0
    BY EmptySeq
  <2>2. IsInjective(timer_list) /\ Linked = {}
    BY <2>1, LenProperties DEF IsInjective, Linked, ToSet
  <2>3. \A i \in 0..Len(timer_list) : Through(i) <= MaxTime
    <3>1. \A j \in 1..0 : expires[timer_list[j]] \in Nat
      OBVIOUS
    <3>2. Sum(timer_list, expires, 0) = 0
      BY <3>1, SumSteps
    <3>3. Through(0) = 0
      BY <3>2, ThroughIsSum
    <3> QED BY <2>1, <3>3
  <2> QED BY <2>1, <2>2, <2>3 DEF Timers, List, HeadNotDue
<1>3. Readers
  <2>1. wait_queue \in Seq(Process) /\ Len(wait_queue) = 0
    BY EmptySeq
  <2>2. IsInjective(wait_queue) /\ Queued = {}
    BY <2>1, LenProperties DEF IsInjective, Queued
  <2> QED BY <2>1, <2>2 DEF Readers, NoCall, Process
<1>4. Console
  <2>1. Pending = 0
    <3>1. 0 \in 0..(CONSBUFSIZE - 1) /\ cons.wpos - cons.rpos = 0
      OBVIOUS
    <3> QED BY <3>1, ModSmall DEF Pending
  <2> QED BY <2>1 DEF Console, NoKey
<1>5. Ring
  <2>1. got \in Seq(Nat) /\ Len(got) = 0
    BY EmptySeq
  <2>2. Pending = 0
    <3>1. 0 \in 0..(CONSBUFSIZE - 1) /\ cons.wpos - cons.rpos = 0
      OBVIOUS
    <3> QED BY <3>1, ModSmall DEF Pending
  <2>3. /\ stdin_buffer \in [0..(STDIN_BUFSIZE - 1) -> Nat]
        /\ p_rpos = 0 /\ p_wpos = 0 /\ typed = 0 /\ overrun = FALSE
        /\ 0 \in 0..(0 + STDIN_BUFSIZE)
    BY DEF NoKey
  <2>4. \A i \in 1..0 : FALSE
    OBVIOUS
  <2> HIDE DEF Init, timer_init_list, stdin_device_init
  <2> QED BY <2>1, <2>2, <2>3, <2>4 DEF Ring
<1> QED BY <1>1, <1>2, <1>3, <1>4, <1>5 DEF IInv

LEMMA SleepOK ==
  ASSUME IInv, NEW p \in Process, NEW time \in 1..MaxTime, Sleep(p, time)
  PROVE  IInv'
<1>1. /\ p \in Timer /\ at[p] = "user" /\ add_timer(p, time) /\ at' = [at EXCEPT ![p] = "sleep"]
      /\ asleep' = asleep \cup {p} /\ exiting' = exiting /\ UNCHANGED svars
  BY DEF Sleep, Process
<1>2. p \notin Linked /\ List
  BY <1>1 DEF IInv, Timers
<1>3. List' /\ Linked' = Linked \cup {p}
  BY <1>1, <1>2, AddTimer
<1>4. Positions'
  BY <1>1 DEF IInv, Positions
<1>5. Timers'
  BY <1>1, <1>3 DEF IInv, Timers, Positions, Process
<1>6. Console' /\ Ring'
  BY <1>1, KeysSame DEF IInv
<1>7. Readers'
  BY <1>1 DEF IInv, Readers, Positions, svars, Queued
<1> QED BY <1>4, <1>5, <1>6, <1>7 DEF IInv

\* dev_stdin_read, up to its end or to sleep: what it does to the readers.
LEMMA ReadersAfter ==
  ASSUME IInv, NEW p \in Process, NEW ret \in Nat, NEW len \in Nat, ret < len,
         p \notin asleep, p \notin Queued, at[p] \in {"user", "read"},
         ReadOn(p, ret, len),
         \/ /\ call'[p] = NoCall /\ UNCHANGED wait_queue
            /\ at' = [at EXCEPT ![p] = "user"] /\ asleep' = asleep
            /\ wakeup_flags' \in {wakeup_flags, [wakeup_flags EXCEPT ![p] = "WT_INTERRUPTED"]}
         \/ /\ call'[p] # NoCall /\ wait_current_set(p)
            /\ at' = [at EXCEPT ![p] = "read"] /\ asleep' = asleep \cup {p},
         exiting' = exiting
  PROVE  Readers'
<1> DEFINE k == Taken(p, ret, len)
<1>1. /\ k \in 0..(len - ret)
      /\ p_rpos' = p_rpos + k /\ p_wpos' = p_wpos
      /\ ret + k < len => p_rpos' = p_wpos'
      /\ p_rpos = p_wpos => k = 0
  BY RingRead DEF IInv
<1>2. /\ \/ ret + k = len /\ call' = [call EXCEPT ![p] = NoCall]
         \/ ret + k < len /\ call' = [call EXCEPT ![p] = [len |-> len, ret |-> ret + k]]
  BY DEF ReadOn
<1>3. /\ call \in [Process -> [len : Nat, ret : Nat]]
      /\ \A q \in Process : IF at[q] = "read" THEN call[q].ret < call[q].len
                                              ELSE call[q] = NoCall
      /\ wait_queue \in Seq(Process) /\ IsInjective(wait_queue)
      /\ wakeup_flags \in [Process -> {"WT_INTERRUPTED", "WT_KBD"}]
      /\ \A q \in Queued : /\ at[q] = "read" /\ wakeup_flags[q] = "WT_INTERRUPTED"
                           /\ q \notin asleep => q \in exiting
      /\ \A q \in Process \ Queued :
           at[q] = "read" => wakeup_flags[q] = "WT_KBD" /\ q \notin asleep
      /\ \A q \in asleep : at[q] = "read" => p_rpos = p_wpos
  BY DEF IInv, Readers
<1>4. /\ at \in [Process -> {"user", "sleep", "read"}] /\ asleep \subseteq Process
      /\ p_rpos \in Nat
  BY DEF IInv, Positions, Ring
<1> HIDE DEF k
<1>5. CASE ret + k = len /\ call' = [call EXCEPT ![p] = NoCall]
  <2>1. call'[p] = NoCall /\ NoCall \in [len : Nat, ret : Nat]
    BY <1>3, <1>5 DEF NoCall
  <2>2. /\ UNCHANGED wait_queue /\ at' = [at EXCEPT ![p] = "user"] /\ asleep' = asleep
        /\ \A q \in Process : q # p => wakeup_flags'[q] = wakeup_flags[q]
        /\ wakeup_flags' \in [Process -> {"WT_INTERRUPTED", "WT_KBD"}]
    BY <1>3, <2>1
  <2>3. Queued' = Queued
    BY <2>2 DEF Queued
  <2>4. k # 0
    BY <1>5
  <2>5. \A q \in asleep' : at'[q] = "read" => FALSE
    BY <1>1, <1>3, <1>4, <2>2, <2>4
  <2>6. call' \in [Process -> [len : Nat, ret : Nat]]
    BY <1>3, <1>5, <2>1
  <2>7. \A q \in Process : IF at'[q] = "read" THEN call'[q].ret < call'[q].len
                                              ELSE call'[q] = NoCall
    BY <1>3, <1>4, <1>5, <2>2
  <2>8. \A q \in Queued' : q \in Process /\ q # p
    <3>1. \A q \in Queued : q \in Process
      BY <1>3, LenProperties DEF Queued
    <3> QED BY <2>3, <3>1
  <2>9. \A q \in Queued' : /\ at'[q] = "read" /\ wakeup_flags'[q] = "WT_INTERRUPTED"
                           /\ q \notin asleep' => q \in exiting'
    BY <1>3, <1>4, <2>2, <2>3, <2>8
  <2>10. \A q \in Process \ Queued' :
           at'[q] = "read" => wakeup_flags'[q] = "WT_KBD" /\ q \notin asleep'
    BY <1>3, <1>4, <2>2, <2>3
  <2> QED BY <1>3, <2>2, <2>5, <2>6, <2>7, <2>9, <2>10 DEF Readers
<1>6. CASE ret + k < len /\ call' = [call EXCEPT ![p] = [len |-> len, ret |-> ret + k]]
  <2>1. call'[p] = [len |-> len, ret |-> ret + k] /\ call'[p] # NoCall
    <3>1. call'[p] = [len |-> len, ret |-> ret + k]
      BY <1>3, <1>6
    <3>2. len # 0
      BY <1>1
    <3>3. [len |-> len, ret |-> ret + k].len # NoCall.len
      BY <3>2 DEF NoCall
    <3> QED BY <3>1, <3>3
  <2>2. /\ wait_queue' = Append(wait_queue, p)
        /\ wakeup_flags' = [wakeup_flags EXCEPT ![p] = "WT_INTERRUPTED"]
        /\ at' = [at EXCEPT ![p] = "read"] /\ asleep' = asleep \cup {p}
    BY <2>1 DEF wait_current_set
  <2>3. wait_queue' \in Seq(Process) /\ IsInjective(wait_queue') /\ Queued' = Queued \cup {p}
    BY <1>3, <2>2, QueueAppended
  <2>4. p_rpos' = p_wpos'
    BY <1>1, <1>6
  <2>5. call' \in [Process -> [len : Nat, ret : Nat]]
    <3>1. [len |-> len, ret |-> ret + k] \in [len : Nat, ret : Nat]
      BY <1>1
    <3> QED BY <1>3, <1>6, <3>1
  <2>6. ASSUME NEW q \in Process
        PROVE  IF at'[q] = "read" THEN call'[q].ret < call'[q].len ELSE call'[q] = NoCall
    <3>1. CASE q = p
      BY <1>4, <1>6, <2>1, <2>2, <3>1
    <3>2. CASE q # p
      BY <1>3, <1>4, <1>6, <2>2, <3>2
    <3> QED BY <3>1, <3>2
  <2>7. wakeup_flags' \in [Process -> {"WT_INTERRUPTED", "WT_KBD"}]
    BY <1>3, <2>2
  <2>8. \A q \in Queued : q \in Process
    BY <1>3, LenProperties DEF Queued
  <2>9. \A q \in Queued' : /\ at'[q] = "read" /\ wakeup_flags'[q] = "WT_INTERRUPTED"
                           /\ q \notin asleep' => q \in exiting'
    BY <1>3, <1>4, <2>2, <2>3, <2>8
  <2>10. \A q \in Process \ Queued' :
           at'[q] = "read" => wakeup_flags'[q] = "WT_KBD" /\ q \notin asleep'
    BY <1>3, <1>4, <2>2, <2>3
  <2> QED BY <2>3, <2>4, <2>5, <2>6, <2>7, <2>9, <2>10 DEF Readers
<1> QED BY <1>2, <1>5, <1>6

LEMMA ReadOK ==
  ASSUME IInv, NEW p \in Process, NEW len \in 1..MaxLen, Read(p, len)
  PROVE  IInv'
<1>1. /\ at[p] = "user" /\ dev_stdin_read(p, len)
      /\ at' = IF call'[p] = NoCall THEN at ELSE [at EXCEPT ![p] = "read"]
      /\ asleep' = IF call'[p] = NoCall THEN asleep ELSE asleep \cup {p}
      /\ UNCHANGED tvars /\ exiting' = exiting
  BY DEF Read
<1>2. /\ ReadOn(p, 0, len)
      /\ call'[p] = NoCall => UNCHANGED <<wait_queue, wakeup_flags>>
      /\ call'[p] # NoCall => wait_current_set(p)
      /\ 0 \in Nat /\ len \in Nat /\ 0 < len
  BY <1>1, ClockAssumption DEF dev_stdin_read
<1>3. at \in [Process -> {"user", "sleep", "read"}] /\ p \notin asleep /\ p \notin Queued
  BY <1>1 DEF IInv, Positions, Readers
<1>4. Console' /\ Ring'
  BY <1>2, RingRead DEF IInv
<1>5. Readers'
  <2>1. \/ /\ call'[p] = NoCall /\ UNCHANGED wait_queue
           /\ at' = [at EXCEPT ![p] = "user"] /\ asleep' = asleep
           /\ wakeup_flags' \in {wakeup_flags, [wakeup_flags EXCEPT ![p] = "WT_INTERRUPTED"]}
        \/ /\ call'[p] # NoCall /\ wait_current_set(p)
           /\ at' = [at EXCEPT ![p] = "read"] /\ asleep' = asleep \cup {p}
    BY <1>1, <1>2, <1>3
  <2>2. at[p] \in {"user", "read"}
    BY <1>1
  <2> QED BY <1>1, <1>2, <1>3, <2>1, <2>2, ReadersAfter
<1>6. Positions'
  BY <1>1, <1>3 DEF IInv, Positions
<1>7. Timers'
  <2>1. List' /\ Linked' = Linked
    BY <1>1, ListSame DEF IInv, Timers
  <2>2. Linked \subseteq Process
    BY ListFacts DEF IInv, Timers, Process
  <2> QED BY <1>1, <1>3, <2>1, <2>2 DEF IInv, Timers, Positions
<1> QED BY <1>4, <1>5, <1>6, <1>7 DEF IInv

LEMMA WakeFromSleepOK ==
  ASSUME IInv, NEW p \in Process, WakeFromSleep(p)
  PROVE  IInv'
<1>1. /\ p \in Timer /\ at[p] = "sleep" /\ p \notin asleep /\ del_timer(p)
      /\ at' = [at EXCEPT ![p] = "user"]
      /\ UNCHANGED svars /\ asleep' = asleep /\ exiting' = exiting
  BY DEF WakeFromSleep, Process
<1>2. List' /\ Linked' = Linked \ {p}
  BY <1>1, DelTimer DEF IInv, Timers
<1>3. Positions'
  BY <1>1 DEF IInv, Positions
<1>4. Timers'
  BY <1>1, <1>2 DEF IInv, Timers, Positions
<1>5. Console' /\ Ring'
  BY <1>1, KeysSame DEF IInv
<1>6. Readers'
  BY <1>1 DEF IInv, Readers, Positions, svars, Queued
<1> QED BY <1>3, <1>4, <1>5, <1>6 DEF IInv

\* The timers of the processes that sleep do not see the readers.
LEMMA TimersKept ==
  ASSUME IInv, NEW p \in Process, at[p] = "read", UNCHANGED tvars,
         at' \in {at, [at EXCEPT ![p] = "user"], [at EXCEPT ![p] = "read"]},
         asleep' \in {asleep, asleep \cup {p}}
  PROVE  Timers'
<1>1. List' /\ Linked' = Linked
  BY ListSame DEF IInv, Timers
<1>2. Linked \subseteq Process
  BY ListFacts DEF IInv, Timers, Process
<1>3. at \in [Process -> {"user", "sleep", "read"}] /\ asleep \subseteq Process
  BY DEF IInv, Positions
<1>4. p \notin Linked
  BY DEF IInv, Timers
<1>5. \A q \in Process : q # p => at'[q] = at[q]
  BY <1>3
<1>6. at'[p] \in {"user", "read"}
  BY <1>3
<1>7. \A t \in Linked' : at'[t] = "sleep"
  BY <1>1, <1>2, <1>4, <1>5 DEF IInv, Timers
<1>8. \A t \in asleep' : at'[t] = "sleep" => t \in Linked'
  BY <1>1, <1>3, <1>5, <1>6 DEF IInv, Timers
<1> QED BY <1>1, <1>7, <1>8 DEF Timers

LEMMA WakeFromReadOK ==
  ASSUME IInv, NEW p \in Process, WakeFromRead(p)
  PROVE  IInv'
<1>1. /\ at[p] = "read" /\ p \notin asleep /\ resume_read(p)
      /\ at' = IF call'[p] = NoCall THEN [at EXCEPT ![p] = "user"] ELSE at
      /\ asleep' = IF call'[p] = NoCall THEN asleep ELSE asleep \cup {p}
      /\ UNCHANGED tvars /\ exiting' = exiting
  BY DEF WakeFromRead
<1>2. at \in [Process -> {"user", "sleep", "read"}] /\ asleep \subseteq Process
  BY DEF IInv, Positions
<1>3. at = [at EXCEPT ![p] = "read"]
  BY <1>1, <1>2
<1>4. Timers'
  BY <1>1, TimersKept
<1>5. call[p].ret \in Nat /\ call[p].len \in Nat /\ call[p].ret < call[p].len
  BY <1>1 DEF IInv, Readers
<1>6. CASE /\ wakeup_flags[p] = "WT_KBD"
           /\ ReadOn(p, call[p].ret, call[p].len)
           /\ IF call'[p] = NoCall
              THEN /\ wakeup_flags' = [wakeup_flags EXCEPT ![p] = "WT_INTERRUPTED"]
                   /\ UNCHANGED wait_queue
              ELSE wait_current_set(p)
  <2>1. p \notin Queued
    BY <1>6 DEF IInv, Readers
  <2>2. Console' /\ Ring'
    BY <1>5, <1>6, RingRead DEF IInv
  <2>3. \/ /\ call'[p] = NoCall /\ UNCHANGED wait_queue
           /\ at' = [at EXCEPT ![p] = "user"] /\ asleep' = asleep
           /\ wakeup_flags' \in {wakeup_flags, [wakeup_flags EXCEPT ![p] = "WT_INTERRUPTED"]}
        \/ /\ call'[p] # NoCall /\ wait_current_set(p)
           /\ at' = [at EXCEPT ![p] = "read"] /\ asleep' = asleep \cup {p}
    BY <1>1, <1>3, <1>6
  <2>4. at[p] \in {"user", "read"}
    BY <1>1
  <2>5. Readers'
    BY <1>1, <1>5, <1>6, <2>1, <2>3, <2>4, ReadersAfter
  <2>6. Positions'
    BY <1>1, <2>3 DEF IInv, Positions
  <2> QED BY <1>4, <2>2, <2>5, <2>6 DEF IInv
<1>7. CASE /\ wakeup_flags[p] # "WT_KBD"
           /\ wait_queue' = wait_current_del(p)
           /\ call' = [call EXCEPT ![p] = NoCall]
           /\ UNCHANGED <<stdin_buffer, p_rpos, p_wpos, wakeup_flags, console, got, overrun>>
  <2>1. /\ call \in [Process -> [len : Nat, ret : Nat]]
        /\ NoCall \in [len : Nat, ret : Nat]
        /\ wait_queue \in Seq(Process) /\ IsInjective(wait_queue)
    BY DEF IInv, Readers, NoCall
  <2>2. call'[p] = NoCall /\ at' = [at EXCEPT ![p] = "user"] /\ asleep' = asleep
    BY <1>1, <1>7, <2>1
  <2>3. wait_queue' \in Seq(Process) /\ IsInjective(wait_queue') /\ Queued' = Queued \ {p}
    BY <1>7, <2>1, QueueRemoved
  <2>4. Console' /\ Ring'
    BY <1>7 DEF IInv, Console, Ring, KeyOf, Pending, console
  <2>5. Positions'
    BY <1>1, <2>2 DEF IInv, Positions
  <2>6. call' \in [Process -> [len : Nat, ret : Nat]]
    BY <1>7, <2>1
  <2>7. \A q \in Process : IF at'[q] = "read" THEN call'[q].ret < call'[q].len
                                              ELSE call'[q] = NoCall
    <3>1. \A q \in Process : q # p => call'[q] = call[q] /\ at'[q] = at[q]
      BY <1>2, <1>7, <2>1, <2>2
    <3>2. at'[p] = "user" /\ call'[p] = NoCall
      BY <1>2, <2>2
    <3> QED BY <3>1, <3>2 DEF IInv, Readers
  <2>8. \A q \in Queued : q \in Process
    BY <2>1, LenProperties DEF Queued
  <2>9. \A q \in Queued' : /\ at'[q] = "read" /\ wakeup_flags'[q] = "WT_INTERRUPTED"
                           /\ q \notin asleep' => q \in exiting'
    BY <1>1, <1>2, <1>7, <2>2, <2>3, <2>8 DEF IInv, Readers
  <2>10. \A q \in Process \ Queued' :
           at'[q] = "read" => wakeup_flags'[q] = "WT_KBD" /\ q \notin asleep'
    BY <1>1, <1>2, <1>7, <2>2, <2>3 DEF IInv, Readers
  <2>11. \A q \in asleep' : at'[q] = "read" => p_rpos' = p_wpos'
    BY <1>2, <1>7, <2>2 DEF IInv, Readers
  <2>12. wakeup_flags' \in [Process -> {"WT_INTERRUPTED", "WT_KBD"}]
    BY <1>7 DEF IInv, Readers
  <2>13. Readers'
    BY <2>3, <2>6, <2>7, <2>9, <2>10, <2>11, <2>12 DEF Readers
  <2> QED BY <1>4, <2>4, <2>5, <2>13 DEF IInv
<1> QED BY <1>1, <1>6, <1>7 DEF resume_read

LEMMA KillOK ==
  ASSUME IInv, NEW p \in Process, Kill(p)
  PROVE  IInv'
<1>1. /\ exiting' = exiting \cup {p} /\ asleep' = asleep \ {p} /\ at' = at
      /\ UNCHANGED tvars /\ UNCHANGED svars
  BY DEF Kill
<1>2. Positions'
  BY <1>1 DEF IInv, Positions
<1>3. Timers'
  BY <1>1, ListSame DEF IInv, Timers
<1>4. Console' /\ Ring'
  BY <1>1, KeysSame DEF IInv
<1>5. Readers'
  <2>1. /\ UNCHANGED <<call, wait_queue, wakeup_flags, p_rpos, p_wpos>>
        /\ Queued' = Queued
    BY <1>1 DEF svars, Queued
  <2>2. Readers
    BY DEF IInv
  <2> QED BY <1>1, <2>1, <2>2 DEF Readers
<1> QED BY <1>2, <1>3, <1>4, <1>5 DEF IInv

LEMMA ExitOK ==
  ASSUME IInv, NEW p \in Process, Exit(p)
  PROVE  IInv'
<1>1. /\ at[p] = "user" /\ exiting' = exiting \ {p} /\ asleep' = asleep /\ at' = at
      /\ UNCHANGED tvars /\ UNCHANGED svars
  BY DEF Exit
<1>2. Positions'
  BY <1>1 DEF IInv, Positions
<1>3. Timers'
  BY <1>1, ListSame DEF IInv, Timers
<1>4. Console' /\ Ring'
  BY <1>1, KeysSame DEF IInv
<1>5. Readers'
  <2>1. /\ UNCHANGED <<call, wait_queue, wakeup_flags, p_rpos, p_wpos>>
        /\ Queued' = Queued
    BY <1>1 DEF svars, Queued
  <2>2. Readers
    BY DEF IInv
  <2>3. \A q \in Queued : q # p
    BY <1>1, <2>2 DEF Readers
  <2> QED BY <1>1, <2>1, <2>2, <2>3 DEF Readers
<1> QED BY <1>2, <1>3, <1>4, <1>5 DEF IInv

\* A key wakes every reader in the wait queue, and leaves it empty.
LEMMA QueueWoken ==
  ASSUME Readers,
         wait_queue' = SubSeq(wait_queue, WokenFromFront + 1, Len(wait_queue))
  PROVE  /\ Woken = Queued
         /\ wait_queue' \in Seq(Process) /\ IsInjective(wait_queue') /\ Queued' = {}
<1>1. wait_queue \in Seq(Process) /\ Len(wait_queue) \in Nat
  BY LenProperties DEF Readers
<1>2. Woken = Queued
  BY DEF Woken, WokenFromFront, Queued
<1>3. /\ SubSeq(wait_queue, Len(wait_queue) + 1, Len(wait_queue)) \in Seq(Process)
      /\ Len(SubSeq(wait_queue, Len(wait_queue) + 1, Len(wait_queue)))
           = Len(wait_queue) - Len(wait_queue)
  <2>1. Len(wait_queue) \in 0..Len(wait_queue)
    BY <1>1
  <2> QED BY <1>1, <2>1, DropProperties
<1>4. wait_queue' \in Seq(Process) /\ Len(wait_queue') = 0
  BY <1>1, <1>3 DEF WokenFromFront
<1>5. DOMAIN wait_queue' = {} /\ Queued' = {}
  BY <1>4, LenProperties DEF Queued
<1> QED BY <1>2, <1>4, <1>5 DEF IsInjective

LEMMA InterruptOK ==
  ASSUME IInv, NEW n \in 0..MaxBurst, Interrupt(n)
  PROVE  IInv'
<1>1. /\ run_timer_list /\ keyboard(n)
      /\ asleep' = (asleep \ (Linked \ Linked')) \ (IF KeyComes(n) THEN Woken ELSE {})
      /\ at' = at /\ exiting' = exiting
  BY DEF Interrupt
<1>2. n \in Nat
  BY ClockAssumption
<1>3. /\ List' /\ Linked' = {u \in Linked : ToGo(u) > 1}
  BY <1>1, RunTimers DEF IInv, Timers
<1>4. Linked \subseteq Process /\ \A u \in Linked : at[u] = "sleep"
  BY ListFacts DEF IInv, Timers, Process
<1>5. Console' /\ Ring'
  BY <1>1, <1>2, ConsoleKept, RingWritten DEF IInv
<1>6. Positions'
  BY <1>1 DEF IInv, Positions
<1>7. Timers'
  BY <1>1, <1>3, <1>4 DEF IInv, Timers
<1>8. p_rpos' = p_rpos /\ call' = call
  BY <1>1 DEF keyboard
<1>9. \A q \in Process : at[q] = "read" => q \notin Linked
  BY <1>4
<1>10. CASE ~KeyComes(n)
  <2>1. UNCHANGED <<stdin_buffer, p_wpos, wait_queue, wakeup_flags>>
    BY <1>1, <1>10 DEF keyboard, KeyComes, dev_stdin_write
  <2>2. Queued' = Queued
    BY <2>1 DEF Queued
  <2>3. asleep' = asleep \ (Linked \ Linked')
    BY <1>1, <1>10
  <2>4. asleep \subseteq Process
    BY DEF IInv, Positions
  <2>5. \A q \in Process : at[q] = "read" => (q \in asleep' <=> q \in asleep)
    BY <1>9, <2>3
  <2>6. wait_queue \in Seq(Process)
    BY DEF IInv, Readers
  <2>7. \A q \in Queued : q \in Process
    BY <2>6, LenProperties DEF Queued
  <2>8. \A q \in Queued' : /\ at'[q] = "read" /\ wakeup_flags'[q] = "WT_INTERRUPTED"
                           /\ q \notin asleep' => q \in exiting'
    BY <1>1, <2>1, <2>2, <2>5, <2>7 DEF IInv, Readers
  <2>9. \A q \in Process \ Queued' :
           at'[q] = "read" => wakeup_flags'[q] = "WT_KBD" /\ q \notin asleep'
    BY <1>1, <2>1, <2>2, <2>5 DEF IInv, Readers
  <2>10. \A q \in asleep' : at'[q] = "read" => p_rpos' = p_wpos'
    BY <1>1, <1>8, <2>1, <2>3 DEF IInv, Readers
  <2>11. Readers'
    BY <1>1, <1>8, <2>1, <2>8, <2>9, <2>10 DEF IInv, Readers
  <2> QED BY <1>5, <1>6, <1>7, <2>11 DEF IInv
<1>11. CASE KeyComes(n)
  <2>1. /\ wakeup_flags' = FlagsOfKey
        /\ wait_queue' = SubSeq(wait_queue, WokenFromFront + 1, Len(wait_queue))
    BY <1>1, <1>11 DEF keyboard, KeyComes, dev_stdin_write
  <2>2. /\ Woken = Queued
        /\ wait_queue' \in Seq(Process) /\ IsInjective(wait_queue') /\ Queued' = {}
    BY <2>1, QueueWoken DEF IInv
  <2>3. asleep' = (asleep \ (Linked \ Linked')) \ Queued
    BY <1>1, <1>11, <2>2
  <2>4. /\ wakeup_flags' \in [Process -> {"WT_INTERRUPTED", "WT_KBD"}]
        /\ \A q \in Process : wakeup_flags'[q] = IF q \in Queued THEN "WT_KBD"
                                                 ELSE wakeup_flags[q]
    BY <2>1, <2>2, ClockAssumption DEF FlagsOfKey, IInv, Readers, Process
  <2>5. \A q \in Process : at[q] = "read" => wakeup_flags'[q] = "WT_KBD" /\ q \notin asleep'
    BY <2>3, <2>4 DEF IInv, Readers
  <2>6. asleep' \subseteq Process
    BY <2>3 DEF IInv, Positions
  <2>7. Readers'
    BY <1>1, <1>8, <2>2, <2>4, <2>5, <2>6 DEF IInv, Readers
  <2> QED BY <1>5, <1>6, <1>7, <2>7 DEF IInv
<1> QED BY <1>10, <1>11

\* Every step keeps the invariant.
LEMMA StepOK == IInv /\ [Next]_vars => IInv'
<1> SUFFICES ASSUME IInv, [Next]_vars PROVE IInv'
  OBVIOUS
<1>1. CASE UNCHANGED vars
  <2>1. UNCHANGED tvars /\ UNCHANGED svars /\ UNCHANGED <<at, asleep, exiting>>
    BY <1>1 DEF vars, tvars
  <2>2. Timers'
    BY <2>1, ListSame DEF IInv, Timers
  <2>3. Console' /\ Ring'
    BY <2>1, KeysSame DEF IInv
  <2>4. Positions' /\ Readers'
    BY <2>1 DEF IInv, Positions, Readers, svars, Queued
  <2> QED BY <2>2, <2>3, <2>4 DEF IInv
<1>2. ASSUME NEW p \in Process, NEW time \in 1..MaxTime, Sleep(p, time) PROVE IInv'
  BY <1>2, SleepOK
<1>3. ASSUME NEW p \in Process, NEW len \in 1..MaxLen, Read(p, len) PROVE IInv'
  BY <1>3, ReadOK
<1>4. ASSUME NEW p \in Process, WakeFromSleep(p) PROVE IInv'
  BY <1>4, WakeFromSleepOK
<1>5. ASSUME NEW p \in Process, WakeFromRead(p) PROVE IInv'
  BY <1>5, WakeFromReadOK
<1>6. ASSUME NEW p \in Process, Kill(p) PROVE IInv'
  BY <1>6, KillOK
<1>7. ASSUME NEW p \in Process, Exit(p) PROVE IInv'
  BY <1>7, ExitOK
<1>8. ASSUME NEW n \in 0..MaxBurst, Interrupt(n) PROVE IInv'
  BY <1>8, InterruptOK
<1> QED BY <1>1, <1>2, <1>3, <1>4, <1>5, <1>6, <1>7, <1>8 DEF Next

\* The invariant above holds throughout, whatever the number of processes, the longest
\* time and the sizes of the two buffers.
THEOREM InvariantCorrect == Spec => []IInv
<1>1. Init => IInv
  BY InitOK
<1>2. IInv /\ [Next]_vars => IInv'
  BY StepOK
<1> QED BY <1>1, <1>2, PTL DEF Spec

-----------------------------------------------------------------------------
(***************************************************************************)
(* The properties.                                                         *)
(***************************************************************************)

\* run_timer_list's assertion on the head of the list (sched.c:154): no insertion,
\* removal or tick leaves a timer that is due in front.
THEOREM HeadNotDueCorrect == Spec => []HeadNotDue
<1>1. IInv => HeadNotDue
  BY DEF IInv, Timers, List
<1> QED BY <1>1, InvariantCorrect, PTL

\* do_sleep and dev_stdin_read are not forgotten: a sleeper has a timer in the list, or a
\* place in the wait queue of stdin and no key to read.
THEOREM NoSleeperForgottenCorrect == Spec => []NoSleeperForgotten
<1>1. IInv => NoSleeperForgotten
  <2> SUFFICES ASSUME IInv, NEW p \in asleep
               PROVE  \/ at[p] = "sleep" /\ p \in Linked
                      \/ at[p] = "read" /\ p \in Queued /\ p_rpos = p_wpos
    BY DEF NoSleeperForgotten
  <2>1. p \in Process /\ at[p] \in {"sleep", "read"}
    BY DEF IInv, Positions
  <2>2. CASE at[p] = "sleep"
    BY <2>2 DEF IInv, Timers
  <2>3. CASE at[p] = "read"
    BY <2>1, <2>3 DEF IInv, Readers
  <2> QED BY <2>1, <2>2, <2>3
<1> QED BY <1>1, InvariantCorrect, PTL

\* The sequence of KeysExact, key by key.
LEMMA KeysAre ==
  ASSUME IInv
  PROVE  LET keys == got \o InRing \o InConsole
         IN  /\ keys \in Seq(Nat) /\ Len(keys) = p_wpos + Pending
             /\ \A i \in 1..p_wpos : keys[i] = KeyOf(i)
             /\ \A i \in 1..Pending : keys[p_wpos + i] = typed - Pending + i
<1> DEFINE B == STDIN_BUFSIZE
           C == CONSBUFSIZE
           m == p_wpos - p_rpos
           n == Pending
           keys == got \o InRing \o InConsole
<1>1. B \in Nat \ {0} /\ C \in Nat \ {0}
  BY StdinAssumption
<1>2. /\ stdin_buffer \in [0..(B - 1) -> Nat]
      /\ p_rpos \in Nat /\ p_wpos \in Nat /\ m \in Nat
      /\ got \in Seq(Nat) /\ Len(got) = p_rpos
  BY <1>1 DEF IInv, Ring
<1>3. /\ cons \in [buf : [0..(C - 1) -> Nat], rpos : 0..(C - 1), wpos : 0..(C - 1)]
      /\ typed \in Nat /\ n <= typed
      /\ \A i \in 1..n : cons.buf[(cons.rpos + i - 1) % C] = typed - n + i
  BY DEF IInv, Console
<1>4. n \in Nat
  <2>1. cons.wpos - cons.rpos \in Int
    BY <1>1, <1>3
  <2>2. n \in 0..(C - 1)
    BY <1>1, <2>1, ModRange DEF Pending
  <2> QED BY <1>1, <2>2
<1>5. /\ InRing \in Seq(Nat) /\ Len(InRing) = m
      /\ \A i \in 1..m : InRing[i] = stdin_buffer[(p_rpos + i - 1) % B]
  <2>1. \A i \in 1..m : stdin_buffer[(p_rpos + i - 1) % B] \in Nat
    <3> SUFFICES ASSUME NEW i \in 1..m PROVE stdin_buffer[(p_rpos + i - 1) % B] \in Nat
      OBVIOUS
    <3>1. p_rpos + i - 1 \in Int
      BY <1>2
    <3>2. (p_rpos + i - 1) % B \in 0..(B - 1)
      BY <1>1, <3>1, ModRange
    <3> QED BY <1>2, <3>2
  <2>2. InRing = [i \in 1..m |-> stdin_buffer[(p_rpos + i - 1) % B]]
    BY DEF InRing
  <2>3. InRing \in [1..m -> Nat]
    BY <2>1, <2>2
  <2>4. InRing \in Seq(Nat)
    BY <1>2, <2>3, SeqDef
  <2>5. Len(InRing) = m
    BY <1>2, <2>3, <2>4, LenProperties
  <2> QED BY <2>2, <2>4, <2>5
<1>6. /\ InConsole \in Seq(Nat) /\ Len(InConsole) = n
      /\ \A i \in 1..n : InConsole[i] = typed - n + i
  <2>1. InConsole = [i \in 1..n |-> cons.buf[(cons.rpos + i - 1) % C]]
    BY DEF InConsole, Pending
  <2> HIDE DEF n, m
  <2>2. \A i \in 1..n : InConsole[i] = typed - n + i
    BY <1>3, <2>1
  <2>3. \A i \in 1..n : typed - n + i \in Nat
    BY <1>3, <1>4
  <2>4. InConsole \in [1..n -> Nat]
    BY <1>3, <2>1, <2>3
  <2>5. InConsole \in Seq(Nat)
    BY <1>4, <2>4, SeqDef
  <2>6. Len(InConsole) = n
    BY <1>4, <2>4, <2>5, LenProperties
  <2> QED BY <2>2, <2>5, <2>6
<1> DEFINE first == got \o InRing
           second == first \o InConsole
<1>7. /\ first \in Seq(Nat) /\ Len(first) = Len(got) + Len(InRing)
      /\ \A i \in 1..(Len(got) + Len(InRing)) :
           first[i] = IF i <= Len(got) THEN got[i] ELSE InRing[i - Len(got)]
  BY <1>2, <1>5, ConcatProperties
<1>8. /\ second \in Seq(Nat) /\ Len(second) = Len(first) + Len(InConsole)
      /\ \A i \in 1..(Len(first) + Len(InConsole)) :
           second[i] = IF i <= Len(first) THEN first[i] ELSE InConsole[i - Len(first)]
  <2> HIDE DEF first
  <2> QED BY <1>6, <1>7, ConcatProperties
<1> HIDE DEF first, second
<1>9. /\ first \in Seq(Nat) /\ Len(first) = p_wpos
      /\ \A i \in 1..p_wpos : first[i] = IF i <= p_rpos THEN got[i] ELSE InRing[i - p_rpos]
  <2>1. Len(got) + Len(InRing) = p_wpos
    BY <1>2, <1>5
  <2> QED BY <1>2, <1>7, <2>1
<1>10. /\ second \in Seq(Nat) /\ Len(second) = p_wpos + n
       /\ \A i \in 1..(p_wpos + n) :
            second[i] = IF i <= p_wpos THEN first[i] ELSE InConsole[i - p_wpos]
  BY <1>6, <1>8, <1>9
<1>11. ASSUME NEW i \in 1..p_wpos PROVE second[i] = KeyOf(i)
  <2>1. i \in 1..(p_wpos + n) /\ i <= p_wpos
    BY <1>2, <1>4
  <2>2. second[i] = first[i]
    BY <1>10, <2>1
  <2>3. CASE i <= p_rpos
    BY <1>9, <2>2, <2>3 DEF KeyOf
  <2>4. CASE ~(i <= p_rpos)
    <3>1. i - p_rpos \in 1..m /\ p_rpos + (i - p_rpos) - 1 = i - 1
      BY <1>2, <2>4
    <3>2. first[i] = InRing[i - p_rpos]
      BY <1>9, <2>4
    <3>3. InRing[i - p_rpos] = stdin_buffer[(p_rpos + (i - p_rpos) - 1) % B]
      BY <1>5, <3>1
    <3> QED BY <2>2, <2>4, <3>1, <3>2, <3>3 DEF KeyOf
  <2> QED BY <2>3, <2>4
<1>12. ASSUME NEW i \in 1..n PROVE second[p_wpos + i] = typed - n + i
  <2>1. p_wpos + i \in 1..(p_wpos + n) /\ ~(p_wpos + i <= p_wpos) /\ (p_wpos + i) - p_wpos = i
    BY <1>2, <1>4
  <2>2. second[p_wpos + i] = InConsole[(p_wpos + i) - p_wpos]
    BY <1>10, <2>1
  <2> QED BY <1>6, <2>1, <2>2
<1> QED BY <1>10, <1>11, <1>12 DEF first, second

\* However readers, keys and overruns follow each other, no key is read twice; and until a
\* buffer overruns none is lost or overtaken.
THEOREM KeysExactCorrect == Spec => []KeysExact
<1>1. IInv => KeysExact
  <2> SUFFICES ASSUME IInv PROVE KeysExact
    OBVIOUS
  <2> DEFINE keys == got \o InRing \o InConsole
             n == Pending
             gone == typed - n
  <2>1. /\ keys \in Seq(Nat) /\ Len(keys) = p_wpos + n
        /\ \A i \in 1..p_wpos : keys[i] = KeyOf(i)
        /\ \A i \in 1..n : keys[p_wpos + i] = gone + i
    BY KeysAre
  <2>2. /\ p_wpos \in Nat /\ typed \in Nat /\ n \in 0..typed
        /\ \A i \in 1..p_wpos : KeyOf(i) \in 1..gone
        /\ \A i, j \in 1..p_wpos : KeyOf(i) = KeyOf(j) => i = j
        /\ ~overrun => p_wpos = gone /\ \A i \in 1..p_wpos : KeyOf(i) = i
    <3>1. p_wpos \in Nat /\ typed \in Nat /\ n <= typed
      BY StdinAssumption DEF IInv, Ring, Console
    <3>2. n \in Nat
      <4>1. cons.wpos - cons.rpos \in Int /\ CONSBUFSIZE \in Nat \ {0}
        BY StdinAssumption DEF IInv, Console
      <4>2. n \in 0..(CONSBUFSIZE - 1)
        BY <4>1, ModRange DEF Pending
      <4> QED BY <4>1, <4>2
    <3> QED BY <3>1, <3>2 DEF IInv, Ring
  <2> HIDE DEF keys, n
  <2>3. \A i \in 1..(p_wpos + n) : i \in 1..p_wpos \/ (i - p_wpos \in 1..n
                                                       /\ i = p_wpos + (i - p_wpos))
    BY <2>2
  <2>4. \A i \in 1..(p_wpos + n) :
          keys[i] = IF i <= p_wpos THEN KeyOf(i) ELSE gone + (i - p_wpos)
    <3> SUFFICES ASSUME NEW i \in 1..(p_wpos + n)
                 PROVE  keys[i] = IF i <= p_wpos THEN KeyOf(i) ELSE gone + (i - p_wpos)
      OBVIOUS
    <3>1. CASE i <= p_wpos
      <4>1. i \in 1..p_wpos
        BY <2>2, <3>1
      <4> QED BY <2>1, <3>1, <4>1
    <3>2. CASE ~(i <= p_wpos)
      <4>1. i - p_wpos \in 1..n /\ p_wpos + (i - p_wpos) = i
        BY <2>2, <3>2
      <4>2. keys[p_wpos + (i - p_wpos)] = gone + (i - p_wpos)
        BY <2>1, <4>1
      <4> QED BY <3>2, <4>1, <4>2
    <3> QED BY <3>1, <3>2
  <2> DEFINE K(i) == KeyOf(i)
  <2>5. \A i, j \in 1..(p_wpos + n) : keys[i] = keys[j] => i = j
    <3> SUFFICES ASSUME NEW i \in 1..(p_wpos + n), NEW j \in 1..(p_wpos + n), keys[i] = keys[j]
                 PROVE  i = j
      OBVIOUS
    <3>1. CASE i <= p_wpos /\ j <= p_wpos
      <4>1. i \in 1..p_wpos /\ j \in 1..p_wpos
        BY <2>2, <3>1
      <4> QED BY <2>1, <2>2, <4>1
    <3>2. CASE i <= p_wpos /\ ~(j <= p_wpos)
      <4>1. i \in 1..p_wpos /\ gone + (j - p_wpos) > gone
        BY <2>2, <3>2
      <4>2. KeyOf(i) \in 1..gone
        BY <2>2, <4>1
      <4>3. KeyOf(i) = gone + (j - p_wpos)
        BY <2>4, <3>2
      <4> QED BY <2>2, <4>1, <4>2, <4>3
    <3>3. CASE ~(i <= p_wpos) /\ j <= p_wpos
      <4>1. j \in 1..p_wpos /\ gone + (i - p_wpos) > gone
        BY <2>2, <3>3
      <4>2. KeyOf(j) \in 1..gone
        BY <2>2, <4>1
      <4>3. KeyOf(j) = gone + (i - p_wpos)
        BY <2>4, <3>3
      <4> QED BY <2>2, <4>1, <4>2, <4>3
    <3>4. CASE ~(i <= p_wpos) /\ ~(j <= p_wpos)
      <4>1. gone + (i - p_wpos) = gone + (j - p_wpos)
        BY <2>4, <3>4
      <4> QED BY <2>2, <4>1
    <3> QED BY <3>1, <3>2, <3>3, <3>4
  <2>6. IsInjective(keys)
    <3>1. DOMAIN keys = 1..(p_wpos + n)
      BY <2>1, LenProperties
    <3> QED BY <2>5, <3>1 DEF IsInjective
  <2>7. ASSUME ~overrun PROVE keys = [i \in 1..typed |-> i]
    <3> DEFINE all == [i \in 1..typed |-> i]
    <3>1. all \in Seq(Nat) /\ Len(all) = typed
      <4>1. all \in [1..typed -> Nat]
        OBVIOUS
      <4>2. all \in Seq(Nat)
        BY <2>2, <4>1, SeqDef
      <4> QED BY <2>2, <4>1, <4>2, LenProperties
    <3>2. Len(keys) = typed /\ p_wpos + n = typed
      BY <2>1, <2>2, <2>7
    <3>3. \A i \in 1..typed : keys[i] = i
      <4> SUFFICES ASSUME NEW i \in 1..typed PROVE keys[i] = i
        OBVIOUS
      <4>1. i \in 1..(p_wpos + n)
        BY <3>2
      <4>2. CASE i <= p_wpos
        <5>1. i \in 1..p_wpos
          BY <2>2, <4>2
        <5> QED BY <2>2, <2>4, <2>7, <4>1, <4>2, <5>1
      <4>3. CASE ~(i <= p_wpos)
        <5>1. keys[i] = gone + (i - p_wpos) /\ p_wpos = gone
          BY <2>2, <2>4, <2>7, <4>1, <4>3
        <5> QED BY <2>2, <5>1
      <4> QED BY <4>2, <4>3
    <3>4. \A i \in 1..typed : all[i] = i
      OBVIOUS
    <3> HIDE DEF all
    <3>5. \A i \in 1..Len(keys) : keys[i] = all[i]
      BY <3>2, <3>3, <3>4
    <3>6. keys = all
      BY <2>1, <3>1, <3>2, <3>5, SeqEqual
    <3> QED BY <3>6 DEF all
  <2> QED BY <2>6, <2>7 DEF KeysExact, keys
<1> QED BY <1>1, InvariantCorrect, PTL

\* A read that is cut short: only a killed process leaves with less than it asked for, and
\* every key that left the ring has gone to the reader.
THEOREM ShortOnlyIfKilledCorrect == Spec => ShortOnlyIfKilled
<1> DEFINE Good(p) == Reading(p) /\ call'[p] = NoCall
                        => \/ p \in exiting /\ p_rpos' = p_rpos
                           \/ p_rpos' - p_rpos = call[p].len - call[p].ret
<1>1. IInv /\ [Next]_vars => [\A p \in Process : Good(p)]_vars
  <2> SUFFICES ASSUME IInv, Next, NEW p \in Process, Reading(p), call'[p] = NoCall
               PROVE  \/ p \in exiting /\ p_rpos' = p_rpos
                      \/ p_rpos' - p_rpos = call[p].len - call[p].ret
    OBVIOUS
  <2>1. /\ call \in [Process -> [len : Nat, ret : Nat]] /\ p_rpos \in Nat
        /\ call[p].len \in Nat /\ call[p].ret \in Nat /\ call[p].len # 0
        /\ call[p] # NoCall
    BY DEF IInv, Readers, Ring, Reading, NoCall
  <2>2. ASSUME call' = call PROVE FALSE
    BY <2>1, <2>2
  <2>3. ASSUME NEW q \in Process, q # p, NEW x, call' = [call EXCEPT ![q] = x] PROVE FALSE
    BY <2>1, <2>3
  <2>4. ASSUME NEW q \in Process, NEW time \in 1..MaxTime, Sleep(q, time) PROVE FALSE
    BY <2>2, <2>4 DEF Sleep, svars
  <2>5. ASSUME NEW q \in Process, WakeFromSleep(q) PROVE FALSE
    BY <2>2, <2>5 DEF WakeFromSleep, svars
  <2>6. ASSUME NEW q \in Process, Kill(q) PROVE FALSE
    BY <2>2, <2>6 DEF Kill, svars
  <2>7. ASSUME NEW q \in Process, Exit(q) PROVE FALSE
    BY <2>2, <2>7 DEF Exit, svars
  <2>8. ASSUME NEW n \in 0..MaxBurst, Interrupt(n) PROVE FALSE
    BY <2>2, <2>8 DEF Interrupt, keyboard
  <2>9. ASSUME NEW q \in Process, NEW len \in 1..MaxLen, Read(q, len) PROVE FALSE
    <3>1. ~Reading(q) /\ ReadOn(q, 0, len)
      BY <2>9 DEF Read, dev_stdin_read
    <3>2. q # p
      BY <3>1
    <3> QED BY <2>3, <3>1, <3>2 DEF ReadOn
  <2>10. ASSUME NEW q \in Process, WakeFromRead(q)
         PROVE  \/ p \in exiting /\ p_rpos' = p_rpos
                \/ p_rpos' - p_rpos = call[p].len - call[p].ret
    <3>1. at[q] = "read" /\ q \notin asleep /\ resume_read(q)
      BY <2>10 DEF WakeFromRead
    <3>2. CASE q # p
      <4>1. \E x : call' = [call EXCEPT ![q] = x]
        BY <3>1 DEF resume_read, ReadOn
      <4> QED BY <2>3, <3>2, <4>1
    <3>3. CASE q = p /\ wakeup_flags[p] = "WT_KBD" /\ ReadOn(p, call[p].ret, call[p].len)
      <4> DEFINE k == Taken(p, call[p].ret, call[p].len)
      <4>1. p_rpos' = p_rpos + k
        BY <3>3 DEF ReadOn
      <4>2. ASSUME call' = [call EXCEPT ![p] = [len |-> call[p].len, ret |-> call[p].ret + k]]
            PROVE  FALSE
        <5>1. call'[p] = [len |-> call[p].len, ret |-> call[p].ret + k]
          BY <2>1, <4>2
        <5> QED BY <2>1, <5>1 DEF NoCall
      <4>3. call[p].ret + k = call[p].len
        BY <3>3, <4>2 DEF ReadOn
      <4>4. k \in Int
        <5>1. p_wpos \in Nat
          BY StdinAssumption DEF IInv, Ring
        <5> QED BY <2>1, <5>1 DEF Taken
      <4> HIDE DEF k
      <4> QED BY <2>1, <4>1, <4>3, <4>4
    <3>4. CASE q = p /\ wakeup_flags[p] # "WT_KBD" /\ p_rpos' = p_rpos
      <4>1. p \in Queued
        BY <3>1, <3>4 DEF IInv, Readers
      <4> QED BY <3>1, <3>4, <4>1 DEF IInv, Readers
    <3> QED BY <3>1, <3>2, <3>3, <3>4 DEF resume_read
  <2> QED BY <2>4, <2>5, <2>6, <2>7, <2>8, <2>9, <2>10 DEF Next
<1> QED BY <1>1, InvariantCorrect, PTL DEF Spec, ShortOnlyIfKilled

-----------------------------------------------------------------------------
(***************************************************************************)
(* The timer list implements the alarm clock.                              *)
(***************************************************************************)

\* What the alarm clock shows of each process's timer.
Shown == [t \in Timer |->
            IF at[t] # "sleep" THEN -1
            ELSE IF t \notin Linked THEN 0
            ELSE Through(Position(t))]

\* The same, of every timer.
LEMMA ShownIs ==
  /\ \A t \in Timer : Shown[t] = IF at[t] # "sleep" THEN -1
                                 ELSE IF t \notin Linked THEN 0 ELSE ToGo(t)
  /\ \A t \in Timer : Shown'[t] = IF at'[t] # "sleep" THEN -1
                                  ELSE IF t \notin Linked' THEN 0 ELSE (ToGo(t))'
BY DEF Shown, ToGo

\* A linked timer has a tick or more to go.
LEMMA ToGoRange ==
  ASSUME List
  PROVE  \A t \in Linked : t \in Timer /\ ToGo(t) \in 1..MaxTime
<1> DEFINE n == Len(timer_list)
           T(j) == Through(j)
<1>1. /\ n \in Nat /\ \A j \in 1..n : timer_list[j] \in Timer
      /\ \A j \in 0..n : T(j) \in 0..MaxTime
      /\ \A j \in 1..n : T(j) > 0
      /\ \A j \in 1..n : ToGo(timer_list[j]) = T(j)
      /\ Linked = {timer_list[j] : j \in 1..n}
  BY ListFacts
<1> HIDE DEF n, T
<1>2. \A j \in 1..n : T(j) \in 1..MaxTime
  BY <1>1, TimerAssumption
<1> QED BY <1>1, <1>2

\* Setting a timer is setting the alarm.
LEMMA SleepSets ==
  ASSUME IInv, NEW p \in Process, NEW time \in 1..MaxTime, Sleep(p, time)
  PROVE  Shown[p] = -1 /\ Shown' = [Shown EXCEPT ![p] = time]
<1>1. /\ p \in Timer /\ at[p] = "user" /\ add_timer(p, time) /\ at' = [at EXCEPT ![p] = "sleep"]
      /\ at \in [Timer -> {"user", "sleep", "read"}]
  BY DEF Sleep, Process, IInv, Positions
<1>2. p \notin Linked /\ List
  BY <1>1 DEF IInv, Timers
<1>3. /\ Linked' = Linked \cup {p} /\ (ToGo(p))' = time
      /\ \A u \in Linked : (ToGo(u))' = ToGo(u)
  BY <1>1, <1>2, AddTimer
<1>4. ASSUME NEW t \in Timer PROVE Shown'[t] = IF t = p THEN time ELSE Shown[t]
  <2>1. CASE t = p
    BY <1>1, <1>3, <2>1, ShownIs
  <2>2. CASE t # p
    <3>1. at'[t] = at[t] /\ (t \in Linked' <=> t \in Linked)
      BY <1>1, <1>3, <2>2
    <3> QED BY <1>3, <2>2, <3>1, ShownIs
  <2> QED BY <2>1, <2>2
<1>5. DOMAIN Shown = Timer /\ Shown' = [t \in Timer |-> Shown'[t]]
  BY DEF Shown
<1> QED BY <1>1, <1>4, <1>5, ShownIs DEF Shown

\* del_timer, whether the timer has rung or not, takes the alarm away.
LEMMA WakeRemoves ==
  ASSUME IInv, NEW p \in Process, WakeFromSleep(p)
  PROVE  Shown[p] # -1 /\ Shown' = [Shown EXCEPT ![p] = -1]
<1>1. /\ p \in Timer /\ at[p] = "sleep" /\ del_timer(p) /\ at' = [at EXCEPT ![p] = "user"]
      /\ at \in [Timer -> {"user", "sleep", "read"}]
  BY DEF WakeFromSleep, Process, IInv, Positions
<1>2. List
  BY DEF IInv, Timers
<1>3. Linked' = Linked \ {p} /\ \A u \in Linked' : (ToGo(u))' = ToGo(u)
  BY <1>1, <1>2, DelTimer
<1>4. ASSUME NEW t \in Timer PROVE Shown'[t] = IF t = p THEN -1 ELSE Shown[t]
  <2>1. CASE t = p
    BY <1>1, <2>1, ShownIs
  <2>2. CASE t # p
    <3>1. at'[t] = at[t] /\ (t \in Linked' <=> t \in Linked)
      BY <1>1, <1>3, <2>2
    <3> QED BY <1>3, <2>2, <3>1, ShownIs
  <2> QED BY <2>1, <2>2
<1>5. Shown[p] # -1
  <2>1. p \in Linked => ToGo(p) \in 1..MaxTime
    BY <1>2, ToGoRange
  <2>2. Shown[p] = IF p \notin Linked THEN 0 ELSE ToGo(p)
    BY <1>1, ShownIs
  <2> QED BY <2>1, <2>2
<1> QED BY <1>1, <1>4, <1>5 DEF Shown

\* A clock interrupt is one tick for every alarm that is set.
LEMMA InterruptTicks ==
  ASSUME IInv, NEW n \in 0..MaxBurst, Interrupt(n)
  PROVE  Shown' = [t \in Timer |-> IF Shown[t] > 0 THEN Shown[t] - 1 ELSE Shown[t]]
<1>1. run_timer_list /\ at' = at /\ List
  BY DEF Interrupt, IInv, Timers
<1>2. /\ Linked' = {u \in Linked : ToGo(u) > 1}
      /\ \A u \in Linked' : (ToGo(u))' = ToGo(u) - 1
  BY <1>1, RunTimers
<1>3. \A u \in Linked : ToGo(u) \in 1..MaxTime
  BY <1>1, ToGoRange
<1>4. ASSUME NEW t \in Timer
      PROVE  Shown'[t] = IF Shown[t] > 0 THEN Shown[t] - 1 ELSE Shown[t]
  <2>1. CASE at[t] # "sleep"
    BY <1>1, <2>1, ShownIs
  <2>2. CASE at[t] = "sleep" /\ t \notin Linked
    <3>1. t \notin Linked'
      BY <1>2, <2>2
    <3> QED BY <1>1, <2>2, <3>1, ShownIs
  <2>3. CASE at[t] = "sleep" /\ t \in Linked
    <3>1. Shown[t] = ToGo(t) /\ ToGo(t) \in 1..MaxTime
      BY <1>3, <2>3, ShownIs
    <3>2. CASE ToGo(t) > 1
      <4>1. t \in Linked' /\ (ToGo(t))' = ToGo(t) - 1
        BY <1>2, <2>3, <3>2
      <4>2. Shown'[t] = (ToGo(t))'
        BY <1>1, <2>3, <4>1, ShownIs
      <4> QED BY <3>1, <4>1, <4>2
    <3>3. CASE ToGo(t) = 1
      <4>1. t \notin Linked'
        BY <1>2, <3>3
      <4>2. Shown'[t] = 0
        BY <1>1, <2>3, <4>1, ShownIs
      <4> QED BY <3>1, <3>3, <4>2
    <3>4. ToGo(t) > 1 \/ ToGo(t) = 1
      BY <3>1
    <3> QED BY <3>2, <3>3, <3>4
  <2> QED BY <2>1, <2>2, <2>3
<1> QED BY <1>4 DEF Shown

\* Kills, exits and readers do not move the alarms.
LEMMA OthersKeepAlarms ==
  ASSUME IInv, UNCHANGED tvars, \A t \in Timer : at'[t] = "sleep" <=> at[t] = "sleep"
  PROVE  Shown' = Shown
BY DEF Shown, tvars, Linked, Through, Position

LEMMA ClockStep == IInv /\ [Next]_vars => [Clock!Next]_Shown
<1> SUFFICES ASSUME IInv, [Next]_vars PROVE [Clock!Next]_Shown
  OBVIOUS
<1> USE DEF Process
<1>0. at \in [Timer -> {"user", "sleep", "read"}]
  BY DEF IInv, Positions
<1>1. CASE UNCHANGED vars
  BY <1>1, OthersKeepAlarms DEF vars, tvars
<1>2. ASSUME NEW p \in Process, NEW time \in 1..MaxTime, Sleep(p, time)
      PROVE  Clock!Set(p)
  BY <1>2, SleepSets DEF Clock!Set, Clock!Off, Shown
<1>3. ASSUME NEW p \in Process, WakeFromSleep(p)
      PROVE  Clock!Remove(p)
  BY <1>3, WakeRemoves DEF Clock!Remove, Clock!Off, Shown
<1>4. ASSUME NEW n \in 0..MaxBurst, Interrupt(n) PROVE Clock!Tick
  BY <1>4, InterruptTicks DEF Clock!Tick, Shown
<1>5. ASSUME NEW p \in Process, NEW len \in 1..MaxLen, Read(p, len) PROVE Shown' = Shown
  BY <1>0, <1>5, OthersKeepAlarms DEF Read
<1>6. ASSUME NEW p \in Process, WakeFromRead(p) PROVE Shown' = Shown
  BY <1>0, <1>6, OthersKeepAlarms DEF WakeFromRead
<1>7. ASSUME NEW p \in Process, Kill(p) PROVE Shown' = Shown
  BY <1>7, OthersKeepAlarms DEF Kill
<1>8. ASSUME NEW p \in Process, Exit(p) PROVE Shown' = Shown
  BY <1>8, OthersKeepAlarms DEF Exit
<1> QED BY <1>1, <1>2, <1>3, <1>4, <1>5, <1>6, <1>7, <1>8 DEF Next, Clock!Next

\* The list with its differences keeps the promise of the timers: each rings at the tick it
\* was set for, whatever is inserted, removed, killed or rings around it.
THEOREM ImplementsClockCorrect == Spec => ImplementsClock
<1>1. Init => Clock!Init
  <2> SUFFICES ASSUME Init PROVE Clock!Init
    OBVIOUS
  <2>1. \A t \in Timer : at[t] # "sleep"
    BY DEF Init, Process
  <2> QED BY <2>1 DEF Clock!Init, Clock!Off
<1>2. IInv /\ [Next]_vars => [Clock!Next]_Shown
  BY ClockStep
<1> QED BY <1>1, <1>2, InvariantCorrect, PTL DEF Spec, ImplementsClock, Clock!Spec, Shown
=============================================================================
