---------------------------- MODULE Philosophers ----------------------------
(***************************************************************************)
(* The table of the dining philosophers of src/lab8/kern/sync/check_sync.c *)
(* as both solutions there see it: the neighbours, and who may eat.        *)
(***************************************************************************)
EXTENDS Integers

CONSTANTS N,      \* philosophers: 0..N - 1
          TIMES   \* the rounds that each of them makes (in the code the same for all)

ASSUME PhilAssumption == N \in Nat /\ N >= 2 /\ TIMES \in [0..N - 1 -> Nat]

VARIABLES
  state,   \* state_sema or state_condvar
  iter     \* rounds begun

LEFT(i)  == IF i = 0 THEN N - 1 ELSE i - 1     \* (i-1+N)%N
RIGHT(i) == IF i = N - 1 THEN 0 ELSE i + 1     \* (i+1)%N

\* Mutant: the test looks at the left neighbour only.
LeftFree(i) == state[i] = "HUNGRY" /\ state[LEFT(i)] # "EATING"

MayEat(i) ==
  /\ state[i] = "HUNGRY"
  /\ state[LEFT(i)] # "EATING" /\ state[RIGHT(i)] # "EATING"

Seated ==
  /\ state = [i \in 0..N - 1 |-> "THINKING"]
  /\ iter = [i \in 0..N - 1 |-> 0]
=============================================================================
