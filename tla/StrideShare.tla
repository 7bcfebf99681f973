---------------------------- MODULE StrideShare ----------------------------
(***************************************************************************)
(* What the stride scheduler (src/lab8/kern/schedule/                      *)
(* default_sched_stride.c) promises to processes that are always runnable. *)
(* Each time it picks one that no other is behind, and moves it on by      *)
(* BIG_STRIDE / priority.  Strides wrap around, and proc_stride_comp_f     *)
(* compares two of them by the sign of their difference; the history pass  *)
(* is what a stride would be if it did not wrap around, the time a process *)
(* has had divided by its priority.                                        *)
(*                                                                         *)
(* Module StrideWatched shows that the scheduler and its skew heap implement *)
(* this.                                                                   *)
(***************************************************************************)
EXTENDS Integers

CONSTANTS
  Proc,
  Half,      \* 2^31: strides are integers modulo 2 * Half
  MaxPass    \* no process is picked beyond this pass (a model bound)

BIG_STRIDE == Half - 1      \* 0x7FFFFFFF

\* Addition and subtraction of uint32_t.
Plus(a, b)  == IF a + b >= 2 * Half THEN a + b - 2 * Half ELSE a + b
Minus(a, b) == IF a >= b THEN a - b ELSE a - b + 2 * Half

\* proc_stride_comp_f(a, b) == -1: the difference is negative as an int32_t.
Behind(a, b) == Minus(a, b) >= Half

VARIABLES
  stride,   \* lab6_stride
  pass      \* history: the stride without wrapping around

ssvars == <<stride, pass>>

\* stride_pick_next takes p, whose priority makes its step d: BIG_STRIDE divided by
\* the priority it has then.
Pick(p, d) ==
  /\ \A q \in Proc : ~Behind(stride[q], stride[p])
  /\ pass[p] < MaxPass
  /\ stride' = [stride EXCEPT ![p] = Plus(@, d)]
  /\ pass' = [pass EXCEPT ![p] = @ + d]

\* alloc_proc
Init ==
  /\ stride = [p \in Proc |-> 0]
  /\ pass = [p \in Proc |-> 0]

Next == \E p \in Proc, d \in 0..BIG_STRIDE : Pick(p, d)

Spec == Init /\ [][Next]_ssvars

-----------------------------------------------------------------------------
\* Each process gets its share: what two of them have had, divided by their
\* priorities, never differs by more than one step of priority 1; and the
\* comparison of wrapped strides (default_sched_stride.c:20) tells which of them
\* has had less, so that the one picked is always one that has had least.
Share ==
  \A p, q \in Proc :
    /\ pass[p] - pass[q] <= BIG_STRIDE
    /\ Behind(stride[p], stride[q]) <=> pass[p] < pass[q]
=============================================================================
