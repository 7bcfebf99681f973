------------------------------- MODULE Stride -------------------------------
(***************************************************************************)
(* The stride scheduling class (src/lab8/kern/schedule/                    *)
(* default_sched_stride.c) with its skew heap (src/lab8/libs/skew_heap.h), *)
(* driven by schedule and wakeup_proc (src/lab8/kern/schedule/sched.c):    *)
(* processes run, use up their slice, yield, sleep and wake up with the    *)
(* stride they had, exit, and are created with stride 0.                   *)
(***************************************************************************)
EXTENDS Integers, FiniteSets, Sequences

CONSTANTS
  Proc,
  Idle,            \* idleproc, never in the run queue
  Half,            \* 2^31: strides are integers modulo 2 * Half
  MAX_TIME_SLICE,
  Priorities,      \* the values of lab6_priority
  Started,         \* the processes there are at the start
  MaxSleeps,       \* times a process goes to sleep (a model bound)
  MaxForks,        \* processes created (a model bound)
  MaxSets          \* calls of lab6_set_priority (a model bound)

ASSUME StrideAssumption ==
  /\ IsFiniteSet(Proc) /\ Idle \notin Proc /\ Started \subseteq Proc
  /\ Half \in Nat /\ Half >= 2
  /\ Priorities \subseteq Nat

VARIABLES
  heap,       \* rq->lab6_run_pool: a tree <<left, process, right>>, or Nil
  stride, priority, slice,   \* lab6_stride, lab6_priority, time_slice
  current,
  asleep,     \* the processes that sleep
  sleeps, forks, sets

vars == <<heap, stride, priority, slice, current, asleep, sleeps, forks, sets>>

BIG_STRIDE == Half - 1
Pass(p) == IF priority[p] = 0 THEN BIG_STRIDE ELSE BIG_STRIDE \div priority[p]

-----------------------------------------------------------------------------
(***************************************************************************)
(* The skew heap, ordered by the strides s.                                *)
(***************************************************************************)
Nil == <<>>
Leaf(p) == <<Nil, p, Nil>>

\* Mutant: strides are compared as unsigned integers.
BehindUnsigned(s, p, q) == s[p] < s[q]

\* proc_stride_comp_f(p, q) == -1: the difference is negative as an int32_t.
Behind(s, p, q) == (s[p] - s[q]) % (2 * Half) >= Half

\* Trees of up to n levels; no tree of different processes has more than there are.
Trees[n \in 0..Cardinality(Proc)] ==
  IF n = 0 THEN {Nil} ELSE {Nil} \cup Trees[n - 1] \X Proc \X Trees[n - 1]

Tree == Trees[Cardinality(Proc)]

skew_heap_merge(s, a, b) ==
  LET merge[t \in Tree \X Tree] ==
        IF t[1] = Nil THEN t[2]
        ELSE IF t[2] = Nil THEN t[1]
        ELSE IF Behind(s, t[1][2], t[2][2])
        THEN <<merge[<<t[1][3], t[2]>>], t[1][2], t[1][1]>>
        ELSE <<merge[<<t[1], t[2][3]>>], t[2][2], t[2][1]>>
  IN  merge[<<a, b>>]

skew_heap_insert(s, a, p) == skew_heap_merge(s, a, Leaf(p))

\* The trees in a tree, itself included.
Nodes[a \in Tree] == IF a = Nil THEN {} ELSE {a} \cup Nodes[a[1]] \cup Nodes[a[3]]

\* The processes in a tree, from left to right.
Listed[a \in Tree] == IF a = Nil THEN <<>> ELSE Listed[a[1]] \o <<a[2]>> \o Listed[a[3]]

Queued == {a[2] : a \in Nodes[heap]}
Alive  == Queued \cup asleep \cup ({current} \ {Idle})

-----------------------------------------------------------------------------
\* stride_enqueue: what is left of a slice is kept.
Refilled(left) == IF left = 0 THEN MAX_TIME_SLICE ELSE left

\* Mutants: the stride does not wrap around; the stride is not moved.
NotWrapped(p) == [stride EXCEPT ![p] = @ + Pass(p)]
NotMoved(p)   == stride

Moved(p) == [stride EXCEPT ![p] = (@ + Pass(p)) % (2 * Half)]

\* stride_pick_next takes the root, stride_dequeue removes it.
PickFrom(pool) ==
  \/ /\ pool = Nil
     /\ current' = Idle /\ heap' = Nil
     /\ UNCHANGED stride
  \/ /\ pool # Nil
     /\ current' = pool[2]
     /\ stride' = Moved(pool[2])
     /\ heap' = skew_heap_merge(stride, pool[1], pool[3])

\* schedule() called by a runnable process, or by idleproc, with the slices left.
Switch(left) ==
  \/ /\ current = Idle
     /\ PickFrom(heap)
     /\ slice' = left
  \/ /\ current # Idle
     /\ PickFrom(skew_heap_insert(stride, heap, current))
     /\ slice' = [left EXCEPT ![current] = Refilled(@)]

\* stride_proc_tick
Ticked == IF current = Idle THEN slice ELSE [slice EXCEPT ![current] = @ - 1]

\* A clock interrupt; schedule when the slice is used up, or idleproc runs.
Tick ==
  /\ IF current = Idle \/ Ticked[current] = 0
     THEN Switch(Ticked)
     ELSE slice' = Ticked /\ UNCHANGED <<heap, stride, current>>
  /\ UNCHANGED <<priority, asleep, sleeps, forks, sets>>

Yield ==
  /\ current # Idle
  /\ Switch(slice)
  /\ UNCHANGED <<priority, asleep, sleeps, forks, sets>>

\* do_sleep, do_wait, down: current goes to sleep, and schedules.
Sleep ==
  /\ current # Idle /\ sleeps < MaxSleeps
  /\ asleep' = asleep \cup {current}
  /\ sleeps' = sleeps + 1
  /\ PickFrom(heap)
  /\ UNCHANGED <<slice, priority, forks, sets>>

\* wakeup_proc of a sleeper.
Wake(p) ==
  /\ p \in asleep
  /\ asleep' = asleep \ {p}
  /\ heap' = skew_heap_insert(stride, heap, p)
  /\ slice' = [slice EXCEPT ![p] = Refilled(@)]
  /\ UNCHANGED <<stride, priority, current, sleeps, forks, sets>>

\* do_exit; the model keeps one process.
Exit ==
  /\ current # Idle /\ Alive # {current} /\ forks < MaxForks
  /\ PickFrom(heap)
  /\ UNCHANGED <<slice, priority, asleep, sleeps, forks, sets>>

\* do_fork: alloc_proc and wakeup_proc.
Fork(p) ==
  /\ current # Idle /\ forks < MaxForks
  /\ p \in Proc \ Alive
  /\ stride' = [stride EXCEPT ![p] = 0]
  /\ priority' = [priority EXCEPT ![p] = 0]
  /\ slice' = [slice EXCEPT ![p] = MAX_TIME_SLICE]
  /\ heap' = skew_heap_insert(stride', heap, p)
  /\ forks' = forks + 1
  /\ UNCHANGED <<current, asleep, sleeps, sets>>

lab6_set_priority(n) ==
  /\ current # Idle /\ sets < MaxSets
  /\ priority' = [priority EXCEPT ![current] = IF n = 0 THEN 1 ELSE n]
  /\ sets' = sets + 1
  /\ UNCHANGED <<heap, stride, slice, current, asleep, sleeps, forks>>

\* The processes of S, all with the same stride, in the heap.
Heap[S \in SUBSET Proc] ==
  IF S = {} THEN Nil
  ELSE LET p == CHOOSE p \in S : TRUE
       IN  skew_heap_insert([q \in Proc |-> 0], Heap[S \ {p}], p)

InitWith(started) ==
  /\ current \in started
  /\ stride = [p \in Proc |-> 0]
  /\ heap = Heap[started \ {current}]
  /\ priority = [p \in Proc |-> 0]
  /\ slice = [p \in Proc |-> MAX_TIME_SLICE]
  /\ asleep = {} /\ sleeps = 0 /\ forks = 0 /\ sets = 0

Init == InitWith(Started)

Next ==
  \/ Tick \/ Yield \/ Sleep \/ Exit
  \/ \E p \in Proc : Wake(p) \/ Fork(p)
  \/ \E n \in Priorities : lab6_set_priority(n)

Spec == Init /\ [][Next]_vars

-----------------------------------------------------------------------------
\* The run pool is a heap of the runnable processes: each of them is in it once,
\* none is asleep or running, and no child is behind its parent, although strides
\* wrap around, sleepers come back with old ones and new processes begin with 0.
\* (At a distance of exactly 2^31 each of two is behind the other.)
HeapOrdered ==
  /\ Len(Listed[heap]) = Cardinality(Queued)
  /\ Queued \cap asleep = {} /\ current \notin Queued \cup asleep
  /\ \A a \in Nodes[heap], i \in {1, 3} :
       a[i] # Nil => (stride[a[i][2]] - stride[a[2]]) % (2 * Half) <= Half

\* No starvation (default_sched_stride.c:125-157): a process in the run queue runs in
\* the end, however the others use their slices, sleep, wake up with old strides
\* and exit, once only finitely many sleeps, forks and changes of priority are left.
EverybodyRuns == \A p \in Proc : p \in Queued ~> current = p
=============================================================================
