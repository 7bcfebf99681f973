------------------------------ MODULE PidAlloc ------------------------------
(***************************************************************************)
(* get_pid (src/lab8/kern/process/proc.c:201-234) and the proc_list it     *)
(* searches.  get_pid keeps an interval (last_pid, next_safe) that it      *)
(* knows to be free of pids in use, and walks proc_list only when that     *)
(* interval is used up; a walk moves last_pid on past the pids it meets,   *)
(* and starts over when it runs into next_safe.                            *)
(*                                                                         *)
(* Interrupts are off around get_pid, so nothing happens between the steps *)
(* of a walk.  They are steps here so that the invariant of the loop can   *)
(* be stated.  The order of proc_list is left open: a walk visits the      *)
(* processes in any order.                                                 *)
(***************************************************************************)
EXTENDS Integers, FiniteSets

CONSTANTS
  Slot,         \* proc_structs that may be in proc_list (idleproc is not)
  None,         \* no process is being created
  MaxProcess,   \* MAX_PROCESS
  MaxPid        \* MAX_PID

ASSUME PidAssumption ==
  /\ None \notin Slot
  /\ MaxProcess \in Nat /\ MaxPid \in Nat
  /\ MaxPid > MaxProcess /\ MaxProcess >= 2    \* static_assert, proc.c:204

VARIABLES
  pid,          \* proc->pid of the slots in proc_list, 0 for a free slot
  last_pid, next_safe,
  new,          \* the process do_fork creates, while get_pid walks proc_list
  todo,         \* the slots the walk has still to visit
  from          \* history: last_pid when get_pid was called

pvars == <<pid, last_pid, next_safe, new, todo, from>>

Live  == {s \in Slot : pid[s] # 0}
InUse == {pid[s] : s \in Live}

-----------------------------------------------------------------------------
\* label inside: nothing is known to be safe, walk the whole list for s.
Walk(s) ==
  /\ next_safe' = MaxPid
  /\ new' = s
  /\ todo' = Live

\* No pid below next_safe is left.
Exhausted(p) == p >= next_safe

\* do_fork calls get_pid: the next pid is known to be free, or a walk starts.
Fork(s) ==
  /\ new = None
  /\ s \notin Live
  /\ Cardinality(Live) + 1 < MaxProcess
  /\ from' = last_pid
  /\ \/ /\ last_pid + 1 >= MaxPid
        /\ last_pid' = 1
        /\ Walk(s)
        /\ UNCHANGED pid
     \/ /\ last_pid + 1 < MaxPid /\ Exhausted(last_pid + 1)
        /\ last_pid' = last_pid + 1
        /\ Walk(s)
        /\ UNCHANGED pid
     \/ /\ last_pid + 1 < MaxPid /\ ~Exhausted(last_pid + 1)
        /\ last_pid' = last_pid + 1
        /\ pid' = [pid EXCEPT ![s] = last_pid + 1]
        /\ UNCHANGED <<next_safe, new, todo>>

\* Mutant: the walk that starts over goes on with what it had not visited.
RestOnly(t) == todo \ {t}

\* repeat: what a walk that starts over at t visits.
Restarted(t) == Live

\* A pid between last_pid and next_safe bounds the free interval.
Ahead(p) == p > last_pid /\ next_safe > p

\* Mutant: a pid that ran into next_safe is tried from 1 again.
BackToOne(p) == 1

\* The pid a walk that starts over tries.
NextTry(p) == IF p >= MaxPid THEN 1 ELSE p

\* One turn of the loop, for a process t of the list.
Visit(t) ==
  /\ t \in todo
  /\ \/ /\ pid[t] = last_pid /\ Exhausted(last_pid + 1)
        /\ last_pid' = NextTry(last_pid + 1)
        /\ next_safe' = MaxPid
        /\ todo' = Restarted(t)
     \/ /\ pid[t] = last_pid /\ ~Exhausted(last_pid + 1)
        /\ last_pid' = last_pid + 1
        /\ todo' = todo \ {t}
        /\ UNCHANGED next_safe
     \/ /\ pid[t] # last_pid
        /\ next_safe' = IF Ahead(pid[t]) THEN pid[t] ELSE next_safe
        /\ todo' = todo \ {t}
        /\ UNCHANGED last_pid
  /\ UNCHANGED <<pid, new, from>>

\* The walk is over: get_pid returns, set_links puts the process in proc_list.
Return ==
  /\ new # None /\ todo = {}
  /\ pid' = [pid EXCEPT ![new] = last_pid]
  /\ new' = None
  /\ UNCHANGED <<last_pid, next_safe, todo, from>>

\* do_wait frees a process (never initproc, which has pid 1).
Reap(s) ==
  /\ new = None
  /\ s \in Live /\ pid[s] # 1
  /\ pid' = [pid EXCEPT ![s] = 0]
  /\ UNCHANGED <<last_pid, next_safe, new, todo, from>>

Init ==
  /\ pid = [s \in Slot |-> 0]
  /\ last_pid = MaxPid /\ next_safe = MaxPid
  /\ new = None /\ todo = {}
  /\ from = MaxPid

Next ==
  \/ \E s \in Slot : Fork(s) \/ Visit(s) \/ Reap(s)
  \/ Return

Spec == Init /\ [][Next]_pvars

\* get_pid runs to its end: no interrupt comes in.
FairSpec == Spec /\ WF_pvars(Return \/ \E t \in Slot : Visit(t))

-----------------------------------------------------------------------------
(***************************************************************************)
(* Properties.                                                             *)
(***************************************************************************)
TypeOK ==
  /\ pid \in [Slot -> 0..MaxPid - 1]
  /\ last_pid \in 1..MaxPid /\ next_safe \in 1..MaxPid /\ from \in 1..MaxPid
  /\ new \in Slot \cup {None}
  /\ todo \subseteq Slot

\* "alloc a unique pid for process" (proc.c:201): no two processes have the same
\* pid, whatever has been freed since the interval was last computed.
PidsUnique == \A s, t \in Live : pid[s] = pid[t] => s = t

\* The cached fact: between calls no pid strictly between last_pid and next_safe
\* is in use, so that the next call need not look.
GapFree == new = None => \A p \in InUse : ~(last_pid < p /\ p < next_safe)

\* The pids from a on, in turn, before b is reached.
Passed(a, b) ==
  IF a < b THEN {p \in 1..MaxPid - 1 : a < p /\ p < b}
           ELSE {p \in 1..MaxPid - 1 : a < p \/ p < b}

\* Pids are given out in turn: get_pid returns the first free pid after the last
\* one it gave out, so that a pid just freed, which somebody may still wait for or
\* want to kill, is the last to be given out again.
InTurn ==
  [][\A s \in Slot : s \notin Live /\ pid'[s] # 0 => Passed(from', pid'[s]) \subseteq InUse]_pvars

\* get_pid returns: there are more pids than processes (proc.c:204), and starting
\* over never goes round in a circle.
GetPidReturns == new # None ~> new = None
=============================================================================
