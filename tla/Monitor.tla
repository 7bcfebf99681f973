------------------------------ MODULE Monitor ------------------------------
(***************************************************************************)
(* Monitors with Hoare's condition variables, built on semaphores          *)
(* (src/lab8/kern/sync/monitor.c, src/lab8/kern/sync/monitor.h).  A thread *)
(* that signals hands the monitor to the waiter and waits on the semaphore *)
(* next until it gets it back; who leaves the monitor or waits in it gives *)
(* it to such a thread first, and opens mutex only if there is none.       *)
(*                                                                         *)
(* A step is one call of up() or down() with the assignments around it, as *)
(* in module Semaphores.  The module has no specification of its own: its  *)
(* client is PhilosophersCondvar.                                          *)
(***************************************************************************)
EXTENDS Semaphores, FiniteSets

CONSTANTS CV, mutex, next

ASSUME MonitorAssumption ==
  /\ mutex # next /\ mutex \notin CV /\ next \notin CV
  /\ Sem = CV \cup {mutex, next}

VARIABLES
  next_count,  \* mtp->next_count
  count,       \* cv->count
  pc,          \* what each thread does next
  back,        \* where it returns to from cond_signal or cond_wait
  on           \* the condition variable it was last called for

cvars == <<next_count, count, back, on>>
mvars == <<value, queue, waits, next_count, count, pc, back, on>>

Step(t, from, to) ==
  /\ Awake(t) /\ pc[t] = from
  /\ pc' = [pc EXCEPT ![t] = to]

\* Mutant: who gives the monitor away always opens mutex.
GiveUpToAll == up(mutex)

\* Give the monitor away: to a thread that signalled, if there is one.
GiveUp ==
  \/ next_count > 0 /\ up(next)
  \/ next_count = 0 /\ up(mutex)

\* A procedure of the monitor begins with down(&mtp->mutex), and ends.
Enter(t, from, to) == Step(t, from, to) /\ down(t, mutex) /\ UNCHANGED cvars
Leave(t, from, to) == Step(t, from, to) /\ GiveUp /\ UNCHANGED cvars

\* Mutant: whether or not anybody waits, the signal is kept in the semaphore.
SignalKept(t, from, cv, to) ==
  /\ Step(t, from, "signal")
  /\ next_count' = next_count + 1
  /\ up(cv)
  /\ back' = [back EXCEPT ![t] = to]
  /\ on' = [on EXCEPT ![t] = cv]
  /\ UNCHANGED count

\* cond_signal, called at from; it returns to to.
cond_signal(t, from, cv, to) ==
  \/ /\ count[cv] > 0
     /\ Step(t, from, "signal")
     /\ next_count' = next_count + 1
     /\ up(cv)
     /\ back' = [back EXCEPT ![t] = to]
     /\ on' = [on EXCEPT ![t] = cv]
     /\ UNCHANGED count
  \/ /\ count[cv] = 0
     /\ Step(t, from, to)
     /\ UNCHANGED <<value, queue, waits, next_count, count, back, on>>

\* Mutant: the thread that signals goes on at once.
SignalAndContinue(t) ==
  /\ Step(t, "signal", "resignal")
  /\ UNCHANGED <<value, queue, waits, next_count, count, back, on>>

SignalDown(t) ==
  /\ Step(t, "signal", "resignal")
  /\ down(t, next)
  /\ UNCHANGED cvars

SignalEnd(t) ==
  /\ Step(t, "resignal", back[t])
  /\ next_count' = next_count - 1
  /\ UNCHANGED <<value, queue, waits, count, back, on>>

\* cond_wait, called at from; it returns to to.
cond_wait(t, from, cv, to) ==
  /\ Step(t, from, "wait")
  /\ count' = [count EXCEPT ![cv] = @ + 1]
  /\ GiveUp
  /\ back' = [back EXCEPT ![t] = to]
  /\ on' = [on EXCEPT ![t] = cv]
  /\ UNCHANGED next_count

WaitDown(t) ==
  /\ Step(t, "wait", "rewait")
  /\ down(t, on[t])
  /\ UNCHANGED cvars

\* Mutant: cond_wait returns without counting its thread out.
StillCounted(t) == count

CountedOut(t) == [count EXCEPT ![on[t]] = @ - 1]

WaitEnd(t) ==
  /\ Step(t, "rewait", back[t])
  /\ count' = CountedOut(t)
  /\ UNCHANGED <<value, queue, waits, next_count, back, on>>

InsideMonitor(t) == SignalDown(t) \/ SignalEnd(t) \/ WaitDown(t) \/ WaitEnd(t)

\* monitor_init
monitor_init(initialPC) ==
  /\ sem_init([s \in Sem |-> IF s = mutex THEN 1 ELSE 0])
  /\ next_count = 0
  /\ count = [cv \in CV |-> 0]
  /\ pc = [t \in Thread |-> initialPC]
  /\ back = [t \in Thread |-> initialPC]
  /\ on \in [Thread -> {CHOOSE cv \in CV : TRUE}]

-----------------------------------------------------------------------------
(***************************************************************************)
(* What every client of the monitor can rely on.                           *)
(***************************************************************************)
\* A thread is active in the monitor while it runs code that the monitor guards:
\* awake, not outside, and not between giving the monitor away and going to sleep.
ActiveBut(outside) ==
  {t \in Thread : Awake(t) /\ pc[t] \notin outside \cup {"signal", "wait"}}

\* The right to be in the monitor: one thread has it, or one semaphore, once.
OneTokenBut(outside) ==
  LET held == {s \in Sem : value[s] > 0}
  IN  /\ Cardinality(ActiveBut(outside)) + Cardinality(held) = 1
      /\ \A s \in held : value[s] = 1

\* next_count and cv.count, which decide who gets the monitor, count the threads
\* that have signalled and those that wait; the one that has been given the monitor
\* and has not run yet is still counted.
CountsExact ==
  /\ next_count = Cardinality({t \in Thread : pc[t] \in {"signal", "resignal"}})
  /\ \A cv \in CV :
       count[cv] = Cardinality({t \in Thread : pc[t] \in {"wait", "rewait"} /\ on[t] = cv})

\* The right to go in is never where nobody can take it: in next only if a thread
\* that has signalled will go there, in a condition variable only if a waiter will.
TokenReaches ==
  /\ value[next] > 0 => \E t \in Thread : Awake(t) /\ pc[t] = "signal"
  /\ \A cv \in CV : value[cv] > 0 =>
       \E t \in Thread : Awake(t) /\ pc[t] = "wait" /\ on[t] = cv
=============================================================================
