----------------------------- MODULE Semaphores -----------------------------
(***************************************************************************)
(* Kernel semaphores (src/lab8/kern/sync/sem.c) and the wait queues they   *)
(* are built on (src/lab8/kern/sync/wait.c).  up() with a waiter does not  *)
(* raise the value: it hands the unit to the first waiter, takes it off    *)
(* the queue and wakes it, and that thread's down() then succeeds without  *)
(* another look at the value.  WT_KSEM is not interruptible: only up()     *)
(* ends a sleep in down().                                                 *)
(*                                                                         *)
(* down() and up() turn interrupts off, so each is one step.  The module   *)
(* has no specification of its own: SemaphoreFifo opens it to any client,  *)
(* Monitor uses it.                                                        *)
(***************************************************************************)
EXTENDS Integers, Sequences

CONSTANTS Thread, Sem, NoSem

ASSUME SemAssumption == NoSem \notin Sem

VARIABLES
  value,    \* sem->value
  queue,    \* the threads in sem->wait_queue, first in first out
  waits     \* wait->wait_queue of a thread that sleeps in down(), else NoSem

svars == <<value, queue, waits>>

Awake(t) == waits[t] = NoSem

sem_init(initial) ==
  /\ value = initial
  /\ queue = [s \in Sem |-> <<>>]
  /\ waits = [t \in Thread |-> NoSem]

\* Mutants of Enqueued and of up(): a waiter goes to the front; the unit is added
\* to the value although a waiter takes it.
EnqueuedFirst(t, s) == <<t>> \o queue[s]

\* wait_current_set: list_add_before the head puts the thread last.
Enqueued(t, s) == Append(queue[s], t)

down(t, s) ==
  \/ /\ value[s] > 0
     /\ value' = [value EXCEPT ![s] = @ - 1]
     /\ UNCHANGED <<queue, waits>>
  \/ /\ value[s] = 0
     /\ queue' = [queue EXCEPT ![s] = Enqueued(t, s)]
     /\ waits' = [waits EXCEPT ![t] = s]
     /\ UNCHANGED value

\* Mutant: up() raises the value even when it wakes a waiter.
up_and_count(s) ==
  /\ value' = [value EXCEPT ![s] = @ + 1]
  /\ \/ queue[s] = <<>> /\ UNCHANGED <<queue, waits>>
     \/ /\ queue[s] # <<>>
        /\ queue' = [queue EXCEPT ![s] = Tail(@)]
        /\ waits' = [waits EXCEPT ![Head(queue[s])] = NoSem]

up(s) ==
  \/ /\ queue[s] = <<>>
     /\ value' = [value EXCEPT ![s] = @ + 1]
     /\ UNCHANGED <<queue, waits>>
  \/ /\ queue[s] # <<>>
     /\ queue' = [queue EXCEPT ![s] = Tail(@)]
     /\ waits' = [waits EXCEPT ![Head(queue[s])] = NoSem]
     /\ UNCHANGED value

\* try_down that takes a unit; one that does not changes nothing.
try_down(s) ==
  /\ value[s] > 0
  /\ value' = [value EXCEPT ![s] = @ - 1]
  /\ UNCHANGED <<queue, waits>>

SemTypeOK ==
  /\ value \in [Sem -> Nat]
  /\ queue \in [Sem -> Seq(Thread)]
  /\ waits \in [Thread -> Sem \cup {NoSem}]

\* A thread sleeps in down() exactly when it is in the queue of that semaphore,
\* once; and nobody waits while there is a unit to take.
QueuesExact ==
  \A s \in Sem :
    /\ \A t \in Thread : waits[t] = s <=> \E i \in 1..Len(queue[s]) : queue[s][i] = t
    /\ \A i, j \in 1..Len(queue[s]) : queue[s][i] = queue[s][j] => i = j
    /\ value[s] > 0 => queue[s] = <<>>
=============================================================================
