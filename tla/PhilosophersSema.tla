-------------------------- MODULE PhilosophersSema --------------------------
(***************************************************************************)
(* The dining philosophers of check_sync.c that use semaphores             *)
(* (src/lab8/kern/sync/check_sync.c:79-132): they test their forks and     *)
(* those of their neighbours inside mutex, and philosopher i waits for his *)
(* on a semaphore of his own, which is i here, outside.                    *)
(*                                                                         *)
(* A step is one call of up() or down() with the assignments before it.    *)
(***************************************************************************)
EXTENDS Semaphores, Philosophers

CONSTANT mutex   \* a semaphore; the others are those of the philosophers, Thread = 0..N - 1

VARIABLE pc

svars_sema == <<value, queue, waits, pc, state, iter>>

Goes(i, from, to) ==
  /\ Awake(i) /\ pc[i] = from
  /\ pc' = [pc EXCEPT ![i] = to]

\* phi_test_sema(j), called by i.
phi_test_sema(i, from, j, to) ==
  /\ Goes(i, from, to)
  /\ \/ /\ MayEat(j)
        /\ state' = [state EXCEPT ![j] = "EATING"]
        /\ up(j)
     \/ ~MayEat(j) /\ UNCHANGED <<value, queue, waits, state>>
  /\ UNCHANGED iter

-----------------------------------------------------------------------------
Think(i) ==
  /\ Goes(i, "think", "hungry") /\ down(i, mutex)
  /\ iter[i] < TIMES[i]
  /\ iter' = [iter EXCEPT ![i] = @ + 1]
  /\ UNCHANGED state

Quit(i) ==
  /\ Goes(i, "think", "quit")
  /\ iter[i] = TIMES[i]
  /\ UNCHANGED <<value, queue, waits, state, iter>>

\* phi_take_forks_sema
Hungry(i) ==
  /\ Goes(i, "hungry", "testself")
  /\ state' = [state EXCEPT ![i] = "HUNGRY"]
  /\ UNCHANGED <<value, queue, waits, iter>>

TestSelf(i) == phi_test_sema(i, "testself", i, "leavetake")

LeaveTake(i) ==
  Goes(i, "leavetake", "fork") /\ up(mutex) /\ UNCHANGED <<state, iter>>

Fork(i) == Goes(i, "fork", "eat") /\ down(i, i) /\ UNCHANGED <<state, iter>>

\* phi_put_forks_sema
Eat(i) == Goes(i, "eat", "thinking") /\ down(i, mutex) /\ UNCHANGED <<state, iter>>

Thinking(i) ==
  /\ Goes(i, "thinking", "testleft")
  /\ state' = [state EXCEPT ![i] = "THINKING"]
  /\ UNCHANGED <<value, queue, waits, iter>>

TestLeft(i)  == phi_test_sema(i, "testleft", LEFT(i), "testright")
TestRight(i) == phi_test_sema(i, "testright", RIGHT(i), "leaveput")

LeavePut(i) ==
  Goes(i, "leaveput", "think") /\ up(mutex) /\ UNCHANGED <<state, iter>>

Philosopher(i) ==
  \/ Think(i) \/ Quit(i)
  \/ Hungry(i) \/ TestSelf(i) \/ LeaveTake(i) \/ Fork(i)
  \/ Eat(i) \/ Thinking(i) \/ TestLeft(i) \/ TestRight(i) \/ LeavePut(i)

-----------------------------------------------------------------------------
\* Who is in the critical section, also on the way there.
Critical == {i \in Thread : Awake(i) /\ pc[i] \notin {"think", "fork", "eat", "quit"}}
=============================================================================
