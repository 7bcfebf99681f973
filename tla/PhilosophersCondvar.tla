------------------------ MODULE PhilosophersCondvar ------------------------
(***************************************************************************)
(* The dining philosophers of check_sync.c that use a monitor              *)
(* (src/lab8/kern/sync/check_sync.c:168-238): philosopher i waits on the   *)
(* condition variable i.                                                   *)
(***************************************************************************)
EXTENDS Monitor, Philosophers

ASSUME CondvarAssumption == Thread = 0..N - 1 /\ CV = Thread

phvars == <<value, queue, waits, next_count, count, pc, back, on, state, iter>>

Outside == {"think", "eat", "quit"}

\* Mutant: the test of a neighbour leaves it to him to enter that he eats.
TestOnlySignals(i, from, j, to) ==
  \/ /\ MayEat(j)
     /\ state' = IF j = i THEN [state EXCEPT ![j] = "EATING"] ELSE state
     /\ cond_signal(i, from, j, to)
  \/ ~MayEat(j) /\ Step(i, from, to)
     /\ UNCHANGED <<value, queue, waits, next_count, count, back, on, state>>

\* phi_test_condvar(j), called by i.
phi_test_condvar(i, from, j, to) ==
  \/ /\ MayEat(j)
     /\ state' = [state EXCEPT ![j] = "EATING"]
     /\ cond_signal(i, from, j, to)
  \/ /\ ~MayEat(j)
     /\ Step(i, from, to)
     /\ UNCHANGED <<value, queue, waits, next_count, count, back, on, state>>

-----------------------------------------------------------------------------
Think(i) ==
  /\ Enter(i, "think", "hungry")
  /\ iter[i] < TIMES[i]
  /\ iter' = [iter EXCEPT ![i] = @ + 1]
  /\ UNCHANGED state

Quit(i) ==
  /\ Step(i, "think", "quit")
  /\ iter[i] = TIMES[i]
  /\ UNCHANGED <<value, queue, waits, next_count, count, back, on, state, iter>>

\* phi_take_forks_condvar
Hungry(i) ==
  /\ Step(i, "hungry", "testself")
  /\ state' = [state EXCEPT ![i] = "HUNGRY"]
  /\ UNCHANGED <<value, queue, waits, next_count, count, back, on, iter>>

TestSelf(i) == phi_test_condvar(i, "testself", i, "check") /\ UNCHANGED iter

Check(i) ==
  /\ \/ state[i] # "EATING" /\ cond_wait(i, "check", i, "leavetake")
     \/ /\ state[i] = "EATING"
        /\ Step(i, "check", "leavetake")
        /\ UNCHANGED <<value, queue, waits, next_count, count, back, on>>
  /\ UNCHANGED <<state, iter>>

LeaveTake(i) == Leave(i, "leavetake", "eat") /\ UNCHANGED <<state, iter>>

\* phi_put_forks_condvar
Eat(i) == Enter(i, "eat", "thinking") /\ UNCHANGED <<state, iter>>

Thinking(i) ==
  /\ Step(i, "thinking", "testleft")
  /\ state' = [state EXCEPT ![i] = "THINKING"]
  /\ UNCHANGED <<value, queue, waits, next_count, count, back, on, iter>>

TestLeft(i) == phi_test_condvar(i, "testleft", LEFT(i), "testright") /\ UNCHANGED iter

TestRight(i) == phi_test_condvar(i, "testright", RIGHT(i), "leaveput") /\ UNCHANGED iter

LeavePut(i) == Leave(i, "leaveput", "think") /\ UNCHANGED <<state, iter>>

Philosopher(i) ==
  \/ Think(i) \/ Quit(i)
  \/ Hungry(i) \/ TestSelf(i) \/ Check(i) \/ LeaveTake(i)
  \/ Eat(i) \/ Thinking(i) \/ TestLeft(i) \/ TestRight(i) \/ LeavePut(i)
  \/ InsideMonitor(i) /\ UNCHANGED <<state, iter>>

-----------------------------------------------------------------------------
(***************************************************************************)
(* Properties, which CheckSync checks.                                     *)
(***************************************************************************)
\* What cond_wait promises with Hoare's signal: the condition still holds when it
\* returns.  phi_take_forks_condvar relies on it: it asks with if, not with while
\* (check_sync.c:191), and then leaves to eat.
ConditionHolds ==
  \A i \in Thread : Awake(i) /\ pc[i] = "rewait" => state[i] = "EATING"
=============================================================================
