----------------------------- MODULE CheckSync ------------------------------
(***************************************************************************)
(* check_sync (src/lab8/kern/sync/check_sync.c:240-267): philosophers that *)
(* use semaphores, or a monitor.  The code starts both; they share nothing *)
(* but the CPU, so that a behaviour here is one of either.                 *)
(***************************************************************************)
EXTENDS PhilosophersCondvar

VARIABLE using   \* "semaphores" or "monitor"

Sema == INSTANCE PhilosophersSema

vars == <<phvars, using>>

\* sem_init of mutex and of the others, and monitor_init, give the same values.
Init ==
  /\ using \in {"semaphores", "monitor"}
  /\ monitor_init("think")
  /\ Seated

Dines(i) ==
  /\ \/ using = "monitor" /\ Philosopher(i)
     \/ using = "semaphores" /\ Sema!Philosopher(i) /\ UNCHANGED <<next_count, count, back, on>>
  /\ UNCHANGED using

Done == (\A i \in Thread : pc[i] = "quit") /\ UNCHANGED vars

Next == Done \/ \E i \in Thread : Dines(i)

Spec == Init /\ [][Next]_vars

\* Every thread that can run does so in the end: the scheduling class picks it, and
\* the kernel's threads hold the CPU only until they sleep.
FairSpec == Spec /\ \A i \in Thread : WF_vars(Dines(i))

-----------------------------------------------------------------------------
(***************************************************************************)
(* Properties.                                                             *)
(***************************************************************************)
\* One philosopher at a time is in the monitor, or one semaphore holds the right to go
\* in: mutex, next or the condition variable of a waiter (monitor.c:25-72).  Without a
\* monitor it is mutex alone.
OneToken ==
  IF using = "monitor" THEN OneTokenBut(Outside)
  ELSE Cardinality(Sema!Critical) + value[mutex] = 1

\* What a semaphore holds is for somebody who comes for it: the right to go into the
\* monitor (TokenReaches), or the forks of a philosopher that has not gone to his own
\* semaphore yet (check_sync.c:102).
UnitsReach ==
  IF using = "monitor" THEN TokenReaches
  ELSE \A i \in Thread : value[i] > 0 =>
         value[i] = 1 /\ state[i] = "EATING" /\ pc[i] \in {"leavetake", "fork"}

\* Two neighbours never eat at the same time, and whoever is at table is entered as
\* EATING.
ForksExclusive ==
  \A i \in Thread :
    /\ state[i] = "EATING" => state[RIGHT(i)] # "EATING"
    /\ Awake(i) /\ pc[i] = "eat" => state[i] = "EATING"

\* Every philosopher finishes his rounds: nobody stays in a queue, and they do not all
\* wait for one another.
EverybodyQuits == \A i \in Thread : <>(pc[i] = "quit")
=============================================================================
