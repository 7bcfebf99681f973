----------------------------- MODULE AlarmClock -----------------------------
(***************************************************************************)
(* What the kernel timers promise do_sleep (src/lab8/kern/process/proc.c,  *)
(* src/lab8/kern/schedule/sched.c): a timer set for d ticks rings at the   *)
(* d-th tick after that, neither earlier nor later, unless it is removed   *)
(* first.  The modules Process and TimerList both implement it: Process    *)
(* uses the timers through it, TimerList is the list of the kernel.        *)
(***************************************************************************)
EXTENDS Integers

CONSTANTS Timer, MaxTime

VARIABLE clock   \* ticks to go; 0: has rung; Off: not in use

Off == -1

Init == clock = [t \in Timer |-> Off]

Set(t) ==
  /\ clock[t] = Off
  /\ \E d \in 1..MaxTime : clock' = [clock EXCEPT ![t] = d]

Remove(t) ==
  /\ clock[t] # Off
  /\ clock' = [clock EXCEPT ![t] = Off]

Tick == clock' = [t \in Timer |-> IF clock[t] > 0 THEN clock[t] - 1 ELSE clock[t]]

Next == Tick \/ \E t \in Timer : Set(t) \/ Remove(t)

Spec == Init /\ [][Next]_clock
=============================================================================
