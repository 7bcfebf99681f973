----------------------------- MODULE TimerList -----------------------------
(***************************************************************************)
(* The timer list of the kernel (src/lab8/kern/schedule/sched.c:102-176):  *)
(* a timer's expires counts from the timer before it in the list, so that  *)
(* a clock tick touches the head only.  The module has no specification of *)
(* its own: ClockInterrupt opens it to processes that sleep and are killed *)
(* and shows that it implements AlarmClock.                                *)
(***************************************************************************)
EXTENDS Integers, Sequences, SequencesExt

CONSTANTS
  Timer,      \* one for each process that may sleep
  MaxTime     \* the longest time asked for (expires is unsigned: 2^32 - 1)

ASSUME TimerAssumption == MaxTime \in Nat \ {0}

VARIABLES
  timer_list,  \* the linked timers, in order
  expires      \* timer->expires

tvars == <<timer_list, expires>>

Linked == ToSet(timer_list)

Position(t) == CHOOSE i \in 1..Len(timer_list) : timer_list[i] = t

Wrap(n) == n % (MaxTime + 1)

timer_init_list ==
  /\ timer_list = <<>>
  /\ expires = [t \in Timer |-> 0]

\* The ticks until the i-th timer of the list rings: what the loop of add_timer
\* has taken off when it is past that timer.
Through(i) ==
  LET sum[j \in 0..i] == IF j = 0 THEN 0 ELSE sum[j - 1] + expires[timer_list[j]]
  IN  sum[i]

\* The loop of add_timer: a timer of that time goes before the first one that
\* rings later than it.
Place(time) ==
  CHOOSE i \in 1..(Len(timer_list) + 1) :
    /\ \A j \in 1..(i - 1) : Through(j) <= time
    /\ i <= Len(timer_list) => time < Through(i)

\* t, with left ticks to go after the timers before it, goes to position i: the
\* timer there counts from t from now on.
NextReduced(t, i, left) ==
  IF i <= Len(timer_list)
  THEN [expires EXCEPT ![t] = left, ![timer_list[i]] = Wrap(@ - left)]
  ELSE [expires EXCEPT ![t] = left]

add_timer(t, time) ==
  LET i == Place(time)
  IN  /\ timer_list' = InsertAt(timer_list, i, t)
      /\ expires' = NextReduced(t, i, time - Through(i - 1))

\* Mutant: del_timer does not pass the time to go on to the next timer.
TimeLost(t) == [expires EXCEPT ![t] = 0]

\* The next timer counts from the one before t when t goes.  (t lies on the stack
\* of do_sleep, which returns: its own expires is forgotten.)
TimePassedOn(t) ==
  LET i == Position(t)
  IN  IF i < Len(timer_list)
      THEN [expires EXCEPT ![timer_list[i + 1]] = Wrap(@ + expires[t]), ![t] = 0]
      ELSE [expires EXCEPT ![t] = 0]

Unlinked(t) == RemoveAt(timer_list, Position(t))

del_timer(t) ==
  \/ /\ t \in Linked
     /\ timer_list' = Unlinked(t)
     /\ expires' = TimePassedOn(t)
  \/ t \notin Linked /\ UNCHANGED tvars

\* The head counts down one tick.
Countdown == [expires EXCEPT ![Head(timer_list)] = Wrap(@ - 1)]

\* Mutant: run_timer_list takes one timer off the list, not all that are due.
OnlyHead(e) == IF e[Head(timer_list)] = 0 THEN 1 ELSE 0

\* The loop of run_timer_list: how many timers in front are due.
Due(e) ==
  CHOOSE n \in 0..Len(timer_list) :
    /\ \A i \in 1..n : e[timer_list[i]] = 0
    /\ n < Len(timer_list) => e[timer_list[n + 1]] # 0

\* run_timer_list unlinks every timer that is due.  It wakes Linked \ Linked'.
run_timer_list ==
  \/ timer_list = <<>> /\ UNCHANGED tvars
  \/ /\ timer_list # <<>>
     /\ expires' = Countdown
     /\ timer_list' = SubSeq(timer_list, Due(Countdown) + 1, Len(timer_list))
=============================================================================
