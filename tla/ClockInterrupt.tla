--------------------------- MODULE ClockInterrupt ---------------------------
(***************************************************************************)
(* The clock interrupt (src/lab8/kern/trap/trap.c:143-153) and the         *)
(* processes that wait for it: it runs the timer list and takes one key to *)
(* stdin.  A process is in user mode, in do_sleep with a timer, or in      *)
(* dev_stdin_read; a kill ends both sleeps early, and the process cleans   *)
(* up when it runs again, with interrupts in between.                      *)
(*                                                                         *)
(* Processes in the kernel keep the CPU and interrupts are off, so a call  *)
(* is one step up to its schedule() and one after it.  Which of the        *)
(* processes that are awake runs next is left open.                        *)
(***************************************************************************)
EXTENDS TimerList, Stdin

CONSTANTS
  MaxKeys,   \* keys typed in a behaviour (a model bound)
  MaxBurst,  \* keys typed between two interrupts (a model bound)
  MaxLen     \* the most a reader asks for (a model bound)

ASSUME ClockAssumption ==
  /\ Reader = Timer   \* any process sleeps and reads
  /\ MaxKeys \in Nat /\ MaxBurst \in Nat /\ MaxLen \in Nat

Process == Timer

VARIABLES
  at,       \* "user", "sleep" (in do_sleep) or "read" (in dev_stdin_read)
  asleep,   \* the processes that are PROC_SLEEPING
  exiting   \* those with PF_EXITING

vars == <<timer_list, expires, svars, at, asleep, exiting>>

Init ==
  /\ timer_init_list /\ stdin_device_init
  /\ at = [p \in Process |-> "user"]
  /\ asleep = {} /\ exiting = {}

\* do_sleep(time) up to its schedule().
Sleep(p, time) ==
  /\ at[p] = "user"
  /\ add_timer(p, time)
  /\ at' = [at EXCEPT ![p] = "sleep"]
  /\ asleep' = asleep \cup {p}
  /\ UNCHANGED <<svars, exiting>>

\* sys_read of stdin up to its end or its schedule().
Read(p, len) ==
  /\ at[p] = "user"
  /\ dev_stdin_read(p, len)
  /\ at' = IF call'[p] = NoCall THEN at ELSE [at EXCEPT ![p] = "read"]
  /\ asleep' = IF call'[p] = NoCall THEN asleep ELSE asleep \cup {p}
  /\ UNCHANGED <<tvars, exiting>>

\* The rest of do_sleep when the process runs again.
WakeFromSleep(p) ==
  /\ at[p] = "sleep" /\ p \notin asleep
  /\ del_timer(p)
  /\ at' = [at EXCEPT ![p] = "user"]
  /\ UNCHANGED <<svars, asleep, exiting>>

\* dev_stdin_read goes on: to its end, or to sleep again.
WakeFromRead(p) ==
  /\ at[p] = "read" /\ p \notin asleep
  /\ resume_read(p)
  /\ at' = IF call'[p] = NoCall THEN [at EXCEPT ![p] = "user"] ELSE at
  /\ asleep' = IF call'[p] = NoCall THEN asleep ELSE asleep \cup {p}
  /\ UNCHANGED <<tvars, exiting>>

\* do_kill: WT_TIMER and WT_KBD are interruptible.  Neither the timer nor the
\* place in the wait queue is given up here.
Kill(p) ==
  /\ p \notin exiting
  /\ exiting' = exiting \cup {p}
  /\ asleep' = asleep \ {p}
  /\ UNCHANGED <<tvars, svars, at>>

\* trap() finds PF_EXITING on the way back to user mode: do_exit.  (The slot is
\* then another process.)
Exit(p) ==
  /\ at[p] = "user" /\ p \in exiting
  /\ exiting' = exiting \ {p}
  /\ UNCHANGED <<tvars, svars, at, asleep>>

\* IRQ_S_TIMER: ++ticks, run_timer_list(), dev_stdin_write(cons_getc()), when n
\* keys have been typed since the last one.
Interrupt(n) ==
  /\ n <= MaxBurst /\ typed + n <= MaxKeys
  /\ run_timer_list
  /\ keyboard(n)
  /\ asleep' = (asleep \ (Linked \ Linked')) \ (IF KeyComes(n) THEN Woken ELSE {})
  /\ UNCHANGED <<at, exiting>>

Next ==
  \/ \E p \in Process :
        \/ \E time \in 1..MaxTime : Sleep(p, time)
        \/ \E len \in 1..MaxLen : Read(p, len)
        \/ WakeFromSleep(p) \/ WakeFromRead(p) \/ Kill(p) \/ Exit(p)
  \/ \E n \in 0..MaxBurst : Interrupt(n)

Spec == Init /\ [][Next]_vars

-----------------------------------------------------------------------------
(***************************************************************************)
(* Properties.                                                             *)
(***************************************************************************)
\* run_timer_list asserts it of the head (sched.c:154): no timer that is due is
\* left in front by an insertion, a removal or an earlier tick.  (A timer due at
\* once would count down from 2^32.)
HeadNotDue == timer_list # <<>> => expires[Head(timer_list)] # 0

Clock == INSTANCE AlarmClock
  WITH clock <- [t \in Timer |->
                   IF at[t] # "sleep" THEN -1
                   ELSE IF t \notin Linked THEN 0
                   ELSE Through(Position(t))]

\* The timer list keeps the promise of the timers: every timer rings at its own
\* tick, whatever is inserted, removed or rings around it.
ImplementsClock == Clock!Spec

\* No sleeper is forgotten: who sleeps in do_sleep has a linked timer; who sleeps
\* in dev_stdin_read is in the wait queue, and sleeps only while there is no key
\* to read, however keys, readers and kills overtake each other.
NoSleeperForgotten ==
  \A p \in asleep :
    \/ at[p] = "sleep" /\ p \in Linked
    \/ at[p] = "read" /\ p \in Queued /\ p_rpos = p_wpos

\* Keys are read in the order they are typed, none twice and none left out, by
\* however many readers, until a buffer overruns; even then none is read twice.
KeysExact ==
  LET keys == got \o InRing \o InConsole
  IN  /\ IsInjective(keys)
      /\ ~overrun => keys = [i \in 1..typed |-> i]

\* A read ends with less than it was asked for only if its process was killed; and
\* what it returns is what it has taken out of the ring.
ShortOnlyIfKilled ==
  [][\A p \in Process :
       Reading(p) /\ call'[p] = NoCall
         => \/ p \in exiting /\ p_rpos' = p_rpos
            \/ p_rpos' - p_rpos = call[p].len - call[p].ret]_vars
=============================================================================
