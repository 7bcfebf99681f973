------------------------------ MODULE Process ------------------------------
(***************************************************************************)
(* The life of processes in uCore (src/lab8/kern/process/proc.c) and the   *)
(* scheduler core that runs them (src/lab8/kern/schedule/sched.c).         *)
(*                                                                         *)
(* One CPU; the kernel is not preemptible.  Control moves from one process *)
(* to another only inside schedule(), so everything a process does from    *)
(* the moment it is switched to until it calls schedule() or returns to    *)
(* user mode is one step, with one exception that loses no interleaving:   *)
(* the common tail of trap() (trap.c:287-294) is a step of its own         *)
(* (TrapReturn), during which interrupts are off and nothing else is       *)
(* enabled.  Clock interrupts reach user mode, the idle loop and the       *)
(* kernel thread initproc, which runs with interrupts on.                  *)
(*                                                                         *)
(* A slot of Proc stands for a proc_struct together with its pid.  The     *)
(* list of children (cptr/optr/yptr) is the set Children(p), the pick of   *)
(* the scheduling class is any queued process (module Stride says which),  *)
(* and the timers are the abstract alarm clock that module TimerList       *)
(* implements.  Memory, files and exit codes are not modelled here.        *)
(***************************************************************************)
EXTENDS Integers, FiniteSets

CONSTANTS
  Proc,         \* proc_struct slots, idleproc and initproc included
  Idle,         \* idleproc, pid 0
  Init1,        \* initproc, pid 1
  Nobody,       \* the NULL process pointer
  AnyChild,          \* the pid 0 of do_wait: any child
  MaxProcess,   \* MAX_PROCESS
  MaxSleep,     \* longest sleep a user asks for, in ticks (a model bound)
  MaxForks      \* how many do_fork calls a behaviour makes (a model bound)

ASSUME ProcAssumption ==
  /\ Idle \in Proc /\ Init1 \in Proc /\ Idle # Init1
  /\ Nobody \notin Proc /\ AnyChild \notin Proc
  /\ IsFiniteSet(Proc)
  /\ MaxProcess \in Nat /\ MaxProcess >= 2
  /\ MaxSleep \in Nat \ {0} /\ MaxForks \in Nat

User == Proc \ {Idle, Init1}

VARIABLES
  current,      \* the running process
  needResched,  \* current->need_resched (FALSE for every other process)
  runq,         \* processes linked in the run queue
  state,        \* proc->state, UNUSED when the slot is not allocated
  waitState,    \* proc->wait_state
  exiting,      \* proc->flags & PF_EXITING
  parent,       \* proc->parent
  pc,           \* where the process goes on when it runs
  waitPid,      \* the pid argument of the do_wait it is in
  alarm,        \* ticks until its timer expires, 0 when no timer is linked
  nrProcess,    \* nr_process
  forks         \* do_fork calls so far, for the bound MaxForks

vars == <<current, needResched, runq, state, waitState, exiting, parent, pc,
          waitPid, alarm, nrProcess, forks>>

States     == {"UNUSED", "SLEEPING", "RUNNABLE", "ZOMBIE"}
WaitStates == {"NONE", "WT_CHILD", "WT_TIMER"}
Points     == {"idle", "boot", "initloop", "user", "trapret", "wait", "sleep", "gone",
               "halted"}

Children(p) == {c \in Proc : parent[c] = p}
Zombies     == {p \in Proc : state[p] = "ZOMBIE"}
Allocated   == {p \in Proc : state[p] # "UNUSED"}

\* Mutant: do_wait does not compare proc->parent with current.
WaitTargetsOfOthers(p, pid) == IF pid = AnyChild THEN Children(p) ELSE {pid}

\* The children a do_wait(pid) of p looks at: all of them for pid 0, else the
\* process with that pid if it is a child of p.
WaitTargets(p, pid) ==
  IF pid = AnyChild THEN Children(p) ELSE Children(p) \cap {pid}

-----------------------------------------------------------------------------
(***************************************************************************)
(* schedule, wakeup_proc and do_exit, on the states st and the run queue   *)
(* rq their caller leaves behind.                                          *)
(***************************************************************************)

\* Mutant: schedule() enqueues current whatever its state.
RequeuedAlways(st, rq) == rq \cup ({current} \ {Idle})

\* The queue schedule() picks from: a current that is still RUNNABLE goes back
\* to it; sched_class_enqueue ignores idleproc.
Requeued(st, rq) ==
  IF st[current] = "RUNNABLE" THEN rq \cup ({current} \ {Idle}) ELSE rq

Schedule(st, rq) ==
  /\ needResched' = FALSE
  /\ \/ /\ Requeued(st, rq) = {}
        /\ current' = Idle
        /\ runq' = {}
     \/ \E next \in Requeued(st, rq) :
          /\ current' = next
          /\ runq' = Requeued(st, rq) \ {next}

\* wakeup_proc of the processes W that are not RUNNABLE yet (it only warns about
\* the others): the states, wait states and queue it leaves.
Woken(W)   == {p \in W : state[p] # "RUNNABLE"}
StateW(W)  == [p \in Proc |-> IF p \in W THEN "RUNNABLE" ELSE state[p]]
WaitStay(W) == waitState    \* mutant: wakeup_proc keeps wait_state
WaitW(W)   == [p \in Proc |-> IF p \in Woken(W) THEN "NONE" ELSE waitState[p]]
RunqW(W)   == runq \cup (Woken(W) \ {current})

\* Mutants of ExitWakes: initproc is not told of inherited zombies; the parent is
\* not told; the parent is woken whatever it waits for.
WakeParentOnly(p) == {q \in {parent[p]} : waitState[q] = "WT_CHILD"}
WakeInitOnly(p) ==
  {q \in {Init1} : waitState[q] = "WT_CHILD" /\ Children(p) \cap Zombies # {}}
WakeBlindly(p) == {q \in {parent[p]} : waitState[q] # "NONE"} \cup WakeInitOnly(p)

\* The processes the exit of p wakes: its parent if that waits for children, and
\* initproc if it does and inherits a zombie from p.
ExitWakes(p) ==
  {q \in Proc : /\ waitState[q] = "WT_CHILD"
                /\ \/ q = parent[p]
                   \/ q = Init1 /\ Children(p) \cap Zombies # {}}

\* The loop over cptr: initproc adopts the children of p.
KeepParent(p) == parent     \* mutant: children keep a dead parent
Adopted(p)    == [c \in Proc |-> IF parent[c] = p THEN Init1 ELSE parent[c]]

\* Only user processes get here: do_exit panics for idleproc and initproc.
DoExit(p) ==
  LET st == [StateW(ExitWakes(p)) EXCEPT ![p] = "ZOMBIE"]
  IN  /\ state' = st
      /\ waitState' = WaitW(ExitWakes(p))
      /\ parent' = Adopted(p)
      /\ pc' = [pc EXCEPT ![p] = "gone"]
      /\ waitPid' = [waitPid EXCEPT ![p] = AnyChild]
      /\ Schedule(st, RunqW(ExitWakes(p)))
      /\ UNCHANGED <<exiting, alarm, nrProcess, forks>>

\* do_fork refuses to go beyond MAX_PROCESS.  (The mutant is off by one.)
RoomPastLimit == nrProcess <= MaxProcess /\ forks < MaxForks
Room          == nrProcess < MaxProcess /\ forks < MaxForks

\* do_fork by p up to wakeup_proc(child): n is the slot alloc_proc returns.
DoFork(p, n) ==
  /\ Room
  /\ state[n] = "UNUSED"
  /\ state' = [state EXCEPT ![n] = "RUNNABLE"]
  /\ parent' = [parent EXCEPT ![n] = p]
  /\ runq' = runq \cup {n}
  /\ nrProcess' = nrProcess + 1
  /\ forks' = forks + 1
  /\ UNCHANGED <<current, needResched, waitState, exiting, waitPid, alarm>>

-----------------------------------------------------------------------------
(***************************************************************************)
(* do_wait(pid) of the current process p, from its label repeat: to the    *)
(* next schedule() or to its return.                                       *)
(***************************************************************************)

\* found: a zombie child is unlinked and freed.  do_wait returns 0; initproc
\* then calls schedule() in the loop of init_main.
WaitReap(p, pid) ==
  \E z \in WaitTargets(p, pid) \cap Zombies :
    LET st == [state EXCEPT ![z] = "UNUSED"]
    IN  /\ state' = st
        /\ parent' = [parent EXCEPT ![z] = Nobody]
        /\ exiting' = [exiting EXCEPT ![z] = FALSE]
        /\ nrProcess' = nrProcess - 1
        /\ pc' = [pc EXCEPT ![p] = IF p = Init1 THEN "initloop" ELSE "trapret"]
        /\ waitPid' = [waitPid EXCEPT ![p] = AnyChild]
        /\ \/ p = Init1 /\ Schedule(st, runq)
           \/ p # Init1 /\ UNCHANGED <<current, needResched, runq>>
        /\ UNCHANGED <<waitState, alarm, forks>>

\* haskid: children, no zombie among them.
WaitSleep(p, pid) ==
  LET st == [state EXCEPT ![p] = "SLEEPING"]
  IN  /\ WaitTargets(p, pid) # {}
      /\ WaitTargets(p, pid) \cap Zombies = {}
      /\ state' = st
      /\ waitState' = [waitState EXCEPT ![p] = "WT_CHILD"]
      /\ pc' = [pc EXCEPT ![p] = "wait"]
      /\ waitPid' = [waitPid EXCEPT ![p] = pid]
      /\ Schedule(st, runq)
      /\ UNCHANGED <<exiting, parent, alarm, nrProcess, forks>>

\* -E_BAD_PROC.  For initproc it ends the loop of init_main: the checks after it
\* run, init_main returns, and do_exit(initproc) stops the kernel.
WaitNoChild(p, pid) ==
  /\ WaitTargets(p, pid) = {}
  /\ pc' = [pc EXCEPT ![p] = IF p = Init1 THEN "halted" ELSE "trapret"]
  /\ waitPid' = [waitPid EXCEPT ![p] = AnyChild]
  /\ UNCHANGED <<current, needResched, runq, state, waitState, exiting, parent,
                 alarm, nrProcess, forks>>

DoWait(p, pid) == WaitReap(p, pid) \/ WaitSleep(p, pid) \/ WaitNoChild(p, pid)

-----------------------------------------------------------------------------
(***************************************************************************)
(* System calls and exceptions of the current process p in user mode.      *)
(***************************************************************************)
InUser(p) == current = p /\ p \in User /\ pc[p] = "user"

ReturnFrom(p) == pc' = [pc EXCEPT ![p] = "trapret"]

SysFork(p) ==
  /\ InUser(p)
  /\ \E n \in User : /\ DoFork(p, n)
                     /\ pc' = [pc EXCEPT ![p] = "trapret", ![n] = "user"]

SysExit(p) == InUser(p) /\ DoExit(p)

SysWait(p) == InUser(p) /\ \E pid \in User \cup {AnyChild} : DoWait(p, pid)

SysYield(p) ==
  /\ InUser(p)
  /\ needResched' = TRUE
  /\ ReturnFrom(p)
  /\ UNCHANGED <<current, runq, state, waitState, exiting, parent, waitPid,
                 alarm, nrProcess, forks>>

SysSleep(p) ==
  /\ InUser(p)
  /\ \E time \in 1..MaxSleep :
       LET st == [state EXCEPT ![p] = "SLEEPING"]
       IN  /\ state' = st
           /\ waitState' = [waitState EXCEPT ![p] = "WT_TIMER"]
           /\ alarm' = [alarm EXCEPT ![p] = time]
           /\ pc' = [pc EXCEPT ![p] = "sleep"]
           /\ Schedule(st, runq)
  /\ UNCHANGED <<exiting, parent, waitPid, nrProcess, forks>>

\* do_kill of a process not killed before, itself included: every wait state of
\* this model has the bit WT_INTERRUPTED.  kill(1) ends in the panic of
\* do_exit(initproc) and is left out.
SysKill(p) ==
  /\ InUser(p)
  /\ \E t \in User :
       LET W == IF waitState[t] # "NONE" THEN {t} ELSE {}
       IN  /\ state[t] # "UNUSED"
           /\ ~exiting[t]
           /\ exiting' = [exiting EXCEPT ![t] = TRUE]
           /\ state' = StateW(W)
           /\ waitState' = WaitW(W)
           /\ runq' = RunqW(W)
  /\ ReturnFrom(p)
  /\ UNCHANGED <<current, needResched, parent, waitPid, alarm, nrProcess, forks>>

\* Every trap that leaves all of this state alone: other system calls, a page
\* fault that is served, a failing fork, wait or kill, sleep(0).
SysOther(p) ==
  /\ InUser(p)
  /\ ReturnFrom(p)
  /\ UNCHANGED <<current, needResched, runq, state, waitState, exiting, parent,
                 waitPid, alarm, nrProcess, forks>>

-----------------------------------------------------------------------------
(***************************************************************************)
(* Going on inside the kernel.                                             *)
(***************************************************************************)


\* The tail of trap() for a trap from user mode.  After schedule() comes back the
\* process returns to user mode without another look at PF_EXITING.
TrapReturn(p) ==
  /\ current = p /\ p \in User /\ pc[p] = "trapret"
  /\ \/ exiting[p] /\ DoExit(p)
     \/ /\ ~exiting[p]
        /\ pc' = [pc EXCEPT ![p] = "user"]
        /\ \/ needResched /\ Schedule(state, runq)
           \/ ~needResched /\ UNCHANGED <<current, needResched, runq>>
        /\ UNCHANGED <<state, waitState, exiting, parent, waitPid, alarm,
                       nrProcess, forks>>

\* do_wait after its schedule().
WaitResume(p) ==
  /\ current = p /\ p \in User /\ pc[p] = "wait"
  /\ \/ exiting[p] /\ DoExit(p)
     \/ ~exiting[p] /\ DoWait(p, waitPid[p])

\* del_timer.  (The mutant forgets it.)
LeftLinked(p) == alarm
DelTimer(p)   == [alarm EXCEPT ![p] = 0]

\* do_sleep after its schedule(): del_timer, which does nothing when the timer
\* has expired.
SleepResume(p) ==
  /\ current = p /\ p \in User /\ pc[p] = "sleep"
  /\ alarm' = DelTimer(p)
  /\ ReturnFrom(p)
  /\ UNCHANGED <<current, needResched, runq, state, waitState, exiting, parent,
                 waitPid, nrProcess, forks>>

\* init_main: create user_main, then do_wait(0) until there is no child left.
InitMain ==
  /\ current = Init1 /\ pc[Init1] = "boot"
  /\ \E n \in User : /\ DoFork(Init1, n)
                     /\ pc' = [pc EXCEPT ![Init1] = "initloop", ![n] = "user"]

InitLoop ==
  /\ current = Init1 /\ pc[Init1] \in {"initloop", "wait"}
  /\ DoWait(Init1, AnyChild)

\* cpu_idle
IdleSchedule ==
  /\ current = Idle /\ needResched
  /\ Schedule(state, runq)
  /\ UNCHANGED <<state, waitState, exiting, parent, pc, waitPid, alarm,
                 nrProcess, forks>>

-----------------------------------------------------------------------------
(***************************************************************************)
(* The clock interrupt: run_timer_list, then proc_tick of the current      *)
(* process, whose time slice may be used up (sliceOver).                   *)
(***************************************************************************)
Interruptible ==
  \/ pc[current] \in {"user", "idle"}
  \/ current = Init1 /\ pc[Init1] # "halted"

Expired == {p \in Proc : alarm[p] = 1}

\* One tick off every linked timer.  (The mutant runs over the others too.)
CountdownAll == [p \in Proc |-> alarm[p] - 1]
Countdown    == [p \in Proc |-> IF alarm[p] = 0 THEN 0 ELSE alarm[p] - 1]

Tick(sliceOver) ==
  /\ Interruptible
  /\ alarm' = Countdown
  /\ state' = StateW(Expired)
  /\ waitState' = WaitW(Expired)
  /\ runq' = RunqW(Expired)
  /\ needResched' = (needResched \/ sliceOver \/ current = Idle)
  /\ pc' = [pc EXCEPT ![current] = IF @ = "user" THEN "trapret" ELSE @]
  /\ UNCHANGED <<current, exiting, parent, waitPid, nrProcess, forks>>

\* The kernel has stopped in panic("initproc exit.\n").
Halted == pc[Init1] = "halted" /\ UNCHANGED vars

-----------------------------------------------------------------------------
\* After proc_init: idleproc runs, initproc is queued.
Init ==
  /\ current = Idle
  /\ needResched = TRUE
  /\ runq = {Init1}
  /\ state = [p \in Proc |-> IF p \in User THEN "UNUSED" ELSE "RUNNABLE"]
  /\ waitState = [p \in Proc |-> "NONE"]
  /\ exiting = [p \in Proc |-> FALSE]
  /\ parent = [p \in Proc |-> IF p = Init1 THEN Idle ELSE Nobody]
  /\ pc = [p \in Proc |-> IF p = Idle THEN "idle"
                          ELSE IF p = Init1 THEN "boot" ELSE "gone"]
  /\ waitPid = [p \in Proc |-> AnyChild]
  /\ alarm = [p \in Proc |-> 0]
  /\ nrProcess = 2
  /\ forks = 0

UserStep(p) == \/ SysFork(p) \/ SysExit(p) \/ SysWait(p) \/ SysYield(p)
               \/ SysSleep(p) \/ SysKill(p) \/ SysOther(p)

KernelStep(p) == TrapReturn(p) \/ WaitResume(p) \/ SleepResume(p)

Next ==
  \/ \E p \in User : UserStep(p) \/ KernelStep(p)
  \/ InitMain \/ InitLoop \/ IdleSchedule
  \/ \E sliceOver \in BOOLEAN : Tick(sliceOver)
  \/ Halted

Spec == Init /\ [][Next]_vars

(***************************************************************************)
(* Fairness.  The CPU runs: a kernel step that is due is taken, clock      *)
(* interrupts keep coming and use up the slice of a process that stays in  *)
(* user mode (proc_tick: at most MAX_TIME_SLICE ticks).  A queued process  *)
(* is picked in the end: module Stride checks this of the scheduling class *)
(* for a set of processes that stops growing, which MaxForks provides.     *)
(* Nothing is assumed about what a user process calls.                     *)
(***************************************************************************)
Pick(p) == Next /\ p \in runq /\ current' = p

Fairness ==
  /\ WF_vars(\E p \in User : KernelStep(p))
  /\ WF_vars(InitMain \/ InitLoop)
  /\ WF_vars(IdleSchedule)
  /\ SF_vars(Tick(TRUE))
  /\ \A p \in Proc \ {Idle} : SF_vars(Pick(p))

FairSpec == Spec /\ Fairness

-----------------------------------------------------------------------------
(***************************************************************************)
(* Properties.                                                             *)
(***************************************************************************)

TypeOK ==
  /\ current \in Proc
  /\ needResched \in BOOLEAN
  /\ runq \in SUBSET Proc
  /\ state \in [Proc -> States]
  /\ waitState \in [Proc -> WaitStates]
  /\ exiting \in [Proc -> BOOLEAN]
  /\ parent \in [Proc -> Proc \cup {Nobody}]
  /\ pc \in [Proc -> Points]
  /\ waitPid \in [Proc -> User \cup {AnyChild}]
  /\ alarm \in [Proc -> 0..MaxSleep]
  /\ nrProcess \in Nat
  /\ forks \in 0..MaxForks

\* The run queue holds the runnable processes and no other: nothing that can run
\* is forgotten, nothing dead, asleep or already running is picked.  idleproc and
\* current are never linked (wakeup_proc, schedule and sched_class_enqueue).
RunqueueExact ==
  runq = {p \in Proc \ {Idle, current} : state[p] = "RUNNABLE"}

\* The process on the CPU is runnable and waits for nothing, which do_fork
\* asserts of its caller (proc.c:502); a process sleeps exactly when it has a
\* reason to be woken, so wakeup_proc is never called on a zombie (sched.c:60).
SleepHasReason ==
  /\ state[current] = "RUNNABLE"
  /\ \A p \in Proc : waitState[p] # "NONE" <=> state[p] = "SLEEPING"

\* A parent asleep in do_wait has a child to wait for, and none of the children
\* it waits for is a zombie: do_exit woke it, or handed the zombie to initproc and
\* woke that.  A zombie nobody is told of would stay for ever.
NoLostWakeup ==
  \A p \in Proc : waitState[p] = "WT_CHILD" =>
    /\ WaitTargets(p, waitPid[p]) # {}
    /\ WaitTargets(p, waitPid[p]) \cap Zombies = {}

\* A timer is linked only while its owner is inside do_sleep, on whose stack it
\* lies, and a process asleep for time has a timer that will wake it.
TimersLive ==
  \A p \in Proc : /\ alarm[p] # 0 => pc[p] = "sleep" /\ state[p] \in {"SLEEPING", "RUNNABLE"}
                  /\ waitState[p] = "WT_TIMER" => alarm[p] # 0

\* proc->parent never dangles: the parent of every allocated user process is
\* itself alive, because do_exit hands its children to initproc.
LiveParents ==
  \A p \in User :
    IF state[p] = "UNUSED" THEN parent[p] = Nobody
    ELSE /\ parent[p] \in User \cup {Init1}
         /\ parent[p] # p
         /\ state[parent[p]] \in {"SLEEPING", "RUNNABLE"}

\* nr_process counts the allocated processes and never passes MAX_PROCESS.
NrProcessExact ==
  /\ nrProcess = Cardinality(Allocated)
  /\ nrProcess <= MaxProcess

\* When initproc leaves its loop nothing is left of any user process: the
\* assertions of init_main (proc.c:1068-1071).
ShutdownClean ==
  pc[Init1] = "halted" => nrProcess = 2 /\ Allocated = {Idle, Init1}

\* A zombie stays one until its parent, running do_wait, frees it.
ReapedByParent ==
  \A p \in Proc : state[p] = "ZOMBIE" /\ state'[p] # "ZOMBIE" =>
    /\ state'[p] = "UNUSED"
    /\ current = parent[p]
    /\ pc[current] \in {"user", "wait", "initloop"}

OnlyParentReaps == [][ReapedByParent]_vars

\* No wakeup without its event: a sleeper runs again because it was killed, its
\* timer expired, or it now has a zombie child.
WokenForCause ==
  \A p \in Proc : state[p] = "SLEEPING" /\ state'[p] = "RUNNABLE" =>
    \/ exiting'[p] /\ ~exiting[p]
    \/ waitState[p] = "WT_TIMER" /\ alarm[p] = 1 /\ alarm'[p] = 0
    \/ waitState[p] = "WT_CHILD"
         /\ \E c \in Proc : parent'[c] = p /\ state'[c] = "ZOMBIE"

WakeupHasCause == [][WokenForCause]_vars

Clock == INSTANCE AlarmClock
  WITH Timer <- User, MaxTime <- MaxSleep,
       clock <- [p \in User |-> IF pc[p] = "sleep" THEN alarm[p] ELSE -1]

\* Processes use the timers as AlarmClock offers them: nothing that happens to a
\* sleeper, a kill included, moves the tick at which its timer rings.
UsesClock == Clock!Spec



\* Once initproc runs its loop and every user process is dead, the kernel shuts
\* down.
ShutsDown ==
  (pc[Init1] # "boot" /\ \A p \in User : state[p] \in {"UNUSED", "ZOMBIE"})
    ~> pc[Init1] = "halted"

\* proc.c:978 says of do_kill "kill process with pid": a process that was killed
\* is dead in the end.  False of the code: see the README.
KillKills ==
  \A p \in User : exiting[p] ~> state[p] \in {"ZOMBIE", "UNUSED"}
=============================================================================
