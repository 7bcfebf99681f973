--------------------------- MODULE ProcessProofs ---------------------------
(***************************************************************************)
(* Machine-checked proofs about modules Process and ProcTree, for every    *)
(* set of process slots and every bound.  Safety is not inductive one by   *)
(* one: that nobody misses a wakeup depends on the process tree, the tree  *)
(* on which processes are alive, and all of them on where each process     *)
(* stands in the kernel.  IInv is the conjunction that is inductive.       *)
(***************************************************************************)
EXTENDS ProcTree, FiniteSetTheorems, NaturalsInduction, WellFoundedInduction, TLAPS

\* Where a process can stand, given its state: the strengthening of IInv.
Positions ==
  /\ pc[Idle] = "idle" /\ state[Idle] = "RUNNABLE" /\ parent[Idle] = Nobody
  /\ pc[Init1] \in {"boot", "initloop", "wait", "halted"}
  /\ state[Init1] \in {"SLEEPING", "RUNNABLE"}
  /\ parent[Init1] = Idle
  /\ waitPid[Init1] = AnyChild
  /\ waitState[Init1] # "WT_TIMER"
  /\ \A p \in User :
       /\ pc[p] \in {"user", "trapret", "wait", "sleep", "gone"}
       /\ pc[p] = "gone" <=> state[p] \in {"UNUSED", "ZOMBIE"}
       /\ pc[p] = "trapret" => current = p
  /\ \A p \in Proc :
       /\ waitState[p] = "WT_CHILD" => pc[p] = "wait"
       /\ waitState[p] = "WT_TIMER" => pc[p] = "sleep"

IInv == /\ TypeOK
        /\ RunqueueExact
        /\ SleepHasReason
        /\ NoLostWakeup
        /\ TimersLive
        /\ LiveParents
        /\ NrProcessExact
        /\ Positions

-----------------------------------------------------------------------------
(***************************************************************************)
(* The helpers.                                                            *)
(***************************************************************************)

\* The run queue of a state function: what RunqueueExact requires of it.
Queued(st, cur) == {p \in Proc \ {Idle, cur} : st[p] = "RUNNABLE"}

\* schedule() leaves the queue exact for the process it picks, and that process
\* is runnable, whether or not current can go on (sched.c:78-100).
LEMMA ScheduleExact ==
  ASSUME NEW st \in [Proc -> States], NEW rq, current \in Proc,
         st[Idle] = "RUNNABLE", rq = Queued(st, current), Schedule(st, rq)
  PROVE  /\ current' \in Proc
         /\ st[current'] = "RUNNABLE"
         /\ runq' = Queued(st, current')
         /\ needResched' = FALSE
<1>1. Requeued(st, rq) = {p \in Proc \ {Idle} : st[p] = "RUNNABLE"}
  BY ProcAssumption DEF Requeued, Queued
<1>2. CASE Requeued(st, rq) = {} /\ current' = Idle /\ runq' = {}
  BY <1>1, <1>2, ProcAssumption DEF Queued, Schedule
<1>3. CASE \E next \in Requeued(st, rq) :
             current' = next /\ runq' = Requeued(st, rq) \ {next}
  BY <1>1, <1>3 DEF Queued, Schedule
<1> QED BY <1>2, <1>3 DEF Schedule

\* wakeup_proc keeps the queue exact (sched.c:58-76).
LEMMA WakeExact ==
  ASSUME NEW W \in SUBSET Proc, state \in [Proc -> States],
         state[Idle] = "RUNNABLE", runq = Queued(state, current)
  PROVE  /\ StateW(W) \in [Proc -> States]
         /\ StateW(W)[Idle] = "RUNNABLE"
         /\ RunqW(W) = Queued(StateW(W), current)
BY ProcAssumption DEF StateW, RunqW, Woken, Queued, States

-----------------------------------------------------------------------------
(***************************************************************************)
(* Each action preserves IInv.                                             *)
(***************************************************************************)

\* The count of processes when a step allocates no slot and frees none.
LEMMA SameCount ==
  ASSUME NrProcessExact, Allocated' = Allocated, nrProcess' = nrProcess
  PROVE  NrProcessExact'
BY DEF NrProcessExact

LEMMA InitOK == Init => IInv
<1> SUFFICES ASSUME Init PROVE IInv
  OBVIOUS
<1> USE ProcAssumption
<1>1. /\ TypeOK /\ RunqueueExact /\ SleepHasReason /\ NoLostWakeup /\ TimersLive
      /\ LiveParents /\ Positions
  BY DEF Init, TypeOK, RunqueueExact, SleepHasReason, NoLostWakeup, TimersLive,
         LiveParents, Positions, User, States, WaitStates, Points, Children, Zombies
<1>2. NrProcessExact
  <2>1. Allocated = {Idle} \cup {Init1}
    BY DEF Init, Allocated, User
  <2>2. Cardinality({Idle}) = 1 /\ IsFiniteSet({Idle})
    BY FS_Singleton
  <2>3. Cardinality({Idle} \cup {Init1}) = 2
    BY <2>2, FS_AddElement
  <2> QED BY <2>1, <2>3 DEF Init, NrProcessExact
<1> QED BY <1>1, <1>2 DEF IInv

\* do_exit: the children go to initproc, and whoever waits for the new zombie or
\* inherits one is awake afterwards.
LEMMA ExitStep ==
  ASSUME IInv, NEW p \in User, current = p, pc[p] # "sleep", DoExit(p)
  PROVE  IInv'
<1> DEFINE W  == ExitWakes(p)
           st == [StateW(W) EXCEPT ![p] = "ZOMBIE"]
<1> USE ProcAssumption DEF User
<1>1. /\ W \in SUBSET Proc
      /\ p \notin W
      /\ \A q \in W : state[q] = "SLEEPING"
  BY DEF ExitWakes, IInv, SleepHasReason
<1>2. /\ st \in [Proc -> States]
      /\ st[Idle] = "RUNNABLE"
      /\ RunqW(W) = Queued(st, current)
  BY <1>1, WakeExact DEF IInv, TypeOK, RunqueueExact, Positions, Queued, States
<1>3. /\ state' = st
      /\ waitState' = [q \in Proc |-> IF q \in W THEN "NONE" ELSE waitState[q]]
      /\ parent' = Adopted(p)
      /\ pc' = [pc EXCEPT ![p] = "gone"]
      /\ waitPid' = [waitPid EXCEPT ![p] = AnyChild]
      /\ UNCHANGED <<exiting, alarm, nrProcess, forks>>
      /\ Schedule(st, RunqW(W))
  BY <1>1 DEF DoExit, WaitW, Woken
<1>4. /\ current' \in Proc
      /\ st[current'] = "RUNNABLE"
      /\ runq' = Queued(st, current')
      /\ needResched' = FALSE
  BY <1>2, <1>3, ScheduleExact DEF IInv, TypeOK
<1>5. TypeOK'
  BY <1>2, <1>3, <1>4 DEF IInv, TypeOK, Adopted, Queued, WaitStates, Points
<1>6. RunqueueExact'
  BY <1>3, <1>4 DEF RunqueueExact, Queued
<1>7. SleepHasReason'
  BY <1>1, <1>3, <1>4 DEF IInv, TypeOK, SleepHasReason, StateW
<1>8. NoLostWakeup'
  <2> SUFFICES ASSUME NEW q \in Proc, waitState'[q] = "WT_CHILD"
               PROVE  /\ WaitTargets(q, waitPid[q])' # {}
                      /\ (WaitTargets(q, waitPid[q]) \cap Zombies)' = {}
    BY DEF NoLostWakeup
  <2>1. /\ waitState[q] = "WT_CHILD" /\ q \notin W /\ q # p /\ q # parent[p]
        /\ waitPid'[q] = waitPid[q]
        /\ WaitTargets(q, waitPid[q]) # {}
        /\ WaitTargets(q, waitPid[q]) \cap Zombies = {}
    BY <1>1, <1>3 DEF IInv, TypeOK, NoLostWakeup, SleepHasReason, ExitWakes
  <2>2. Zombies' = Zombies \cup {p}
    BY <1>1, <1>3 DEF Zombies, StateW, IInv, TypeOK
  <2>3. Children(q)' = IF q = Init1 THEN Children(q) \cup Children(p) ELSE Children(q)
    BY <1>3, <2>1 DEF Children, Adopted, IInv, TypeOK
  <2>4. p \notin Children(q)
    BY <2>1 DEF Children
  <2>5. q = Init1 => Children(p) \cap Zombies = {} /\ p \notin Children(p)
    BY <2>1 DEF ExitWakes, Children, IInv, LiveParents, SleepHasReason
  <2> QED BY <2>1, <2>2, <2>3, <2>4, <2>5 DEF WaitTargets, IInv, Positions
<1>9. TimersLive'
  <2> SUFFICES ASSUME NEW q \in Proc
               PROVE  /\ alarm[q] # 0 => pc'[q] = "sleep" /\ state'[q] \in {"SLEEPING", "RUNNABLE"}
                      /\ waitState'[q] = "WT_TIMER" => alarm[q] # 0
    BY <1>3 DEF TimersLive
  <2>1. alarm[p] = 0
    BY DEF IInv, TimersLive
  <2> QED BY <2>1, <1>1, <1>3 DEF IInv, TypeOK, TimersLive, StateW
<1>10. LiveParents'
  <2> SUFFICES ASSUME NEW c \in User
               PROVE  IF state'[c] = "UNUSED" THEN parent'[c] = Nobody
                      ELSE /\ parent'[c] \in User \cup {Init1}
                           /\ parent'[c] # c
                           /\ state'[parent'[c]] \in {"SLEEPING", "RUNNABLE"}
    BY DEF LiveParents
  <2>1. /\ state[p] = "RUNNABLE"
        /\ state'[c] = "UNUSED" <=> state[c] = "UNUSED"
        /\ parent'[c] = IF parent[c] = p THEN Init1 ELSE parent[c]
    BY <1>1, <1>3 DEF IInv, TypeOK, StateW, Adopted, SleepHasReason
  <2>2. ASSUME NEW q \in Proc, q # p, state[q] \in {"SLEEPING", "RUNNABLE"}
        PROVE  state'[q] \in {"SLEEPING", "RUNNABLE"}
    BY <2>2, <1>3 DEF IInv, TypeOK, StateW
  <2>3. CASE state[c] = "UNUSED"
    BY <2>1, <2>3 DEF IInv, LiveParents
  <2>4. CASE state[c] # "UNUSED" /\ parent[c] = p
    BY <2>1, <2>2, <2>4 DEF IInv, LiveParents, Positions
  <2>5. CASE state[c] # "UNUSED" /\ parent[c] # p
    BY <2>1, <2>2, <2>5 DEF IInv, LiveParents
  <2> QED BY <2>3, <2>4, <2>5
<1>11. Positions'
  <2>1. /\ (pc[Idle] = "idle" /\ state[Idle] = "RUNNABLE" /\ parent[Idle] = Nobody)'
        /\ (pc[Init1] \in {"boot", "initloop", "wait", "halted"})'
        /\ (state[Init1] \in {"SLEEPING", "RUNNABLE"})'
        /\ (parent[Init1] = Idle)'
        /\ (waitPid[Init1] = AnyChild)'
        /\ (waitState[Init1] # "WT_TIMER")'
    BY <1>1, <1>3 DEF IInv, TypeOK, Positions, Adopted, StateW
  <2>2. ASSUME NEW q \in User
        PROVE  /\ (pc[q] \in {"user", "trapret", "wait", "sleep", "gone"})'
               /\ (pc[q] = "gone" <=> state[q] \in {"UNUSED", "ZOMBIE"})'
               /\ (pc[q] = "trapret" => current = q)'
    BY <1>1, <1>3 DEF IInv, TypeOK, Positions, StateW
  <2>3. ASSUME NEW q \in Proc
        PROVE  /\ (waitState[q] = "WT_CHILD" => pc[q] = "wait")'
               /\ (waitState[q] = "WT_TIMER" => pc[q] = "sleep")'
    BY <1>1, <1>3 DEF IInv, TypeOK, Positions, SleepHasReason
  <2> QED BY <2>1, <2>2, <2>3 DEF Positions
<1>12. NrProcessExact'
  BY <1>1, <1>3, SameCount DEF Allocated, StateW, IInv, TypeOK, SleepHasReason
<1> QED BY <1>5, <1>6, <1>7, <1>8, <1>9, <1>10, <1>11, <1>12 DEF IInv

\* do_wait frees a zombie child of the current process p.
LEMMA WaitReapStep ==
  ASSUME IInv, NEW p \in User \cup {Init1}, NEW pid, current = p,
         pc[p] \in {"user", "wait", "initloop"}, WaitReap(p, pid)
  PROVE  IInv'
<1> USE ProcAssumption DEF User
<1> PICK z \in WaitTargets(p, pid) \cap Zombies :
      LET st == [state EXCEPT ![z] = "UNUSED"]
      IN  /\ state' = st
          /\ parent' = [parent EXCEPT ![z] = Nobody]
          /\ exiting' = [exiting EXCEPT ![z] = FALSE]
          /\ nrProcess' = nrProcess - 1
          /\ pc' = [pc EXCEPT ![p] = IF p = Init1 THEN "initloop" ELSE "trapret"]
          /\ waitPid' = [waitPid EXCEPT ![p] = AnyChild]
          /\ \/ p = Init1 /\ Schedule(st, runq)
             \/ p # Init1 /\ UNCHANGED <<current, needResched, runq>>
          /\ UNCHANGED <<waitState, alarm, forks>>
  BY DEF WaitReap
<1> DEFINE st == [state EXCEPT ![z] = "UNUSED"]
<1>1. /\ z \in User /\ z # p /\ parent[z] = p /\ state[z] = "ZOMBIE"
      /\ \A c \in Proc : parent[c] # z
      /\ waitState[p] = "NONE" /\ state[p] = "RUNNABLE"
  BY DEF WaitTargets, Children, Zombies, IInv, TypeOK, Positions, LiveParents,
         SleepHasReason
<1>2. /\ st \in [Proc -> States]
      /\ st[Idle] = "RUNNABLE"
      /\ runq = Queued(st, current)
  BY <1>1 DEF IInv, TypeOK, RunqueueExact, Positions, Queued, States
<1>3. /\ current' \in Proc
      /\ st[current'] = "RUNNABLE"
      /\ runq' = Queued(st, current')
      /\ needResched' \in BOOLEAN
      /\ p # Init1 => current' = p
  <2>1. CASE p = Init1 /\ Schedule(st, runq)
    BY <1>2, <2>1, ScheduleExact DEF IInv, TypeOK
  <2>2. CASE p # Init1 /\ UNCHANGED <<current, needResched, runq>>
    BY <1>1, <1>2, <2>2 DEF IInv, TypeOK
  <2> QED BY <2>1, <2>2
<1>4. nrProcess - 1 \in Nat /\ NrProcessExact'
  <2>1. Allocated' = Allocated \ {z} /\ z \in Allocated
    BY <1>1 DEF Allocated, IInv, TypeOK
  <2>2. IsFiniteSet(Allocated)
    BY FS_Subset DEF Allocated
  <2>3. Cardinality(Allocated) \in Nat /\ Cardinality(Allocated') = Cardinality(Allocated) - 1
        /\ Cardinality(Allocated') \in Nat
    BY <2>1, <2>2, FS_RemoveElement, FS_CardinalityType
  <2> QED BY <2>3 DEF IInv, NrProcessExact
<1>5. TypeOK'
  BY <1>1, <1>2, <1>3, <1>4 DEF IInv, TypeOK, Queued, Points
<1>6. RunqueueExact'
  BY <1>3 DEF RunqueueExact, Queued
<1>7. SleepHasReason'
  BY <1>1, <1>3 DEF IInv, TypeOK, SleepHasReason
<1>8. NoLostWakeup'
  <2> SUFFICES ASSUME NEW q \in Proc, waitState'[q] = "WT_CHILD"
               PROVE  /\ WaitTargets(q, waitPid[q])' # {}
                      /\ (WaitTargets(q, waitPid[q]) \cap Zombies)' = {}
    BY DEF NoLostWakeup
  <2>1. q # p /\ waitPid'[q] = waitPid[q] /\ WaitTargets(q, waitPid[q]) # {}
        /\ WaitTargets(q, waitPid[q]) \cap Zombies = {}
    BY <1>1 DEF IInv, TypeOK, NoLostWakeup
  <2>2. Zombies' \subseteq Zombies
    BY DEF Zombies, IInv, TypeOK
  <2>3. Children(q)' = Children(q)
    BY <1>1, <2>1 DEF Children, IInv, TypeOK
  <2> QED BY <2>1, <2>2, <2>3 DEF WaitTargets
<1>9. TimersLive'
  <2>1. alarm[z] = 0 /\ alarm[p] = 0
    BY <1>1 DEF IInv, TimersLive, TypeOK
  <2> QED BY <2>1 DEF IInv, TypeOK, TimersLive
<1>10. LiveParents'
  BY <1>1 DEF IInv, TypeOK, LiveParents
<1>11. Positions'
  BY <1>1, <1>3 DEF IInv, TypeOK, Positions
<1> QED BY <1>4, <1>5, <1>6, <1>7, <1>8, <1>9, <1>10, <1>11 DEF IInv

\* do_wait goes to sleep: its guard is what NoLostWakeup says of the new sleeper.
LEMMA WaitSleepStep ==
  ASSUME IInv, NEW p \in User \cup {Init1}, NEW pid \in User \cup {AnyChild},
         p = Init1 => pid = AnyChild,
         current = p, pc[p] \in {"user", "wait", "initloop"}, WaitSleep(p, pid)
  PROVE  IInv'
<1> USE ProcAssumption DEF User
<1> DEFINE st == [state EXCEPT ![p] = "SLEEPING"]
<1>1. /\ state' = st
      /\ waitState' = [waitState EXCEPT ![p] = "WT_CHILD"]
      /\ pc' = [pc EXCEPT ![p] = "wait"]
      /\ waitPid' = [waitPid EXCEPT ![p] = pid]
      /\ UNCHANGED <<exiting, parent, alarm, nrProcess, forks>>
      /\ WaitTargets(p, pid) # {} /\ WaitTargets(p, pid) \cap Zombies = {}
      /\ state[p] = "RUNNABLE"
  BY DEF WaitSleep, IInv, SleepHasReason
<1>2. /\ st \in [Proc -> States]
      /\ st[Idle] = "RUNNABLE"
      /\ runq = Queued(st, current)
  BY DEF IInv, TypeOK, RunqueueExact, Positions, Queued, States
<1>3. /\ current' \in Proc
      /\ st[current'] = "RUNNABLE"
      /\ runq' = Queued(st, current')
      /\ needResched' = FALSE
  BY <1>2, ScheduleExact DEF WaitSleep, IInv, TypeOK
<1>4. NrProcessExact'
  BY <1>1, SameCount DEF Allocated, IInv, TypeOK
<1>5. TypeOK'
  BY <1>1, <1>2, <1>3 DEF IInv, TypeOK, Queued, Points, WaitStates
<1>6. RunqueueExact'
  BY <1>1, <1>3 DEF RunqueueExact, Queued
<1>7. SleepHasReason'
  BY <1>1, <1>3 DEF IInv, TypeOK, SleepHasReason
<1>8. NoLostWakeup'
  <2>1. Zombies' = Zombies /\ \A q : Children(q)' = Children(q)
    BY <1>1 DEF Zombies, Children, IInv, TypeOK
  <2> QED BY <1>1, <2>1 DEF WaitTargets, NoLostWakeup, IInv, TypeOK
<1>9. TimersLive'
  BY <1>1 DEF IInv, TypeOK, TimersLive
<1>10. LiveParents'
  BY <1>1 DEF IInv, TypeOK, LiveParents
<1>11. Positions'
  BY <1>1, <1>3 DEF IInv, TypeOK, Positions
<1> QED BY <1>4, <1>5, <1>6, <1>7, <1>8, <1>9, <1>10, <1>11 DEF IInv

\* do_wait without a child to wait for: only the position changes.
LEMMA WaitNoChildStep ==
  ASSUME IInv, NEW p \in User \cup {Init1}, NEW pid, current = p,
         pc[p] \in {"user", "wait", "initloop"}, WaitNoChild(p, pid)
  PROVE  IInv'
<1> USE ProcAssumption DEF User, WaitNoChild
<1>1. waitState[p] = "NONE" /\ state[p] = "RUNNABLE" /\ alarm[p] = 0
  BY DEF IInv, TypeOK, SleepHasReason, TimersLive
<1>2. TypeOK'
  BY DEF IInv, TypeOK, Points
<1>3. RunqueueExact' /\ SleepHasReason' /\ LiveParents'
  BY DEF IInv, RunqueueExact, SleepHasReason, LiveParents
<1>4. NrProcessExact'
  BY SameCount DEF Allocated, IInv
<1>5. NoLostWakeup'
  BY <1>1 DEF IInv, TypeOK, NoLostWakeup, WaitTargets, Children, Zombies
<1>6. TimersLive'
  BY <1>1 DEF IInv, TypeOK, TimersLive
<1>7. Positions'
  BY <1>1 DEF IInv, TypeOK, Positions
<1> QED BY <1>2, <1>3, <1>4, <1>5, <1>6, <1>7 DEF IInv

LEMMA WaitStep ==
  ASSUME IInv, NEW p \in User \cup {Init1}, NEW pid \in User \cup {AnyChild},
         p = Init1 => pid = AnyChild,
         current = p, pc[p] \in {"user", "wait", "initloop"}, DoWait(p, pid)
  PROVE  IInv'
BY WaitReapStep, WaitSleepStep, WaitNoChildStep DEF DoWait

\* do_fork: the new process is runnable, queued, and the child of a live process.
LEMMA ForkStep ==
  ASSUME IInv, NEW p \in User \cup {Init1}, NEW n \in User, current = p,
         pc[p] \in {"user", "boot"}, DoFork(p, n),
         pc' = [pc EXCEPT ![p] = IF p = Init1 THEN "initloop" ELSE "trapret", ![n] = "user"]
  PROVE  IInv'
<1> USE ProcAssumption DEF User
<1>1. /\ state[n] = "UNUSED" /\ n # p /\ parent[n] = Nobody /\ alarm[n] = 0
      /\ waitState[n] = "NONE" /\ waitState[p] = "NONE" /\ state[p] = "RUNNABLE"
      /\ \A c \in Proc : parent[c] # n
      /\ nrProcess < MaxProcess /\ forks < MaxForks
      /\ state' = [state EXCEPT ![n] = "RUNNABLE"]
      /\ parent' = [parent EXCEPT ![n] = p]
      /\ runq' = runq \cup {n}
      /\ nrProcess' = nrProcess + 1
      /\ forks' = forks + 1
      /\ UNCHANGED <<current, needResched, waitState, exiting, waitPid, alarm>>
  BY DEF DoFork, Room, IInv, TypeOK, Positions, LiveParents, SleepHasReason, TimersLive
<1>2. TypeOK'
  BY <1>1 DEF IInv, TypeOK, States, Points
<1>3. RunqueueExact'
  BY <1>1 DEF IInv, TypeOK, RunqueueExact
<1>4. SleepHasReason'
  BY <1>1 DEF IInv, TypeOK, SleepHasReason
<1>5. NoLostWakeup'
  <2>1. Zombies' = Zombies
    BY <1>1 DEF Zombies, IInv, TypeOK
  <2>2. \A q \in Proc \ {p} : Children(q)' = Children(q)
    BY <1>1 DEF Children, IInv, TypeOK
  <2> QED BY <1>1, <2>1, <2>2 DEF IInv, NoLostWakeup, WaitTargets
<1>6. TimersLive'
  BY <1>1 DEF IInv, TypeOK, TimersLive
<1>7. LiveParents'
  BY <1>1 DEF IInv, TypeOK, LiveParents
<1>8. NrProcessExact'
  <2>1. Allocated' = Allocated \cup {n} /\ n \notin Allocated
    BY <1>1 DEF Allocated, IInv, TypeOK
  <2>2. IsFiniteSet(Allocated)
    BY FS_Subset DEF Allocated
  <2>3. Cardinality(Allocated') = Cardinality(Allocated) + 1
    BY <2>1, <2>2, FS_AddElement
  <2> QED BY <1>1, <2>3 DEF IInv, TypeOK, NrProcessExact
<1>9. Positions'
  BY <1>1 DEF IInv, TypeOK, Positions
<1> QED BY <1>2, <1>3, <1>4, <1>5, <1>6, <1>7, <1>8, <1>9 DEF IInv

\* A step of the current process that moves only its position (to p2), and maybe
\* need_resched.
LEMMA MoveStep ==
  ASSUME IInv, NEW p \in User, NEW p2 \in {"user", "trapret"}, current = p,
         pc[p] \in {"user", "trapret"},
         pc' = [pc EXCEPT ![p] = p2], needResched' \in BOOLEAN,
         UNCHANGED <<current, runq, state, waitState, exiting, parent, waitPid, alarm,
                     nrProcess, forks>>
  PROVE  IInv'
<1> USE ProcAssumption DEF User
<1>1. waitState[p] = "NONE" /\ state[p] = "RUNNABLE" /\ alarm[p] = 0
  BY DEF IInv, TypeOK, SleepHasReason, TimersLive
<1>2. TypeOK'
  BY DEF IInv, TypeOK, Points
<1>3. RunqueueExact' /\ SleepHasReason' /\ LiveParents'
  BY DEF IInv, RunqueueExact, SleepHasReason, LiveParents
<1>4. NrProcessExact'
  BY SameCount DEF Allocated, IInv
<1>5. NoLostWakeup'
  BY <1>1 DEF IInv, TypeOK, NoLostWakeup, WaitTargets, Children, Zombies
<1>6. TimersLive'
  BY <1>1 DEF IInv, TypeOK, TimersLive
<1>7. Positions'
  BY <1>1 DEF IInv, TypeOK, Positions
<1> QED BY <1>2, <1>3, <1>4, <1>5, <1>6, <1>7 DEF IInv

\* do_sleep: the timer and the reason to sleep come together.
LEMMA SleepStep ==
  ASSUME IInv, NEW p \in User, SysSleep(p)
  PROVE  IInv'
<1> USE ProcAssumption DEF User
<1> DEFINE st == [state EXCEPT ![p] = "SLEEPING"]
<1>1. PICK time \in 1..MaxSleep :
        /\ state' = st
        /\ waitState' = [waitState EXCEPT ![p] = "WT_TIMER"]
        /\ alarm' = [alarm EXCEPT ![p] = time]
        /\ pc' = [pc EXCEPT ![p] = "sleep"]
        /\ Schedule(st, runq)
  BY DEF SysSleep
<1>2. /\ UNCHANGED <<exiting, parent, waitPid, nrProcess, forks>>
      /\ current = p /\ pc[p] = "user" /\ state[p] = "RUNNABLE"
  BY DEF SysSleep, InUser, IInv, SleepHasReason
<1>3. /\ st \in [Proc -> States]
      /\ st[Idle] = "RUNNABLE"
      /\ runq = Queued(st, current)
  BY <1>2 DEF IInv, TypeOK, RunqueueExact, Positions, Queued, States
<1>4. /\ current' \in Proc
      /\ st[current'] = "RUNNABLE"
      /\ runq' = Queued(st, current')
      /\ needResched' = FALSE
  BY <1>1, <1>3, ScheduleExact DEF IInv, TypeOK
<1>5. TypeOK'
  <2>1. alarm' \in [Proc -> 0..MaxSleep]
    <3>1. time \in 0..MaxSleep
      OBVIOUS
    <3> QED BY <1>1, <3>1 DEF IInv, TypeOK
  <2>2. runq' \in SUBSET Proc /\ current' \in Proc /\ needResched' \in BOOLEAN
    BY <1>4 DEF Queued
  <2> QED BY <1>1, <1>2, <1>3, <2>1, <2>2 DEF IInv, TypeOK, Points, WaitStates
<1>6. RunqueueExact'
  BY <1>1, <1>4 DEF RunqueueExact, Queued
<1>7. SleepHasReason'
  BY <1>1, <1>4 DEF IInv, TypeOK, SleepHasReason
<1>8. NoLostWakeup'
  <2>1. Zombies' = Zombies /\ \A q : Children(q)' = Children(q)
    BY <1>1, <1>2 DEF Zombies, Children, IInv, TypeOK
  <2> QED BY <1>1, <1>2, <2>1 DEF WaitTargets, NoLostWakeup, IInv, TypeOK
<1>9. TimersLive'
  BY <1>1, <1>2 DEF IInv, TypeOK, TimersLive
<1>10. LiveParents'
  BY <1>1, <1>2 DEF IInv, TypeOK, LiveParents
<1>11. Positions'
  BY <1>1, <1>2, <1>4 DEF IInv, TypeOK, Positions
<1>12. NrProcessExact'
  BY <1>1, <1>2, SameCount DEF Allocated, IInv, TypeOK
<1> QED BY <1>5, <1>6, <1>7, <1>8, <1>9, <1>10, <1>11, <1>12 DEF IInv

\* wakeup_proc of sleepers W, by do_kill or by the clock, whatever else the step
\* does to the flags, to need_resched and to the position of current.
LEMMA WakeStep ==
  ASSUME IInv, NEW W \in SUBSET Proc,
         \A q \in W : state[q] \in {"SLEEPING", "RUNNABLE"},
         state' = StateW(W), waitState' = WaitW(W), runq' = RunqW(W),
         exiting' \in [Proc -> BOOLEAN], needResched' \in BOOLEAN,
         alarm' \in [Proc -> 0..MaxSleep],
         \A q \in Proc : alarm'[q] # 0 => alarm[q] # 0,
         \A q \in Proc \ W : alarm[q] # 0 => alarm'[q] # 0,
         \/ pc' = pc
         \/ current \in User /\ pc[current] = "user"
              /\ pc' = [pc EXCEPT ![current] = "trapret"],
         UNCHANGED <<current, parent, waitPid, nrProcess, forks>>
  PROVE  IInv'
<1> USE ProcAssumption DEF User
<1>1. /\ Woken(W) \subseteq W
      /\ \A q \in Proc : q \in Woken(W) <=> q \in W /\ state[q] = "SLEEPING"
      /\ \A q \in Proc : state'[q] = IF q \in Woken(W) THEN "RUNNABLE" ELSE state[q]
      /\ \A q \in Proc : waitState'[q] = IF q \in Woken(W) THEN "NONE" ELSE waitState[q]
      /\ state[current] = "RUNNABLE" /\ waitState[current] = "NONE"
  BY DEF IInv, TypeOK, Woken, StateW, WaitW, SleepHasReason
<1>2. /\ StateW(W) \in [Proc -> States]
      /\ RunqW(W) = Queued(StateW(W), current)
  BY WakeExact DEF IInv, TypeOK, RunqueueExact, Positions, Queued
<1>3. TypeOK'
  BY <1>1, <1>2 DEF IInv, TypeOK, WaitW, WaitStates, Queued, Points
<1>4. RunqueueExact'
  BY <1>2 DEF RunqueueExact, Queued, IInv, TypeOK
<1>5. SleepHasReason'
  BY <1>1 DEF IInv, TypeOK, SleepHasReason
<1>6. NoLostWakeup'
  <2>1. Zombies' = Zombies /\ \A q : Children(q)' = Children(q)
    BY <1>1 DEF Zombies, Children
  <2> SUFFICES ASSUME NEW q \in Proc, waitState'[q] = "WT_CHILD"
               PROVE  /\ WaitTargets(q, waitPid[q])' # {}
                      /\ (WaitTargets(q, waitPid[q]) \cap Zombies)' = {}
    BY DEF NoLostWakeup
  <2>2. waitState[q] = "WT_CHILD"
    BY <1>1
  <2> QED BY <2>1, <2>2 DEF WaitTargets, NoLostWakeup, IInv
<1>7. TimersLive'
  <2> SUFFICES ASSUME NEW q \in Proc
               PROVE  /\ alarm'[q] # 0 => pc'[q] = "sleep" /\ state'[q] \in {"SLEEPING", "RUNNABLE"}
                      /\ waitState'[q] = "WT_TIMER" => alarm'[q] # 0
    BY DEF TimersLive
  <2>1. alarm'[q] # 0 => pc'[q] = "sleep" /\ state'[q] \in {"SLEEPING", "RUNNABLE"}
    BY <1>1 DEF IInv, TypeOK, TimersLive
  <2>2. waitState'[q] = "WT_TIMER" => alarm'[q] # 0
    BY <1>1 DEF IInv, TypeOK, TimersLive, SleepHasReason
  <2> QED BY <2>1, <2>2
<1>8. LiveParents'
  BY <1>1 DEF IInv, TypeOK, LiveParents
<1>9. NrProcessExact'
  BY <1>1, SameCount DEF Allocated, IInv
<1>10. Positions'
  <2>1. /\ (pc[Idle] = "idle" /\ state[Idle] = "RUNNABLE" /\ parent[Idle] = Nobody)'
        /\ (pc[Init1] \in {"boot", "initloop", "wait", "halted"})'
        /\ (state[Init1] \in {"SLEEPING", "RUNNABLE"})'
        /\ (parent[Init1] = Idle)'
        /\ (waitPid[Init1] = AnyChild)'
        /\ (waitState[Init1] # "WT_TIMER")'
    BY <1>1 DEF IInv, TypeOK, Positions
  <2>2. ASSUME NEW q \in User
        PROVE  /\ (pc[q] \in {"user", "trapret", "wait", "sleep", "gone"})'
               /\ (pc[q] = "gone" <=> state[q] \in {"UNUSED", "ZOMBIE"})'
               /\ (pc[q] = "trapret" => current = q)'
    BY <1>1 DEF IInv, TypeOK, Positions
  <2>3. ASSUME NEW q \in Proc
        PROVE  /\ (waitState[q] = "WT_CHILD" => pc[q] = "wait")'
               /\ (waitState[q] = "WT_TIMER" => pc[q] = "sleep")'
    BY <1>1 DEF IInv, TypeOK, Positions, SleepHasReason
  <2> QED BY <2>1, <2>2, <2>3 DEF Positions
<1> QED BY <1>3, <1>4, <1>5, <1>6, <1>7, <1>8, <1>9, <1>10 DEF IInv

LEMMA KillStep ==
  ASSUME IInv, NEW p \in User, SysKill(p)
  PROVE  IInv'
<1> USE ProcAssumption DEF User
<1> PICK t \in User :
      LET W == IF waitState[t] # "NONE" THEN {t} ELSE {}
      IN  /\ state[t] # "UNUSED"
          /\ ~exiting[t]
          /\ exiting' = [exiting EXCEPT ![t] = TRUE]
          /\ state' = StateW(W)
          /\ waitState' = WaitW(W)
          /\ runq' = RunqW(W)
  BY DEF SysKill
<1> DEFINE W == IF waitState[t] # "NONE" THEN {t} ELSE {}
<1>1. W \in SUBSET Proc /\ \A q \in W : state[q] \in {"SLEEPING", "RUNNABLE"}
  BY DEF IInv, SleepHasReason
<1>2. /\ exiting' \in [Proc -> BOOLEAN] /\ needResched' \in BOOLEAN
      /\ alarm' = alarm /\ alarm \in [Proc -> 0..MaxSleep]
      /\ pc' = [pc EXCEPT ![current] = "trapret"]
      /\ current \in User /\ pc[current] = "user"
      /\ UNCHANGED <<current, parent, waitPid, nrProcess, forks>>
  BY DEF SysKill, ReturnFrom, InUser, IInv, TypeOK
<1> HIDE DEF W
<1> QED BY <1>1, <1>2, WakeStep DEF W

\* The clock interrupt wakes exactly the processes whose timer expires, all of
\* them inside do_sleep.
LEMMA TickStep ==
  ASSUME IInv, NEW sliceOver \in BOOLEAN, Tick(sliceOver)
  PROVE  IInv'
<1> USE ProcAssumption DEF User
<1>1. Expired \in SUBSET Proc /\ \A q \in Expired : state[q] \in {"SLEEPING", "RUNNABLE"}
  BY DEF Expired, IInv, TimersLive
<1>2. /\ alarm' \in [Proc -> 0..MaxSleep]
      /\ \A q \in Proc : alarm'[q] # 0 => alarm[q] # 0
      /\ \A q \in Proc \ Expired : alarm[q] # 0 => alarm'[q] # 0
  BY DEF Tick, Countdown, Expired, IInv, TypeOK
<1>3. \/ pc' = pc
      \/ current \in User /\ pc[current] = "user"
           /\ pc' = [pc EXCEPT ![current] = "trapret"]
  BY DEF Tick, IInv, TypeOK, Positions
<1>4. /\ exiting' \in [Proc -> BOOLEAN] /\ needResched' \in BOOLEAN
      /\ state' = StateW(Expired) /\ waitState' = WaitW(Expired) /\ runq' = RunqW(Expired)
      /\ UNCHANGED <<current, parent, waitPid, nrProcess, forks>>
  BY DEF Tick, IInv, TypeOK
<1> QED BY <1>1, <1>2, <1>3, <1>4, WakeStep

\* schedule() from the tail of trap() or from the idle loop: only who runs changes.
LEMMA SwitchStep ==
  ASSUME IInv, NEW p \in User \cup {Idle}, current = p,
         \/ pc' = pc /\ p = Idle
         \/ pc' = [pc EXCEPT ![p] = "user"] /\ p \in User /\ pc[p] = "trapret",
         Schedule(state, runq),
         UNCHANGED <<state, waitState, exiting, parent, waitPid, alarm, nrProcess, forks>>
  PROVE  IInv'
<1> USE ProcAssumption DEF User
<1>1. /\ current' \in Proc
      /\ state[current'] = "RUNNABLE"
      /\ runq' = Queued(state, current')
      /\ needResched' = FALSE
  BY ScheduleExact DEF IInv, TypeOK, RunqueueExact, Positions, Queued
<1>2. waitState[p] = "NONE" /\ state[p] = "RUNNABLE" /\ alarm[p] = 0
  BY DEF IInv, TypeOK, SleepHasReason, TimersLive, Positions
<1>3. TypeOK'
  BY <1>1 DEF IInv, TypeOK, Points, Queued
<1>4. RunqueueExact' /\ SleepHasReason' /\ LiveParents'
  BY <1>1 DEF IInv, TypeOK, RunqueueExact, Queued, SleepHasReason, LiveParents
<1>5. NrProcessExact'
  BY SameCount DEF Allocated, IInv
<1>6. NoLostWakeup'
  BY <1>2 DEF IInv, TypeOK, NoLostWakeup, WaitTargets, Children, Zombies
<1>7. TimersLive'
  BY <1>2 DEF IInv, TypeOK, TimersLive
<1>8. Positions'
  BY <1>1, <1>2 DEF IInv, TypeOK, Positions
<1> QED BY <1>3, <1>4, <1>5, <1>6, <1>7, <1>8 DEF IInv

\* del_timer after a sleep: its owner is awake, so no sleeper loses its timer.
LEMMA SleepResumeStep ==
  ASSUME IInv, NEW p \in User, SleepResume(p)
  PROVE  IInv'
<1> USE ProcAssumption DEF User, SleepResume, DelTimer, ReturnFrom
<1>1. waitState[p] = "NONE" /\ state[p] = "RUNNABLE"
  BY DEF IInv, TypeOK, SleepHasReason
<1>2. TypeOK'
  BY DEF IInv, TypeOK, Points
<1>3. RunqueueExact' /\ SleepHasReason' /\ LiveParents'
  BY DEF IInv, RunqueueExact, SleepHasReason, LiveParents
<1>4. NrProcessExact'
  BY SameCount DEF Allocated, IInv
<1>5. NoLostWakeup'
  BY <1>1 DEF IInv, TypeOK, NoLostWakeup, WaitTargets, Children, Zombies
<1>6. TimersLive'
  BY <1>1 DEF IInv, TypeOK, TimersLive
<1>7. Positions'
  BY <1>1 DEF IInv, TypeOK, Positions
<1> QED BY <1>2, <1>3, <1>4, <1>5, <1>6, <1>7 DEF IInv

LEMMA UserStepOK ==
  ASSUME IInv, NEW p \in User, UserStep(p)
  PROVE  IInv'
<1> USE ProcAssumption
<1>1. CASE SysFork(p)
  BY <1>1, ForkStep DEF SysFork, InUser, User
<1>2. CASE SysExit(p)
  BY <1>2, ExitStep DEF SysExit, InUser
<1>3. CASE SysWait(p)
  BY <1>3, WaitStep DEF SysWait, InUser, User
<1>4. CASE SysYield(p)
  BY <1>4, MoveStep DEF SysYield, InUser, ReturnFrom
<1>5. CASE SysSleep(p)
  BY <1>5, SleepStep
<1>6. CASE SysKill(p)
  BY <1>6, KillStep
<1>7. CASE SysOther(p)
  BY <1>7, MoveStep DEF SysOther, InUser, ReturnFrom, IInv, TypeOK
<1> QED BY <1>1, <1>2, <1>3, <1>4, <1>5, <1>6, <1>7 DEF UserStep

LEMMA KernelStepOK ==
  ASSUME IInv, NEW p \in User, KernelStep(p)
  PROVE  IInv'
<1> USE ProcAssumption
<1>1. CASE TrapReturn(p)
  <2>1. CASE exiting[p] /\ DoExit(p)
    BY <1>1, <2>1, ExitStep DEF TrapReturn
  <2>2. CASE ~exiting[p] /\ needResched
    BY <1>1, <2>2, SwitchStep DEF TrapReturn
  <2>3. CASE ~exiting[p] /\ ~needResched
    BY <1>1, <2>3, MoveStep DEF TrapReturn, IInv, TypeOK
  <2> QED BY <1>1, <2>1, <2>2, <2>3 DEF TrapReturn
<1>2. CASE WaitResume(p)
  <2>1. CASE exiting[p] /\ DoExit(p)
    BY <1>2, <2>1, ExitStep DEF WaitResume
  <2>2. CASE ~exiting[p] /\ DoWait(p, waitPid[p])
    BY <1>2, <2>2, WaitStep DEF WaitResume, User, IInv, TypeOK
  <2> QED BY <1>2, <2>1, <2>2 DEF WaitResume
<1>3. CASE SleepResume(p)
  BY <1>3, SleepResumeStep
<1> QED BY <1>1, <1>2, <1>3 DEF KernelStep

LEMMA NextOK == IInv /\ [Next]_vars => IInv'
<1> SUFFICES ASSUME IInv, [Next]_vars PROVE IInv'
  OBVIOUS
<1> USE ProcAssumption
<1>1. CASE \E p \in User : UserStep(p) \/ KernelStep(p)
  BY <1>1, UserStepOK, KernelStepOK
<1>2. CASE InitMain
  BY <1>2, ForkStep DEF InitMain, User
<1>3. CASE InitLoop
  BY <1>3, WaitStep DEF InitLoop
<1>4. CASE IdleSchedule
  BY <1>4, SwitchStep DEF IdleSchedule
<1>5. CASE \E sliceOver \in BOOLEAN : Tick(sliceOver)
  BY <1>5, TickStep
<1>6. CASE UNCHANGED vars
  BY <1>6 DEF vars, IInv, TypeOK, RunqueueExact, SleepHasReason, NoLostWakeup,
              TimersLive, LiveParents, NrProcessExact, Positions, WaitTargets,
              Children, Zombies, Allocated
<1> QED BY <1>1, <1>2, <1>3, <1>4, <1>5, <1>6 DEF Next, Halted

-----------------------------------------------------------------------------
(***************************************************************************)
(* The theorems.                                                           *)
(***************************************************************************)

\* IInv holds in every reachable state of proc.c and sched.c as modelled.
THEOREM Inductive == Spec => []IInv
BY InitOK, NextOK, PTL DEF Spec

\* The types of the process table and of the scheduler's state.
THEOREM TypeCorrect == Spec => []TypeOK
<1>1. IInv => TypeOK
  BY DEF IInv
<1> QED BY <1>1, Inductive, PTL

\* No runnable process is ever missing from the run queue and nothing else is in
\* it (wakeup_proc, schedule, do_fork, do_exit, do_wait, do_sleep).
THEOREM RunqueueCorrect == Spec => [](RunqueueExact /\ SleepHasReason)
<1>1. IInv => RunqueueExact /\ SleepHasReason
  BY DEF IInv
<1> QED BY <1>1, Inductive, PTL

\* A parent asleep in do_wait never misses the exit of the child it waits for, nor
\* initproc a zombie it inherits (do_exit, do_wait).
THEOREM NoWakeupLost == Spec => []NoLostWakeup
<1>1. IInv => NoLostWakeup
  BY DEF IInv
<1> QED BY <1>1, Inductive, PTL

\* The process tree has no dangling parent and nr_process is exact and bounded
\* (set_links, remove_links, the reparenting loop of do_exit).
THEOREM TreeCorrect == Spec => [](LiveParents /\ NrProcessExact)
<1>1. IInv => LiveParents /\ NrProcessExact
  BY DEF IInv
<1> QED BY <1>1, Inductive, PTL

\* No timer outlives the do_sleep on whose stack it lies, and no sleeper is
\* without a timer (do_sleep, do_kill, run_timer_list).
THEOREM TimersCorrect == Spec => []TimersLive
<1>1. IInv => TimersLive
  BY DEF IInv
<1> QED BY <1>1, Inductive, PTL

-----------------------------------------------------------------------------
(***************************************************************************)
(* Shutdown.  That initproc has no child says nothing of deeper processes  *)
(* unless the tree has no cycle, which Rooted says in a form that needs no *)
(* induction: every set of user processes has one whose parent is outside. *)
(***************************************************************************)
Rooted ==
  \A S \in SUBSET (User \cap Allocated) :
    S # {} => \E p \in S : parent[p] \notin S

HaltedAlone == pc[Init1] = "halted" => current = Init1 /\ Allocated = {Idle, Init1}

SInv == IInv /\ Rooted /\ HaltedAlone

\* Without a child of initproc there is no user process at all.
LEMMA NoChildNoUser ==
  ASSUME IInv, Rooted, Children(Init1) = {}
  PROVE  Allocated = {Idle, Init1}
<1> USE ProcAssumption DEF User
<1> DEFINE A == User \cap Allocated
<1>1. A = {}
  <2> SUFFICES ASSUME A # {} PROVE FALSE
    OBVIOUS
  <2>1. PICK p \in A : parent[p] \notin A
    BY DEF Rooted
  <2>2. parent[p] \in User
    BY <2>1 DEF IInv, LiveParents, Allocated, Children
  <2>3. state[parent[p]] # "UNUSED"
    BY <2>1 DEF IInv, LiveParents, Allocated
  <2> QED BY <2>1, <2>2, <2>3 DEF Allocated
<1> QED BY <1>1 DEF Allocated, IInv, Positions

\* Steps in which every process keeps its parent or goes to initproc make no cycle.
LEMMA RootedKept ==
  ASSUME Rooted,
         \A p \in User : state'[p] # "UNUSED" =>
           state[p] # "UNUSED" /\ parent'[p] \in {parent[p], Init1}
  PROVE  Rooted'
<1> USE ProcAssumption DEF User
<1> SUFFICES ASSUME NEW S \in SUBSET (User \cap Allocated'), S # {}
             PROVE  \E p \in S : parent'[p] \notin S
  BY DEF Rooted
<1>1. S \subseteq User \cap Allocated
  BY DEF Allocated
<1>2. PICK p \in S : parent[p] \notin S
  BY <1>1 DEF Rooted
<1>3. parent'[p] \in {parent[p], Init1}
  BY <1>2 DEF Allocated
<1> QED BY <1>2, <1>3

\* Nor does do_fork: nobody is a child of the new process.
LEMMA RootedFork ==
  ASSUME IInv, Rooted, NEW p \in User \cup {Init1}, NEW n \in User, DoFork(p, n),
         current = p
  PROVE  Rooted'
<1> USE ProcAssumption DEF User
<1>1. /\ state[n] = "UNUSED" /\ n # p
      /\ \A c \in User : state[c] # "UNUSED" => parent[c] # n
      /\ state' = [state EXCEPT ![n] = "RUNNABLE"]
      /\ parent' = [parent EXCEPT ![n] = p]
  BY DEF DoFork, IInv, LiveParents, SleepHasReason
<1> SUFFICES ASSUME NEW S \in SUBSET (User \cap Allocated'), S # {}
             PROVE  \E c \in S : parent'[c] \notin S
  BY DEF Rooted
<1>2. CASE S = {n}
  BY <1>1, <1>2 DEF IInv, TypeOK
<1>3. CASE S # {n}
  <2>1. S \ {n} # {} /\ S \ {n} \subseteq User \cap Allocated
    BY <1>1, <1>3 DEF Allocated, IInv, TypeOK
  <2>2. PICK c \in S \ {n} : parent[c] \notin S \ {n}
    BY <2>1 DEF Rooted
  <2>3. state[c] # "UNUSED" /\ parent'[c] = parent[c]
    BY <1>1, <2>1, <2>2 DEF Allocated, IInv, TypeOK
  <2> QED BY <1>1, <2>2, <2>3
<1> QED BY <1>2, <1>3

-----------------------------------------------------------------------------
(***************************************************************************)
(* What a step does to the states of the processes.                        *)
(***************************************************************************)

\* No step but do_fork allocates, and none moves a process to another parent than
\* initproc.
KeepsTree ==
  \A p \in User : state'[p] # "UNUSED" =>
    state[p] # "UNUSED" /\ parent'[p] \in {parent[p], Init1}

LEMMA ExitEffect ==
  ASSUME IInv, NEW p \in User, current = p, DoExit(p)
  PROVE  ReapedByParent /\ WokenForCause /\ KeepsTree
<1> DEFINE W == ExitWakes(p)
<1> USE ProcAssumption DEF User
<1>1. /\ \A q \in Proc : q \in W => q # p /\ state[q] = "SLEEPING" /\ waitState[q] = "WT_CHILD"
      /\ \A q \in Proc : state'[q] = IF q = p THEN "ZOMBIE" ELSE
                                     IF q \in W THEN "RUNNABLE" ELSE state[q]
      /\ \A q \in Proc : parent'[q] = IF parent[q] = p THEN Init1 ELSE parent[q]
      /\ state[p] = "RUNNABLE"
  BY DEF DoExit, ExitWakes, IInv, TypeOK, SleepHasReason, StateW, Adopted
<1>2. ReapedByParent /\ KeepsTree
  BY <1>1 DEF ReapedByParent, KeepsTree
<1>3. WokenForCause
  <2> SUFFICES ASSUME NEW q \in Proc, q \in W
               PROVE  /\ waitState[q] = "WT_CHILD"
                      /\ \E c \in Proc : parent'[c] = q /\ state'[c] = "ZOMBIE"
    BY <1>1 DEF WokenForCause
  <2>1. CASE q = parent[p]
    BY <1>1, <2>1 DEF IInv, LiveParents
  <2>2. CASE q = Init1 /\ Children(p) \cap Zombies # {}
    BY <1>1, <2>2 DEF Children, Zombies
  <2> QED BY <1>1, <2>1, <2>2 DEF ExitWakes
<1> QED BY <1>2, <1>3

LEMMA WaitEffect ==
  ASSUME IInv, NEW p \in User \cup {Init1}, NEW pid, current = p,
         pc[p] \in {"user", "wait", "initloop"}, DoWait(p, pid)
  PROVE  ReapedByParent /\ WokenForCause /\ KeepsTree
<1> USE ProcAssumption DEF User, ReapedByParent, WokenForCause, KeepsTree
<1>1. CASE WaitReap(p, pid)
  BY <1>1 DEF WaitReap, WaitTargets, Children, Zombies, IInv, TypeOK
<1>2. CASE WaitSleep(p, pid)
  BY <1>2 DEF WaitSleep, IInv, TypeOK, SleepHasReason
<1>3. CASE WaitNoChild(p, pid)
  BY <1>3 DEF WaitNoChild
<1> QED BY <1>1, <1>2, <1>3 DEF DoWait

LEMMA SameEffect ==
  ASSUME UNCHANGED <<state, parent>>
  PROVE  ReapedByParent /\ WokenForCause /\ KeepsTree
BY DEF ReapedByParent, WokenForCause, KeepsTree

\* A new process is neither a zombie that goes nor a sleeper that wakes.
LEMMA ForkEffect ==
  ASSUME IInv, NEW p, NEW n \in User, DoFork(p, n)
  PROVE  ReapedByParent /\ WokenForCause
<1>1. /\ state[n] = "UNUSED" /\ state' = [state EXCEPT ![n] = "RUNNABLE"]
      /\ state \in [Proc -> States]
  BY DEF DoFork, IInv, TypeOK
<1>2. \A q \in Proc : q # n => state'[q] = state[q]
  BY <1>1
<1> QED BY <1>1, <1>2 DEF ReapedByParent, WokenForCause

LEMMA UserEffect ==
  ASSUME IInv, NEW p \in User, UserStep(p)
  PROVE  ReapedByParent /\ WokenForCause /\ (KeepsTree \/ \E n \in User : DoFork(p, n))
<1> USE ProcAssumption DEF InUser
<1>1. CASE SysFork(p)
  <2>1. PICK n \in User : DoFork(p, n)
    BY <1>1 DEF SysFork
  <2> QED BY <2>1, ForkEffect
<1>2. CASE SysExit(p)
  BY <1>2, ExitEffect DEF SysExit
<1>3. CASE SysWait(p)
  BY <1>3, WaitEffect DEF SysWait
<1>4. CASE SysYield(p) \/ SysOther(p)
  BY <1>4, SameEffect DEF SysYield, SysOther
<1>5. CASE SysSleep(p)
  BY <1>5 DEF SysSleep, ReapedByParent, WokenForCause, KeepsTree, IInv, TypeOK, SleepHasReason
<1>6. CASE SysKill(p)
  <2> PICK t \in User :
        LET W == IF waitState[t] # "NONE" THEN {t} ELSE {}
        IN  ~exiting[t] /\ exiting' = [exiting EXCEPT ![t] = TRUE] /\ state' = StateW(W)
    BY <1>6 DEF SysKill
  <2>1. parent' = parent /\ \A q \in Proc : state'[q] # state[q] =>
                              q = t /\ state[q] = "SLEEPING" /\ exiting'[q]
    BY <1>6 DEF SysKill, StateW, IInv, TypeOK, SleepHasReason
  <2> QED BY <2>1 DEF ReapedByParent, WokenForCause, KeepsTree, User
<1> QED BY <1>1, <1>2, <1>3, <1>4, <1>5, <1>6 DEF UserStep

LEMMA KernelEffect ==
  ASSUME IInv, NEW p \in User, KernelStep(p)
  PROVE  ReapedByParent /\ WokenForCause /\ KeepsTree
<1>1. CASE TrapReturn(p)
  BY <1>1, ExitEffect, SameEffect DEF TrapReturn
<1>2. CASE WaitResume(p)
  BY <1>2, ExitEffect, WaitEffect DEF WaitResume
<1>3. CASE SleepResume(p)
  BY <1>3, SameEffect DEF SleepResume
<1> QED BY <1>1, <1>2, <1>3 DEF KernelStep

LEMMA TickEffect ==
  ASSUME IInv, NEW sliceOver \in BOOLEAN, Tick(sliceOver)
  PROVE  ReapedByParent /\ WokenForCause /\ KeepsTree
<1> USE ProcAssumption DEF User
<1>1. /\ \A q \in Expired : alarm[q] = 1 /\ alarm'[q] = 0 /\ pc[q] = "sleep"
                            /\ state[q] \in {"SLEEPING", "RUNNABLE"}
      /\ \A q \in Proc : state'[q] = IF q \in Expired THEN "RUNNABLE" ELSE state[q]
      /\ parent' = parent
  BY DEF Tick, Countdown, Expired, StateW, IInv, TypeOK, TimersLive
<1>2. \A q \in Expired : state[q] = "SLEEPING" => waitState[q] = "WT_TIMER"
  BY <1>1 DEF IInv, TypeOK, SleepHasReason, Positions, WaitStates, Expired
<1> QED BY <1>1, <1>2 DEF ReapedByParent, WokenForCause, KeepsTree

LEMMA NextEffect ==
  ASSUME IInv, [Next]_vars
  PROVE  /\ ReapedByParent /\ WokenForCause
         /\ \/ KeepsTree
            \/ \E p \in User \cup {Init1}, n \in User : current = p /\ DoFork(p, n)
<1> USE ProcAssumption
<1>1. CASE \E p \in User : UserStep(p) \/ KernelStep(p)
  BY <1>1, UserEffect, KernelEffect DEF UserStep, SysFork, SysExit, SysWait, SysYield,
     SysSleep, SysKill, SysOther, InUser
<1>2. CASE InitMain
  <2>1. PICK n \in User : current = Init1 /\ DoFork(Init1, n)
    BY <1>2 DEF InitMain
  <2> QED BY <2>1, ForkEffect
<1>3. CASE InitLoop
  BY <1>3, WaitEffect DEF InitLoop
<1>4. CASE IdleSchedule \/ UNCHANGED vars
  BY <1>4, SameEffect DEF IdleSchedule, vars
<1>5. CASE \E sliceOver \in BOOLEAN : Tick(sliceOver)
  BY <1>5, TickEffect
<1> QED BY <1>1, <1>2, <1>3, <1>4, <1>5 DEF Next, Halted

\* A step of a user process does not move initproc.
LEMMA UserKeepsInit ==
  ASSUME IInv, NEW p \in User, UserStep(p) \/ KernelStep(p)
  PROVE  pc'[Init1] = pc[Init1]
<1> USE ProcAssumption DEF User, ReturnFrom
<1>1. CASE SysFork(p)
  <2>1. PICK n \in User : pc' = [pc EXCEPT ![p] = "trapret", ![n] = "user"]
    BY <1>1 DEF SysFork
  <2>2. Init1 \in Proc /\ p # Init1 /\ n # Init1 /\ pc \in [Proc -> Points]
    BY DEF IInv, TypeOK
  <2> QED BY <2>1, <2>2
<1>2. CASE SysExit(p) \/ SysYield(p) \/ SysSleep(p) \/ SysKill(p) \/ SysOther(p)
  BY <1>2 DEF SysExit, DoExit, SysYield, SysSleep, SysKill, SysOther, IInv, TypeOK
<1>3. ASSUME NEW pid, DoWait(p, pid)
      PROVE  pc'[Init1] = pc[Init1]
  <2>1. PICK v : pc' = [pc EXCEPT ![p] = v]
    <3>1. CASE WaitReap(p, pid)
      BY <3>1 DEF WaitReap
    <3>2. CASE WaitSleep(p, pid)
      BY <3>2 DEF WaitSleep
    <3>3. CASE WaitNoChild(p, pid)
      BY <3>3 DEF WaitNoChild
    <3> QED BY <1>3, <3>1, <3>2, <3>3 DEF DoWait
  <2>2. Init1 \in Proc /\ p # Init1 /\ pc \in [Proc -> Points]
    BY DEF IInv, TypeOK
  <2> QED BY <2>1, <2>2
<1>4. CASE SysWait(p)
  BY <1>3, <1>4 DEF SysWait
<1>5. CASE TrapReturn(p) \/ WaitResume(p) \/ SleepResume(p)
  BY <1>3, <1>5 DEF TrapReturn, WaitResume, SleepResume, DoExit, IInv, TypeOK
<1> QED BY <1>1, <1>2, <1>4, <1>5 DEF UserStep, KernelStep

LEMMA SNextOK == SInv /\ [Next]_vars => SInv'
<1> SUFFICES ASSUME SInv, [Next]_vars PROVE SInv'
  OBVIOUS
<1> USE ProcAssumption
<1>1. IInv /\ IInv'
  BY NextOK DEF SInv
<1>2. Rooted'
  BY <1>1, NextEffect, RootedKept, RootedFork DEF SInv, KeepsTree
<1>3. HaltedAlone'
  <2>1. CASE pc[Init1] = "halted"
    <3>1. current = Init1 /\ Allocated = {Idle, Init1}
      BY <2>1 DEF SInv, HaltedAlone
    <3>2. UNCHANGED vars
      BY <2>1, <3>1 DEF Next, UserStep, KernelStep, SysFork, SysExit, SysWait, SysYield,
         SysSleep, SysKill, SysOther, InUser, TrapReturn, WaitResume, SleepResume, InitMain,
         InitLoop, IdleSchedule, Tick, Interruptible, Halted, User
    <3> QED BY <3>1, <3>2 DEF vars, HaltedAlone, Allocated
  <2>2. CASE pc[Init1] # "halted" /\ pc'[Init1] = "halted"
    <3>1. WaitNoChild(Init1, AnyChild) /\ current = Init1
      <4>1. CASE InitLoop
        <5>1. current = Init1 /\ DoWait(Init1, AnyChild)
          BY <4>1 DEF InitLoop
        <5>2. pc \in [Proc -> Points] /\ Init1 \in Proc
          BY DEF SInv, IInv, TypeOK
        <5>3. WaitReap(Init1, AnyChild) => pc'[Init1] = "initloop"
          BY <5>2 DEF WaitReap
        <5>4. WaitSleep(Init1, AnyChild) => pc'[Init1] = "wait"
          BY <5>2 DEF WaitSleep
        <5> QED BY <2>2, <5>1, <5>3, <5>4 DEF DoWait
      <4>2. CASE \E p \in User : UserStep(p) \/ KernelStep(p)
        <5>1. PICK p \in User : UserStep(p) \/ KernelStep(p)
          BY <4>2
        <5>2. IInv
          BY DEF SInv
        <5>3. pc'[Init1] = pc[Init1]
          BY ONLY <5>1, <5>2, UserKeepsInit
        <5> QED BY <2>2, <5>3
      <4>3. CASE InitMain
        BY <2>2, <4>3 DEF InitMain, IInv, TypeOK, SInv, User
      <4>4. CASE IdleSchedule \/ UNCHANGED vars
        BY <2>2, <4>4 DEF IdleSchedule, vars
      <4>5. CASE \E sliceOver \in BOOLEAN : Tick(sliceOver)
        BY <2>2, <4>5 DEF Tick, IInv, TypeOK, SInv
      <4> QED BY <4>1, <4>2, <4>3, <4>4, <4>5 DEF Next, Halted
    <3>2. Children(Init1) = {} /\ UNCHANGED <<state, current>>
      BY <3>1 DEF WaitNoChild, WaitTargets
    <3>3. Allocated = {Idle, Init1}
      BY <1>1, <3>2, NoChildNoUser DEF SInv
    <3> QED BY <3>1, <3>2, <3>3 DEF HaltedAlone, Allocated
  <2> QED BY <2>1, <2>2 DEF HaltedAlone
<1> QED BY <1>1, <1>2, <1>3 DEF SInv

\* When initproc leaves its loop every user process has been reaped, so the
\* assertions of init_main hold (proc.c:1068-1071).
THEOREM ShutdownCorrect == Spec => []ShutdownClean
<1>1. Init => SInv
  <2> SUFFICES ASSUME Init PROVE SInv
    OBVIOUS
  <2>1. User \cap Allocated = {} /\ pc[Init1] = "boot"
    BY ProcAssumption DEF Init, Allocated, User
  <2> QED BY <2>1, InitOK DEF SInv, Rooted, HaltedAlone
<1>2. SInv => ShutdownClean
  <2> SUFFICES ASSUME SInv, pc[Init1] = "halted"
               PROVE  nrProcess = 2 /\ Allocated = {Idle, Init1}
    BY DEF ShutdownClean
  <2>1. Allocated = {Idle} \cup {Init1} /\ nrProcess = Cardinality(Allocated)
    BY DEF SInv, HaltedAlone, IInv, NrProcessExact
  <2>2. Cardinality({Idle}) = 1 /\ IsFiniteSet({Idle})
    BY FS_Singleton
  <2>3. Init1 \notin {Idle}
    BY ProcAssumption
  <2>4. Cardinality({Idle} \cup {Init1}) = Cardinality({Idle}) + 1
    BY ONLY <2>2, <2>3, FS_AddElement
  <2>5. Cardinality({Idle} \cup {Init1}) = 2
    BY ONLY <2>2, <2>4
  <2> QED BY <2>1, <2>5
<1> QED BY <1>1, <1>2, SNextOK, PTL DEF Spec

\* A zombie is freed by its parent only, and a sleeper wakes only because it was
\* killed, its timer expired or a child is a zombie (do_wait, do_exit, do_kill,
\* run_timer_list).
THEOREM StepsCorrect == Spec => OnlyParentReaps /\ WakeupHasCause
<1>1. IInv /\ [Next]_vars => [ReapedByParent]_vars /\ [WokenForCause]_vars
  BY NextEffect
<1> QED BY <1>1, Inductive, PTL DEF Spec, OnlyParentReaps, WakeupHasCause

-----------------------------------------------------------------------------
(***************************************************************************)
(* Processes use the timers as AlarmClock offers them.                     *)
(***************************************************************************)

\* The clock of AlarmClock, as UsesClock maps it.
ClockOf == [p \in User |-> IF pc[p] = "sleep" THEN alarm[p] ELSE -1]

\* A step that moves nobody into or out of do_sleep and keeps the alarms of those
\* inside leaves the clock alone.
ClockKept == \A p \in User : /\ pc'[p] = "sleep" <=> pc[p] = "sleep"
                             /\ pc[p] = "sleep" => alarm'[p] = alarm[p]

LEMMA KeptClock == ASSUME ClockKept PROVE ClockOf' = ClockOf
BY DEF ClockKept, ClockOf

LEMMA ExitKeepsClock ==
  ASSUME IInv, NEW p \in User, pc[p] # "sleep", DoExit(p)
  PROVE  ClockKept
BY DEF DoExit, ClockKept, IInv, TypeOK

LEMMA WaitKeepsClock ==
  ASSUME IInv, NEW p \in Proc, pc[p] # "sleep", NEW pid, DoWait(p, pid)
  PROVE  ClockKept
<1>1. CASE WaitReap(p, pid)
  <2>1. pc' = [pc EXCEPT ![p] = IF p = Init1 THEN "initloop" ELSE "trapret"]
        /\ alarm' = alarm
    BY <1>1 DEF WaitReap
  <2> QED BY <2>1 DEF ClockKept, IInv, TypeOK
<1>2. CASE WaitSleep(p, pid)
  <2>1. pc' = [pc EXCEPT ![p] = "wait"] /\ alarm' = alarm
    BY <1>2 DEF WaitSleep
  <2> QED BY <2>1 DEF ClockKept, IInv, TypeOK
<1>3. CASE WaitNoChild(p, pid)
  <2>1. pc' = [pc EXCEPT ![p] = IF p = Init1 THEN "halted" ELSE "trapret"]
        /\ alarm' = alarm
    BY <1>3 DEF WaitNoChild
  <2> QED BY <2>1 DEF ClockKept, IInv, TypeOK
<1> QED BY <1>1, <1>2, <1>3 DEF DoWait

\* do_fork starts its child in user mode, in a slot that was outside do_sleep.
LEMMA ForkKeepsClock ==
  ASSUME IInv, NEW p \in User \cup {Init1}, NEW n \in User, DoFork(p, n),
         pc[p] # "sleep", NEW pt, pt # "sleep",
         pc' = [pc EXCEPT ![p] = pt, ![n] = "user"]
  PROVE  ClockKept
<1>1. pc[n] = "gone"
  BY DEF DoFork, IInv, Positions
<1> QED BY <1>1 DEF DoFork, ClockKept, IInv, TypeOK, User

\* do_sleep sets the timer of its caller.
LEMMA SleepSetsClock ==
  ASSUME IInv, NEW p \in User, SysSleep(p)
  PROVE  Clock!Set(p)
<1>1. PICK time \in 1..MaxSleep : /\ alarm' = [alarm EXCEPT ![p] = time]
                                  /\ pc' = [pc EXCEPT ![p] = "sleep"]
  BY DEF SysSleep
<1>2. pc[p] # "sleep"
  BY DEF SysSleep, InUser
<1>3. ClockOf' = [ClockOf EXCEPT ![p] = time]
  BY <1>1, <1>2 DEF ClockOf, IInv, TypeOK, User
<1>4. ClockOf[p] = -1
  BY <1>2 DEF ClockOf
<1> QED BY <1>3, <1>4 DEF Clock!Set, Clock!Off, ClockOf

\* When do_sleep goes on it removes the timer, whether or not it has rung.
LEMMA WakeRemovesClock ==
  ASSUME IInv, NEW p \in User, SleepResume(p)
  PROVE  Clock!Remove(p)
<1>1. /\ pc[p] = "sleep" /\ pc' = [pc EXCEPT ![p] = "trapret"]
      /\ alarm' = [alarm EXCEPT ![p] = 0]
  BY DEF SleepResume, ReturnFrom, DelTimer
<1>2. ClockOf[p] = alarm[p] /\ alarm[p] \in Nat
  BY <1>1, ProcAssumption DEF ClockOf, IInv, TypeOK, User
<1>3. ClockOf' = [ClockOf EXCEPT ![p] = -1]
  BY <1>1 DEF ClockOf, IInv, TypeOK, User
<1> QED BY <1>2, <1>3 DEF Clock!Remove, Clock!Off, ClockOf

\* A clock interrupt takes one tick off every timer that runs.
LEMMA TickTicks ==
  ASSUME IInv, NEW sliceOver \in BOOLEAN, Tick(sliceOver)
  PROVE  Clock!Tick
<1>1. \A p \in User : pc'[p] = "sleep" <=> pc[p] = "sleep"
  BY DEF Tick, IInv, TypeOK
<1>2. \A p \in User : alarm[p] \in Nat
                      /\ alarm'[p] = IF alarm[p] = 0 THEN 0 ELSE alarm[p] - 1
  BY ProcAssumption DEF Tick, Countdown, IInv, TypeOK, User
<1>3. ClockOf' = [p \in User |-> IF ClockOf[p] > 0 THEN ClockOf[p] - 1 ELSE ClockOf[p]]
  BY <1>1, <1>2 DEF ClockOf
<1> QED BY <1>3 DEF Clock!Tick, ClockOf

LEMMA StepClock ==
  ASSUME IInv, [Next]_vars
  PROVE  Clock!Next \/ ClockOf' = ClockOf
<1>1. CASE \E p \in User : UserStep(p) \/ KernelStep(p)
  <2> PICK p \in User : UserStep(p) \/ KernelStep(p)
    BY <1>1
  <2>1. CASE SysFork(p)
    BY <2>1, ForkKeepsClock, KeptClock DEF SysFork, InUser
  <2>2. CASE SysExit(p)
    BY <2>2, ExitKeepsClock, KeptClock DEF SysExit, InUser
  <2>3. CASE SysWait(p)
    BY <2>3, WaitKeepsClock, KeptClock DEF SysWait, InUser, User
  <2>4. CASE SysYield(p) \/ SysKill(p) \/ SysOther(p)
    <3>1. alarm' = alarm /\ pc[p] = "user" /\ pc' = [pc EXCEPT ![p] = "trapret"]
      BY <2>4 DEF SysYield, SysKill, SysOther, InUser, ReturnFrom
    <3>2. ClockKept
      BY <3>1 DEF ClockKept, IInv, TypeOK
    <3> QED BY <3>2, KeptClock
  <2>5. CASE SysSleep(p)
    BY <2>5, SleepSetsClock DEF Clock!Next
  <2>6. CASE TrapReturn(p)
    <3>1. CASE exiting[p] /\ DoExit(p)
      BY <2>6, <3>1, ExitKeepsClock, KeptClock DEF TrapReturn
    <3>2. CASE ~exiting[p] /\ pc' = [pc EXCEPT ![p] = "user"] /\ UNCHANGED alarm
      <4>1. ClockKept
        BY <2>6, <3>2 DEF TrapReturn, ClockKept, IInv, TypeOK
      <4> QED BY <4>1, KeptClock
    <3> QED BY <2>6, <3>1, <3>2 DEF TrapReturn
  <2>7. CASE WaitResume(p)
    <3>1. CASE exiting[p] /\ DoExit(p)
      BY <2>7, <3>1, ExitKeepsClock, KeptClock DEF WaitResume
    <3>2. CASE DoWait(p, waitPid[p])
      BY <2>7, <3>2, WaitKeepsClock, KeptClock DEF WaitResume, User
    <3> QED BY <2>7, <3>1, <3>2 DEF WaitResume
  <2>8. CASE SleepResume(p)
    BY <2>8, WakeRemovesClock DEF Clock!Next
  <2> QED BY <2>1, <2>2, <2>3, <2>4, <2>5, <2>6, <2>7, <2>8 DEF UserStep, KernelStep
<1>2. CASE InitMain
  <2>1. Init1 \in User \cup {Init1}
    OBVIOUS
  <2> QED BY <1>2, <2>1, ForkKeepsClock, KeptClock DEF InitMain
<1>3. CASE InitLoop
  BY <1>3, WaitKeepsClock, KeptClock, ProcAssumption DEF InitLoop
<1>4. CASE IdleSchedule \/ UNCHANGED vars
  BY <1>4 DEF IdleSchedule, vars, ClockOf
<1>5. CASE \E sliceOver \in BOOLEAN : Tick(sliceOver)
  BY <1>5, TickTicks DEF Clock!Next
<1> QED BY <1>1, <1>2, <1>3, <1>4, <1>5 DEF Next, Halted

\* Every behaviour of the processes is one that the timers promise: do_sleep, a
\* kill of a sleeper and run_timer_list together keep AlarmClock.
THEOREM ClockCorrect == Spec => UsesClock
<1>1. Init => Clock!Init
  BY DEF Init, Clock!Init, Clock!Off, User
<1>2. IInv /\ [Next]_vars => [Clock!Next]_ClockOf
  BY StepClock
<1> QED BY <1>1, <1>2, Inductive, PTL DEF Spec, UsesClock, Clock!Spec, ClockOf

-----------------------------------------------------------------------------
(***************************************************************************)
(* The links of the tree.  Along optr and yptr nothing says that a list    *)
(* ends: the proof gives each process a rank that grows from an older to a *)
(* younger sibling, and has set_links, remove_links and each turn of the   *)
(* loop in do_exit keep it.                                                *)
(***************************************************************************)

\* The pointers c, o and y are the tree of the parents par, with the ranks r: a
\* youngest child is a child and the youngest, an older sibling is one and points
\* back, and a child without a younger sibling is the youngest.
Linked(c, o, y, par, r) ==
  /\ c \in [Proc -> Proc \cup {Nobody}]
  /\ o \in [Proc -> Proc \cup {Nobody}]
  /\ y \in [Proc -> Proc \cup {Nobody}]
  /\ par \in [Proc -> Proc \cup {Nobody}]
  /\ r \in [Proc -> Int]
  /\ \A p \in Proc : c[p] # Nobody => par[c[p]] = p /\ y[c[p]] = Nobody
  /\ \A q \in Proc : o[q] # Nobody => /\ par[q] # Nobody /\ par[o[q]] = par[q]
                                      /\ y[o[q]] = q /\ r[o[q]] < r[q]
  /\ \A q \in Proc : y[q] # Nobody => o[y[q]] = q
  /\ \A q \in Proc : par[q] # Nobody /\ y[q] = Nobody => c[par[q]] = q

\* set_links keeps the lists: the new child is the youngest (proc.c:171-181).
LEMMA LinkedAfterSet ==
  ASSUME NEW r, Linked(cptr, optr, yptr, parent, r),
         NEW n \in Proc, NEW p \in Proc, parent[n] = Nobody, set_links(n, p),
         parent' = [parent EXCEPT ![n] = p]
  PROVE  \E s : Linked(cptr', optr', yptr', parent', s)
<1> USE ProcAssumption
<1> DEFINE s == [r EXCEPT ![n] = IF cptr[p] = Nobody THEN 0 ELSE r[cptr[p]] + 1]
<1>1. /\ cptr' \in [Proc -> Proc \cup {Nobody}]
      /\ optr' \in [Proc -> Proc \cup {Nobody}]
      /\ yptr' \in [Proc -> Proc \cup {Nobody}]
      /\ parent' \in [Proc -> Proc \cup {Nobody}]
      /\ s \in [Proc -> Int]
  BY DEF Linked, set_links
<1>2. /\ \A q \in Proc : cptr'[q] = IF q = p THEN n ELSE cptr[q]
      /\ \A q \in Proc : optr'[q] = IF q = n THEN cptr[p] ELSE optr[q]
      /\ \A q \in Proc : yptr'[q] = IF q = n THEN Nobody ELSE IF q = cptr[p] THEN n
                                    ELSE yptr[q]
      /\ \A q \in Proc : parent'[q] = IF q = n THEN p ELSE parent[q]
      /\ \A q \in Proc : s[q] = IF q = n THEN IF cptr[p] = Nobody THEN 0 ELSE r[cptr[p]] + 1
                                ELSE r[q]
  BY DEF Linked, set_links
<1> HIDE DEF s
<1>3. /\ cptr[p] # n
      /\ \A q \in Proc : optr[q] # n /\ yptr[q] # n
      /\ \A q \in Proc : cptr[q] # n
      /\ \A q \in Proc : q # p /\ cptr[q] # Nobody => cptr[q] # cptr[p]
      /\ \A q \in Proc : optr[q] # Nobody => optr[q] # cptr[p]
  BY DEF Linked
<1>4. \A q \in Proc : cptr'[q] # Nobody => parent'[cptr'[q]] = q /\ yptr'[cptr'[q]] = Nobody
  BY <1>1, <1>2, <1>3 DEF Linked
<1>5. \A q \in Proc : optr'[q] # Nobody =>
         /\ parent'[q] # Nobody /\ parent'[optr'[q]] = parent'[q]
         /\ yptr'[optr'[q]] = q /\ s[optr'[q]] < s[q]
  BY <1>1, <1>2, <1>3 DEF Linked
<1>6. \A q \in Proc : yptr'[q] # Nobody => optr'[yptr'[q]] = q
  BY <1>1, <1>2, <1>3 DEF Linked
<1>7. \A q \in Proc : parent'[q] # Nobody /\ yptr'[q] = Nobody => cptr'[parent'[q]] = q
  BY <1>1, <1>2, <1>3 DEF Linked
<1>8. Linked(cptr', optr', yptr', parent', s)
  BY <1>1, <1>4, <1>5, <1>6, <1>7 DEF Linked
<1> QED BY <1>8

\* remove_links closes the gap (proc.c:184-197).
LEMMA LinkedAfterRemove ==
  ASSUME NEW r, Linked(cptr, optr, yptr, parent, r),
         NEW z \in Proc, parent[z] \in Proc, remove_links(z),
         parent' = [parent EXCEPT ![z] = Nobody]
  PROVE  Linked(cptr', optr', yptr', parent', r)
<1> USE ProcAssumption
<1>1. /\ cptr' \in [Proc -> Proc \cup {Nobody}]
      /\ optr' \in [Proc -> Proc \cup {Nobody}]
      /\ yptr' \in [Proc -> Proc \cup {Nobody}]
      /\ parent' \in [Proc -> Proc \cup {Nobody}]
  BY DEF Linked, remove_links, YoungerPasses
<1>2. /\ \A q \in Proc : cptr'[q] = IF yptr[z] = Nobody /\ q = parent[z] THEN optr[z]
                                    ELSE cptr[q]
      /\ \A q \in Proc : optr'[q] = IF q = z THEN Nobody ELSE IF q = yptr[z] THEN optr[z]
                                    ELSE optr[q]
      /\ \A q \in Proc : yptr'[q] = IF q = optr[z] THEN yptr[z]
                                    ELSE IF q = z THEN Nobody ELSE yptr[q]
      /\ \A q \in Proc : parent'[q] = IF q = z THEN Nobody ELSE parent[q]
  BY DEF Linked, remove_links, YoungerPasses
<1>3. /\ optr[z] # z /\ yptr[z] # z
      /\ \A q \in Proc : optr[q] = z => q = yptr[z]
      /\ \A q \in Proc : yptr[q] = z => q = optr[z]
      /\ \A q \in Proc : cptr[q] = z => q = parent[z] /\ yptr[z] = Nobody
      /\ yptr[z] # Nobody => /\ parent[yptr[z]] = parent[z] /\ optr[yptr[z]] = z
                             /\ r[z] < r[yptr[z]]
      /\ optr[z] # Nobody => /\ parent[optr[z]] = parent[z] /\ yptr[optr[z]] = z
                             /\ r[optr[z]] < r[z]
  BY DEF Linked
<1>4. \A q \in Proc : cptr'[q] # Nobody => parent'[cptr'[q]] = q /\ yptr'[cptr'[q]] = Nobody
  BY <1>1, <1>2, <1>3 DEF Linked
<1>5. \A q \in Proc : optr'[q] # Nobody =>
         /\ parent'[q] # Nobody /\ parent'[optr'[q]] = parent'[q]
         /\ yptr'[optr'[q]] = q /\ r[optr'[q]] < r[q]
  BY <1>1, <1>2, <1>3 DEF Linked
<1>6. \A q \in Proc : yptr'[q] # Nobody => optr'[yptr'[q]] = q
  BY <1>1, <1>2, <1>3 DEF Linked
<1>7. \A q \in Proc : parent'[q] # Nobody /\ yptr'[q] = Nobody => cptr'[parent'[q]] = q
  BY <1>1, <1>2, <1>3 DEF Linked
<1> QED BY <1>1, <1>4, <1>5, <1>6, <1>7 DEF Linked

-----------------------------------------------------------------------------
\* The links l of a turn of the loop in do_exit(p), without the pointer that the
\* youngest child left still has to the sibling just handed over.
Cleaned(l, p) == [q \in Proc |-> IF q = l.cptr[p] THEN Nobody ELSE l.yptr[q]]

Between(l, p, par, r) == Linked(l.cptr, l.optr, Cleaned(l, p), par, r)

\* What a turn leaves alone, and which child it hands over.
LEMMA HandedLinks ==
  ASSUME NEW c \in [Proc -> Proc \cup {Nobody}], NEW o \in [Proc -> Proc \cup {Nobody}],
         NEW y \in [Proc -> Proc \cup {Nobody}], NEW l, l = [cptr |-> c, optr |-> o, yptr |-> y],
         NEW p \in Proc, p # Init1, c[p] # Nobody
  PROVE  LET h == Handed(l, p)
         IN  /\ h = [cptr |-> h.cptr, optr |-> h.optr, yptr |-> h.yptr]
             /\ h.cptr \in [Proc -> Proc \cup {Nobody}]
             /\ h.optr \in [Proc -> Proc \cup {Nobody}]
             /\ h.yptr \in [Proc -> Proc \cup {Nobody}]
             /\ \A q \in Proc : h.cptr[q] = IF q = Init1 THEN c[p]
                                            ELSE IF q = p THEN o[c[p]] ELSE c[q]
             /\ \A q \in Proc : h.optr[q] = IF q = c[p] THEN c[Init1] ELSE o[q]
             /\ \A q \in Proc : h.yptr[q] = IF q = c[p] THEN Nobody
                                            ELSE IF q = c[Init1] THEN c[p] ELSE y[q]
<1> USE ProcAssumption
<1> DEFINE h  == Handed(l, p)
           hc == [c EXCEPT ![p] = o[c[p]], ![Init1] = c[p]]
           ho == [o EXCEPT ![c[p]] = c[Init1]]
           hy == [q \in Proc |-> IF q = c[p] THEN Nobody
                                 ELSE IF q = c[Init1] THEN c[p] ELSE y[q]]
<1>1. h = [cptr |-> hc, optr |-> ho, yptr |-> hy]
  BY DEF Handed
<1>2. /\ hc \in [Proc -> Proc \cup {Nobody}]
      /\ ho \in [Proc -> Proc \cup {Nobody}]
      /\ hy \in [Proc -> Proc \cup {Nobody}]
  OBVIOUS
<1>3. /\ \A q \in Proc : hc[q] = IF q = Init1 THEN c[p] ELSE IF q = p THEN o[c[p]] ELSE c[q]
      /\ \A q \in Proc : ho[q] = IF q = c[p] THEN c[Init1] ELSE o[q]
      /\ \A q \in Proc : hy[q] = IF q = c[p] THEN Nobody
                                 ELSE IF q = c[Init1] THEN c[p] ELSE y[q]
  OBVIOUS
<1> HIDE DEF h, hc, ho, hy
<1>4. h.cptr = hc /\ h.optr = ho /\ h.yptr = hy
  BY <1>1
<1>5. h = [cptr |-> h.cptr, optr |-> h.optr, yptr |-> h.yptr]
  BY <1>1, <1>4
<1>6. /\ h.cptr \in [Proc -> Proc \cup {Nobody}]
      /\ h.optr \in [Proc -> Proc \cup {Nobody}]
      /\ h.yptr \in [Proc -> Proc \cup {Nobody}]
  BY <1>2, <1>4
<1>7. \A q \in Proc : h.cptr[q] = IF q = Init1 THEN c[p] ELSE IF q = p THEN o[c[p]] ELSE c[q]
  BY <1>3, <1>4
<1>8. \A q \in Proc : h.optr[q] = IF q = c[p] THEN c[Init1] ELSE o[q]
  BY <1>3, <1>4
<1>9. \A q \in Proc : h.yptr[q] = IF q = c[p] THEN Nobody
                                  ELSE IF q = c[Init1] THEN c[p] ELSE y[q]
  BY <1>3, <1>4
<1> QED BY <1>5, <1>6, <1>7, <1>8, <1>9 DEF h

\* A turn keeps the lists, with the child it handed over as initproc's.
LEMMA LinkedAfterTurn ==
  ASSUME NEW c \in [Proc -> Proc \cup {Nobody}], NEW o \in [Proc -> Proc \cup {Nobody}],
         NEW y \in [Proc -> Proc \cup {Nobody}], NEW l, l = [cptr |-> c, optr |-> o, yptr |-> y],
         NEW p \in Proc, p # Init1, NEW par, NEW r, Between(l, p, par, r), c[p] # Nobody
  PROVE  \E s : Between(Handed(l, p), p, [par EXCEPT ![c[p]] = Init1], s)
<1> USE ProcAssumption
<1> DEFINE h  == Handed(l, p)
           x  == c[p]
           i  == c[Init1]
           y0 == [q \in Proc |-> IF q = x THEN Nobody ELSE y[q]]
           par1 == [par EXCEPT ![x] = Init1]
           s  == [r EXCEPT ![x] = IF i = Nobody THEN 0 ELSE r[i] + 1]
           y1 == Cleaned(h, p)
<1>1. Linked(c, o, y0, par, r)
  BY DEF Between, Cleaned
<1>2. /\ par1 \in [Proc -> Proc \cup {Nobody}] /\ s \in [Proc -> Int]
      /\ \A q \in Proc : par1[q] = IF q = x THEN Init1 ELSE par[q]
      /\ \A q \in Proc : s[q] = IF q = x THEN IF i = Nobody THEN 0 ELSE r[i] + 1 ELSE r[q]
  BY <1>1 DEF Linked
<1>3. /\ h.cptr \in [Proc -> Proc \cup {Nobody}]
      /\ h.optr \in [Proc -> Proc \cup {Nobody}]
      /\ h.yptr \in [Proc -> Proc \cup {Nobody}]
      /\ \A q \in Proc : h.cptr[q] = IF q = Init1 THEN x ELSE IF q = p THEN o[x] ELSE c[q]
      /\ \A q \in Proc : h.optr[q] = IF q = x THEN i ELSE o[q]
      /\ \A q \in Proc : h.yptr[q] = IF q = x THEN Nobody ELSE IF q = i THEN x ELSE y[q]
  BY HandedLinks
<1>4. /\ y1 \in [Proc -> Proc \cup {Nobody}]
      /\ \A q \in Proc : y1[q] = IF q = o[x] \/ q = x THEN Nobody
                                 ELSE IF q = i THEN x ELSE y0[q]
  BY <1>3 DEF Cleaned
<1>5. x \in Proc /\ y0 \in [Proc -> Proc \cup {Nobody}]
  OBVIOUS
<1> DEFINE hc == h.cptr
           ho == h.optr
<1>7. /\ hc \in [Proc -> Proc \cup {Nobody}] /\ ho \in [Proc -> Proc \cup {Nobody}]
      /\ \A q \in Proc : hc[q] = IF q = Init1 THEN x ELSE IF q = p THEN o[x] ELSE c[q]
      /\ \A q \in Proc : ho[q] = IF q = x THEN i ELSE o[q]
  BY <1>3
<1>8. x = c[p] /\ i = c[Init1] /\ p # Init1 /\ x # Nobody
  OBVIOUS
<1> SUFFICES Linked(hc, ho, y1, par1, s)
  BY DEF Between
<1> HIDE DEF h, x, i, y0, par1, s, y1, hc, ho
<1>9. /\ par[x] = p /\ y0[x] = Nobody
      /\ i # Nobody => par[i] = Init1 /\ y0[i] = Nobody
      /\ i # x
      /\ \A q \in Proc : q # p => c[q] # x
      /\ \A q \in Proc : o[q] # x
      /\ \A q \in Proc : y0[q] = x => q = o[x]
      /\ o[x] # x
      /\ o[x] # Nobody => par[o[x]] = p /\ y0[o[x]] = x
  BY <1>1, <1>5, <1>8 DEF Linked
<1>10. \A q \in Proc : hc[q] # Nobody => par1[hc[q]] = q /\ y1[hc[q]] = Nobody
  BY <1>1, <1>2, <1>4, <1>5, <1>7, <1>8, <1>9 DEF Linked
<1>11. \A q \in Proc : ho[q] # Nobody => /\ par1[q] # Nobody /\ par1[ho[q]] = par1[q]
                                         /\ y1[ho[q]] = q /\ s[ho[q]] < s[q]
  BY <1>1, <1>2, <1>4, <1>5, <1>7, <1>8, <1>9 DEF Linked
<1>12. \A q \in Proc : y1[q] # Nobody => ho[y1[q]] = q
  BY <1>1, <1>2, <1>4, <1>5, <1>7, <1>8, <1>9 DEF Linked
<1>13. \A q \in Proc : par1[q] # Nobody /\ y1[q] = Nobody => hc[par1[q]] = q
  BY <1>1, <1>2, <1>4, <1>5, <1>7, <1>8, <1>9 DEF Linked
<1> QED BY <1>2, <1>4, <1>7, <1>10, <1>11, <1>12, <1>13 DEF Linked

-----------------------------------------------------------------------------
\* Induction over the numbers, for the set of those that a formula holds of.
LEMMA SetInduction ==
  ASSUME NEW S, 0 \in S, \A n \in Nat : n \in S => n + 1 \in S
  PROVE  Nat \subseteq S
<1>1. IsWellFoundedOn(OpToRel(<, Nat), Nat)
  BY NatLessThanWellFounded
<1>2. PICK R : IsWellFoundedOn(R, Nat) /\ R = {ss \in Nat \X Nat : ss[1] < ss[2]}
  BY <1>1 DEF OpToRel
<1> SUFFICES ASSUME Nat \ S # {} PROVE FALSE
  OBVIOUS
<1>3. PICK x \in Nat \ S : \A y \in Nat \ S : <<y, x>> \notin R
  BY <1>2, WFMin
<1>4. x # 0 /\ x - 1 \in Nat /\ x = (x - 1) + 1
  OBVIOUS
<1>5. <<x - 1, x>> \in R
  BY <1>2, <1>4
<1>6. x - 1 \in S
  BY <1>3, <1>4, <1>5
<1> QED BY <1>4, <1>6

\* Among finitely many processes one has the highest rank.
LEMMA HighestRank ==
  ASSUME NEW r \in [Proc -> Int], NEW T \in SUBSET Proc, T # {}
  PROVE  \E x \in T : \A q \in T : r[q] <= r[x]
<1> DEFINE Top(S) == \E x \in S : \A q \in S : r[q] <= r[x]
           K == {n \in Nat : \A S \in SUBSET Proc : S # {} /\ Cardinality(S) <= n => Top(S)}
<1>1. \A S \in SUBSET Proc : IsFiniteSet(S) /\ Cardinality(S) \in Nat
  BY ProcAssumption, FS_Subset, FS_CardinalityType
<1>2. 0 \in K
  <2>1. \A S \in SUBSET Proc : Cardinality(S) <= 0 => S = {}
    BY <1>1, FS_EmptySet
  <2> QED BY <2>1
<1>3. ASSUME NEW n \in Nat, n \in K PROVE n + 1 \in K
  <2> SUFFICES ASSUME NEW S \in SUBSET Proc, S # {}, Cardinality(S) <= n + 1
               PROVE  Top(S)
    OBVIOUS
  <2>1. PICK s \in S : TRUE
    OBVIOUS
  <2> DEFINE U == S \ {s}
  <2>2. U \in SUBSET Proc /\ Cardinality(U) = Cardinality(S) - 1
    BY <1>1, FS_RemoveElement
  <2>3. Cardinality(U) <= n
    BY <1>1, <2>2
  <2>4. CASE U = {}
    <3>1. \A q \in S : q = s
      BY <2>4
    <3>2. r[s] <= r[s]
      OBVIOUS
    <3> QED BY <3>1, <3>2
  <2>5. CASE U # {}
    <3>1. PICK x \in U : \A q \in U : r[q] <= r[x]
      BY <1>3, <2>2, <2>3, <2>5
    <3>2. s \in Proc /\ x \in Proc /\ \A q \in S : q \in Proc /\ (q = s \/ q \in U)
      OBVIOUS
    <3>3. CASE r[s] <= r[x]
      BY <3>1, <3>2, <3>3
    <3>4. CASE r[x] < r[s]
      <4>1. \A q \in S : r[q] \in Int /\ r[x] \in Int /\ r[s] \in Int
        BY <3>2
      <4>2. \A q \in S : r[q] <= r[s]
        BY <3>1, <3>2, <3>4, <4>1
      <4> QED BY <4>2
    <3>5. r[x] \in Int /\ r[s] \in Int
      BY <3>2
    <3> QED BY <3>3, <3>4, <3>5
  <2> QED BY <2>4, <2>5
<1> HIDE DEF K
<1>4. Cardinality(T) \in K
  BY <1>1, <1>2, <1>3, SetInduction
<1>5. Cardinality(T) <= Cardinality(T)
  BY <1>1
<1> QED BY <1>4, <1>5 DEF K

\* A set that has the youngest child of p and with a child its older sibling has them all.
LEMMA AllReached ==
  ASSUME NEW c, NEW o, NEW y, NEW par, NEW r, Linked(c, o, y, par, r), NEW p \in Proc,
         NEW S \in SUBSET Proc, c[p] \in S \cup {Nobody},
         \A q \in S : o[q] \in S \cup {Nobody}
  PROVE  {q \in Proc : par[q] = p} \subseteq S
<1> USE ProcAssumption
<1> DEFINE T == {q \in Proc : par[q] = p} \ S
<1> SUFFICES ASSUME T # {} PROVE FALSE
  OBVIOUS
<1>1. PICK x \in T : \A q \in T : r[q] <= r[x]
  <2>1. r \in [Proc -> Int] /\ T \in SUBSET Proc
    BY DEF Linked
  <2> QED BY <2>1, HighestRank
<1>2. CASE y[x] = Nobody
  BY <1>1, <1>2 DEF Linked
<1>3. CASE y[x] # Nobody
  <2>1. y[x] \in Proc /\ o[y[x]] = x
    BY <1>1, <1>3 DEF Linked
  <2>2. par[y[x]] = p /\ r[x] < r[y[x]] /\ r[x] \in Int /\ r[y[x]] \in Int
    BY <1>1, <2>1 DEF Linked
  <2>3. y[x] \notin T
    BY <1>1, <2>2
  <2> QED BY <1>1, <2>1, <2>2, <2>3
<1> QED BY <1>2, <1>3

\* A turn of the loop, or none when p has no child left.
Turn(l, p) == IF l.cptr[p] = Nobody THEN l ELSE Handed(l, p)

Before == [cptr |-> cptr, optr |-> optr, yptr |-> yptr]

\* The function of the loop in HandedOver exists.
LEMMA LoopIs ==
  ASSUME NEW p \in Proc
  PROVE  \E h : /\ h[0] = Before
                /\ \A n \in 1..Cardinality(Proc) : h[n] = Turn(h[n - 1], p)
                /\ HandedOver(p) = h[Cardinality(Proc)]
<1> DEFINE N == Cardinality(Proc)
           Solves(h, k) == h = [n \in 0..k |-> IF n = 0 THEN Before ELSE Turn(h[n - 1], p)]
           Solved == {k \in Nat : \E h : Solves(h, k)}
<1>1. N \in Nat
  BY ProcAssumption, FS_CardinalityType
<1>2. 0 \in Solved
  <2> DEFINE h == [n \in 0..0 |-> Before]
  <2>1. Solves(h, 0)
    OBVIOUS
  <2> QED BY <2>1
<1>3. ASSUME NEW k \in Nat, k \in Solved PROVE k + 1 \in Solved
  <2>1. PICK h : Solves(h, k)
    BY <1>3
  <2> DEFINE g == [n \in 0..(k + 1) |-> IF n \in 0..k THEN h[n] ELSE Turn(h[k], p)]
  <2>2. \A n \in 0..k : h[n] = IF n = 0 THEN Before ELSE Turn(h[n - 1], p)
    BY <2>1
  <2>3. \A n \in 0..(k + 1) : g[n] = IF n \in 0..k THEN h[n] ELSE Turn(h[k], p)
    OBVIOUS
  <2>4. DOMAIN g = 0..(k + 1) /\ g = [n \in DOMAIN g |-> g[n]]
    OBVIOUS
  <2> HIDE DEF g
  <2>5. \A n \in 0..(k + 1) : g[n] = IF n = 0 THEN Before ELSE Turn(g[n - 1], p)
    BY <2>2, <2>3
  <2>6. Solves(g, k + 1)
    BY <2>4, <2>5
  <2> QED BY <2>6
<1> HIDE DEF Solved
<1>4. N \in Solved
  BY <1>1, <1>2, <1>3, SetInduction
<1> DEFINE Eq(h) == h = [n \in 0..N |-> IF n = 0 THEN [cptr |-> cptr, optr |-> optr, yptr |-> yptr]
                                        ELSE IF h[n - 1].cptr[p] = Nobody THEN h[n - 1]
                                        ELSE Handed(h[n - 1], p)]
           after == CHOOSE h : Eq(h)
<1>5. HandedOver(p) = after[N]
  BY DEF HandedOver
<1>6. ASSUME NEW h PROVE Solves(h, N) <=> Eq(h)
  BY DEF Turn, Before
<1>7. \E h : Solves(h, N)
  BY <1>4 DEF Solved
<1> HIDE DEF Eq, Solves
<1>8. \E h : Eq(h)
  BY <1>6, <1>7
<1>9. Eq(after)
  BY ONLY <1>8
<1> HIDE DEF after
<1>10. Solves(after, N)
  BY <1>6, <1>9
<1>11. \A n \in 0..N : after[n] = IF n = 0 THEN Before ELSE Turn(after[n - 1], p)
  BY <1>10 DEF Solves
<1> QED BY <1>1, <1>5, <1>11

\* The loop of do_exit gives all children of p to initproc and keeps the lists
\* (proc.c:584-600).
LEMMA LinkedAfterExit ==
  ASSUME NEW r, Linked(cptr, optr, yptr, parent, r), NEW p \in Proc, p # Init1,
         parent[Init1] # p
  PROVE  LET l == HandedOver(p)
         IN  \E s : Linked(l.cptr, l.optr, l.yptr, Adopted(p), s)
<1> USE ProcAssumption
<1> DEFINE N == Cardinality(Proc)
           Kids(par) == {q \in Proc : par[q] = p}
           Moved(par) == \A q \in Proc : IF parent[q] = p THEN par[q] \in {p, Init1}
                                         ELSE par[q] = parent[q]
           Left(par, n) == Kids(par) = {} \/ Cardinality(Kids(par)) + n <= N
           IsLinks(l) == \E c, o, y \in [Proc -> Proc \cup {Nobody}] :
                           l = [cptr |-> c, optr |-> o, yptr |-> y]
           Done(l, n) == \E par, s : Between(l, p, par, s) /\ Moved(par) /\ Left(par, n)
<1>1. PICK h : /\ h[0] = Before
               /\ \A n \in 1..N : h[n] = Turn(h[n - 1], p)
               /\ HandedOver(p) = h[N]
  BY LoopIs
<1>2. N \in Nat /\ \A S \in SUBSET Proc : IsFiniteSet(S) /\ Cardinality(S) \in 0..N
  <2>1. \A S \in SUBSET Proc : IsFiniteSet(S) /\ Cardinality(S) <= Cardinality(Proc)
    BY FS_Subset
  <2>2. N \in Nat /\ \A S \in SUBSET Proc : Cardinality(S) \in Nat
    BY <2>1, FS_CardinalityType
  <2> QED BY <2>1, <2>2
<1> DEFINE Both(n) == IsLinks(h[n]) /\ Done(h[n], n)
           Good == {n \in Nat : n <= N => Both(n)}
<1> HIDE DEF Both
<1>3. 0 \in Good
  <2>1. IsLinks(h[0])
    <3>1. /\ cptr \in [Proc -> Proc \cup {Nobody}] /\ optr \in [Proc -> Proc \cup {Nobody}]
          /\ yptr \in [Proc -> Proc \cup {Nobody}]
      BY DEF Linked
    <3>2. h[0] = [cptr |-> cptr, optr |-> optr, yptr |-> yptr]
      BY <1>1 DEF Before
    <3> QED BY <3>1, <3>2
  <2>2. Cleaned(h[0], p) = yptr
    <3>1. \A q \in Proc : q = cptr[p] => yptr[q] = Nobody
      BY DEF Linked
    <3>2. yptr = [q \in Proc |-> yptr[q]]
      BY DEF Linked
    <3> QED BY <1>1, <3>1, <3>2 DEF Cleaned, Before
  <2>3. Between(h[0], p, parent, r)
    <3>1. h[0].cptr = cptr /\ h[0].optr = optr
      BY <1>1 DEF Before
    <3> QED BY <2>2, <3>1 DEF Between
  <2>4. Moved(parent)
    OBVIOUS
  <2>5. Left(parent, 0)
    <3>1. Kids(parent) \in SUBSET Proc
      OBVIOUS
    <3>2. Cardinality(Kids(parent)) \in 0..N
      BY <1>2, <3>1
    <3> QED BY <1>2, <3>2
  <2> HIDE DEF Moved, Left, IsLinks
  <2>6. Both(0)
    BY <2>1, <2>3, <2>4, <2>5 DEF Both
  <2> HIDE DEF Done
  <2> QED BY <2>6
<1>4. ASSUME NEW n \in Nat, n \in Good PROVE n + 1 \in Good
  <2> SUFFICES ASSUME n + 1 <= N PROVE Both(n + 1)
    OBVIOUS
  <2>1. n + 1 \in 1..N /\ (n + 1) - 1 = n /\ n <= N
    BY <1>2
  <2>2. h[n + 1] = Turn(h[n], p)
    BY <1>1, <2>1
  <2>3. IsLinks(h[n]) /\ Done(h[n], n)
    BY <1>4, <2>1 DEF Both
  <2>4. PICK c, o, y \in [Proc -> Proc \cup {Nobody}] :
           h[n] = [cptr |-> c, optr |-> o, yptr |-> y]
    BY <2>3
  <2>5. PICK par, s : Between(h[n], p, par, s) /\ Moved(par) /\ Left(par, n)
    BY <2>3
  <2> DEFINE y0 == Cleaned(h[n], p)
  <2>6. h[n].cptr = c /\ h[n].optr = o
    BY <2>4
  <2>7. Linked(c, o, y0, par, s)
    BY <2>5, <2>6 DEF Between
  <2>8. Kids(par) \in SUBSET Proc
    OBVIOUS
  <2>9. CASE c[p] = Nobody
    <3>1. Kids(par) = {}
      <4>1. PICK S : S = {}
        OBVIOUS
      <4>2. S \in SUBSET Proc /\ c[p] \in S \cup {Nobody}
            /\ \A q \in S : o[q] \in S \cup {Nobody}
        BY <2>9, <4>1
      <4> HIDE DEF y0
      <4>3. Kids(par) \subseteq S
        BY <2>7, <4>2, AllReached
      <4> QED BY <4>1, <4>3
    <3>2. h[n + 1] = h[n]
      BY <2>2, <2>6, <2>9 DEF Turn
    <3>3. Left(par, n + 1)
      BY <3>1
    <3> HIDE DEF Moved, Left, IsLinks
    <3> QED BY <2>3, <2>5, <3>2, <3>3 DEF Both
  <2>10. CASE c[p] # Nobody
    <3> DEFINE par1 == [par EXCEPT ![c[p]] = Init1]
    <3>1. h[n + 1] = Handed(h[n], p)
      BY <2>2, <2>6, <2>10 DEF Turn
    <3>2. IsLinks(h[n + 1])
      <4> DEFINE g == Handed(h[n], p)
      <4>1. /\ g = [cptr |-> g.cptr, optr |-> g.optr, yptr |-> g.yptr]
            /\ g.cptr \in [Proc -> Proc \cup {Nobody}]
            /\ g.optr \in [Proc -> Proc \cup {Nobody}]
            /\ g.yptr \in [Proc -> Proc \cup {Nobody}]
        BY <2>4, <2>10, HandedLinks
      <4> HIDE DEF g
      <4>2. IsLinks(g)
        BY <4>1
      <4> QED BY <3>1, <4>2 DEF g
    <3>3. PICK t : Between(Handed(h[n], p), p, par1, t)
      BY <2>4, <2>5, <2>10, LinkedAfterTurn
    <3>4. par \in [Proc -> Proc \cup {Nobody}] /\ par[c[p]] = p /\ c[p] \in Proc
      BY <2>7, <2>10 DEF Linked
    <3>5. Moved(par1)
      BY <2>5, <3>4
    <3>6. Kids(par1) = Kids(par) \ {c[p]} /\ c[p] \in Kids(par)
      BY <3>4
    <3>7. Cardinality(Kids(par1)) = Cardinality(Kids(par)) - 1
      <4> DEFINE K == Kids(par)
                 x == c[p]
      <4>1. IsFiniteSet(K) /\ x \in K
        BY <1>2, <2>8, <3>6
      <4>2. Cardinality(K \ {x}) = Cardinality(K) - 1
        <5> HIDE DEF K, x
        <5> QED BY <4>1, FS_RemoveElement
      <4>3. Kids(par1) = K \ {x}
        BY <3>6
      <4> HIDE DEF K, x, Kids
      <4>4. Cardinality(Kids(par1)) = Cardinality(K \ {x})
        BY ONLY <4>3
      <4> QED BY <4>2, <4>4 DEF K
    <3>8. Left(par1, n + 1)
      <4>1. Cardinality(Kids(par)) + n <= N
        BY <2>5, <3>6
      <4>2. Cardinality(Kids(par)) \in Nat
        BY <1>2, <2>8
      <4> HIDE DEF Kids
      <4> QED BY <1>2, <3>7, <4>1, <4>2
    <3> HIDE DEF Moved, Left, IsLinks, par1
    <3> QED BY <3>1, <3>2, <3>3, <3>5, <3>8 DEF Both
  <2>11. c[p] \in Proc \cup {Nobody}
    OBVIOUS
  <2> QED BY <2>9, <2>10
<1>5. N \in Good
  <2> HIDE DEF Good
  <2> QED BY <1>2, <1>3, <1>4, SetInduction
<1>6. IsLinks(h[N]) /\ Done(h[N], N)
  <2>1. Both(N)
    BY <1>2, <1>5
  <2> QED BY <2>1 DEF Both
<1>7. PICK c, o, y \in [Proc -> Proc \cup {Nobody}] :
         h[N] = [cptr |-> c, optr |-> o, yptr |-> y]
  BY <1>6
<1>8. PICK par, s : Between(h[N], p, par, s) /\ Moved(par) /\ Left(par, N)
  BY <1>6
<1>9. Kids(par) = {}
  <2>1. IsFiniteSet(Kids(par)) /\ Cardinality(Kids(par)) \in Nat
    BY <1>2
  <2>2. CASE Cardinality(Kids(par)) + N <= N
    <3>1. Cardinality(Kids(par)) = 0
      BY <1>2, <2>1, <2>2
    <3> HIDE DEF Kids
    <3> QED BY <2>1, <3>1, FS_EmptySet
  <2> QED BY <1>8, <2>2
<1>10. h[N].cptr = c /\ h[N].optr = o /\ h[N].yptr = y
  BY <1>7
<1>11. Linked(c, o, Cleaned(h[N], p), par, s)
  BY <1>8, <1>10 DEF Between
<1>12. c[p] = Nobody
  BY <1>9, <1>11 DEF Linked
<1>13. Cleaned(h[N], p) = y
  BY <1>10, <1>12 DEF Cleaned
<1>14. par = Adopted(p)
  <2>1. par \in [Proc -> Proc \cup {Nobody}]
    BY <1>11 DEF Linked
  <2>2. \A q \in Proc : par[q] = IF parent[q] = p THEN Init1 ELSE parent[q]
    BY <1>8, <1>9
  <2> QED BY <2>1, <2>2 DEF Adopted
<1>15. Linked(c, o, y, Adopted(p), s)
  BY <1>11, <1>13, <1>14
<1> QED BY <1>1, <1>10, <1>15

-----------------------------------------------------------------------------
(***************************************************************************)
(* What a step does to the tree.                                           *)
(***************************************************************************)

\* The step allocates n as a child of current; makes p a zombie; frees z; or does
\* nothing of the kind.
Forks(n) ==
  /\ n \in Proc /\ state[n] = "UNUSED" /\ parent[n] = Nobody
  /\ state' = [state EXCEPT ![n] = "RUNNABLE"]
  /\ parent' = [parent EXCEPT ![n] = current]

Exits(p) ==
  /\ p \in User /\ state[p] # "ZOMBIE" /\ state'[p] = "ZOMBIE"
  /\ \A q \in Proc \ {p} : /\ state'[q] = "ZOMBIE" <=> state[q] = "ZOMBIE"
                           /\ state'[q] = "UNUSED" <=> state[q] = "UNUSED"
  /\ state[p] # "UNUSED"
  /\ parent' = Adopted(p)

Reaps(z) ==
  /\ z \in Proc /\ state[z] = "ZOMBIE" /\ state'[z] = "UNUSED" /\ parent[z] \in Proc
  /\ \A q \in Proc \ {z} : /\ state'[q] = "ZOMBIE" <=> state[q] = "ZOMBIE"
                           /\ state'[q] = "UNUSED" <=> state[q] = "UNUSED"
  /\ parent' = [parent EXCEPT ![z] = Nobody]

Leaves ==
  /\ \A q \in Proc : /\ state'[q] = "ZOMBIE" <=> state[q] = "ZOMBIE"
                     /\ state'[q] = "UNUSED" <=> state[q] = "UNUSED"
  /\ parent' = parent

TreeStep == (\E n \in Proc : Forks(n)) \/ (\E p \in Proc : Exits(p))
            \/ (\E z \in Proc : Reaps(z)) \/ Leaves

LEMMA ExitTree ==
  ASSUME IInv, NEW p \in User, current = p, DoExit(p)
  PROVE  Exits(p)
<1> USE ProcAssumption DEF User
<1>1. /\ \A q \in Proc : q \in ExitWakes(p) => q # p /\ state[q] = "SLEEPING"
      /\ \A q \in Proc : state'[q] = IF q = p THEN "ZOMBIE" ELSE
                                     IF q \in ExitWakes(p) THEN "RUNNABLE" ELSE state[q]
      /\ parent' = Adopted(p)
      /\ state[p] = "RUNNABLE"
  BY DEF DoExit, ExitWakes, IInv, TypeOK, SleepHasReason, StateW
<1> QED BY <1>1 DEF Exits

LEMMA WaitTree ==
  ASSUME IInv, NEW p \in Proc, current = p, NEW pid, DoWait(p, pid)
  PROVE  (\E z \in Proc : Reaps(z)) \/ Leaves
<1> USE ProcAssumption
<1>1. CASE WaitReap(p, pid)
  <2>1. PICK z \in WaitTargets(p, pid) \cap Zombies :
           /\ state' = [state EXCEPT ![z] = "UNUSED"]
           /\ parent' = [parent EXCEPT ![z] = Nobody]
    BY <1>1 DEF WaitReap
  <2>2. z \in Proc /\ parent[z] = p /\ state[z] = "ZOMBIE"
    BY <2>1 DEF WaitTargets, Children, Zombies
  <2>3. Reaps(z)
    BY <2>1, <2>2 DEF Reaps, IInv, TypeOK
  <2> QED BY <2>2, <2>3
<1>2. CASE WaitSleep(p, pid)
  BY <1>2 DEF WaitSleep, Leaves, IInv, TypeOK, SleepHasReason
<1>3. CASE WaitNoChild(p, pid)
  BY <1>3 DEF WaitNoChild, Leaves
<1> QED BY <1>1, <1>2, <1>3 DEF DoWait

LEMMA ForkTree ==
  ASSUME IInv, NEW p \in User \cup {Init1}, current = p, NEW n \in User, DoFork(p, n)
  PROVE  Forks(n)
BY ProcAssumption DEF DoFork, Forks, IInv, LiveParents, User

LEMMA SameTree ==
  ASSUME UNCHANGED <<state, parent>>
  PROVE  Leaves
BY DEF Leaves

LEMMA UserTree ==
  ASSUME IInv, NEW p \in User, UserStep(p)
  PROVE  TreeStep
<1> USE ProcAssumption DEF InUser, User
<1>1. CASE SysFork(p)
  BY <1>1, ForkTree DEF SysFork, TreeStep
<1>2. CASE SysExit(p)
  BY <1>2, ExitTree DEF SysExit, TreeStep
<1>3. CASE SysWait(p)
  BY <1>3, WaitTree DEF SysWait, TreeStep
<1>4. CASE SysYield(p) \/ SysOther(p)
  BY <1>4, SameTree DEF SysYield, SysOther, TreeStep
<1>5. CASE SysSleep(p)
  BY <1>5 DEF SysSleep, Leaves, TreeStep, IInv, TypeOK, SleepHasReason
<1>6. CASE SysKill(p)
  <2> PICK t \in User :
        LET W == IF waitState[t] # "NONE" THEN {t} ELSE {}
        IN  state' = StateW(W)
    BY <1>6 DEF SysKill
  <2>1. parent' = parent /\ \A q \in Proc : state'[q] # state[q] =>
                              state[q] = "SLEEPING" /\ state'[q] = "RUNNABLE"
    BY <1>6 DEF SysKill, StateW, IInv, TypeOK, SleepHasReason
  <2>2. Leaves
    BY <2>1 DEF Leaves
  <2> QED BY <2>2 DEF TreeStep
<1> QED BY <1>1, <1>2, <1>3, <1>4, <1>5, <1>6 DEF UserStep

LEMMA KernelTree ==
  ASSUME IInv, NEW p \in User, KernelStep(p)
  PROVE  TreeStep
<1> USE DEF User
<1>1. CASE TrapReturn(p)
  BY <1>1, ExitTree, SameTree DEF TrapReturn, TreeStep
<1>2. CASE WaitResume(p)
  BY <1>2, ExitTree, WaitTree DEF WaitResume, TreeStep
<1>3. CASE SleepResume(p)
  BY <1>3, SameTree DEF SleepResume, TreeStep
<1> QED BY <1>1, <1>2, <1>3 DEF KernelStep

LEMMA NextTree ==
  ASSUME IInv, [Next]_vars
  PROVE  TreeStep
<1> USE ProcAssumption
<1>1. CASE \E p \in User : UserStep(p) \/ KernelStep(p)
  BY <1>1, UserTree, KernelTree
<1>2. CASE InitMain
  BY <1>2, ForkTree DEF InitMain, TreeStep, User
<1>3. CASE InitLoop
  BY <1>3, WaitTree DEF InitLoop, TreeStep
<1>4. CASE IdleSchedule \/ UNCHANGED vars
  BY <1>4, SameTree DEF IdleSchedule, vars, TreeStep
<1>5. CASE \E sliceOver \in BOOLEAN : Tick(sliceOver)
  <2>1. /\ \A q \in Expired : state[q] \in {"SLEEPING", "RUNNABLE"}
        /\ \A q \in Proc : state'[q] = IF q \in Expired THEN "RUNNABLE" ELSE state[q]
        /\ parent' = parent
    BY <1>5 DEF Tick, Expired, StateW, IInv, TypeOK, TimersLive
  <2> QED BY <2>1 DEF Leaves, TreeStep
<1> QED BY <1>1, <1>2, <1>3, <1>4, <1>5 DEF Next, Halted

-----------------------------------------------------------------------------
LinksOK == \E r : Linked(cptr, optr, yptr, parent, r)

LEMMA LinksNext ==
  ASSUME IInv, LinksOK, [TreeNext]_<<vars, links>>
  PROVE  LinksOK'
<1> USE ProcAssumption
<1>1. PICK r : Linked(cptr, optr, yptr, parent, r)
  BY DEF LinksOK
<1>2. TreeStep
  BY NextTree DEF TreeNext
<1>3. state \in [Proc -> States] /\ current \in Proc /\ parent[Init1] = Idle
  BY DEF IInv, TypeOK, Positions
<1>4. CASE UNCHANGED <<vars, links>>
  BY <1>1, <1>4 DEF LinksOK, vars, links
<1>5. ASSUME NEW n \in Proc, Forked(n), set_links(n, current)
      PROVE  LinksOK'
  <2>1. Forks(n)
    BY <1>2, <1>3, <1>5 DEF TreeStep, Forks, Exits, Reaps, Leaves, Forked
  <2> QED BY <1>1, <1>3, <1>5, <2>1, LinkedAfterSet DEF Forks, LinksOK
<1>6. ASSUME NEW p \in Proc, Exited(p), cptr' = HandedOver(p).cptr,
             optr' = HandedOver(p).optr, yptr' = HandedOver(p).yptr
      PROVE  LinksOK'
  <2>1. Exits(p)
    BY <1>2, <1>3, <1>6 DEF TreeStep, Forks, Exits, Reaps, Leaves, Exited
  <2>2. p # Init1 /\ parent[Init1] # p
    BY <1>3, <2>1 DEF Exits, User
  <2>3. PICK s : Linked(HandedOver(p).cptr, HandedOver(p).optr, HandedOver(p).yptr, Adopted(p), s)
    BY <1>1, <2>2, LinkedAfterExit
  <2>4. parent' = Adopted(p)
    BY <2>1 DEF Exits
  <2>5. Linked(cptr', optr', yptr', parent', s)
    BY <1>6, <2>3, <2>4
  <2> QED BY <2>5 DEF LinksOK
<1>7. ASSUME NEW z \in Proc, Reaped(z), remove_links(z)
      PROVE  LinksOK'
  <2>1. Reaps(z)
    BY <1>2, <1>3, <1>7 DEF TreeStep, Forks, Exits, Reaps, Leaves, Reaped
  <2> QED BY <1>1, <1>7, <2>1, LinkedAfterRemove DEF Reaps, LinksOK
<1>8. CASE LinksKept
  <2>1. parent' = parent
    BY <1>2, <1>3, <1>8 DEF TreeStep, Forks, Exits, Reaps, Leaves, LinksKept, Forked,
       Exited, Reaped
  <2> QED BY <1>1, <1>8, <2>1 DEF LinksKept, links, LinksOK
<1> QED BY <1>4, <1>5, <1>6, <1>7, <1>8 DEF TreeNext

\* do_wait and do_exit find exactly the children of a process from cptr along optr,
\* and every pointer back is right, whatever forks, exits and is reaped in whatever
\* order (proc.c:171-197, 584-600).
THEOREM TreeExactCorrect == TreeSpec => []TreeExact
<1> USE ProcAssumption
<1>1. TreeInit => LinksOK
  <2> SUFFICES ASSUME TreeInit PROVE LinksOK
    OBVIOUS
  <2> DEFINE r == [p \in Proc |-> 0]
  <2>1. Linked(cptr, optr, yptr, parent, r)
    BY DEF TreeInit, Init, Linked
  <2> QED BY <2>1 DEF LinksOK
<1>2. LinksOK => TreeExact
  <2> SUFFICES ASSUME NEW r, Linked(cptr, optr, yptr, parent, r), NEW p \in Proc
               PROVE  /\ Older(cptr[p]) = Children(p)
                      /\ cptr[p] # Nobody => yptr[cptr[p]] = Nobody
                      /\ optr[p] # Nobody => yptr[optr[p]] = p /\ parent[optr[p]] = parent[p]
                      /\ yptr[p] # Nobody => optr[yptr[p]] = p
    BY DEF LinksOK, TreeExact
  <2>1. Older(cptr[p]) \subseteq Children(p)
    <3>1. cptr[p] \in Children(p) \cup {Nobody}
      BY DEF Children, Linked
    <3>2. FollowsOlder(Children(p))
      BY DEF FollowsOlder, Children, Linked
    <3>3. Children(p) \in SUBSET Proc
      BY DEF Children
    <3> QED BY <3>1, <3>2, <3>3 DEF Older
  <2>2. Children(p) \subseteq Older(cptr[p])
    <3> SUFFICES ASSUME NEW S \in SUBSET Proc, cptr[p] \in S \cup {Nobody}, FollowsOlder(S)
                 PROVE  Children(p) \subseteq S
      BY DEF Older, Children
    <3> QED BY AllReached DEF FollowsOlder, Children
  <2> QED BY <2>1, <2>2 DEF Linked
<1>3. TreeInit => Init
  BY DEF TreeInit
<1>4. [TreeNext]_<<vars, links>> => [Next]_vars
  BY DEF TreeNext
<1>5. IInv /\ LinksOK /\ [TreeNext]_<<vars, links>> => IInv' /\ LinksOK'
  BY <1>4, NextOK, LinksNext
<1> QED BY <1>1, <1>2, <1>3, <1>5, InitOK, PTL DEF TreeSpec
=============================================================================
