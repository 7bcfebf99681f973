-------------------------- MODULE CheckSyncProofs --------------------------
(***************************************************************************)
(* The two solutions of check_sync (src/lab8/kern/sync/check_sync.c) and   *)
(* the monitor (src/lab8/kern/sync/monitor.c) are safe for every number of *)
(* philosophers and of rounds: proofs of the invariants of CheckSync.      *)
(***************************************************************************)
EXTENDS CheckSync, SequenceTheorems, FiniteSetTheorems, TLAPS

-----------------------------------------------------------------------------
(***************************************************************************)
(* down() and up() keep the queues exact.                                  *)
(***************************************************************************)

\* A thread that is awake is in no queue, so that down() puts it in one queue, once
\* (wait_current_set, __down).
LEMMA DownQueues ==
  ASSUME SemTypeOK, QueuesExact, NEW t \in Thread, Awake(t), NEW s \in Sem, down(t, s)
  PROVE  SemTypeOK' /\ QueuesExact'
<1> USE SemAssumption
<1>1. CASE value[s] > 0 /\ value' = [value EXCEPT ![s] = @ - 1] /\ UNCHANGED <<queue, waits>>
  BY <1>1 DEF SemTypeOK, QueuesExact
<1>2. CASE /\ value[s] = 0 /\ UNCHANGED value
           /\ queue' = [queue EXCEPT ![s] = Append(queue[s], t)]
           /\ waits' = [waits EXCEPT ![t] = s]
  <2>1. queue[s] \in Seq(Thread) /\ Len(queue[s]) \in Nat
    BY DEF SemTypeOK
  <2>2. /\ queue'[s] \in Seq(Thread)
        /\ Len(queue'[s]) = Len(queue[s]) + 1
        /\ \A i \in 1..Len(queue[s]) : queue'[s][i] = queue[s][i]
        /\ queue'[s][Len(queue[s]) + 1] = t
    BY <1>2, <2>1, AppendProperties DEF SemTypeOK
  <2>3. \A i \in 1..Len(queue[s]) : queue[s][i] # t
    BY DEF QueuesExact, Awake
  <2>4. SemTypeOK'
    BY <1>2, <2>2 DEF SemTypeOK
  <2> SUFFICES ASSUME NEW u \in Sem
               PROVE  /\ \A x \in Thread : waits'[x] = u <=>
                           \E i \in 1..Len(queue'[u]) : queue'[u][i] = x
                      /\ \A i, j \in 1..Len(queue'[u]) : queue'[u][i] = queue'[u][j] => i = j
                      /\ value'[u] > 0 => queue'[u] = <<>>
    BY <2>4 DEF QueuesExact
  <2>5. CASE u # s
    BY <1>2, <2>5 DEF QueuesExact, SemTypeOK, Awake
  <2>6. CASE u = s
    <3>1. \A i, j \in 1..Len(queue'[s]) : queue'[s][i] = queue'[s][j] => i = j
      <4>1. \A i, j \in 1..Len(queue[s]) : queue[s][i] = queue[s][j] => i = j
        BY DEF QueuesExact
      <4>2. \A i \in 1..Len(queue'[s]) : i \in 1..Len(queue[s]) \/ i = Len(queue[s]) + 1
        BY <2>1, <2>2
      <4> QED BY ONLY <2>2, <2>3, <4>1, <4>2
    <3>2. ASSUME NEW x \in Thread
          PROVE  waits'[x] = s <=> \E i \in 1..Len(queue'[s]) : queue'[s][i] = x
      <4>1. CASE x = t
        BY <1>2, <2>1, <2>2, <4>1 DEF SemTypeOK
      <4>2. CASE x # t
        <5>1. waits'[x] = s <=> \E i \in 1..Len(queue[s]) : queue[s][i] = x
          BY <1>2, <4>2 DEF SemTypeOK, QueuesExact
        <5> QED BY <2>1, <2>2, <4>2, <5>1
      <4> QED BY <4>1, <4>2
    <3> QED BY <1>2, <2>6, <3>1, <3>2
  <2> QED BY <2>5, <2>6
<1> QED BY <1>1, <1>2 DEF down, Enqueued

\* up() takes the first waiter off its queue and wakes it, or raises the value of a
\* semaphore nobody waits for (__up).
LEMMA UpQueues ==
  ASSUME SemTypeOK, QueuesExact, NEW s \in Sem, up(s)
  PROVE  SemTypeOK' /\ QueuesExact'
<1> USE SemAssumption
<1>1. CASE /\ queue[s] = <<>> /\ UNCHANGED <<queue, waits>>
           /\ value' = [value EXCEPT ![s] = @ + 1]
  BY <1>1 DEF SemTypeOK, QueuesExact
<1>2. CASE /\ queue[s] # <<>> /\ UNCHANGED value
           /\ queue' = [queue EXCEPT ![s] = Tail(@)]
           /\ waits' = [waits EXCEPT ![Head(queue[s])] = NoSem]
  <2> DEFINE h == Head(queue[s])
  <2>1. queue[s] \in Seq(Thread) /\ Len(queue[s]) \in Nat \ {0}
    BY <1>2, EmptySeq DEF SemTypeOK
  <2>2. /\ queue'[s] \in Seq(Thread)
        /\ Len(queue'[s]) = Len(queue[s]) - 1
        /\ \A i \in 1..Len(queue[s]) - 1 : queue'[s][i] = queue[s][i + 1]
        /\ h = queue[s][1] /\ h \in Thread
    BY <1>2, <2>1, HeadTailProperties DEF SemTypeOK
  <2>3. waits[h] = s
    BY <2>1, <2>2 DEF QueuesExact
  <2>4. SemTypeOK'
    BY <1>2, <2>2 DEF SemTypeOK
  <2> SUFFICES ASSUME NEW u \in Sem
               PROVE  /\ \A x \in Thread : waits'[x] = u <=>
                           \E i \in 1..Len(queue'[u]) : queue'[u][i] = x
                      /\ \A i, j \in 1..Len(queue'[u]) : queue'[u][i] = queue'[u][j] => i = j
                      /\ value'[u] > 0 => queue'[u] = <<>>
    BY <2>4 DEF QueuesExact
  <2>5. CASE u # s
    BY <1>2, <2>2, <2>3, <2>5 DEF QueuesExact, SemTypeOK
  <2>6. CASE u = s
    <3>1. \A i, j \in 1..Len(queue'[s]) : queue'[s][i] = queue'[s][j] => i = j
      <4>1. \A i, j \in 1..Len(queue[s]) : queue[s][i] = queue[s][j] => i = j
        BY DEF QueuesExact
      <4>2. SUFFICES ASSUME NEW i \in 1..Len(queue'[s]), NEW j \in 1..Len(queue'[s]),
                            queue'[s][i] = queue'[s][j]
                     PROVE  i = j
        OBVIOUS
      <4>3. /\ i \in Int /\ j \in Int
            /\ i \in 1..Len(queue[s]) - 1 /\ j \in 1..Len(queue[s]) - 1
            /\ i + 1 \in 1..Len(queue[s]) /\ j + 1 \in 1..Len(queue[s])
        BY ONLY <2>1, <2>2, <4>2
      <4>4. queue[s][i + 1] = queue[s][j + 1]
        BY ONLY <2>2, <4>2, <4>3
      <4>5. i + 1 = j + 1
        BY ONLY <4>1, <4>3, <4>4
      <4> QED BY ONLY <4>3, <4>5
    <3>2. ASSUME NEW x \in Thread
          PROVE  waits'[x] = s <=> \E i \in 1..Len(queue'[s]) : queue'[s][i] = x
      <4>1. CASE x = h
        <5>1. waits'[x] # s
          BY <1>2, <2>2, <4>1 DEF SemTypeOK
        <5>2. ASSUME NEW i \in 1..Len(queue'[s]) PROVE queue'[s][i] # x
          <6>1. /\ 1 \in 1..Len(queue[s]) /\ i + 1 \in 1..Len(queue[s]) /\ i + 1 # 1
                /\ queue'[s][i] = queue[s][i + 1]
            BY <2>1, <2>2
          <6>2. queue[s][i + 1] # queue[s][1]
            BY <6>1 DEF QueuesExact
          <6> QED BY <2>2, <4>1, <6>1, <6>2
        <5> QED BY <5>1, <5>2
      <4>2. CASE x # h
        <5>1. waits'[x] = s <=> \E i \in 1..Len(queue[s]) : queue[s][i] = x
          BY <1>2, <4>2 DEF SemTypeOK, QueuesExact
        <5>2. ASSUME NEW i \in 1..Len(queue[s]), queue[s][i] = x
              PROVE  i - 1 \in 1..Len(queue'[s]) /\ queue'[s][i - 1] = x
          <6>1. i # 1 /\ i - 1 \in 1..Len(queue[s]) - 1
            BY <2>1, <2>2, <4>2, <5>2
          <6>2. queue'[s][i - 1] = queue[s][(i - 1) + 1]
            BY <2>2, <6>1
          <6> QED BY <2>2, <5>2, <6>1, <6>2
        <5>3. ASSUME NEW i \in 1..Len(queue'[s]), queue'[s][i] = x
              PROVE  i + 1 \in 1..Len(queue[s]) /\ queue[s][i + 1] = x
          BY <2>1, <2>2, <5>3
        <5> QED BY <5>1, <5>2, <5>3
      <4> QED BY <4>1, <4>2
    <3>3. value'[s] > 0 => queue'[s] = <<>>
      BY <1>2 DEF QueuesExact
    <3> QED BY <2>6, <3>1, <3>2, <3>3
  <2> QED BY <2>5, <2>6
<1> QED BY <1>1, <1>2 DEF up

\* What touches no semaphore keeps the queues exact.
LEMMA QueuesKept ==
  ASSUME SemTypeOK, QueuesExact, UNCHANGED <<value, queue, waits>>
  PROVE  SemTypeOK' /\ QueuesExact'
<1>1. SemTypeOK'
  BY DEF SemTypeOK
<1>2. QueuesExact'
  BY DEF QueuesExact
<1> QED BY <1>1, <1>2

-----------------------------------------------------------------------------
(***************************************************************************)
(* What the threads see of it.                                             *)
(***************************************************************************)

\* up() raises the value of a semaphore nobody waits for, or wakes one of the threads
\* that wait for it, and then there was no unit to take (__up).
LEMMA UpWakes ==
  ASSUME SemTypeOK, QueuesExact, NEW s \in Sem, up(s)
  PROVE  \/ /\ \A t \in Thread : waits[t] # s
            /\ value' = [value EXCEPT ![s] = @ + 1] /\ waits' = waits
         \/ \E u \in Thread : /\ waits[u] = s /\ value[s] = 0
                              /\ value' = value /\ waits' = [waits EXCEPT ![u] = NoSem]
<1>1. CASE queue[s] = <<>>
  <2>1. \A t \in Thread : waits[t] # s
    <3>1. Len(queue[s]) = 0
      BY <1>1, EmptySeq
    <3> QED BY <3>1 DEF QueuesExact
  <2> QED BY <1>1, <2>1 DEF up
<1>2. CASE queue[s] # <<>>
  <2>1. queue[s] \in Seq(Thread) /\ Len(queue[s]) \in Nat \ {0}
    BY <1>2, EmptySeq DEF SemTypeOK
  <2>2. Head(queue[s]) = queue[s][1] /\ Head(queue[s]) \in Thread
    BY <1>2, <2>1, HeadTailProperties
  <2>3. waits[Head(queue[s])] = s
    BY <2>1, <2>2 DEF QueuesExact
  <2>4. value[s] = 0
    BY <1>2 DEF QueuesExact, SemTypeOK
  <2>5. value' = value /\ waits' = [waits EXCEPT ![Head(queue[s])] = NoSem]
    BY <1>2 DEF up
  <2> QED BY <2>2, <2>3, <2>4, <2>5
<1> QED BY <1>1, <1>2

-----------------------------------------------------------------------------
(***************************************************************************)
(* The inductive invariant.                                                *)
(***************************************************************************)
SemaPoints ==
  {"think", "hungry", "testself", "leavetake", "fork", "eat", "thinking", "testleft",
   "testright", "leaveput", "quit"}

MonPoints ==
  {"think", "hungry", "testself", "check", "leavetake", "eat", "thinking", "testleft",
   "testright", "leaveput", "quit", "signal", "resignal", "wait", "rewait"}

Shape ==
  /\ SemTypeOK /\ QueuesExact
  /\ using \in {"semaphores", "monitor"}
  /\ state \in [Thread -> {"THINKING", "HUNGRY", "EATING"}]
  /\ pc \in [Thread -> MonPoints \cup SemaPoints]
  /\ back \in [Thread -> MonPoints \cup SemaPoints] /\ on \in [Thread -> CV]
  /\ next_count \in Nat /\ count \in [CV -> Nat]

NoNeighbours == \A i \in Thread : state[i] = "EATING" => state[RIGHT(i)] # "EATING"

\* The right to go on: one thread of A has it, or one semaphore of S, once.
OneOf(A, S, v) ==
  \/ (\E t \in A : A = {t}) /\ \A s \in S : v[s] = 0
  \/ A = {} /\ \E s \in S : v[s] = 1 /\ \A r \in S \ {s} : v[r] = 0

\* Philosopher i with semaphores: his own holds a unit from the test that succeeds
\* until he takes it, and he is HUNGRY between asking and that test.
SemaAt(i) ==
  /\ pc[i] \in SemaPoints
  /\ value[i] = IF pc[i] \in {"leavetake", "fork"} /\ state[i] = "EATING" THEN 1 ELSE 0
  /\ pc[i] = "testself" => state[i] = "HUNGRY"
  /\ pc[i] \in {"leavetake", "fork"} => state[i] # "THINKING"
  /\ pc[i] = "eat" => state[i] = IF Awake(i) THEN "EATING" ELSE "HUNGRY"
  /\ pc[i] \in SemaPoints \ {"testself", "leavetake", "fork", "eat"} => state[i] # "HUNGRY"
  /\ ~Awake(i) => \/ waits[i] = mutex /\ pc[i] \in {"hungry", "thinking"}
                  \/ waits[i] = i /\ pc[i] = "eat"

Critical == {i \in Thread : Awake(i) /\ pc[i] \notin {"think", "fork", "eat", "quit"}}

SemaInv ==
  /\ \A i \in Thread : SemaAt(i)
  /\ OneOf(Critical, {mutex}, value)
  /\ next_count = 0 /\ \A cv \in CV : count[cv] = 0

\* Philosopher i with the monitor: his condition variable holds a unit from the signal
\* until he takes it, and only he ever waits for it.
MonAt(i) ==
  /\ pc[i] \in MonPoints
  /\ value[i] = IF pc[i] = "wait" /\ state[i] = "EATING" THEN 1 ELSE 0
  /\ count[i] = IF pc[i] \in {"wait", "rewait"} THEN 1 ELSE 0
  /\ pc[i] \in {"wait", "rewait"} => on[i] = i /\ back[i] = "leavetake"
  /\ pc[i] \in {"signal", "resignal"} => back[i] \in {"testright", "leaveput"}
  /\ pc[i] \in {"testself", "check", "wait"} => state[i] # "THINKING"
  /\ pc[i] = "rewait" => state[i] = IF Awake(i) THEN "EATING" ELSE "HUNGRY"
  /\ pc[i] \in {"leavetake", "eat"} => state[i] = "EATING"
  /\ pc[i] \in MonPoints \ {"testself", "check", "wait", "rewait"} => state[i] # "HUNGRY"
  /\ ~Awake(i) => \/ waits[i] = mutex /\ pc[i] \in {"hungry", "thinking"}
                  \/ waits[i] = next /\ pc[i] = "resignal"
                  \/ waits[i] = i /\ pc[i] = "rewait"

Signalled == {t \in Thread : pc[t] \in {"signal", "resignal"}}

Active == ActiveBut(Outside)

MonInv ==
  /\ \A i \in Thread : MonAt(i)
  /\ OneOf(Active, Sem, value)
  /\ next_count = Cardinality(Signalled)
  /\ value[next] > 0 => \E t \in Thread : pc[t] = "signal"

IInv ==
  /\ Shape /\ NoNeighbours
  /\ using = "semaphores" => SemaInv
  /\ using = "monitor" => MonInv

-----------------------------------------------------------------------------
(***************************************************************************)
(* The table, the constants, and the right to go on.                       *)
(***************************************************************************)
LEMMA Constants ==
  /\ CV = Thread /\ \A i \in Thread : i \in Sem /\ i # mutex /\ i # next /\ i # NoSem
  /\ mutex \in Sem /\ next \in Sem /\ mutex # next /\ mutex # NoSem /\ next # NoSem
BY SemAssumption, MonitorAssumption, CondvarAssumption

\* Neighbours at the table: LEFT and RIGHT undo each other (check_sync.c:8-9).
LEMMA Table ==
  ASSUME NEW i \in Thread
  PROVE  /\ LEFT(i) \in Thread /\ RIGHT(i) \in Thread
         /\ LEFT(i) # i /\ RIGHT(i) # i
         /\ LEFT(RIGHT(i)) = i /\ RIGHT(LEFT(i)) = i
BY PhilAssumption, CondvarAssumption DEF LEFT, RIGHT

\* The test and its assignment (phi_test_sema, phi_test_condvar).
LEMMA ForksTaken ==
  ASSUME Shape, NoNeighbours, NEW j \in Thread, MayEat(j),
         state' = [state EXCEPT ![j] = "EATING"]
  PROVE  NoNeighbours'
<1> SUFFICES ASSUME NEW i \in Thread, state'[i] = "EATING"
             PROVE  state'[RIGHT(i)] # "EATING"
  BY DEF NoNeighbours
<1>1. CASE i = j
  BY <1>1, Table DEF MayEat, Shape
<1>2. CASE i # j
  <2>1. state[i] = "EATING" /\ state[RIGHT(i)] # "EATING"
    BY <1>2 DEF Shape, NoNeighbours
  <2>2. RIGHT(i) # j
    BY <2>1, Table DEF MayEat
  <2> QED BY <2>1, <2>2, Table DEF Shape
<1> QED BY <1>1, <1>2

\* Who asks for his forks or lays them down.
LEMMA ForksKept ==
  ASSUME Shape, NoNeighbours, NEW i \in Thread, NEW v, v # "EATING",
         state' = [state EXCEPT ![i] = v]
  PROVE  NoNeighbours'
BY Table DEF NoNeighbours, Shape

\* down() that finds the unit, up() that nobody waits for, up() that wakes a waiter.
LEMMA RightTaken ==
  ASSUME NEW A, NEW S, NEW v \in [Sem -> Nat], S \subseteq Sem, OneOf(A, S, v),
         NEW s \in S, v[s] > 0, NEW t
  PROVE  A = {} /\ OneOf({t}, S, [v EXCEPT ![s] = @ - 1])
<1>1. A = {} /\ v[s] = 1 /\ \A r \in S \ {s} : v[r] = 0
  BY DEF OneOf
<1> QED BY <1>1 DEF OneOf

LEMMA RightGiven ==
  ASSUME NEW A, NEW S, NEW v \in [Sem -> Nat], S \subseteq Sem, OneOf(A, S, v),
         NEW s \in S, NEW t \in A
  PROVE  A = {t} /\ OneOf({}, S, [v EXCEPT ![s] = @ + 1])
<1>1. A = {t} /\ \A r \in S : v[r] = 0
  BY DEF OneOf
<1> QED BY <1>1 DEF OneOf

LEMMA RightPassed ==
  ASSUME NEW A, NEW S, NEW v, OneOf(A, S, v), NEW t \in A, NEW u
  PROVE  A = {t} /\ OneOf({u}, S, v)
BY DEF OneOf

-----------------------------------------------------------------------------
(***************************************************************************)
(* The philosophers that use semaphores.                                   *)
(***************************************************************************)
\* Think and Eat: down(&mutex).
LEMMA SemaDown ==
  ASSUME IInv, using = "semaphores", NEW i \in Thread, NEW from, NEW to,
         (from = "think" /\ to = "hungry") \/ (from = "eat" /\ to = "thinking"),
         Awake(i), pc[i] = from, pc' = [pc EXCEPT ![i] = to], down(i, mutex),
         UNCHANGED <<state, next_count, count, back, on, using>>
  PROVE  IInv'
<1> USE Constants
<1>1. /\ Shape /\ SemaInv /\ NoNeighbours /\ OneOf(Critical, {mutex}, value)
      /\ pc' \in [Thread -> MonPoints \cup SemaPoints]
  BY DEF IInv, Shape, SemaInv, SemaPoints
<1>2. Shape' /\ NoNeighbours'
  <2>1. SemTypeOK' /\ QueuesExact'
    BY <1>1, DownQueues DEF Shape
  <2> QED BY <1>1, <2>1 DEF Shape, NoNeighbours
<1>3. \A k \in Thread : value'[k] = value[k] /\ state'[k] = state[k]
                        /\ (k # i => waits'[k] = waits[k] /\ pc'[k] = pc[k])
  BY <1>1 DEF down, Shape, SemTypeOK
<1>4. pc'[i] = to /\ (waits'[i] = NoSem \/ waits'[i] = mutex)
  BY <1>1 DEF down, Shape, SemTypeOK, Awake
<1>5. \A k \in Thread : SemaAt(k)'
  <2> SUFFICES ASSUME NEW k \in Thread PROVE SemaAt(k)'
    OBVIOUS
  <2>1. SemaAt(k)
    BY <1>1 DEF SemaInv
  <2>2. CASE k # i
    BY <1>3, <2>1, <2>2 DEF SemaAt, Awake
  <2>3. CASE k = i
    BY <1>3, <1>4, <2>1, <2>3 DEF SemaAt, Awake, SemaPoints
  <2> QED BY <2>2, <2>3
<1>6. OneOf(Critical, {mutex}, value)'
  <2>1. CASE value[mutex] > 0 /\ value' = [value EXCEPT ![mutex] = @ - 1] /\ waits' = waits
    <3>1. value \in [Sem -> Nat] /\ {mutex} \subseteq Sem /\ mutex \in {mutex}
      BY <1>1 DEF Shape, SemTypeOK
    <3>2. Critical = {} /\ OneOf({i}, {mutex}, value')
      BY <1>1, <2>1, <3>1, RightTaken
    <3>3. Critical' = {i}
      BY <1>1, <1>3, <1>4, <2>1, <3>2 DEF Critical, Awake
    <3> QED BY <3>2, <3>3
  <2>2. CASE value' = value /\ waits' = [waits EXCEPT ![i] = mutex]
    <3>1. i \notin Critical /\ waits'[i] = mutex
      BY <1>1, <2>2 DEF Critical, Shape, SemTypeOK
    <3>2. Critical' = Critical
      BY <1>3, <3>1 DEF Critical, Awake
    <3> QED BY <1>1, <2>2, <3>2
  <2> QED BY <2>1, <2>2 DEF down
<1> QED BY <1>1, <1>2, <1>5, <1>6 DEF IInv, SemaInv

\* LeaveTake and LeavePut: up(&mutex).
LEMMA SemaUp ==
  ASSUME IInv, using = "semaphores", NEW i \in Thread, NEW from, NEW to,
         (from = "leavetake" /\ to = "fork") \/ (from = "leaveput" /\ to = "think"),
         Awake(i), pc[i] = from, pc' = [pc EXCEPT ![i] = to], up(mutex),
         UNCHANGED <<state, next_count, count, back, on, using>>
  PROVE  IInv'
<1> USE Constants
<1>1. /\ Shape /\ SemaInv /\ NoNeighbours /\ OneOf(Critical, {mutex}, value)
      /\ pc' \in [Thread -> MonPoints \cup SemaPoints]
  BY DEF IInv, Shape, SemaInv, SemaPoints
<1>2. Shape' /\ NoNeighbours'
  <2>1. SemTypeOK' /\ QueuesExact'
    BY <1>1, UpQueues DEF Shape
  <2> QED BY <1>1, <2>1 DEF Shape, NoNeighbours
<1>3. /\ value \in [Sem -> Nat] /\ {mutex} \subseteq Sem /\ mutex \in {mutex}
      /\ i \in Critical
  BY <1>1 DEF Shape, SemTypeOK, Critical
<1>4. \A k \in Thread : pc'[k] = (IF k = i THEN to ELSE pc[k]) /\ state'[k] = state[k]
  BY <1>1 DEF Shape
<1>5. ASSUME NEW k \in Thread, SemaAt(k), value'[k] = value[k],
             k = i => waits'[k] = waits[k],
             waits'[k] = waits[k] \/ (waits[k] = mutex /\ waits'[k] = NoSem)
      PROVE  SemaAt(k)'
  <2>1. CASE k = i
    BY <1>4, <1>5, <2>1 DEF SemaAt, Awake, SemaPoints
  <2>2. CASE k # i /\ waits'[k] = waits[k]
    BY <1>4, <1>5, <2>2 DEF SemaAt, Awake
  <2>3. CASE k # i /\ waits[k] = mutex /\ waits'[k] = NoSem
    BY <1>4, <1>5, <2>3 DEF SemaAt, Awake, SemaPoints
  <2> QED BY <1>5, <2>1, <2>2, <2>3
<1>6. CASE value' = [value EXCEPT ![mutex] = @ + 1] /\ waits' = waits
  <2>1. Critical = {i} /\ OneOf({}, {mutex}, value')
    BY <1>1, <1>3, <1>6, RightGiven
  <2>2. Critical' = {}
    BY <1>4, <1>6, <2>1 DEF Critical, Awake
  <2>3. \A k \in Thread : SemaAt(k)'
    <3> SUFFICES ASSUME NEW k \in Thread PROVE SemaAt(k)'
      OBVIOUS
    <3>1. SemaAt(k) /\ value'[k] = value[k] /\ waits'[k] = waits[k]
      BY <1>1, <1>3, <1>6 DEF SemaInv
    <3> QED BY <1>5, <3>1
  <2> QED BY <1>1, <1>2, <2>1, <2>2, <2>3 DEF IInv, SemaInv
<1>7. ASSUME NEW u \in Thread, waits[u] = mutex,
             value' = value, waits' = [waits EXCEPT ![u] = NoSem]
      PROVE  IInv'
  <2>1. u # i /\ pc[u] \in {"hungry", "thinking"} /\ waits'[u] = NoSem
    BY <1>1, <1>7 DEF SemaInv, SemaAt, Awake, Shape, SemTypeOK
  <2>2. \A k \in Thread \ {u} : waits'[k] = waits[k]
    BY <1>1, <1>7 DEF Shape, SemTypeOK
  <2>3. Critical = {i} /\ OneOf({u}, {mutex}, value')
    <3>1. OneOf(Critical, {mutex}, value) /\ i \in Critical
      BY <1>1, <1>3
    <3>2. Critical = {i} /\ OneOf({u}, {mutex}, value)
      BY ONLY <3>1, RightPassed
    <3> QED BY ONLY <1>7, <3>2
  <2>4. Critical' = {u}
    <3>1. u \in Critical'
      <4>1. pc'[u] = pc[u]
        BY <1>4, <2>1
      <4>2. pc'[u] \notin {"think", "fork", "eat", "quit"}
        BY ONLY <2>1, <4>1
      <4>3. u \in Thread /\ Awake(u)'
        BY <2>1 DEF Awake
      <4> QED BY ONLY <4>2, <4>3 DEF Critical
    <3>2. ASSUME NEW k \in Thread, k \in Critical' PROVE k = u
      <4>1. k # i
        BY <1>4, <3>2 DEF Critical, Awake
      <4>2. k \notin Critical
        BY <2>3, <4>1
      <4> QED BY <1>4, <2>2, <3>2, <4>1, <4>2 DEF Critical, Awake
    <3> QED BY <3>1, <3>2 DEF Critical
  <2>5. \A k \in Thread : SemaAt(k)'
    <3> SUFFICES ASSUME NEW k \in Thread PROVE SemaAt(k)'
      OBVIOUS
    <3>1. SemaAt(k) /\ value'[k] = value[k]
      BY <1>1, <1>7 DEF SemaInv
    <3>2. /\ k = i => waits'[k] = waits[k]
          /\ waits'[k] = waits[k] \/ (waits[k] = mutex /\ waits'[k] = NoSem)
      BY <1>7, <2>1, <2>2
    <3> QED BY <1>5, <3>1, <3>2
  <2> QED BY <1>1, <1>2, <2>3, <2>4, <2>5 DEF IInv, SemaInv
<1> QED BY <1>1, <1>6, <1>7, UpWakes DEF Shape

\* TestSelf, TestLeft and TestRight: phi_test_sema(j).  Nobody else is in the critical
\* section, so that a neighbour who is HUNGRY is on his way to his semaphore or waits
\* for it.
LEMMA SemaTest ==
  ASSUME IInv, using = "semaphores", NEW i \in Thread, NEW j \in Thread, NEW from, NEW to,
         \/ j = i /\ from = "testself" /\ to = "leavetake"
         \/ j # i /\ from = "testleft" /\ to = "testright"
         \/ j # i /\ from = "testright" /\ to = "leaveput",
         Awake(i), pc[i] = from, pc' = [pc EXCEPT ![i] = to],
         \/ MayEat(j) /\ state' = [state EXCEPT ![j] = "EATING"] /\ up(j)
         \/ ~MayEat(j) /\ UNCHANGED <<value, queue, waits, state>>,
         UNCHANGED <<next_count, count, back, on, using>>
  PROVE  IInv'
<1> USE Constants
<1>1. /\ Shape /\ SemaInv /\ NoNeighbours /\ OneOf(Critical, {mutex}, value)
      /\ pc' \in [Thread -> MonPoints \cup SemaPoints]
      /\ SemaAt(i) /\ SemaAt(j)
  BY DEF IInv, Shape, SemaInv, SemaPoints
<1>2. i \in Critical /\ from \in SemaPoints /\ to \in SemaPoints
  BY DEF Critical, SemaPoints
<1>3. \A k \in Thread : pc'[k] = IF k = i THEN to ELSE pc[k]
  BY <1>1 DEF Shape
<1>4. CASE MayEat(j) /\ state' = [state EXCEPT ![j] = "EATING"] /\ up(j)
  <2>1. Shape' /\ NoNeighbours'
    <3>1. SemTypeOK' /\ QueuesExact'
      BY <1>1, <1>4, UpQueues DEF Shape
    <3> QED BY <1>1, <1>4, <3>1, ForksTaken DEF Shape
  <2>2. /\ state[j] = "HUNGRY"
        /\ \A k \in Thread : state'[k] = IF k = j THEN "EATING" ELSE state[k]
    BY <1>1, <1>4 DEF MayEat, Shape
  <2>3. j # i => pc[j] # "testself"
    <3> SUFFICES ASSUME j # i, pc[j] = "testself" PROVE FALSE
      OBVIOUS
    <3>1. j \in Critical
      BY <1>1 DEF SemaAt, Critical
    <3> QED BY <1>1, <1>2, <3>1 DEF OneOf
  <2>4. \/ /\ pc'[j] \in {"leavetake", "fork"} /\ Awake(j)
        \/ /\ pc'[j] = "eat" /\ j # i /\ waits[j] = j
    BY <1>1, <1>3, <2>2, <2>3 DEF SemaAt, Awake
  <2>5. ASSUME NEW k \in Thread \ {j}, value'[k] = value[k], waits'[k] = waits[k]
        PROVE  SemaAt(k)'
    <3>1. SemaAt(k)
      BY <1>1 DEF SemaInv
    <3>2. CASE k = i
      BY <1>3, <2>2, <2>5, <3>1, <3>2 DEF SemaAt, Awake, SemaPoints
    <3>3. CASE k # i
      BY <1>3, <2>2, <2>5, <3>1, <3>3 DEF SemaAt, Awake
    <3> QED BY <3>2, <3>3
  <2>6. CASE value' = [value EXCEPT ![j] = @ + 1] /\ waits' = waits /\ waits[j] # j
    <3>1. /\ value[j] = 0 /\ value'[j] = 1 /\ value'[mutex] = value[mutex]
          /\ \A k \in Thread \ {j} : value'[k] = value[k]
      BY <1>1, <2>2, <2>6 DEF SemaAt, Shape, SemTypeOK
    <3>2. pc'[j] \in {"leavetake", "fork"} /\ Awake(j)'
      BY <2>4, <2>6 DEF Awake
    <3>3. SemaAt(j)'
      BY <2>2, <3>1, <3>2 DEF SemaAt, SemaPoints
    <3>4. Critical' = Critical
      BY <1>2, <1>3, <2>6 DEF Critical, Awake
    <3>5. OneOf(Critical, {mutex}, value)'
      BY <1>1, <3>1, <3>4 DEF OneOf
    <3> QED BY <1>1, <2>1, <2>5, <2>6, <3>1, <3>3, <3>5 DEF IInv, SemaInv
  <2>7. CASE value' = value /\ waits' = [waits EXCEPT ![j] = NoSem] /\ waits[j] = j
    <3>1. /\ waits'[j] = NoSem /\ \A k \in Thread \ {j} : waits'[k] = waits[k]
      BY <1>1, <2>7 DEF Shape, SemTypeOK
    <3>2. pc'[j] = "eat" /\ pc[j] = "eat" /\ Awake(j)' /\ j # i
      BY <1>3, <2>4, <2>7, <3>1 DEF Awake
    <3>3. SemaAt(j)'
      BY <1>1, <2>2, <2>7, <3>2 DEF SemaAt, SemaPoints
    <3>4. Critical' = Critical
      BY <1>2, <1>3, <3>1, <3>2 DEF Critical, Awake
    <3> QED BY <1>1, <2>1, <2>5, <2>7, <3>1, <3>3, <3>4 DEF IInv, SemaInv
  <2>8. \A u \in Thread : waits[u] = j => u = j
    BY <1>1 DEF SemaInv, SemaAt, Awake
  <2> QED BY <1>1, <1>4, <2>6, <2>7, <2>8, UpWakes DEF Shape
<1>5. CASE ~MayEat(j) /\ UNCHANGED <<value, queue, waits, state>>
  <2>1. Shape' /\ NoNeighbours'
    <3>1. SemTypeOK' /\ QueuesExact'
      BY <1>1, <1>5, QueuesKept DEF Shape
    <3>2. Shape'
      BY <1>1, <1>5, <3>1 DEF Shape
    <3> QED BY <1>1, <1>5, <3>2 DEF NoNeighbours
  <2>2. \A k \in Thread : SemaAt(k)'
    <3> SUFFICES ASSUME NEW k \in Thread PROVE SemaAt(k)'
      OBVIOUS
    <3>1. SemaAt(k)
      BY <1>1 DEF SemaInv
    <3>2. CASE k = i
      BY <1>3, <1>5, <3>1, <3>2 DEF SemaAt, Awake, SemaPoints
    <3>3. CASE k # i
      BY <1>3, <1>5, <3>1, <3>3 DEF SemaAt, Awake
    <3> QED BY <3>2, <3>3
  <2>3. Critical' = Critical
    BY <1>2, <1>3, <1>5 DEF Critical, Awake
  <2> QED BY <1>1, <1>5, <2>1, <2>2, <2>3 DEF IInv, SemaInv
<1> QED BY <1>4, <1>5

\* Fork: down(&s[i]).
LEMMA SemaFork ==
  ASSUME IInv, using = "semaphores", NEW i \in Thread,
         Awake(i), pc[i] = "fork", pc' = [pc EXCEPT ![i] = "eat"], down(i, i),
         UNCHANGED <<state, next_count, count, back, on, using>>
  PROVE  IInv'
<1> USE Constants
<1>1. /\ Shape /\ SemaInv /\ NoNeighbours /\ OneOf(Critical, {mutex}, value)
      /\ pc' \in [Thread -> MonPoints \cup SemaPoints] /\ SemaAt(i)
  BY DEF IInv, Shape, SemaInv, SemaPoints
<1>2. Shape' /\ NoNeighbours'
  <2>1. SemTypeOK' /\ QueuesExact'
    BY <1>1, DownQueues DEF Shape
  <2> QED BY <1>1, <2>1 DEF Shape, NoNeighbours
<1>3. /\ pc'[i] = "eat" /\ value'[mutex] = value[mutex]
      /\ \A k \in Thread \ {i} : /\ value'[k] = value[k] /\ waits'[k] = waits[k]
                                 /\ pc'[k] = pc[k]
  BY <1>1 DEF down, Shape, SemTypeOK
<1>4. SemaAt(i)'
  <2>1. CASE value[i] > 0 /\ value' = [value EXCEPT ![i] = @ - 1] /\ waits' = waits
    <3>1. state[i] = "EATING" /\ value[i] = 1
      BY <1>1, <2>1 DEF SemaAt
    <3>2. value'[i] = 0 /\ Awake(i)'
      BY <1>1, <2>1, <3>1 DEF Awake, Shape, SemTypeOK
    <3> QED BY <1>3, <3>1, <3>2 DEF SemaAt, SemaPoints
  <2>2. CASE value[i] = 0 /\ value' = value /\ waits' = [waits EXCEPT ![i] = i]
    <3>1. state[i] = "HUNGRY"
      BY <1>1, <2>2 DEF SemaAt, Shape
    <3>2. value'[i] = 0 /\ waits'[i] = i /\ ~Awake(i)'
      BY <1>1, <2>2 DEF Awake, Shape, SemTypeOK
    <3> QED BY <1>3, <3>1, <3>2 DEF SemaAt, SemaPoints
  <2> QED BY <2>1, <2>2 DEF down
<1>5. \A k \in Thread : SemaAt(k)'
  BY <1>1, <1>3, <1>4 DEF SemaInv, SemaAt, Awake
<1>6. Critical' = Critical
  BY <1>1, <1>3 DEF Critical, Awake
<1> QED BY <1>1, <1>2, <1>3, <1>5, <1>6 DEF IInv, SemaInv, OneOf

\* Hungry, Thinking and Quit touch no semaphore.
LEMMA SemaLocal ==
  ASSUME IInv, using = "semaphores", NEW i \in Thread, NEW from, NEW to, NEW v,
         \/ from = "hungry" /\ to = "testself" /\ v = "HUNGRY"
         \/ from = "thinking" /\ to = "testleft" /\ v = "THINKING"
         \/ from = "think" /\ to = "quit" /\ v = state[i],
         Awake(i), pc[i] = from, pc' = [pc EXCEPT ![i] = to],
         state' = [state EXCEPT ![i] = v],
         UNCHANGED <<value, queue, waits, next_count, count, back, on, using>>
  PROVE  IInv'
<1> USE Constants
<1>1. /\ Shape /\ SemaInv /\ NoNeighbours /\ OneOf(Critical, {mutex}, value)
      /\ pc' \in [Thread -> MonPoints \cup SemaPoints] /\ SemaAt(i)
      /\ state' \in [Thread -> {"THINKING", "HUNGRY", "EATING"}]
  BY DEF IInv, Shape, SemaInv, SemaPoints
<1>2. Shape' /\ NoNeighbours'
  <2>1. SemTypeOK' /\ QueuesExact'
    BY <1>1, QueuesKept DEF Shape
  <2>2. v # "EATING" \/ state' = state
    BY <1>1 DEF Shape
  <2>3. NoNeighbours'
    BY <1>1, <2>2, ForksKept DEF NoNeighbours
  <2> QED BY <1>1, <2>1, <2>3 DEF Shape
<1>3. /\ pc'[i] = to /\ state'[i] = v
      /\ \A k \in Thread \ {i} : pc'[k] = pc[k] /\ state'[k] = state[k]
  BY <1>1 DEF Shape
<1>4. SemaAt(i)'
  BY <1>1, <1>3 DEF SemaAt, SemaPoints, Awake
<1>5. \A k \in Thread : SemaAt(k)'
  BY <1>1, <1>3, <1>4 DEF SemaInv, SemaAt, Awake
<1>6. Critical' = Critical
  BY <1>1, <1>3 DEF Critical, Awake
<1> QED BY <1>1, <1>2, <1>5, <1>6 DEF IInv, SemaInv

\* Every step of a philosopher that uses semaphores.
LEMMA SemaStep ==
  ASSUME IInv, using = "semaphores", NEW i \in Thread, Dines(i)
  PROVE  IInv'
<1> USE Constants DEF Sema!Goes, Sema!Awake, Awake
<1>1. Sema!Philosopher(i) /\ UNCHANGED <<next_count, count, back, on, using>>
  BY DEF Dines
<1>2. /\ \A t \in Thread, s \in Sem : Sema!down(t, s) <=> down(t, s)
      /\ \A s \in Sem : Sema!up(s) <=> up(s)
      /\ \A j \in Thread : Sema!MayEat(j) <=> MayEat(j)
      /\ \A j \in Thread : Sema!LEFT(j) = LEFT(j) /\ Sema!RIGHT(j) = RIGHT(j)
  BY DEF Sema!down, down, Sema!Enqueued, Enqueued, Sema!up, up, Sema!MayEat, MayEat,
         Sema!LEFT, LEFT, Sema!RIGHT, RIGHT
<1>3. CASE Sema!Think(i)
  BY <1>1, <1>2, <1>3, SemaDown DEF Sema!Think
<1>4. CASE Sema!Eat(i)
  BY <1>1, <1>2, <1>4, SemaDown DEF Sema!Eat
<1>5. CASE Sema!LeaveTake(i)
  BY <1>1, <1>2, <1>5, SemaUp DEF Sema!LeaveTake
<1>6. CASE Sema!LeavePut(i)
  BY <1>1, <1>2, <1>6, SemaUp DEF Sema!LeavePut
<1>7. CASE Sema!TestSelf(i)
  BY <1>1, <1>2, <1>7, SemaTest DEF Sema!TestSelf, Sema!phi_test_sema
<1>8. CASE Sema!TestLeft(i)
  BY <1>1, <1>2, <1>8, Table, SemaTest DEF Sema!TestLeft, Sema!phi_test_sema
<1>9. CASE Sema!TestRight(i)
  BY <1>1, <1>2, <1>9, Table, SemaTest DEF Sema!TestRight, Sema!phi_test_sema
<1>10. CASE Sema!Fork(i)
  BY <1>1, <1>2, <1>10, SemaFork DEF Sema!Fork
<1>11. CASE Sema!Hungry(i)
  BY <1>1, <1>11, SemaLocal DEF Sema!Hungry
<1>12. CASE Sema!Thinking(i)
  BY <1>1, <1>12, SemaLocal DEF Sema!Thinking
<1>13. CASE Sema!Quit(i)
  <2>1. state' = [state EXCEPT ![i] = state[i]]
    BY <1>13 DEF IInv, Shape, Sema!Quit
  <2> QED BY <1>1, <1>13, <2>1, SemaLocal DEF Sema!Quit
<1> QED BY <1>1, <1>3, <1>4, <1>5, <1>6, <1>7, <1>8, <1>9, <1>10, <1>11, <1>12, <1>13
    DEF Sema!Philosopher

-----------------------------------------------------------------------------
(***************************************************************************)
(* The philosophers that use the monitor.                                  *)
(***************************************************************************)
LEMMA MonFacts ==
  ASSUME IInv, using = "monitor"
  PROVE  /\ Shape /\ NoNeighbours /\ MonInv /\ OneOf(Active, Sem, value)
         /\ value \in [Sem -> Nat] /\ Sem \subseteq Sem
         /\ next_count = Cardinality(Signalled)
         /\ \A k \in Thread : MonAt(k) /\ k \in Sem
         /\ next \in Sem /\ mutex \in Sem
         /\ \A to \in MonPoints, k \in Thread :
              [pc EXCEPT ![k] = to] \in [Thread -> MonPoints \cup SemaPoints]
BY Constants DEF IInv, MonInv, Shape, SemTypeOK

LEMMA SignalledFinite == IsFiniteSet(Signalled)
<1>1. IsFiniteSet(0..N - 1)
  BY PhilAssumption, FS_Interval
<1>2. Signalled \subseteq 0..N - 1
  BY CondvarAssumption DEF Signalled
<1> QED BY <1>1, <1>2, FS_Subset

\* A step of i that neither signals nor comes back from it.
LEMMA SignalledKept ==
  ASSUME IInv, using = "monitor", NEW i \in Thread, NEW to, pc' = [pc EXCEPT ![i] = to],
         pc[i] # "signal", to # "signal", (pc[i] = "resignal") <=> (to = "resignal"),
         next_count' = next_count, value'[next] = value[next]
  PROVE  /\ next_count' = Cardinality(Signalled)'
         /\ value'[next] > 0 => \E t \in Thread : pc'[t] = "signal"
<1>1. \A k \in Thread : pc'[k] = IF k = i THEN to ELSE pc[k]
  BY MonFacts DEF Shape
<1>2. Signalled' = Signalled
  BY <1>1 DEF Signalled
<1>3. value[next] > 0 => \E t \in Thread : pc[t] = "signal"
  BY MonFacts DEF MonInv
<1> QED BY <1>1, <1>2, <1>3, MonFacts

\* Think and Eat: Enter.
LEMMA MonEnter ==
  ASSUME IInv, using = "monitor", NEW i \in Thread, NEW from, NEW to,
         (from = "think" /\ to = "hungry") \/ (from = "eat" /\ to = "thinking"),
         Awake(i), pc[i] = from, pc' = [pc EXCEPT ![i] = to], down(i, mutex),
         UNCHANGED <<state, next_count, count, back, on, using>>
  PROVE  IInv'
<1> USE Constants, MonFacts
<1>1. Shape' /\ NoNeighbours'
  <2>1. SemTypeOK' /\ QueuesExact'
    BY DownQueues DEF Shape
  <2>2. pc' \in [Thread -> MonPoints \cup SemaPoints]
    BY DEF MonPoints
  <2> QED BY <2>1, <2>2 DEF Shape, NoNeighbours
<1>2. /\ pc'[i] = to /\ value'[next] = value[next]
      /\ waits'[i] = NoSem \/ waits'[i] = mutex
      /\ \A k \in Thread : value'[k] = value[k]
      /\ \A k \in Thread \ {i} : waits'[k] = waits[k] /\ pc'[k] = pc[k]
  BY DEF down, Shape, SemTypeOK, Awake
<1>3. \A k \in Thread : MonAt(k)'
  <2>1. MonAt(i)'
    BY <1>2 DEF MonAt, Awake, MonPoints
  <2> QED BY <1>2, <2>1 DEF MonAt, Awake
<1>4. OneOf(Active, Sem, value)'
  <2>1. CASE value[mutex] > 0 /\ value' = [value EXCEPT ![mutex] = @ - 1] /\ waits' = waits
    <3>1. Active = {} /\ OneOf({i}, Sem, value')
      BY <2>1, RightTaken
    <3>2. Active' = {i}
      BY <1>2, <2>1, <3>1 DEF Active, ActiveBut, Outside, Awake
    <3> QED BY <3>1, <3>2
  <2>2. CASE value' = value /\ waits' = [waits EXCEPT ![i] = mutex]
    <3>1. i \notin Active /\ waits'[i] = mutex
      BY <2>2 DEF Active, ActiveBut, Outside, Shape, SemTypeOK
    <3>2. Active' = Active
      BY <1>2, <3>1 DEF Active, ActiveBut, Outside, Awake
    <3> QED BY <2>2, <3>2
  <2> QED BY <2>1, <2>2 DEF down
<1>5. /\ next_count' = Cardinality(Signalled)'
      /\ value'[next] > 0 => \E t \in Thread : pc'[t] = "signal"
  BY <1>2, SignalledKept
<1> QED BY <1>1, <1>3, <1>4, <1>5 DEF IInv, MonInv

\* Hungry, Thinking, Quit, Check of one who is EATING, and a test that fails.
LEMMA MonLocal ==
  ASSUME IInv, using = "monitor", NEW i \in Thread, NEW from, NEW to, NEW v,
         \/ from = "hungry" /\ to = "testself" /\ v = "HUNGRY"
         \/ from = "thinking" /\ to = "testleft" /\ v = "THINKING"
         \/ from = "think" /\ to = "quit" /\ v = state[i]
         \/ from = "check" /\ to = "leavetake" /\ v = state[i] /\ v = "EATING"
         \/ from = "testself" /\ to = "check" /\ v = state[i]
         \/ from = "testleft" /\ to = "testright" /\ v = state[i]
         \/ from = "testright" /\ to = "leaveput" /\ v = state[i],
         Awake(i), pc[i] = from, pc' = [pc EXCEPT ![i] = to],
         state' = [state EXCEPT ![i] = v],
         UNCHANGED <<value, queue, waits, next_count, count, back, on, using>>
  PROVE  IInv'
<1> USE Constants, MonFacts
<1>1. Shape' /\ NoNeighbours'
  <2>1. SemTypeOK' /\ QueuesExact'
    BY QueuesKept DEF Shape
  <2>2. v # "EATING" \/ state' = state
    BY DEF Shape
  <2>3. NoNeighbours'
    BY <2>2, ForksKept DEF NoNeighbours
  <2>4. /\ pc' \in [Thread -> MonPoints \cup SemaPoints]
        /\ state' \in [Thread -> {"THINKING", "HUNGRY", "EATING"}]
    BY DEF MonPoints, Shape
  <2> QED BY <2>1, <2>3, <2>4 DEF Shape
<1>2. /\ pc'[i] = to /\ state'[i] = v
      /\ \A k \in Thread \ {i} : pc'[k] = pc[k] /\ state'[k] = state[k]
  BY DEF Shape
<1>3. MonAt(i)'
  BY <1>2 DEF MonAt, MonPoints, Awake
<1>4. \A k \in Thread : MonAt(k)'
  BY <1>2, <1>3 DEF MonAt, Awake
<1>5. Active' = Active
  BY <1>2 DEF Active, ActiveBut, Outside, Awake
<1>6. /\ next_count' = Cardinality(Signalled)'
      /\ value'[next] > 0 => \E t \in Thread : pc'[t] = "signal"
  BY SignalledKept
<1> QED BY <1>1, <1>4, <1>5, <1>6 DEF IInv, MonInv

\* LeaveTake, LeavePut and Check of one who must wait: GiveUp.  A thread that has
\* signalled and is not asleep has still to go to next, since nobody else is active.
LEMMA MonGiveUp ==
  ASSUME IInv, using = "monitor", NEW i \in Thread, NEW from, NEW to,
         \/ /\ (from = "leavetake" /\ to = "eat") \/ (from = "leaveput" /\ to = "think")
            /\ UNCHANGED <<count, back, on>>
         \/ /\ from = "check" /\ to = "wait" /\ state[i] # "EATING"
            /\ count' = [count EXCEPT ![i] = @ + 1]
            /\ back' = [back EXCEPT ![i] = "leavetake"]
            /\ on' = [on EXCEPT ![i] = i],
         Awake(i), pc[i] = from, pc' = [pc EXCEPT ![i] = to], GiveUp,
         UNCHANGED <<state, next_count, using>>
  PROVE  IInv'
<1> USE Constants, MonFacts
<1>1. PICK s \in {mutex, next} : up(s) /\ (s = next => next_count > 0)
  BY DEF GiveUp
<1>2. Shape' /\ NoNeighbours'
  <2>1. SemTypeOK' /\ QueuesExact'
    BY <1>1, UpQueues DEF Shape
  <2>2. /\ pc' \in [Thread -> MonPoints \cup SemaPoints]
        /\ back' \in [Thread -> MonPoints \cup SemaPoints]
        /\ on' \in [Thread -> CV] /\ count' \in [CV -> Nat]
    <3>1. /\ pc \in [Thread -> MonPoints \cup SemaPoints]
          /\ back \in [Thread -> MonPoints \cup SemaPoints]
          /\ on \in [Thread -> CV] /\ count \in [CV -> Nat]
      BY DEF Shape
    <3>2. to \in MonPoints /\ "leavetake" \in MonPoints
      BY DEF MonPoints
    <3>3. pc' \in [Thread -> MonPoints \cup SemaPoints]
      BY <3>1, <3>2
    <3>4. CASE UNCHANGED <<count, back, on>>
      BY <3>1, <3>3, <3>4
    <3>5. CASE /\ count' = [count EXCEPT ![i] = @ + 1]
               /\ back' = [back EXCEPT ![i] = "leavetake"]
               /\ on' = [on EXCEPT ![i] = i]
      <4>1. i \in CV
        OBVIOUS
      <4>2. back' \in [Thread -> MonPoints \cup SemaPoints]
        BY ONLY <3>1, <3>2, <3>5
      <4>3. on' \in [Thread -> CV]
        BY ONLY <3>1, <3>5, <4>1
      <4>4. count' \in [CV -> Nat]
        BY ONLY <3>1, <3>5, <4>1
      <4> QED BY <3>3, <4>2, <4>3, <4>4
    <3> QED BY <3>4, <3>5
  <2> QED BY <2>1, <2>2 DEF Shape, NoNeighbours
<1>3. /\ i \in Active /\ Active = {i} /\ \A r \in Sem : value[r] = 0
      /\ from \in MonPoints /\ to \in MonPoints
  <2>1. i \in Active
    BY DEF Active, ActiveBut, Outside
  <2> QED BY <2>1 DEF OneOf, MonPoints
<1>4. /\ pc'[i] = to
      /\ \A k \in Thread \ {i} : /\ pc'[k] = pc[k] /\ count'[k] = count[k]
                                 /\ back'[k] = back[k] /\ on'[k] = on[k]
  BY DEF Shape
<1>5. ASSUME NEW k \in Thread, value'[k] = value[k],
             k = i => waits'[k] = waits[k],
             waits'[k] = waits[k] \/ (waits[k] = s /\ waits'[k] = NoSem)
      PROVE  MonAt(k)'
  <2>1. CASE k = i
    <3>1. /\ pc[i] = from /\ value'[i] = 0 /\ Awake(i)' /\ state'[i] = state[i] /\ MonAt(i)
          /\ count[i] = 0
      BY <1>3, <1>5, <2>1 DEF Awake, MonAt
    <3>2. IF to = "wait"
          THEN count'[i] = 1 /\ on'[i] = i /\ back'[i] = "leavetake" /\ state[i] = "HUNGRY"
          ELSE count'[i] = 0 /\ (to = "eat" => state[i] = "EATING") /\ state[i] # "HUNGRY"
      BY <3>1 DEF MonAt, MonPoints, Shape
    <3> QED BY <1>4, <2>1, <3>1, <3>2 DEF MonAt, MonPoints
  <2>2. CASE k # i /\ waits'[k] = waits[k]
    BY <1>4, <1>5, <2>2 DEF MonAt, Awake
  <2>3. CASE k # i /\ waits[k] = s /\ waits'[k] = NoSem
    <3>1. pc[k] \in {"hungry", "thinking", "resignal"}
      BY <2>3 DEF MonAt, Awake
    <3> QED BY <1>4, <1>5, <2>3, <3>1 DEF MonAt, Awake
  <2> QED BY <1>5, <2>1, <2>2, <2>3
<1>6. Signalled' = Signalled /\ next_count' = Cardinality(Signalled)'
  <2>1. Signalled' = Signalled
    BY <1>4 DEF Signalled
  <2> QED BY <2>1
<1>7. CASE /\ \A t \in Thread : waits[t] # s
           /\ value' = [value EXCEPT ![s] = @ + 1] /\ waits' = waits
  <2>1. OneOf({}, Sem, value')
    BY <1>3, <1>7, RightGiven
  <2>2. Active' = {}
    BY <1>3, <1>4, <1>7 DEF Active, ActiveBut, Outside, Awake
  <2>3. \A k \in Thread : MonAt(k)'
    <3> SUFFICES ASSUME NEW k \in Thread PROVE MonAt(k)'
      OBVIOUS
    <3>1. value'[k] = value[k] /\ waits'[k] = waits[k]
      BY <1>7
    <3> QED BY <1>5, <3>1
  <2>4. value'[next] > 0 => \E t \in Thread : pc'[t] = "signal"
    <3> SUFFICES ASSUME value'[next] > 0 PROVE \E t \in Thread : pc'[t] = "signal"
      OBVIOUS
    <3>1. s = next /\ Cardinality(Signalled) # 0
      BY <1>1, <1>3, <1>7
    <3>2. PICK t \in Thread : pc[t] \in {"signal", "resignal"}
      BY <3>1, SignalledFinite, FS_EmptySet DEF Signalled
    <3>3. pc[t] # "resignal"
      <4> SUFFICES ASSUME pc[t] = "resignal" PROVE FALSE
        OBVIOUS
      <4>1. Awake(t)
        BY <1>7, <3>1 DEF MonAt
      <4>2. t \in Active
        BY <4>1 DEF Active, ActiveBut, Outside
      <4> QED BY <1>3, <4>2
    <3> QED BY <1>4, <3>2, <3>3
  <2> QED BY <1>2, <1>6, <2>1, <2>2, <2>3, <2>4 DEF IInv, MonInv
<1>8. ASSUME NEW u \in Thread, waits[u] = s,
             value' = value, waits' = [waits EXCEPT ![u] = NoSem]
      PROVE  IInv'
  <2>1. u # i /\ pc[u] \in {"hungry", "thinking", "resignal"} /\ waits'[u] = NoSem
    BY <1>8 DEF MonAt, Awake, Shape, SemTypeOK
  <2>2. \A k \in Thread \ {u} : waits'[k] = waits[k]
    BY <1>8 DEF Shape, SemTypeOK
  <2>3. OneOf({u}, Sem, value')
    BY <1>3, <1>8, RightPassed
  <2>4. Active' = {u}
    BY <1>3, <1>4, <2>1, <2>2 DEF Active, ActiveBut, Outside, Awake
  <2>5. \A k \in Thread : MonAt(k)'
    <3> SUFFICES ASSUME NEW k \in Thread PROVE MonAt(k)'
      OBVIOUS
    <3>1. value'[k] = value[k]
      BY <1>8
    <3>2. /\ k = i => waits'[k] = waits[k]
          /\ waits'[k] = waits[k] \/ (waits[k] = s /\ waits'[k] = NoSem)
      BY <1>8, <2>1, <2>2
    <3> QED BY <1>5, <3>1, <3>2
  <2>6. value'[next] = 0
    BY <1>3, <1>8
  <2> QED BY <1>2, <1>6, <2>3, <2>4, <2>5, <2>6 DEF IInv, MonInv
<1> QED BY <1>1, <1>7, <1>8, UpWakes DEF Shape

\* phi_test_condvar that finds the forks free and nobody on the condition variable:
\* that is i, who asks for himself.
LEMMA MonTest ==
  ASSUME IInv, using = "monitor", NEW i \in Thread, NEW j \in Thread, NEW from, NEW to,
         \/ j = i /\ from = "testself" /\ to = "check"
         \/ j # i /\ from = "testleft" /\ to = "testright"
         \/ j # i /\ from = "testright" /\ to = "leaveput",
         Awake(i), pc[i] = from, pc' = [pc EXCEPT ![i] = to],
         MayEat(j), count[j] = 0, state' = [state EXCEPT ![j] = "EATING"],
         UNCHANGED <<value, queue, waits, next_count, count, back, on, using>>
  PROVE  IInv'
<1> USE Constants, MonFacts
<1>1. i \in Active
  BY DEF Active, ActiveBut, Outside
<1>2. j = i
  <2> SUFFICES ASSUME j # i PROVE FALSE
    OBVIOUS
  <2>1. pc[j] \in {"testself", "check"} /\ Awake(j)
    BY DEF MayEat, MonAt, MonPoints
  <2>2. j \in Active
    BY <2>1 DEF Active, ActiveBut, Outside
  <2> QED BY <1>1, <2>2 DEF OneOf
<1>3. from = "testself" /\ to = "check"
  BY <1>2
<1>4. Shape' /\ NoNeighbours'
  <2>1. SemTypeOK' /\ QueuesExact'
    BY QueuesKept DEF Shape
  <2>2. /\ pc' \in [Thread -> MonPoints \cup SemaPoints]
        /\ state' \in [Thread -> {"THINKING", "HUNGRY", "EATING"}]
    BY <1>3 DEF MonPoints, Shape
  <2> QED BY <2>1, <2>2, ForksTaken DEF Shape
<1>5. /\ pc'[i] = "check" /\ state'[i] = "EATING"
      /\ \A k \in Thread \ {i} : pc'[k] = pc[k] /\ state'[k] = state[k]
  BY <1>2, <1>3 DEF Shape
<1>6. \A k \in Thread : MonAt(k)'
  <2>1. MonAt(i)'
    BY <1>3, <1>5 DEF MonAt, MonPoints, Awake
  <2> QED BY <1>5, <2>1 DEF MonAt, Awake
<1>7. Active' = Active
  BY <1>3, <1>5 DEF Active, ActiveBut, Outside, Awake
<1>8. /\ next_count' = Cardinality(Signalled)'
      /\ value'[next] > 0 => \E t \in Thread : pc'[t] = "signal"
  BY <1>3, SignalledKept
<1> QED BY <1>4, <1>6, <1>7, <1>8 DEF IInv, MonInv

\* phi_test_condvar that finds the forks of a neighbour free who waits for them.
LEMMA MonSignal ==
  ASSUME IInv, using = "monitor", NEW i \in Thread, NEW j \in Thread, NEW from, NEW to,
         \/ j = i /\ from = "testself" /\ to = "check"
         \/ j # i /\ from = "testleft" /\ to = "testright"
         \/ j # i /\ from = "testright" /\ to = "leaveput",
         Awake(i), pc[i] = from, pc' = [pc EXCEPT ![i] = "signal"],
         MayEat(j), count[j] > 0, state' = [state EXCEPT ![j] = "EATING"],
         next_count' = next_count + 1, up(j),
         back' = [back EXCEPT ![i] = to], on' = [on EXCEPT ![i] = j],
         UNCHANGED <<count, using>>
  PROVE  IInv'
<1> USE Constants, MonFacts
<1>1. i \in Active /\ Active = {i} /\ \A r \in Sem : value[r] = 0
  <2>1. i \in Active
    BY DEF Active, ActiveBut, Outside
  <2> QED BY <2>1 DEF OneOf
<1>2. /\ pc[j] = "wait" \/ (pc[j] = "rewait" /\ waits[j] = j)
      /\ on[j] = j /\ back[j] = "leavetake" /\ count[j] = 1
      /\ j # i /\ to \in {"testright", "leaveput"}
  <2>1. pc[j] \in {"wait", "rewait"} /\ state[j] = "HUNGRY"
    BY DEF MonAt, MayEat
  <2> QED BY <2>1 DEF MonAt
<1>3. /\ pc'[i] = "signal" /\ back'[i] = to /\ state'[j] = "EATING"
      /\ pc'[j] = pc[j] /\ on'[j] = on[j] /\ back'[j] = back[j]
      /\ \A k \in Thread \ {i} : pc'[k] = pc[k] /\ back'[k] = back[k] /\ on'[k] = on[k]
      /\ \A k \in Thread \ {j} : state'[k] = state[k]
  BY <1>2 DEF Shape
<1>4. Shape' /\ NoNeighbours'
  <2>1. SemTypeOK' /\ QueuesExact'
    BY UpQueues DEF Shape
  <2>2. /\ pc' \in [Thread -> MonPoints \cup SemaPoints]
        /\ back' \in [Thread -> MonPoints \cup SemaPoints]
        /\ on' \in [Thread -> CV] /\ next_count' \in Nat
        /\ state' \in [Thread -> {"THINKING", "HUNGRY", "EATING"}]
    BY <1>2 DEF MonPoints, Shape
  <2> QED BY <2>1, <2>2, ForksTaken DEF Shape
<1>5. ASSUME NEW k \in Thread \ {j}, value'[k] = value[k], waits'[k] = waits[k]
      PROVE  MonAt(k)'
  <2>1. CASE k = i
    <3>1. value'[i] = 0 /\ count[i] = 0 /\ state'[i] # "HUNGRY" /\ Awake(i)'
      BY <1>1, <1>2, <1>3, <1>5, <2>1 DEF MonAt, MonPoints, Awake
    <3> QED BY <1>2, <1>3, <2>1, <3>1 DEF MonAt, MonPoints
  <2>2. CASE k # i
    BY <1>3, <1>5, <2>2 DEF MonAt, Awake
  <2> QED BY <2>1, <2>2
<1>6. next_count' = Cardinality(Signalled)'
  <2>1. Signalled' = Signalled \cup {i} /\ i \notin Signalled
    BY <1>3 DEF Signalled
  <2> QED BY <2>1, SignalledFinite, FS_AddElement
<1>7. \E t \in Thread : pc'[t] = "signal"
  BY <1>3
<1>8. CASE /\ \A t \in Thread : waits[t] # j
           /\ value' = [value EXCEPT ![j] = @ + 1] /\ waits' = waits
  <2>1. pc[j] = "wait"
    BY <1>2, <1>8
  <2>2. value'[j] = 1 /\ \A k \in Thread \ {j} : value'[k] = value[k]
    BY <1>1, <1>8
  <2>3. MonAt(j)'
    <3>1. Awake(j)'
      BY <1>8, <2>1 DEF MonAt, Awake
    <3> QED BY <1>2, <1>3, <2>1, <2>2, <3>1 DEF MonAt, MonPoints
  <2>4. \A k \in Thread : MonAt(k)'
    <3> SUFFICES ASSUME NEW k \in Thread PROVE MonAt(k)'
      OBVIOUS
    <3>1. waits'[k] = waits[k]
      BY <1>8
    <3> QED BY <1>5, <2>2, <2>3, <3>1
  <2>5. OneOf({}, Sem, value')
    BY <1>1, <1>8, RightGiven
  <2>6. Active' = {}
    BY <1>1, <1>3, <1>8 DEF Active, ActiveBut, Outside, Awake
  <2> QED BY <1>4, <1>6, <1>7, <2>4, <2>5, <2>6 DEF IInv, MonInv
<1>9. ASSUME NEW u \in Thread, waits[u] = j,
             value' = value, waits' = [waits EXCEPT ![u] = NoSem]
      PROVE  IInv'
  <2>1. u = j /\ pc[j] = "rewait"
    BY <1>9 DEF MonAt, Awake
  <2>2. waits'[j] = NoSem /\ \A k \in Thread \ {j} : waits'[k] = waits[k]
    BY <1>9, <2>1 DEF Shape, SemTypeOK
  <2>3. MonAt(j)'
    <3>1. value'[j] = 0 /\ Awake(j)'
      BY <1>1, <1>9, <2>2 DEF Awake
    <3> QED BY <1>2, <1>3, <2>1, <3>1 DEF MonAt, MonPoints
  <2>4. \A k \in Thread : MonAt(k)'
    <3> SUFFICES ASSUME NEW k \in Thread PROVE MonAt(k)'
      OBVIOUS
    <3>1. value'[k] = value[k]
      BY <1>9
    <3> QED BY <1>5, <2>2, <2>3, <3>1
  <2>5. OneOf({j}, Sem, value')
    BY <1>1, <1>9, RightPassed
  <2>6. Active' = {j}
    BY <1>1, <1>3, <2>1, <2>2 DEF Active, ActiveBut, Outside, Awake
  <2> QED BY <1>4, <1>6, <1>7, <2>4, <2>5, <2>6 DEF IInv, MonInv
<1> QED BY <1>8, <1>9, UpWakes DEF Shape

\* cond_signal goes to sleep on next, or finds the monitor already given back.
LEMMA MonSignalDown ==
  ASSUME IInv, using = "monitor", NEW i \in Thread, SignalDown(i), UNCHANGED <<state, using>>
  PROVE  IInv'
<1> USE Constants, MonFacts
<1>1. /\ Awake(i) /\ pc[i] = "signal" /\ pc' = [pc EXCEPT ![i] = "resignal"]
      /\ down(i, next) /\ UNCHANGED <<next_count, count, back, on, state, using>>
  BY DEF SignalDown, Step, cvars
<1>2. Shape' /\ NoNeighbours'
  <2>1. SemTypeOK' /\ QueuesExact'
    BY <1>1, DownQueues DEF Shape
  <2>2. pc' \in [Thread -> MonPoints \cup SemaPoints]
    BY <1>1 DEF MonPoints
  <2> QED BY <1>1, <2>1, <2>2 DEF Shape, NoNeighbours
<1>3. /\ \A k \in Thread : value'[k] = value[k]
      /\ \A k \in Thread \ {i} : waits'[k] = waits[k] /\ pc'[k] = pc[k]
  BY <1>1 DEF down, Shape, SemTypeOK, Awake
<1>4. pc'[i] = "resignal"
  BY <1>1 DEF Shape
<1>5. \A k \in Thread : MonAt(k)'
  <2>1. MonAt(i)'
    <3>1. waits'[i] = NoSem \/ waits'[i] = next
      BY <1>1 DEF down, Shape, SemTypeOK, Awake
    <3> QED BY <1>1, <1>3, <1>4, <3>1 DEF MonAt, MonPoints, Awake
  <2> QED BY <1>1, <1>3, <2>1 DEF MonAt, Awake
<1>6. Signalled' = Signalled
  BY <1>1, <1>3, <1>4 DEF Signalled
<1>7. CASE value[next] > 0 /\ value' = [value EXCEPT ![next] = @ - 1] /\ waits' = waits
  <2>1. Active = {} /\ OneOf({i}, Sem, value')
    BY <1>7, RightTaken
  <2>2. Active' = {i}
    BY <1>1, <1>3, <1>4, <1>7, <2>1 DEF Active, ActiveBut, Outside, Awake
  <2>3. value'[next] = 0
    BY <2>1 DEF OneOf
  <2> QED BY <1>1, <1>2, <1>5, <1>6, <2>1, <2>2, <2>3 DEF IInv, MonInv
<1>8. CASE value[next] = 0 /\ value' = value /\ waits' = [waits EXCEPT ![i] = next]
  <2>1. i \notin Active /\ waits'[i] = next
    BY <1>1, <1>8 DEF Active, ActiveBut, Shape, SemTypeOK
  <2>2. Active' = Active
    BY <1>1, <1>3, <2>1 DEF Active, ActiveBut, Outside, Awake
  <2> QED BY <1>1, <1>2, <1>5, <1>6, <1>8, <2>2 DEF IInv, MonInv
<1> QED BY <1>1, <1>7, <1>8 DEF down

\* cond_signal returns.
LEMMA MonSignalEnd ==
  ASSUME IInv, using = "monitor", NEW i \in Thread, SignalEnd(i), UNCHANGED <<state, using>>
  PROVE  IInv'
<1> USE Constants, MonFacts
<1>1. /\ Awake(i) /\ pc[i] = "resignal" /\ pc' = [pc EXCEPT ![i] = back[i]]
      /\ next_count' = next_count - 1
      /\ UNCHANGED <<value, queue, waits, count, back, on, state, using>>
  BY DEF SignalEnd, Step
<1>2. back[i] \in {"testright", "leaveput"}
  BY <1>1 DEF MonAt
<1>3. pc'[i] = back[i] /\ \A k \in Thread \ {i} : pc'[k] = pc[k]
  BY <1>1 DEF Shape
<1>4. next_count' = Cardinality(Signalled)' /\ next_count' \in Nat
  <2>1. Signalled' = Signalled \ {i} /\ i \in Signalled
    BY <1>1, <1>2, <1>3 DEF Signalled
  <2>2. IsFiniteSet(Signalled) /\ IsFiniteSet(Signalled \ {i})
    BY SignalledFinite, FS_RemoveElement
  <2>3. Cardinality(Signalled \ {i}) = Cardinality(Signalled) - 1
    BY <2>1, <2>2, FS_RemoveElement
  <2> QED BY <1>1, <2>1, <2>2, <2>3, FS_CardinalityType
<1>5. Shape' /\ NoNeighbours'
  <2>1. SemTypeOK' /\ QueuesExact'
    BY <1>1, QueuesKept DEF Shape
  <2>2. pc' \in [Thread -> MonPoints \cup SemaPoints]
    BY <1>1, <1>2 DEF MonPoints
  <2> QED BY <1>1, <1>4, <2>1, <2>2 DEF Shape, NoNeighbours
<1>6. \A k \in Thread : MonAt(k)'
  <2>1. MonAt(i)'
    BY <1>1, <1>2, <1>3 DEF MonAt, MonPoints, Awake
  <2> QED BY <1>1, <1>3, <2>1 DEF MonAt, Awake
<1>7. Active' = Active /\ i \in Active
  BY <1>1, <1>2, <1>3 DEF Active, ActiveBut, Outside, Awake
<1>8. value'[next] = 0
  BY <1>1, <1>7 DEF OneOf
<1> QED BY <1>1, <1>4, <1>5, <1>6, <1>7, <1>8 DEF IInv, MonInv

\* cond_wait goes to sleep on its condition variable, or finds that it was signalled.
LEMMA MonWaitDown ==
  ASSUME IInv, using = "monitor", NEW i \in Thread, WaitDown(i), UNCHANGED <<state, using>>
  PROVE  IInv'
<1> USE Constants, MonFacts
<1>1. /\ Awake(i) /\ pc[i] = "wait" /\ pc' = [pc EXCEPT ![i] = "rewait"]
      /\ on[i] = i /\ back[i] = "leavetake" /\ count[i] = 1 /\ down(i, i)
      /\ UNCHANGED <<next_count, count, back, on, state, using>>
  BY DEF WaitDown, Step, cvars, MonAt
<1>2. Shape' /\ NoNeighbours'
  <2>1. SemTypeOK' /\ QueuesExact'
    BY <1>1, DownQueues DEF Shape
  <2>2. pc' \in [Thread -> MonPoints \cup SemaPoints]
    BY <1>1 DEF MonPoints
  <2> QED BY <1>1, <2>1, <2>2 DEF Shape, NoNeighbours
<1>3. /\ pc'[i] = "rewait" /\ value'[next] = value[next]
      /\ \A k \in Thread \ {i} : /\ value'[k] = value[k] /\ waits'[k] = waits[k]
                                 /\ pc'[k] = pc[k]
  BY <1>1 DEF down, Shape, SemTypeOK
<1>4. ASSUME MonAt(i)' PROVE \A k \in Thread : MonAt(k)'
  BY <1>1, <1>3, <1>4 DEF MonAt, Awake
<1>5. /\ next_count' = Cardinality(Signalled)'
      /\ value'[next] > 0 => \E t \in Thread : pc'[t] = "signal"
  BY <1>1, <1>3, SignalledKept
<1>6. CASE value[i] > 0 /\ value' = [value EXCEPT ![i] = @ - 1] /\ waits' = waits
  <2>1. state[i] = "EATING" /\ value'[i] = 0 /\ Awake(i)'
    <3>1. state[i] = "EATING" /\ value[i] = 1
      BY <1>6 DEF MonAt
    <3> QED BY <1>1, <1>6, <3>1 DEF Awake
  <2>2. MonAt(i)'
    BY <1>1, <1>3, <2>1 DEF MonAt, MonPoints
  <2>3. Active = {} /\ OneOf({i}, Sem, value')
    BY <1>6, RightTaken
  <2>4. Active' = {i}
    BY <1>1, <1>3, <1>6, <2>3 DEF Active, ActiveBut, Outside, Awake
  <2> QED BY <1>1, <1>2, <1>4, <1>5, <2>2, <2>3, <2>4 DEF IInv, MonInv
<1>7. CASE value[i] = 0 /\ value' = value /\ waits' = [waits EXCEPT ![i] = i]
  <2>1. state[i] = "HUNGRY" /\ waits'[i] = i /\ ~Awake(i)'
    BY <1>1, <1>7 DEF MonAt, Shape, SemTypeOK, Awake
  <2>2. MonAt(i)'
    BY <1>1, <1>3, <1>7, <2>1 DEF MonAt, MonPoints
  <2>3. i \notin Active
    BY <1>1 DEF Active, ActiveBut
  <2>4. Active' = Active
    BY <1>1, <1>3, <2>1, <2>3 DEF Active, ActiveBut, Outside, Awake
  <2> QED BY <1>1, <1>2, <1>4, <1>5, <1>7, <2>2, <2>4 DEF IInv, MonInv
<1> QED BY <1>1, <1>6, <1>7 DEF down

\* cond_wait returns.
LEMMA MonWaitEnd ==
  ASSUME IInv, using = "monitor", NEW i \in Thread, WaitEnd(i), UNCHANGED <<state, using>>
  PROVE  IInv'
<1> USE Constants, MonFacts
<1>1. /\ Awake(i) /\ pc[i] = "rewait" /\ pc' = [pc EXCEPT ![i] = "leavetake"]
      /\ count[i] = 1 /\ count' = [count EXCEPT ![i] = @ - 1]
      /\ UNCHANGED <<value, queue, waits, next_count, back, on, state, using>>
  <2>1. /\ Awake(i) /\ pc[i] = "rewait" /\ pc' = [pc EXCEPT ![i] = "leavetake"]
        /\ count' = [count EXCEPT ![i] = @ - 1]
        /\ UNCHANGED <<value, queue, waits, next_count, back, on, state, using>>
    BY DEF WaitEnd, CountedOut, Step, MonAt
  <2>2. count[i] = 1
    BY <2>1 DEF MonAt
  <2> QED BY <2>1, <2>2
<1>2. /\ pc'[i] = "leavetake" /\ count'[i] = 0
      /\ \A k \in Thread \ {i} : pc'[k] = pc[k] /\ count'[k] = count[k]
  BY <1>1 DEF Shape
<1>3. Shape' /\ NoNeighbours'
  <2>1. SemTypeOK' /\ QueuesExact'
    BY <1>1, QueuesKept DEF Shape
  <2>2. pc' \in [Thread -> MonPoints \cup SemaPoints] /\ count' \in [CV -> Nat]
    BY <1>1, <1>2 DEF MonPoints, Shape
  <2> QED BY <1>1, <2>1, <2>2 DEF Shape, NoNeighbours
<1>4. \A k \in Thread : MonAt(k)'
  <2>1. MonAt(i)'
    BY <1>1, <1>2 DEF MonAt, MonPoints, Awake
  <2> QED BY <1>1, <1>2, <2>1 DEF MonAt, Awake
<1>5. Active' = Active
  BY <1>1, <1>2 DEF Active, ActiveBut, Outside, Awake
<1>6. /\ next_count' = Cardinality(Signalled)'
      /\ value'[next] > 0 => \E t \in Thread : pc'[t] = "signal"
  BY <1>1, SignalledKept
<1> QED BY <1>1, <1>3, <1>4, <1>5, <1>6 DEF IInv, MonInv

\* phi_test_condvar, whatever it finds.
LEMMA MonPhi ==
  ASSUME IInv, using = "monitor", NEW i \in Thread, NEW j \in Thread, NEW from, NEW to,
         \/ j = i /\ from = "testself" /\ to = "check"
         \/ j # i /\ from = "testleft" /\ to = "testright"
         \/ j # i /\ from = "testright" /\ to = "leaveput",
         phi_test_condvar(i, from, j, to), UNCHANGED using
  PROVE  IInv'
<1>1. CASE MayEat(j) /\ state' = [state EXCEPT ![j] = "EATING"] /\ cond_signal(i, from, j, to)
  <2>1. CASE count[j] > 0
    <3>1. /\ Awake(i) /\ pc[i] = from /\ pc' = [pc EXCEPT ![i] = "signal"]
          /\ next_count' = next_count + 1 /\ up(j)
          /\ back' = [back EXCEPT ![i] = to] /\ on' = [on EXCEPT ![i] = j]
          /\ UNCHANGED <<count, using>>
      BY <1>1, <2>1 DEF cond_signal, Step
    <3> QED BY <1>1, <2>1, <3>1, MonSignal
  <2>2. CASE count[j] = 0
    <3>1. /\ Awake(i) /\ pc[i] = from /\ pc' = [pc EXCEPT ![i] = to]
          /\ UNCHANGED <<value, queue, waits, next_count, count, back, on, using>>
      BY <1>1, <2>2 DEF cond_signal, Step
    <3> QED BY <1>1, <2>2, <3>1, MonTest
  <2> QED BY <1>1, <2>1, <2>2 DEF cond_signal
<1>2. CASE /\ ~MayEat(j) /\ Step(i, from, to)
           /\ UNCHANGED <<value, queue, waits, next_count, count, back, on, state>>
  <2>1. state' = [state EXCEPT ![i] = state[i]]
    BY <1>2 DEF IInv, Shape
  <2> QED BY <1>2, <2>1, MonLocal DEF Step
<1> QED BY <1>1, <1>2 DEF phi_test_condvar

\* Every step of a philosopher that uses the monitor.
LEMMA MonStep ==
  ASSUME IInv, using = "monitor", NEW i \in Thread, Dines(i)
  PROVE  IInv'
<1>1. Philosopher(i) /\ UNCHANGED using
  BY DEF Dines
<1>2. [state EXCEPT ![i] = state[i]] = state
  BY DEF IInv, Shape
<1>3. CASE Think(i)
  BY <1>1, <1>3, MonEnter DEF Think, Enter, Step, cvars
<1>4. CASE Quit(i)
  BY <1>1, <1>2, <1>4, MonLocal DEF Quit, Step
<1>5. CASE Hungry(i)
  BY <1>1, <1>5, MonLocal DEF Hungry, Step
<1>6. CASE TestSelf(i)
  BY <1>1, <1>6, MonPhi DEF TestSelf
<1>7. CASE Check(i)
  <2>1. CASE state[i] # "EATING" /\ cond_wait(i, "check", i, "leavetake")
    BY <1>1, <1>7, <2>1, MonGiveUp DEF Check, cond_wait, Step
  <2>2. CASE /\ state[i] = "EATING" /\ Step(i, "check", "leavetake")
             /\ UNCHANGED <<value, queue, waits, next_count, count, back, on>>
    BY <1>1, <1>2, <1>7, <2>2, MonLocal DEF Check, Step
  <2> QED BY <1>7, <2>1, <2>2 DEF Check
<1>8. CASE LeaveTake(i)
  BY <1>1, <1>8, MonGiveUp DEF LeaveTake, Leave, Step, cvars
<1>9. CASE Eat(i)
  BY <1>1, <1>9, MonEnter DEF Eat, Enter, Step, cvars
<1>10. CASE Thinking(i)
  BY <1>1, <1>10, MonLocal DEF Thinking, Step
<1>11. CASE TestLeft(i)
  BY <1>1, <1>11, Table, MonPhi, Constants DEF TestLeft
<1>12. CASE TestRight(i)
  BY <1>1, <1>12, Table, MonPhi, Constants DEF TestRight
<1>13. CASE LeavePut(i)
  BY <1>1, <1>13, MonGiveUp DEF LeavePut, Leave, Step, cvars
<1>14. CASE InsideMonitor(i) /\ UNCHANGED <<state, iter>>
  BY <1>1, <1>14, MonSignalDown, MonSignalEnd, MonWaitDown, MonWaitEnd DEF InsideMonitor
<1> QED BY <1>1, <1>3, <1>4, <1>5, <1>6, <1>7, <1>8, <1>9, <1>10, <1>11, <1>12, <1>13,
           <1>14 DEF Philosopher

-----------------------------------------------------------------------------
(***************************************************************************)
(* The invariant is inductive.                                             *)
(***************************************************************************)
LEMMA InitHolds == Init => IInv
<1> SUFFICES ASSUME Init PROVE IInv
  OBVIOUS
<1> USE Constants
<1>1. /\ value = [s \in Sem |-> IF s = mutex THEN 1 ELSE 0]
      /\ queue = [s \in Sem |-> <<>>] /\ waits = [t \in Thread |-> NoSem]
      /\ next_count = 0 /\ count = [cv \in CV |-> 0]
      /\ pc = [t \in Thread |-> "think"] /\ back = [t \in Thread |-> "think"]
      /\ on \in [Thread -> {CHOOSE cv \in CV : TRUE}]
      /\ state = [i \in Thread |-> "THINKING"]
      /\ using \in {"semaphores", "monitor"}
  BY CondvarAssumption DEF Init, monitor_init, sem_init, Seated
<1>2. Shape
  <2>1. SemTypeOK
    BY <1>1 DEF SemTypeOK
  <2>2. QueuesExact
    BY <1>1, SemAssumption DEF QueuesExact
  <2>3. on \in [Thread -> CV]
    <3>1. 0 \in CV
      BY PhilAssumption, CondvarAssumption
    <3> QED BY <1>1, <3>1
  <2> QED BY <1>1, <2>1, <2>2, <2>3 DEF Shape, MonPoints
<1>3. NoNeighbours
  BY <1>1, Table DEF NoNeighbours
<1>4. SemaInv
  <2>1. \A i \in Thread : SemaAt(i)
    BY <1>1 DEF SemaAt, SemaPoints, Awake
  <2>2. Critical = {}
    BY <1>1 DEF Critical
  <2> QED BY <1>1, <2>1, <2>2 DEF SemaInv, OneOf
<1>5. MonInv
  <2>1. \A i \in Thread : MonAt(i)
    BY <1>1 DEF MonAt, MonPoints, Awake
  <2>2. Active = {} /\ Signalled = {}
    BY <1>1 DEF Active, ActiveBut, Outside, Signalled
  <2>3. OneOf(Active, Sem, value)
    BY <1>1, <2>2 DEF OneOf
  <2> QED BY <1>1, <2>1, <2>2, <2>3, FS_EmptySet DEF MonInv
<1> QED BY <1>2, <1>3, <1>4, <1>5 DEF IInv

LEMMA StutterHolds == ASSUME IInv, UNCHANGED vars PROVE IInv'
<1>1. UNCHANGED <<value, queue, waits, next_count, count, pc, back, on, state, using>>
  BY DEF vars, phvars
<1>2. Shape' /\ NoNeighbours'
  <2>1. SemTypeOK' /\ QueuesExact'
    BY <1>1, QueuesKept DEF IInv, Shape
  <2> QED BY <1>1, <2>1 DEF IInv, Shape, NoNeighbours
<1>3. ASSUME SemaInv PROVE SemaInv'
  BY <1>1, <1>3 DEF SemaInv, SemaAt, Critical, OneOf, Awake
<1>4. ASSUME MonInv PROVE MonInv'
  <2>1. Active' = Active /\ Signalled' = Signalled
    BY <1>1 DEF Active, ActiveBut, Awake, Signalled
  <2>2. \A i \in Thread : MonAt(i)'
    BY <1>1, <1>4 DEF MonInv, MonAt, Awake
  <2> QED BY <1>1, <1>4, <2>1, <2>2 DEF MonInv
<1> QED BY <1>1, <1>2, <1>3, <1>4 DEF IInv

\* IInv holds throughout.
LEMMA Inductive == Spec => []IInv
<1>1. ASSUME IInv, [Next]_vars PROVE IInv'
  <2>1. CASE UNCHANGED vars
    BY <1>1, <2>1, StutterHolds
  <2>2. ASSUME NEW i \in Thread, Dines(i) PROVE IInv'
    <3>1. using \in {"semaphores", "monitor"}
      BY <1>1 DEF IInv, Shape
    <3> QED BY <1>1, <2>2, <3>1, SemaStep, MonStep
  <2> QED BY <1>1, <2>1, <2>2 DEF Next, Done
<1> QED BY <1>1, InitHolds, PTL DEF Spec

-----------------------------------------------------------------------------
(***************************************************************************)
(* What the runs check follows from it.                                    *)
(***************************************************************************)
\* One thread, or one semaphore, in the form of the properties.
LEMMA OneCounted ==
  ASSUME NEW A, NEW S, NEW v, \A s \in S : v[s] \in Nat, OneOf(A, S, v),
         NEW held, held = {s \in S : v[s] > 0}
  PROVE  Cardinality(A) + Cardinality(held) = 1 /\ \A s \in held : v[s] = 1
<1>1. CASE (\E t \in A : A = {t}) /\ \A s \in S : v[s] = 0
  <2>1. PICK t \in A : A = {t}
    BY <1>1
  <2>2. held = {}
    BY <1>1
  <2>3. Cardinality(A) = 1 /\ Cardinality(held) = 0
    BY <2>1, <2>2, FS_Singleton, FS_EmptySet
  <2> QED BY <2>2, <2>3
<1>2. CASE A = {} /\ \E s \in S : v[s] = 1 /\ \A r \in S \ {s} : v[r] = 0
  <2>1. PICK s \in S : v[s] = 1 /\ \A r \in S \ {s} : v[r] = 0
    BY <1>2
  <2>2. held = {s}
    BY <2>1
  <2>3. Cardinality(A) = 0 /\ Cardinality(held) = 1
    BY <1>2, <2>2, FS_Singleton, FS_EmptySet
  <2> QED BY <2>1, <2>2, <2>3
<1> QED BY <1>1, <1>2 DEF OneOf

LEMMA OneTokenFollows == IInv => OneToken
<1> SUFFICES ASSUME IInv PROVE OneToken
  OBVIOUS
<1>1. value \in [Sem -> Nat] /\ mutex \in Sem
  BY Constants DEF IInv, Shape, SemTypeOK
<1>2. CASE using = "monitor"
  <2>1. OneOf(Active, Sem, value)
    BY <1>2 DEF IInv, MonInv
  <2> DEFINE held == {s \in Sem : value[s] > 0}
  <2>2. \A s \in Sem : value[s] \in Nat
    BY <1>1
  <2>3. Cardinality(Active) + Cardinality(held) = 1 /\ \A s \in held : value[s] = 1
    BY <2>1, <2>2, OneCounted
  <2> QED BY <1>2, <2>3 DEF OneToken, OneTokenBut, Active
<1>3. CASE using = "semaphores"
  <2>1. OneOf(Critical, {mutex}, value) /\ Sema!Critical = Critical
    BY <1>3 DEF IInv, SemaInv, Critical, Awake, Sema!Critical, Sema!Awake
  <2>2. \/ value[mutex] = 0 /\ \E t \in Critical : Critical = {t}
        \/ value[mutex] = 1 /\ Critical = {}
    BY <2>1 DEF OneOf
  <2>3. Cardinality(Critical) + value[mutex] = 1
    BY <2>2, FS_Singleton, FS_EmptySet
  <2> QED BY <1>3, <2>1, <2>3 DEF OneToken
<1> QED BY <1>2, <1>3 DEF IInv, Shape

LEMMA CountsFollow == IInv => CountsExact
<1> SUFFICES ASSUME IInv PROVE CountsExact
  OBVIOUS
<1> USE Constants
<1> DEFINE Waiting(cv) == {t \in Thread : pc[t] \in {"wait", "rewait"} /\ on[t] = cv}
<1>1. CASE using = "monitor"
  <2>1. \A k \in Thread : MonAt(k)
    BY <1>1 DEF IInv, MonInv
  <2>2. ASSUME NEW cv \in CV PROVE count[cv] = Cardinality(Waiting(cv))
    <3>1. \A t \in Waiting(cv) : t = cv
      BY <2>1 DEF MonAt
    <3>2. CASE pc[cv] \in {"wait", "rewait"}
      <4>1. Waiting(cv) = {cv} /\ count[cv] = 1
        BY <2>1, <3>1, <3>2 DEF MonAt
      <4> QED BY <4>1, FS_Singleton
    <3>3. CASE pc[cv] \notin {"wait", "rewait"}
      <4>1. Waiting(cv) = {} /\ count[cv] = 0
        BY <2>1, <3>1, <3>3 DEF MonAt
      <4> QED BY <4>1, FS_EmptySet
    <3> QED BY <3>2, <3>3
  <2>3. next_count = Cardinality(Signalled)
    BY <1>1 DEF IInv, MonInv
  <2> QED BY <2>2, <2>3 DEF CountsExact, Signalled
<1>2. CASE using = "semaphores"
  <2>1. /\ \A k \in Thread : pc[k] \in SemaPoints
        /\ next_count = 0 /\ \A cv \in CV : count[cv] = 0
    BY <1>2 DEF IInv, SemaInv, SemaAt
  <2>2. /\ {t \in Thread : pc[t] \in {"signal", "resignal"}} = {}
        /\ \A cv \in CV : Waiting(cv) = {}
    BY <2>1 DEF SemaPoints
  <2> QED BY <2>1, <2>2, FS_EmptySet DEF CountsExact
<1> QED BY <1>1, <1>2 DEF IInv, Shape

LEMMA UnitsFollow == IInv => UnitsReach
<1> SUFFICES ASSUME IInv PROVE UnitsReach
  OBVIOUS
<1> USE Constants
<1>1. CASE using = "monitor"
  <2>1. /\ \A k \in Thread : MonAt(k)
        /\ value[next] > 0 => \E t \in Thread : pc[t] = "signal"
    BY <1>1 DEF IInv, MonInv
  <2>2. \A k \in Thread : pc[k] \in {"signal", "wait"} => Awake(k)
    BY <2>1 DEF MonAt
  <2>3. \A k \in Thread : value[k] > 0 => pc[k] = "wait" /\ on[k] = k
    BY <2>1 DEF MonAt
  <2> QED BY <1>1, <2>1, <2>2, <2>3 DEF UnitsReach, TokenReaches
<1>2. CASE using = "semaphores"
  BY <1>2 DEF IInv, SemaInv, SemaAt, UnitsReach
<1> QED BY <1>1, <1>2 DEF IInv, Shape

LEMMA ForksFollow == IInv => ForksExclusive /\ ConditionHolds
<1> SUFFICES ASSUME IInv PROVE ForksExclusive /\ ConditionHolds
  OBVIOUS
<1>1. NoNeighbours /\ using \in {"semaphores", "monitor"}
  BY DEF IInv, Shape
<1>2. CASE using = "monitor"
  BY <1>1, <1>2 DEF IInv, MonInv, MonAt, NoNeighbours, ForksExclusive, ConditionHolds
<1>3. CASE using = "semaphores"
  BY <1>1, <1>3
    DEF IInv, SemaInv, SemaAt, SemaPoints, NoNeighbours, ForksExclusive, ConditionHolds
<1> QED BY <1>1, <1>2, <1>3

-----------------------------------------------------------------------------
(***************************************************************************)
(* The theorems.                                                           *)
(***************************************************************************)
\* One thread at a time is in the monitor or holds the right to go in, which GiveUp,
\* cond_signal and cond_wait pass on; with semaphores mutex alone holds it
\* (monitor.c:25-72, check_sync.c:96-112).
THEOREM MutualExclusion == Spec => []OneToken
BY Inductive, OneTokenFollows, PTL

\* The counters that cond_signal, cond_wait and the end of a procedure decide by count
\* exactly the threads that signalled and those that wait (monitor.c:25-72).
THEOREM CountersCorrect == Spec => []CountsExact
BY Inductive, CountsFollow, PTL

\* What a semaphore holds is for a thread that will come for it: no right and no forks
\* are lost between up() and a down() that has not been called yet
\* (monitor.c:40-43, check_sync.c:91, check_sync.c:102).
THEOREM UnitsCorrect == Spec => []UnitsReach
BY Inductive, UnitsFollow, PTL

\* Neighbours never eat at the same time, whichever solution and however many they are
\* (check_sync.c:86-112, check_sync.c:172-217).
THEOREM ForksCorrect == Spec => []ForksExclusive
BY Inductive, ForksFollow, PTL

\* A philosopher that cond_wait wakes has his forks, so that phi_take_forks_condvar may
\* ask with if (check_sync.c:191).
THEOREM ConditionCorrect == Spec => []ConditionHolds
BY Inductive, ForksFollow, PTL
=============================================================================
