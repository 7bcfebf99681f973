-------------------------- MODULE SemaphoreProofs --------------------------
(***************************************************************************)
(* A kernel semaphore serves its callers first come, first served, and     *)
(* keeps exact account of its units: proofs about modules Semaphores and   *)
(* SemaphoreFifo for every set of threads and semaphores and every initial *)
(* value.                                                                  *)
(***************************************************************************)
EXTENDS SemaphoreFifo, SequenceTheorems, TLAPS

-----------------------------------------------------------------------------
(***************************************************************************)
(* down() and up() keep the queues exact.                                  *)
(***************************************************************************)

\* A thread that is awake is in no queue, so that down() puts it in one queue, once
\* (wait_current_set, __down).
LEMMA DownQueues ==
  ASSUME SemTypeOK, QueuesExact, NEW t \in Thread, Awake(t), NEW s \in Sem, down(t, s)
  PROVE  SemTypeOK' /\ QueuesExact'
<1> USE SemAssumption
<1>1. CASE value[s] > 0 /\ value' = [value EXCEPT ![s] = @ - 1] /\ UNCHANGED <<queue, waits>>
  BY <1>1 DEF SemTypeOK, QueuesExact
<1>2. CASE /\ value[s] = 0 /\ UNCHANGED value
           /\ queue' = [queue EXCEPT ![s] = Append(queue[s], t)]
           /\ waits' = [waits EXCEPT ![t] = s]
  <2>1. queue[s] \in Seq(Thread) /\ Len(queue[s]) \in Nat
    BY DEF SemTypeOK
  <2>2. /\ queue'[s] \in Seq(Thread)
        /\ Len(queue'[s]) = Len(queue[s]) + 1
        /\ \A i \in 1..Len(queue[s]) : queue'[s][i] = queue[s][i]
        /\ queue'[s][Len(queue[s]) + 1] = t
    BY <1>2, <2>1, AppendProperties DEF SemTypeOK
  <2>3. \A i \in 1..Len(queue[s]) : queue[s][i] # t
    BY DEF QueuesExact, Awake
  <2>4. SemTypeOK'
    BY <1>2, <2>2 DEF SemTypeOK
  <2> SUFFICES ASSUME NEW u \in Sem
               PROVE  /\ \A x \in Thread : waits'[x] = u <=>
                           \E i \in 1..Len(queue'[u]) : queue'[u][i] = x
                      /\ \A i, j \in 1..Len(queue'[u]) : queue'[u][i] = queue'[u][j] => i = j
                      /\ value'[u] > 0 => queue'[u] = <<>>
    BY <2>4 DEF QueuesExact
  <2>5. CASE u # s
    BY <1>2, <2>5 DEF QueuesExact, SemTypeOK, Awake
  <2>6. CASE u = s
    <3>1. \A i, j \in 1..Len(queue'[s]) : queue'[s][i] = queue'[s][j] => i = j
      <4>1. \A i, j \in 1..Len(queue[s]) : queue[s][i] = queue[s][j] => i = j
        BY DEF QueuesExact
      <4>2. \A i \in 1..Len(queue'[s]) : i \in 1..Len(queue[s]) \/ i = Len(queue[s]) + 1
        BY <2>1, <2>2
      <4> QED BY ONLY <2>2, <2>3, <4>1, <4>2
    <3>2. ASSUME NEW x \in Thread
          PROVE  waits'[x] = s <=> \E i \in 1..Len(queue'[s]) : queue'[s][i] = x
      <4>1. CASE x = t
        BY <1>2, <2>1, <2>2, <4>1 DEF SemTypeOK
      <4>2. CASE x # t
        <5>1. waits'[x] = s <=> \E i \in 1..Len(queue[s]) : queue[s][i] = x
          BY <1>2, <4>2 DEF SemTypeOK, QueuesExact
        <5> QED BY <2>1, <2>2, <4>2, <5>1
      <4> QED BY <4>1, <4>2
    <3> QED BY <1>2, <2>6, <3>1, <3>2
  <2> QED BY <2>5, <2>6
<1> QED BY <1>1, <1>2 DEF down, Enqueued

\* up() takes the first waiter off its queue and wakes it, or raises the value of a
\* semaphore nobody waits for (__up).
LEMMA UpQueues ==
  ASSUME SemTypeOK, QueuesExact, NEW s \in Sem, up(s)
  PROVE  SemTypeOK' /\ QueuesExact'
<1> USE SemAssumption
<1>1. CASE /\ queue[s] = <<>> /\ UNCHANGED <<queue, waits>>
           /\ value' = [value EXCEPT ![s] = @ + 1]
  BY <1>1 DEF SemTypeOK, QueuesExact
<1>2. CASE /\ queue[s] # <<>> /\ UNCHANGED value
           /\ queue' = [queue EXCEPT ![s] = Tail(@)]
           /\ waits' = [waits EXCEPT ![Head(queue[s])] = NoSem]
  <2> DEFINE h == Head(queue[s])
  <2>1. queue[s] \in Seq(Thread) /\ Len(queue[s]) \in Nat \ {0}
    BY <1>2, EmptySeq DEF SemTypeOK
  <2>2. /\ queue'[s] \in Seq(Thread)
        /\ Len(queue'[s]) = Len(queue[s]) - 1
        /\ \A i \in 1..Len(queue[s]) - 1 : queue'[s][i] = queue[s][i + 1]
        /\ h = queue[s][1] /\ h \in Thread
    BY <1>2, <2>1, HeadTailProperties DEF SemTypeOK
  <2>3. waits[h] = s
    BY <2>1, <2>2 DEF QueuesExact
  <2>4. SemTypeOK'
    BY <1>2, <2>2 DEF SemTypeOK
  <2> SUFFICES ASSUME NEW u \in Sem
               PROVE  /\ \A x \in Thread : waits'[x] = u <=>
                           \E i \in 1..Len(queue'[u]) : queue'[u][i] = x
                      /\ \A i, j \in 1..Len(queue'[u]) : queue'[u][i] = queue'[u][j] => i = j
                      /\ value'[u] > 0 => queue'[u] = <<>>
    BY <2>4 DEF QueuesExact
  <2>5. CASE u # s
    BY <1>2, <2>2, <2>3, <2>5 DEF QueuesExact, SemTypeOK
  <2>6. CASE u = s
    <3>1. \A i, j \in 1..Len(queue'[s]) : queue'[s][i] = queue'[s][j] => i = j
      <4>1. \A i, j \in 1..Len(queue[s]) : queue[s][i] = queue[s][j] => i = j
        BY DEF QueuesExact
      <4>2. SUFFICES ASSUME NEW i \in 1..Len(queue'[s]), NEW j \in 1..Len(queue'[s]),
                            queue'[s][i] = queue'[s][j]
                     PROVE  i = j
        OBVIOUS
      <4>3. /\ i \in Int /\ j \in Int
            /\ i \in 1..Len(queue[s]) - 1 /\ j \in 1..Len(queue[s]) - 1
            /\ i + 1 \in 1..Len(queue[s]) /\ j + 1 \in 1..Len(queue[s])
        BY ONLY <2>1, <2>2, <4>2
      <4>4. queue[s][i + 1] = queue[s][j + 1]
        BY ONLY <2>2, <4>2, <4>3
      <4>5. i + 1 = j + 1
        BY ONLY <4>1, <4>3, <4>4
      <4> QED BY ONLY <4>3, <4>5
    <3>2. ASSUME NEW x \in Thread
          PROVE  waits'[x] = s <=> \E i \in 1..Len(queue'[s]) : queue'[s][i] = x
      <4>1. CASE x = h
        <5>1. waits'[x] # s
          BY <1>2, <2>2, <4>1 DEF SemTypeOK
        <5>2. ASSUME NEW i \in 1..Len(queue'[s]) PROVE queue'[s][i] # x
          <6>1. /\ 1 \in 1..Len(queue[s]) /\ i + 1 \in 1..Len(queue[s]) /\ i + 1 # 1
                /\ queue'[s][i] = queue[s][i + 1]
            BY <2>1, <2>2
          <6>2. queue[s][i + 1] # queue[s][1]
            BY <6>1 DEF QueuesExact
          <6> QED BY <2>2, <4>1, <6>1, <6>2
        <5> QED BY <5>1, <5>2
      <4>2. CASE x # h
        <5>1. waits'[x] = s <=> \E i \in 1..Len(queue[s]) : queue[s][i] = x
          BY <1>2, <4>2 DEF SemTypeOK, QueuesExact
        <5>2. ASSUME NEW i \in 1..Len(queue[s]), queue[s][i] = x
              PROVE  i - 1 \in 1..Len(queue'[s]) /\ queue'[s][i - 1] = x
          <6>1. i # 1 /\ i - 1 \in 1..Len(queue[s]) - 1
            BY <2>1, <2>2, <4>2, <5>2
          <6>2. queue'[s][i - 1] = queue[s][(i - 1) + 1]
            BY <2>2, <6>1
          <6> QED BY <2>2, <5>2, <6>1, <6>2
        <5>3. ASSUME NEW i \in 1..Len(queue'[s]), queue'[s][i] = x
              PROVE  i + 1 \in 1..Len(queue[s]) /\ queue[s][i + 1] = x
          BY <2>1, <2>2, <5>3
        <5> QED BY <5>1, <5>2, <5>3
      <4> QED BY <4>1, <4>2
    <3>3. value'[s] > 0 => queue'[s] = <<>>
      BY <1>2 DEF QueuesExact
    <3> QED BY <2>6, <3>1, <3>2, <3>3
  <2> QED BY <2>5, <2>6
<1> QED BY <1>1, <1>2 DEF up

-----------------------------------------------------------------------------
(***************************************************************************)
(* Sequences.                                                              *)
(***************************************************************************)
LEMMA HeadThenTail ==
  ASSUME NEW S, NEW b \in Seq(S), b # <<>>
  PROVE  b = <<Head(b)>> \o Tail(b)
<1>1. Len(b) \in Nat \ {0}
  BY EmptySeq
<1>2. SubSeq(b, 1, Len(b)) = <<b[1]>> \o SubSeq(b, 2, Len(b))
  BY <1>1, SubSeqRecursiveFirst
<1> QED BY <1>1, <1>2, SubSeqFull, TailIsSubSeq

LEMMA ConcatAppend ==
  ASSUME NEW S, NEW a \in Seq(S), NEW b \in Seq(S), NEW x \in S
  PROVE  Append(a \o b, x) = a \o Append(b, x)
<1>1. Append(a \o b, x) = (a \o b) \o <<x>> /\ Append(b, x) = b \o <<x>>
  BY ConcatProperties, AppendIsConcat
<1>2. <<x>> \in Seq(S)
  OBVIOUS
<1> QED BY <1>1, <1>2, ConcatAssociative

LEMMA MoveHead ==
  ASSUME NEW S, NEW a \in Seq(S), NEW b \in Seq(S), b # <<>>
  PROVE  a \o b = Append(a, Head(b)) \o Tail(b)
<1>1. Head(b) \in S /\ Tail(b) \in Seq(S)
  BY HeadTailProperties
<1>2. <<Head(b)>> \in Seq(S)
  BY <1>1
<1>3. Append(a, Head(b)) = a \o <<Head(b)>>
  BY <1>1, AppendIsConcat
<1> QED BY <1>1, <1>2, <1>3, HeadThenTail, ConcatAssociative

LEMMA ConcatFront ==
  ASSUME NEW S, NEW a \in Seq(S), NEW b \in Seq(S)
  PROVE  SubSeq(a \o b, 1, Len(a)) = a
<1>1. CASE a = <<>>
  BY <1>1, SubSeqEmpty, ConcatEmptySeq
<1>2. CASE a # <<>>
  <2>1. Len(a) \in Nat \ {0}
    BY <1>2, EmptySeq
  <2>2. SubSeq(a \o b, 1, Len(a)) = SubSeq(a, 1, Len(a))
    BY <2>1, SubSeqOfConcat1
  <2> QED BY <2>2, SubSeqFull
<1> QED BY <1>1, <1>2

LEMMA UnitAdded ==
  ASSUME NEW g \in Nat, NEW v \in Nat, NEW i \in Nat, NEW u \in Nat, g + v = i + u
  PROVE  g + (v + 1) = i + (u + 1)
OBVIOUS

LEMMA Lesser ==
  ASSUME NEW g \in Nat, NEW w \in Nat
  PROVE  (IF g + w < g THEN g + w ELSE g) = g
OBVIOUS

-----------------------------------------------------------------------------
(***************************************************************************)
(* The account of a semaphore with any client.                             *)
(***************************************************************************)

\* The calls that have not been granted are those that wait, in order, and the
\* units there have been are those granted and those left.
Account ==
  /\ calls \in [Sem -> Seq(Thread)] /\ grants \in [Sem -> Seq(Thread)]
  /\ ups \in [Sem -> Nat]
  /\ \A s \in Sem : /\ calls[s] = grants[s] \o queue[s]
                    /\ Len(grants[s]) + value[s] = Initial[s] + ups[s]

IInv == SemTypeOK /\ QueuesExact /\ Account

LEMMA InitOK == Init => IInv
<1> SUFFICES ASSUME Init PROVE IInv
  OBVIOUS
<1>1. \A s \in Sem : /\ queue[s] = <<>> /\ calls[s] = <<>> /\ grants[s] = <<>>
                     /\ ups[s] = 0 /\ value[s] = Initial[s] /\ Initial[s] \in Nat
  BY FifoAssumption DEF Init, sem_init
<1>2. SemTypeOK
  BY FifoAssumption DEF Init, sem_init, SemTypeOK
<1>3. QueuesExact
  BY <1>1, SemAssumption DEF Init, sem_init, QueuesExact
<1>4. <<>> \o <<>> = <<>> /\ Len(<<>>) = 0
  BY ConcatEmptySeq, EmptySeq
<1>5. Account
  BY <1>1, <1>4 DEF Init, Account
<1> QED BY <1>2, <1>3, <1>5 DEF IInv

LEMMA DownOK ==
  ASSUME IInv, NEW t \in Thread, NEW s \in Sem, Down(t, s)
  PROVE  IInv'
<1>1. Awake(t) /\ down(t, s) /\ UNCHANGED ups /\ calls' = [calls EXCEPT ![s] = Append(@, t)]
  BY DEF Down, Called
<1>2. SemTypeOK' /\ QueuesExact'
  BY <1>1, DownQueues DEF IInv
<1>3. /\ calls[s] \in Seq(Thread) /\ grants[s] \in Seq(Thread) /\ queue[s] \in Seq(Thread)
      /\ calls[s] = grants[s] \o queue[s]
      /\ Len(grants[s]) + value[s] = Initial[s] + ups[s]
      /\ value[s] \in Nat /\ Initial[s] \in Nat /\ Len(grants[s]) \in Nat
  BY FifoAssumption DEF IInv, Account, SemTypeOK
<1>4. CASE value[s] > 0
  <2>1. /\ value' = [value EXCEPT ![s] = @ - 1] /\ UNCHANGED <<queue, waits>>
        /\ queue[s] = <<>>
    BY <1>1, <1>4 DEF down, IInv, QueuesExact
  <2>2. grants' = [grants EXCEPT ![s] = Append(@, t)]
    BY <1>1, <2>1 DEF Down, Granted, Awake
  <2>3. calls'[s] = grants'[s] \o queue'[s]
    <3>1. calls[s] = grants[s]
      BY <1>3, <2>1, ConcatEmptySeq
    <3>2. Append(grants[s], t) \in Seq(Thread)
      BY <1>3, AppendProperties
    <3> QED BY <1>1, <2>1, <2>2, <3>1, <3>2, ConcatEmptySeq DEF IInv, Account
  <2>4. Len(grants'[s]) + value'[s] = Initial[s] + ups'[s]
    <3>1. grants'[s] = Append(grants[s], t) /\ value'[s] = value[s] - 1 /\ ups'[s] = ups[s]
      BY <1>1, <2>1, <2>2 DEF IInv, Account, SemTypeOK
    <3>2. Len(Append(grants[s], t)) = Len(grants[s]) + 1
      BY <1>3, AppendProperties
    <3> QED BY <1>3, <3>1, <3>2
  <2>5. \A u \in Sem \ {s} : /\ calls'[u] = calls[u] /\ grants'[u] = grants[u]
                             /\ queue'[u] = queue[u] /\ value'[u] = value[u]
    BY <1>1, <2>1, <2>2 DEF IInv, Account, SemTypeOK
  <2>6. /\ calls' \in [Sem -> Seq(Thread)] /\ grants' \in [Sem -> Seq(Thread)]
        /\ ups' \in [Sem -> Nat]
    BY <1>1, <2>2, AppendProperties DEF IInv, Account
  <2> QED BY <1>1, <1>2, <2>3, <2>4, <2>5, <2>6 DEF IInv, Account
<1>5. CASE value[s] = 0
  <2>1. /\ queue' = [queue EXCEPT ![s] = Append(queue[s], t)]
        /\ waits' = [waits EXCEPT ![t] = s] /\ UNCHANGED value
    BY <1>1, <1>5 DEF down, Enqueued
  <2>2. UNCHANGED grants
    <3>1. waits'[t] # NoSem
      BY <2>1, SemAssumption DEF IInv, SemTypeOK
    <3> QED BY <3>1 DEF Down
  <2>3. calls'[s] = grants'[s] \o queue'[s]
    <3>1. calls'[s] = Append(calls[s], t) /\ queue'[s] = Append(queue[s], t)
      BY <1>1, <2>1 DEF IInv, Account, SemTypeOK
    <3>2. Append(grants[s] \o queue[s], t) = grants[s] \o Append(queue[s], t)
      <4>1. grants[s] \in Seq(Thread) /\ queue[s] \in Seq(Thread)
        BY <1>3
      <4>2. \A a, b \in Seq(Thread), x \in Thread : Append(a \o b, x) = a \o Append(b, x)
        BY ONLY ConcatAppend
      <4> QED BY <4>1, <4>2, Zenon
    <3> QED BY <1>3, <2>2, <3>1, <3>2
  <2>4. \A u \in Sem \ {s} : calls'[u] = calls[u] /\ queue'[u] = queue[u]
    BY <1>1, <2>1 DEF IInv, Account, SemTypeOK
  <2>5. calls' \in [Sem -> Seq(Thread)]
    BY <1>1, AppendProperties DEF IInv, Account
  <2> QED BY <1>1, <1>2, <2>1, <2>2, <2>3, <2>4, <2>5 DEF IInv, Account
<1> QED BY <1>3, <1>4, <1>5

\* try_down that succeeds is a down() that does not sleep.
LEMMA TryDownOK ==
  ASSUME IInv, NEW t \in Thread, NEW s \in Sem, TryDown(t, s)
  PROVE  IInv'
<1>1. down(t, s) /\ UNCHANGED waits
  BY DEF TryDown, try_down, down
<1>2. Down(t, s)
  BY <1>1 DEF TryDown, Down, Awake
<1> QED BY <1>2, DownOK

LEMMA UpOK ==
  ASSUME IInv, NEW t \in Thread, NEW s \in Sem, Up(t, s)
  PROVE  IInv'
<1>1. up(s) /\ ups' = [ups EXCEPT ![s] = @ + 1] /\ UNCHANGED calls
  BY DEF Up
<1>2. SemTypeOK' /\ QueuesExact'
  BY <1>1, UpQueues DEF IInv
<1>3. /\ calls[s] \in Seq(Thread) /\ grants[s] \in Seq(Thread) /\ queue[s] \in Seq(Thread)
      /\ calls[s] = grants[s] \o queue[s]
  BY DEF IInv, Account, SemTypeOK
<1>4. /\ Len(grants[s]) + value[s] = Initial[s] + ups[s]
      /\ value[s] \in Nat /\ Initial[s] \in Nat /\ Len(grants[s]) \in Nat /\ ups[s] \in Nat
  BY FifoAssumption DEF IInv, Account, SemTypeOK
<1>5. (Len(grants[s]) + 1) + value[s] = Initial[s] + (ups[s] + 1)
  <2> DEFINE g == Len(grants[s]) v == value[s] i == Initial[s] u == ups[s]
  <2>1. g \in Nat /\ v \in Nat /\ i \in Nat /\ u \in Nat /\ g + v = i + u
    BY <1>4
  <2> HIDE DEF g, v, i, u
  <2>2. (g + 1) + v = i + (u + 1)
    BY <2>1
  <2> QED BY <2>2 DEF g, v, i, u
<1>6. /\ ups'[s] = ups[s] + 1 /\ ups' \in [Sem -> Nat]
      /\ \A u \in Sem \ {s} : ups'[u] = ups[u]
  BY <1>1 DEF IInv, Account
<1>7. CASE queue[s] = <<>>
  <2>1. value' = [value EXCEPT ![s] = @ + 1] /\ UNCHANGED <<queue, waits>>
    BY <1>1, <1>7 DEF up
  <2>2. UNCHANGED grants
    BY <2>1, SemAssumption DEF Up
  <2>3. /\ value'[s] = value[s] + 1
        /\ \A u \in Sem \ {s} : value'[u] = value[u]
    BY <2>1 DEF IInv, SemTypeOK
  <2>4. Len(grants'[s]) + value'[s] = Initial[s] + ups'[s]
    <3>1. Len(grants'[s]) = Len(grants[s]) /\ ups'[s] = ups[s] + 1 /\ value'[s] = value[s] + 1
      BY <1>6, <2>2, <2>3
    <3>2. Len(grants[s]) + (value[s] + 1) = Initial[s] + (ups[s] + 1)
      <4> DEFINE g == Len(grants[s]) v == value[s] i == Initial[s] u == ups[s]
      <4>1. g \in Nat /\ v \in Nat /\ i \in Nat /\ u \in Nat /\ g + v = i + u
        BY <1>4
      <4> HIDE DEF g, v, i, u
      <4>2. g + (v + 1) = i + (u + 1)
        BY ONLY <4>1
      <4> QED BY <4>2 DEF g, v, i, u
    <3> QED BY <3>1, <3>2
  <2> QED BY <1>1, <1>2, <1>6, <2>1, <2>2, <2>3, <2>4 DEF IInv, Account
<1>8. CASE queue[s] # <<>>
  <2>1. /\ queue' = [queue EXCEPT ![s] = Tail(@)] /\ UNCHANGED value
        /\ waits' = [waits EXCEPT ![Head(queue[s])] = NoSem]
    BY <1>1, <1>8 DEF up
  <2>2. Head(queue[s]) \in Thread /\ Tail(queue[s]) \in Seq(Thread)
    BY <1>3, <1>8, HeadTailProperties
  <2>3. waits[Head(queue[s])] = s
    <3>1. Len(queue[s]) \in Nat \ {0} /\ Head(queue[s]) = queue[s][1]
      BY <1>3, <1>8, EmptySeq
    <3> QED BY <2>2, <3>1 DEF IInv, QueuesExact
  <2>4. grants' = [grants EXCEPT ![s] = Append(@, Head(queue[s]))]
    <3>1. waits' # waits
      BY <2>1, <2>2, <2>3, SemAssumption DEF IInv, SemTypeOK
    <3>2. PICK u \in Thread : waits[u] = s /\ waits'[u] = NoSem /\ Granted(u, s)
      BY <3>1 DEF Up
    <3>3. u = Head(queue[s])
      BY <2>1, <2>2, <3>2, SemAssumption DEF IInv, SemTypeOK
    <3> QED BY <3>2, <3>3 DEF Granted
  <2>5. grants'[s] = Append(grants[s], Head(queue[s])) /\ queue'[s] = Tail(queue[s])
    BY <2>1, <2>4 DEF IInv, Account, SemTypeOK
  <2>6. calls'[s] = grants'[s] \o queue'[s]
    BY <1>1, <1>3, <1>8, <2>5, MoveHead
  <2>7. Len(grants'[s]) + value'[s] = Initial[s] + ups'[s]
    <3>1. Len(Append(grants[s], Head(queue[s]))) = Len(grants[s]) + 1
      BY <1>3, <2>2, AppendProperties
    <3>2. value'[s] = value[s]
      BY <2>1
    <3>3. Len(grants'[s]) = Len(grants[s]) + 1 /\ ups'[s] = ups[s] + 1 /\ value'[s] = value[s]
      BY <1>6, <2>5, <3>1, <3>2
    <3> QED BY <1>5, <3>3
  <2>8. \A u \in Sem \ {s} : grants'[u] = grants[u] /\ queue'[u] = queue[u]
    BY <2>1, <2>4 DEF IInv, Account, SemTypeOK
  <2>9. grants' \in [Sem -> Seq(Thread)]
    BY <2>2, <2>4, AppendProperties DEF IInv, Account
  <2> QED BY <1>1, <1>2, <1>6, <2>1, <2>6, <2>7, <2>8, <2>9 DEF IInv, Account
<1> QED BY <1>7, <1>8

LEMMA NextOK == IInv /\ [Next]_fvars => IInv'
<1> SUFFICES ASSUME IInv, [Next]_fvars PROVE IInv'
  OBVIOUS
<1>1. CASE UNCHANGED fvars
  BY <1>1 DEF fvars, IInv, SemTypeOK, QueuesExact, Account
<1> QED BY <1>1, DownOK, TryDownOK, UpOK DEF Next

\* Every semaphore serves its callers first come, first served, loses no unit and
\* makes none up (__up, __down, try_down).
THEOREM FifoCorrect == Spec => []FirstComeFirstServed
<1>1. IInv => FirstComeFirstServed
  <2> SUFFICES ASSUME IInv, NEW s \in Sem,
                      NEW k, k = IF Len(calls[s]) < Initial[s] + ups[s]
                                 THEN Len(calls[s]) ELSE Initial[s] + ups[s]
               PROVE  grants[s] = SubSeq(calls[s], 1, k)
    BY DEF FirstComeFirstServed
  <2>1. k = IF Len(calls[s]) < Initial[s] + ups[s]
            THEN Len(calls[s]) ELSE Initial[s] + ups[s]
    OBVIOUS
  <2>2. /\ calls[s] \in Seq(Thread) /\ grants[s] \in Seq(Thread) /\ queue[s] \in Seq(Thread)
        /\ calls[s] = grants[s] \o queue[s]
    BY DEF IInv, Account, SemTypeOK
  <2>3. /\ queue[s] \in Seq(Thread)
        /\ Len(grants[s]) + value[s] = Initial[s] + ups[s]
        /\ value[s] \in Nat /\ Len(grants[s]) \in Nat /\ Len(queue[s]) \in Nat
        /\ Len(calls[s]) = Len(grants[s]) + Len(queue[s])
    BY <2>2, ConcatProperties DEF IInv, Account, SemTypeOK
  <2>4. SubSeq(calls[s], 1, Len(grants[s])) = grants[s]
    BY <2>2, ConcatFront
  <2>5. k = Len(grants[s])
    <3>1. CASE queue[s] = <<>>
      BY <2>3, <3>1
    <3>2. CASE queue[s] # <<>>
      <4>1. value[s] = 0
        BY <2>3, <3>2 DEF IInv, QueuesExact
      <4>2. Len(queue[s]) > 0
        BY <2>3, <3>2, EmptySeq
      <4>3. Initial[s] \in Nat /\ ups[s] \in Nat
        BY FifoAssumption DEF IInv, Account
      <4>4. /\ Initial[s] + ups[s] = Len(grants[s])
            /\ Len(calls[s]) = Len(grants[s]) + Len(queue[s])
            /\ Len(grants[s]) \in Nat /\ Len(queue[s]) \in Nat
        BY <2>3, <4>1
      <4>5. k = IF Len(grants[s]) + Len(queue[s]) < Len(grants[s])
                THEN Len(grants[s]) + Len(queue[s]) ELSE Len(grants[s])
        BY <2>1, <4>4
      <4> QED BY <4>4, <4>5, Lesser
    <3> QED BY <3>1, <3>2
  <2> QED BY <2>4, <2>5
<1> QED BY <1>1, InitOK, NextOK, PTL DEF Spec

\* A thread sleeps in down() exactly when it is in the queue of that semaphore, and
\* nobody waits while a unit is left.
THEOREM QueuesCorrect == Spec => []QueuesExact
<1>1. IInv => QueuesExact
  BY DEF IInv
<1> QED BY <1>1, InitOK, NextOK, PTL DEF Spec
=============================================================================
