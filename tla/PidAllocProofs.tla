--------------------------- MODULE PidAllocProofs ---------------------------
(***************************************************************************)
(* get_pid hands out unique pids, in turn: proofs about module PidAlloc    *)
(* for every number of processes and pids.                                 *)
(***************************************************************************)
EXTENDS PidAlloc, TLAPS

\* The invariant of the loop of get_pid.  The processes visited since the walk
\* last started over neither have pid last_pid nor a pid between last_pid and
\* next_safe, and every pid passed over since the call is in use.
Visited == Live \ todo

LoopInv ==
  new # None =>
    /\ new \notin Live
    /\ last_pid < next_safe
    /\ \A t \in Visited : /\ pid[t] # last_pid
                          /\ ~(last_pid < pid[t] /\ pid[t] < next_safe)
    /\ Passed(from, last_pid) \subseteq InUse

IInv ==
  /\ TypeOK
  /\ PidsUnique
  /\ GapFree
  /\ LoopInv
  /\ new = None => todo = {}
  /\ todo \subseteq Live

LEMMA InitOK == Init => IInv
BY PidAssumption DEF Init, IInv, TypeOK, PidsUnique, GapFree, LoopInv, Live, InUse

\* The next pid in turn passes nothing over.
LEMMA PassNext ==
  ASSUME NEW p \in 1..MaxPid
  PROVE  Passed(p, IF p + 1 >= MaxPid THEN 1 ELSE p + 1) = {}
BY PidAssumption DEF Passed

\* Moving on from b passes over b only.
LEMMA PassOne ==
  ASSUME NEW a \in 1..MaxPid, NEW b \in 1..MaxPid - 1
  PROVE  Passed(a, NextTry(b + 1)) \subseteq Passed(a, b) \cup {b}
BY PidAssumption DEF Passed, NextTry

\* A walk that starts has visited nobody.
LEMMA WalkStarts ==
  ASSUME IInv, NEW s \in Slot \ Live, UNCHANGED pid,
         next_safe' = MaxPid, new' = s, todo' = Live,
         last_pid' \in 1..MaxPid - 1, from' \in 1..MaxPid,
         Passed(from', last_pid') \subseteq InUse
  PROVE  IInv'
<1>1. Live' = Live /\ InUse' = InUse /\ Visited' = {}
  BY DEF Live, InUse, Visited
<1>2. new' # None /\ new' \notin Live' /\ last_pid' < next_safe'
  BY <1>1, PidAssumption
<1>3. TypeOK'
  BY <1>1, PidAssumption DEF IInv, TypeOK, Live
<1>4. LoopInv'
  BY <1>1, <1>2 DEF LoopInv, Passed
<1> QED BY <1>1, <1>2, <1>3, <1>4 DEF IInv, PidsUnique, GapFree

LEMMA ForkOK == ASSUME IInv, NEW s \in Slot, Fork(s) PROVE IInv'
<1> USE PidAssumption
<1>1. CASE last_pid + 1 >= MaxPid
  <2>1. last_pid' = 1 /\ from' = last_pid
    BY <1>1 DEF Fork, IInv, TypeOK
  <2>2. Passed(from', last_pid') = {}
    BY <1>1, <2>1, PassNext DEF IInv, TypeOK
  <2>3. Walk(s) /\ UNCHANGED pid /\ s \in Slot \ Live
    BY <1>1 DEF Fork, IInv, TypeOK
  <2> QED BY <2>1, <2>2, <2>3, WalkStarts DEF Walk, IInv, TypeOK
<1>2. CASE last_pid + 1 < MaxPid /\ Exhausted(last_pid + 1)
  <2>1. last_pid' = last_pid + 1 /\ from' = last_pid
    BY <1>2 DEF Fork, IInv, TypeOK
  <2>2. Passed(from', last_pid') = {}
    BY <1>2, <2>1, PassNext DEF IInv, TypeOK
  <2>3. Walk(s) /\ UNCHANGED pid /\ s \in Slot \ Live
    BY <1>2 DEF Fork, IInv, TypeOK
  <2> QED BY <1>2, <2>1, <2>2, <2>3, WalkStarts DEF Walk, IInv, TypeOK
<1>3. CASE last_pid + 1 < MaxPid /\ ~Exhausted(last_pid + 1)
  <2>1. /\ last_pid' = last_pid + 1 /\ from' = last_pid
        /\ pid' = [pid EXCEPT ![s] = last_pid + 1]
        /\ UNCHANGED <<next_safe, new, todo>>
        /\ new = None /\ s \notin Live
    BY <1>3 DEF Fork, IInv, TypeOK
  <2>2. last_pid + 1 < next_safe
    BY <1>3, PidAssumption DEF Exhausted, IInv, TypeOK
  <2>3. \A t \in Live : pid[t] # last_pid + 1
    BY <2>1, <2>2 DEF IInv, GapFree, InUse, Live, TypeOK
  <2>4. Live' = Live \cup {s}
    BY <2>1, PidAssumption DEF Live, IInv, TypeOK
  <2>5. \A t \in Live : pid'[t] = pid[t] /\ t # s
    BY <2>1 DEF Live, IInv, TypeOK
  <2>6. pid'[s] = last_pid + 1
    BY <2>1 DEF IInv, TypeOK
  <2>7. TypeOK'
    BY <1>3, <2>1, PidAssumption DEF IInv, TypeOK
  <2>8. PidsUnique'
    BY <2>3, <2>4, <2>5, <2>6 DEF PidsUnique, IInv
  <2>9. GapFree'
    <3> SUFFICES ASSUME NEW t \in Live'
                 PROVE  ~(last_pid' < pid'[t] /\ pid'[t] < next_safe')
      BY DEF GapFree, InUse
    <3>1. CASE t = s
      BY <2>1, <2>6, <3>1 DEF IInv, TypeOK
    <3>2. CASE t \in Live
      <4>1. pid[t] \in InUse /\ pid[t] \in Nat
        BY <3>2, PidAssumption DEF InUse, Live, IInv, TypeOK
      <4>2. ~(last_pid < pid[t] /\ pid[t] < next_safe)
        BY <2>1, <4>1 DEF IInv, GapFree
      <4> QED BY <2>1, <2>5, <3>2, <4>1, <4>2 DEF IInv, TypeOK
    <3> QED BY <2>4, <3>1, <3>2
  <2> QED BY <2>1, <2>4, <2>7, <2>8, <2>9 DEF IInv, LoopInv
<1> QED BY <1>1, <1>2, <1>3, PidAssumption DEF IInv, TypeOK

LEMMA VisitOK == ASSUME IInv, NEW t \in Slot, Visit(t) PROVE IInv'
<1> USE PidAssumption
<1>1. /\ t \in todo /\ t \in Live /\ new # None
      /\ UNCHANGED <<pid, new, from>>
      /\ Live' = Live /\ InUse' = InUse
      /\ pid[t] \in InUse
  BY DEF Visit, IInv, Live, InUse
<1>2. /\ last_pid \in 1..MaxPid - 1 /\ last_pid < next_safe /\ next_safe \in 1..MaxPid
      /\ pid[t] \in 1..MaxPid - 1
      /\ \A u \in Live : pid[u] \in 1..MaxPid - 1
  BY <1>1, PidAssumption DEF IInv, TypeOK, LoopInv, Live
<1>3. PidsUnique' /\ GapFree'
  BY <1>1 DEF IInv, PidsUnique, GapFree
<1>4. CASE pid[t] = last_pid
  <2>1. /\ last_pid' = NextTry(last_pid + 1)
        /\ last_pid' \in 1..MaxPid - 1
        /\ next_safe' \in 1..MaxPid /\ last_pid' < next_safe'
        /\ todo' \subseteq Live
    BY <1>1, <1>2, <1>4, PidAssumption DEF Visit, Exhausted, NextTry, Restarted, IInv
  <2>2. Passed(from', last_pid') \subseteq InUse
    <3>1. Passed(from, NextTry(last_pid + 1)) \subseteq Passed(from, last_pid) \cup {last_pid}
      BY <1>2, PassOne DEF IInv, TypeOK
    <3>2. Passed(from, last_pid) \subseteq InUse /\ last_pid \in InUse
      BY <1>1, <1>4 DEF IInv, LoopInv
    <3> QED BY <1>1, <2>1, <3>1, <3>2
  <2>3. \A u \in Live \ todo' : /\ pid[u] # last_pid'
                                /\ ~(last_pid' < pid[u] /\ pid[u] < next_safe')
    <3>1. CASE Exhausted(last_pid + 1)
      BY <1>2, <1>4, <3>1 DEF Visit, Restarted
    <3>2. CASE ~Exhausted(last_pid + 1)
      <4>1. /\ last_pid' = last_pid + 1 /\ next_safe' = next_safe
            /\ todo' = todo \ {t} /\ last_pid + 1 < next_safe
        BY <1>2, <1>4, <3>2 DEF Visit, Exhausted
      <4> SUFFICES ASSUME NEW u \in Live \ todo'
                   PROVE  /\ pid[u] # last_pid + 1
                          /\ ~(last_pid + 1 < pid[u] /\ pid[u] < next_safe)
        BY <4>1
      <4>2. CASE u = t
        BY <1>2, <1>4, <4>1, <4>2
      <4>3. CASE u \in Visited
        <5>1. pid[u] # last_pid /\ ~(last_pid < pid[u] /\ pid[u] < next_safe)
          BY <1>1, <4>3 DEF IInv, LoopInv
        <5> QED BY <1>2, <4>1, <5>1
      <4> QED BY <4>1, <4>2, <4>3 DEF Visited
    <3> QED BY <3>1, <3>2
  <2> QED BY <1>1, <1>2, <1>3, <2>1, <2>2, <2>3, PidAssumption
          DEF IInv, TypeOK, LoopInv, Visited, Passed, Live
<1>5. CASE pid[t] # last_pid
  <2>1. /\ last_pid' = last_pid /\ todo' = todo \ {t}
        /\ next_safe' = IF Ahead(pid[t]) THEN pid[t] ELSE next_safe
    BY <1>5 DEF Visit
  <2>2. next_safe' \in 1..MaxPid /\ last_pid' < next_safe' /\ next_safe' <= next_safe
    BY <1>2, <2>1 DEF Ahead
  <2>3. \A u \in Live \ todo' : /\ pid[u] # last_pid
                                /\ ~(last_pid < pid[u] /\ pid[u] < next_safe')
    <3> SUFFICES ASSUME NEW u \in Live \ todo'
                 PROVE  pid[u] # last_pid /\ ~(last_pid < pid[u] /\ pid[u] < next_safe')
      OBVIOUS
    <3>1. CASE u = t
      BY <1>2, <1>5, <2>1, <3>1 DEF Ahead
    <3>2. CASE u \in Visited
      <4>1. pid[u] # last_pid /\ ~(last_pid < pid[u] /\ pid[u] < next_safe)
        BY <1>1, <3>2 DEF IInv, LoopInv
      <4> QED BY <1>2, <2>2, <4>1
    <3> QED BY <2>1, <3>1, <3>2 DEF Visited
  <2>4. Passed(from', last_pid') \subseteq InUse
    BY <1>1, <2>1 DEF IInv, LoopInv
  <2> QED BY <1>1, <1>2, <1>3, <2>1, <2>2, <2>3, <2>4, PidAssumption
          DEF IInv, TypeOK, LoopInv, Visited, Passed, Live
<1> QED BY <1>4, <1>5

LEMMA ReturnOK == ASSUME IInv, Return PROVE IInv'
<1>1. /\ new \in Slot \ Live /\ todo = {} /\ new' = None
      /\ pid' = [pid EXCEPT ![new] = last_pid]
      /\ UNCHANGED <<last_pid, next_safe, todo, from>>
  BY DEF Return, IInv, LoopInv, TypeOK
<1>2. /\ last_pid \in 1..MaxPid - 1
      /\ \A t \in Live : /\ pid[t] # last_pid
                         /\ ~(last_pid < pid[t] /\ pid[t] < next_safe)
  BY <1>1, PidAssumption DEF Return, IInv, LoopInv, Visited, TypeOK
<1>3. Live' = Live \cup {new}
  BY <1>1, <1>2 DEF Live, IInv, TypeOK
<1>4. pid'[new] = last_pid /\ \A t \in Live : pid'[t] = pid[t] /\ t # new
  BY <1>1 DEF Live, IInv, TypeOK
<1>5. TypeOK'
  BY <1>1, <1>2, PidAssumption DEF IInv, TypeOK
<1>6. PidsUnique'
  BY <1>2, <1>3, <1>4 DEF PidsUnique, IInv
<1>7. GapFree'
  <2> SUFFICES ASSUME NEW t \in Live'
               PROVE  ~(last_pid < pid'[t] /\ pid'[t] < next_safe)
    BY <1>1 DEF GapFree, InUse
  <2>1. CASE t = new
    BY <1>2, <1>4, <2>1
  <2>2. CASE t \in Live
    BY <1>2, <1>4, <2>2
  <2> QED BY <1>3, <2>1, <2>2
<1> QED BY <1>1, <1>5, <1>6, <1>7 DEF IInv, LoopInv

LEMMA ReapOK == ASSUME IInv, NEW s \in Slot, Reap(s) PROVE IInv'
<1>1. /\ new = None /\ todo = {}
      /\ pid' = [pid EXCEPT ![s] = 0]
      /\ UNCHANGED <<last_pid, next_safe, new, todo, from>>
  BY DEF Reap, IInv
<1>2. Live' = Live \ {s}
  BY <1>1 DEF Live, IInv, TypeOK
<1>3. \A t \in Live' : pid'[t] = pid[t]
  BY <1>1, <1>2 DEF Live, IInv, TypeOK
<1>4. TypeOK'
  BY <1>1, PidAssumption DEF IInv, TypeOK
<1>5. PidsUnique'
  BY <1>2, <1>3 DEF PidsUnique, IInv
<1>6. GapFree'
  BY <1>1, <1>2, <1>3 DEF GapFree, InUse, IInv
<1> QED BY <1>1, <1>4, <1>5, <1>6 DEF IInv, LoopInv

LEMMA NextOK == IInv /\ [Next]_pvars => IInv'
<1> SUFFICES ASSUME IInv, [Next]_pvars PROVE IInv'
  OBVIOUS
<1>1. CASE UNCHANGED pvars
  BY <1>1 DEF pvars, IInv, TypeOK, PidsUnique, GapFree, LoopInv, Visited, Passed, Live, InUse
<1> QED BY <1>1, ForkOK, VisitOK, ReturnOK, ReapOK DEF Next

THEOREM Inductive == Spec => []IInv
BY InitOK, NextOK, PTL DEF Spec

\* No two processes have the same pid (get_pid), and between calls the interval
\* it keeps holds no pid in use.
THEOREM UniqueCorrect == Spec => [](PidsUnique /\ GapFree)
<1>1. IInv => PidsUnique /\ GapFree
  BY DEF IInv
<1> QED BY <1>1, Inductive, PTL

\* get_pid gives pids out in turn: every pid between the last one it gave out and
\* the one it returns is in use.
THEOREM InTurnCorrect == Spec => InTurn
<1> DEFINE Turn == \A s \in Slot : s \notin Live /\ pid'[s] # 0
                      => Passed(from', pid'[s]) \subseteq InUse
<1>1. IInv /\ [Next]_pvars => [Turn]_pvars
  <2> SUFFICES ASSUME IInv, Next, NEW s \in Slot, s \notin Live, pid'[s] # 0
               PROVE  Passed(from', pid'[s]) \subseteq InUse
    OBVIOUS
  <2>1. pid[s] = 0
    BY DEF Live
  <2>2. CASE \E t \in Slot : Fork(t)
    <3>1. /\ pid'[s] = last_pid + 1 /\ from' = last_pid
          /\ last_pid + 1 < MaxPid
      BY <2>1, <2>2 DEF Fork, IInv, TypeOK
    <3> QED BY <3>1, PassNext, PidAssumption DEF IInv, TypeOK
  <2>3. CASE \E t \in Slot : Visit(t) \/ Reap(t)
    BY <2>1, <2>3 DEF Visit, Reap, IInv, TypeOK
  <2>4. CASE Return
    BY <2>1, <2>4 DEF Return, IInv, LoopInv, TypeOK
  <2> QED BY <2>2, <2>3, <2>4 DEF Next
<1> QED BY <1>1, Inductive, PTL DEF Spec, InTurn
=============================================================================
