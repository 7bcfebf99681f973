--------------------------- MODULE StrideWatched ---------------------------
(***************************************************************************)
(* The stride scheduler (module Stride) at work: either with processes     *)
(* that sleep, exit and are created, or closed, with all processes always  *)
(* runnable.  When it is closed it implements StrideShare, whose variables *)
(* are histories here.                                                     *)
(***************************************************************************)
EXTENDS Stride

CONSTANT MaxPass

VARIABLES
  closed,    \* nobody sleeps, exits or is created
  watched,   \* the histories are kept: up to MaxPass
  shown,     \* history: the strides
  pass       \* history: the strides as if they did not wrap around

Shares == INSTANCE StrideShare WITH stride <- shown

svars == <<vars, closed, watched, shown, pass>>

\* Only a pick moves a stride.
Passed(p) == Shares!Minus(stride'[p], stride[p])

SchedInit ==
  /\ closed \in BOOLEAN
  /\ IF closed THEN InitWith(Proc) ELSE Init
  /\ watched = closed /\ Shares!Init

SchedNext ==
  /\ Next
  /\ closed => asleep' = {} /\ Alive' = Proc
  /\ watched' = (watched /\ \A p \in Proc : Passed(p) # 0 => pass[p] < MaxPass)
  /\ shown' = IF watched' THEN stride' ELSE [p \in Proc |-> 0]
  /\ pass' = [p \in Proc |-> IF watched' THEN pass[p] + Passed(p) ELSE 0]
  /\ UNCHANGED closed

\* The clock goes on ticking.
SchedSpec == SchedInit /\ [][SchedNext]_svars /\ WF_svars(SchedNext /\ Tick)

-----------------------------------------------------------------------------
Share == Shares!Share

\* The scheduler, its skew heap and its clock give each process its share
\* (default_sched_stride.c:125-157): every pick is one that no other is behind, and
\* nothing but a pick moves a stride.
ImplementsShare == Shares!Init /\ [][watched' => Shares!Next]_(Shares!ssvars)
=============================================================================
