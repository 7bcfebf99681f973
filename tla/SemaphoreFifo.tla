--------------------------- MODULE SemaphoreFifo ---------------------------
(***************************************************************************)
(* Semaphores with any client: every thread that is awake may call down(), *)
(* up() and try_down() on any semaphore.  The histories record what a      *)
(* semaphore promises: the order of the calls of down(), the order in      *)
(* which they succeed, and the number of calls of up().                    *)
(***************************************************************************)
EXTENDS Semaphores, FiniteSets

CONSTANTS Initial,   \* the value each semaphore is initialised with
          MaxUps,    \* up() calls on a semaphore (a model bound)
          MaxCalls   \* down() calls on a semaphore (a model bound)

ASSUME FifoAssumption == Initial \in [Sem -> Nat]

VARIABLES calls, grants, ups

fvars == <<value, queue, waits, calls, grants, ups>>

Called(t, s)  == calls' = [calls EXCEPT ![s] = Append(@, t)]
Granted(t, s) == grants' = [grants EXCEPT ![s] = Append(@, t)]

Down(t, s) ==
  /\ Awake(t) /\ Len(calls[s]) < MaxCalls
  /\ down(t, s)
  /\ Called(t, s)
  /\ IF waits'[t] = NoSem THEN Granted(t, s) ELSE UNCHANGED grants
  /\ UNCHANGED ups

TryDown(t, s) ==
  /\ Awake(t) /\ Len(calls[s]) < MaxCalls
  /\ try_down(s)
  /\ Called(t, s) /\ Granted(t, s)
  /\ UNCHANGED ups

\* Up is called by a thread; the threads it lets go on are granted their call.
Up(t, s) ==
  /\ Awake(t) /\ ups[s] < MaxUps
  /\ up(s)
  /\ \/ waits' = waits /\ UNCHANGED grants
     \/ \E u \in Thread : waits[u] = s /\ waits'[u] = NoSem /\ Granted(u, s)
  /\ ups' = [ups EXCEPT ![s] = @ + 1]
  /\ UNCHANGED calls

Init ==
  /\ sem_init(Initial)
  /\ calls = [s \in Sem |-> <<>>] /\ grants = [s \in Sem |-> <<>>]
  /\ ups = [s \in Sem |-> 0]

Next == \E t \in Thread, s \in Sem : Down(t, s) \/ TryDown(t, s) \/ Up(t, s)

Spec == Init /\ [][Next]_fvars

-----------------------------------------------------------------------------
\* What a semaphore promises: the calls of down() succeed in the order they are
\* made, and the k-th has succeeded exactly when k units, the initial ones and
\* those of up(), have been there.  No unit is lost, none is made up, and nobody
\* overtakes a waiter (the hand-over in up()).
FirstComeFirstServed ==
  \A s \in Sem :
    LET units == Initial[s] + ups[s]
        k     == IF Len(calls[s]) < units THEN Len(calls[s]) ELSE units
    IN  grants[s] = SubSeq(calls[s], 1, k)
=============================================================================
