---------------------------- MODULE MCCheckSync -----------------------------
(* Instances of CheckSync for TLC. *)
EXTENDS CheckSync

\* One philosopher comes back; the others come once.
MCTimes  == [i \in 0..N - 1 |-> IF i = 0 THEN 2 ELSE 1]
MCThread == 0..N - 1
MCMutex  == N
MCNext   == N + 1
MCSem    == 0..N + 1
=============================================================================
