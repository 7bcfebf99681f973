-------------------------- MODULE MCSemaphoreFifo --------------------------
(* An instance of SemaphoreFifo for TLC: a mutex and an empty semaphore. *)
EXTENDS SemaphoreFifo, TLC

CONSTANTS mutex, empty

MCInitial == [s \in Sem |-> IF s = mutex THEN 1 ELSE 0]

ThreadSymmetry == Permutations(Thread)
=============================================================================
