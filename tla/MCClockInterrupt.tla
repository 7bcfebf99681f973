-------------------------- MODULE MCClockInterrupt --------------------------
(* Instances of ClockInterrupt for TLC: processes are interchangeable. *)
EXTENDS ClockInterrupt, TLC

ProcessSymmetry == Permutations(Process)
=============================================================================
