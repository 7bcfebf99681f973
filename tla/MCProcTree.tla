----------------------------- MODULE MCProcTree -----------------------------
(* Instances of ProcTree for TLC: user slots are interchangeable. *)
EXTENDS ProcTree, TLC

UserSymmetry == Permutations(User)
=============================================================================
