----------------------------- MODULE MCProcess -----------------------------
(* Instances of Process for TLC: user slots are interchangeable. *)
EXTENDS Process, TLC

UserSymmetry == Permutations(User)
=============================================================================
