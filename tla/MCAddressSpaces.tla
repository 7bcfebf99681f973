-------------------------- MODULE MCAddressSpaces --------------------------
(* A program with one page, and one with segments that overlap. *)
EXTENDS AddressSpaces

MCImages   == {<< <<3, 4>> >>, << <<3, 5>>, <<4, 5>> >>}
MCStack    == <<14, 16>>
MCSymmetry == Permutations(Proc \ {initproc})
=============================================================================
