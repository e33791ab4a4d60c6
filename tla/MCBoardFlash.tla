---------------------------- MODULE MCBoardFlash ----------------------------
(* BoardFlash on small instances; the processes are interchangeable.         *)
EXTENDS BoardFlash, TLC

CONSTANTS p1, p2, zero, one, erased

MCTwo   == {p1, p2}
MCVal   == {zero, one}
MCSym   == Permutations(Proc)
=============================================================================
