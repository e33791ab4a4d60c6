---------------------------- MODULE MCScratchPad ----------------------------
(* ScratchPad with a few short tokens, and with a pad of an older version.   *)
EXTENDS ScratchPad, TLC

CONSTANTS a, b, c, x, y, none

MCName == {a, b, c}
MCVal  == {x, y}
MCSym  == Permutations(MCName) \cup Permutations(MCVal)

\* Two tokens behind an old magic number.
MCOldPad ==
    Put(Put(Put(AllZero, 0, [i \in 1..HeadLen |-> <<"old">>]), HeadLen, TokenCells(a, 2, x)),
        HeadLen + TokLen + Align, TokenCells(b, 2, y))
MCNoOld  == {}
MCOld    == {MCOldPad}
=============================================================================
