----------------------------- MODULE MCBgetPool -----------------------------
(* BgetPool with a pool of at most three blocks and two processes, one of them *)
(* asking for the smallest buffers and one for a buffer that leaves too little *)
(* of a larger block to be split off.                                         *)
EXTENDS BgetPool

CONSTANTS small, large

MCRequest == [p \in Proc |-> IF p = small THEN {1} ELSE {10}]
=============================================================================
