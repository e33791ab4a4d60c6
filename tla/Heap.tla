-------------------------------- MODULE Heap --------------------------------
(***************************************************************************)
(* What the buffer pool promises to the processes that share it: every     *)
(* buffer is an interval of the pool, no two buffers in use overlap, and   *)
(* only the process that was given a buffer gives it back.                 *)
(***************************************************************************)
EXTENDS Integers

CONSTANTS
    Proc,   \* the processes that share the pool
    Addr    \* the addresses at which a buffer may start or end

Buffer == [start : Addr, end : Addr]

Disjoint(b, c) == b.end <= c.start \/ c.end <= b.start

VARIABLE use   \* use[p]: the buffers process p was given

InUse == UNION {use[p] : p \in Proc}

HeapInit == use = [p \in Proc |-> {}]

\* A request that succeeds hands out an interval nobody uses.
Get(p) ==
    \E b \in Buffer :
        /\ b.start < b.end
        /\ \A c \in InUse : Disjoint(b, c)
        /\ use' = [use EXCEPT ![p] = @ \cup {b}]

Release(p) ==
    \E b \in use[p] : use' = [use EXCEPT ![p] = @ \ {b}]

\* A process that dies keeps its buffers: nobody releases them.
HeapNext == \E p \in Proc : Get(p) \/ Release(p)

HeapSpec == HeapInit /\ [][HeapNext]_use
=============================================================================
