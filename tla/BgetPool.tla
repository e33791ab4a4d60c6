------------------------------ MODULE BgetPool ------------------------------
(***************************************************************************)
(* The buffer pool in which the PSI tree lives                             *)
(* (userapps/broadcom/cfm/util/psi/bget.c): a region of System V shared    *)
(* memory cut into allocated and free blocks by headers kept in the region *)
(* itself, used by several processes under a System V semaphore.           *)
(*                                                                         *)
(* Addresses and sizes are bytes from the start of the region bpool() was  *)
(* given, after the 1024 bytes of bookkeeping.  A call is cut where it     *)
(* stops between two phases of an update: taking the semaphore, the scan   *)
(* of the free list, the carving of the block found, the two merges of     *)
(* brel(), releasing the semaphore.  The semaphore operations are the      *)
(* kernel's (semop with SEM_UNDO, exit_sem).                               *)
(***************************************************************************)
EXTENDS Integers, FiniteSets

CONSTANTS
    Proc,      \* processes that share the pool
    PoolLen,   \* bytes of the pool without the end sentinel
    Request,   \* Request[p]: the sizes process p asks for
    MaxInterrupt  \* bound: semops interrupted by a signal during a behaviour

SizeQuant == 4
Hdr       == 8     \* sizeof(struct bhead)
SizeQ     == 8     \* room for struct qlinks
ESent     == -((2^30 - 1) * 2) - 2

ASSUME PoolAssumption    == PoolLen \in Nat /\ PoolLen % SizeQuant = 0 /\ PoolLen >= SizeQ + Hdr
ASSUME RequestAssumption == Request \in [Proc -> SUBSET (Nat \ {0})]
ASSUME BoundAssumption   == MaxInterrupt \in Nat

Addr   == {a \in 0..PoolLen : a % SizeQuant = 0}
NoAddr == -1       \* a null pointer, or the list head where a scan ends

VARIABLES
    bsize,     \* bsize[a]: the header at a (negative: allocated), 0: no header
    prevfree,  \* prevfree[a]: size of the free block before a, or 0
    freelist,  \* the blocks on the free list; their order decides nothing but the
               \* choice between blocks of one size, which the model leaves open
    totalloc,  \* bytes in allocated blocks
    semval,    \* value of the semaphore, 0 when the pool is not locked
    semadj,    \* semadj[p]: what exit_sem adds to semval when p ends
    pc,        \* where each process is
    fn,        \* the function each process called
    size,      \* the request, rounded and with its header
    blk,       \* the block a call works on
    old,       \* the buffer bgetr() was given
    owns,      \* owns[p]: the blocks process p was given and not yet released
    interrupts,  \* history: semops interrupted by a signal
    torn       \* history: a process was killed inside the pool

poolVars == <<bsize, prevfree, freelist, totalloc>>
semVars  == <<semval, semadj>>
callVars == <<fn, size, old>>
faults   == <<interrupts, torn>>
vars     == <<poolVars, semVars, pc, callVars, blk, owns, faults>>

\* What bget() makes of the requested size: at least the queue links, a multiple
\* of the quantum, and the header.
Rounded(s) ==
    LET n == IF s < SizeQ THEN SizeQ ELSE s
    IN  ((n + SizeQuant - 1) \div SizeQuant) * SizeQuant + Hdr

\* bpool(): one free block and the sentinel.
Init ==
    /\ bsize    = [a \in Addr |-> IF a = 0 THEN PoolLen ELSE IF a = PoolLen THEN ESent ELSE 0]
    /\ prevfree = [a \in Addr |-> IF a = PoolLen THEN PoolLen ELSE 0]
    /\ freelist = {0}
    /\ totalloc = 0
    /\ semval   = 0
    /\ semadj   = [p \in Proc |-> 0]
    /\ pc       = [p \in Proc |-> "idle"]
    /\ fn       = [p \in Proc |-> "bget"]
    /\ size     = [p \in Proc |-> 0]
    /\ blk      = [p \in Proc |-> NoAddr]
    /\ old      = [p \in Proc |-> NoAddr]
    /\ owns     = [p \in Proc |-> {}]
    /\ interrupts = 0
    /\ torn     = FALSE

----------------------------------------------------------------------------
\* The calls.

Call(p, f, s, b, o) ==
    /\ pc[p] = "idle"
    /\ pc'   = [pc EXCEPT ![p] = "down"]
    /\ fn'   = [fn EXCEPT ![p] = f]
    /\ size' = [size EXCEPT ![p] = s]
    /\ blk'  = [blk EXCEPT ![p] = b]
    /\ old'  = [old EXCEPT ![p] = o]
    /\ UNCHANGED <<poolVars, semVars, owns, faults>>

Bget(p) == \E s \in Request[p] : Call(p, "bget", Rounded(s), NoAddr, NoAddr)

\* bgetr(buf, size): a bget(), then a brel() of the old buffer.
Bgetr(p) ==
    \E s \in Request[p], b \in owns[p] : Call(p, "bgetr", Rounded(s), NoAddr, b)

Brel(p) == \E b \in owns[p] : Call(p, "brel", 0, b, NoAddr)

----------------------------------------------------------------------------
\* BGET_SEMDOWN and BGET_SEMUP.

Enter(p) ==
    /\ pc' = [pc EXCEPT ![p] = IF fn[p] = "brel" THEN "merge_prev" ELSE "scan"]
    /\ UNCHANGED <<poolVars, callVars, blk, owns>>

\* {wait for 0, +1 SEM_UNDO} in one semop.
SemDownIf(p, free) ==
    /\ pc[p] = "down"
    /\ free
    /\ semval' = semval + 1
    /\ semadj' = [semadj EXCEPT ![p] = @ - 1]
    /\ Enter(p)
    /\ UNCHANGED faults

\* Mutant of SemDown: the wait for zero is dropped.
SemDownNoWait(p) == SemDownIf(p, TRUE)

SemDown(p) == SemDownIf(p, semval = 0)

\* EINTR: perror() and on, without the lock.
SemDownInterrupted(p) ==
    /\ pc[p] = "down"
    /\ semval # 0
    /\ interrupts < MaxInterrupt
    /\ interrupts' = interrupts + 1
    /\ Enter(p)
    /\ UNCHANGED <<semVars, torn>>

\* The call returns, except that bgetr() with a new buffer goes on to brel().
Return(p) ==
    IF fn[p] = "bgetr" /\ blk[p] # NoAddr
    THEN /\ pc'   = [pc EXCEPT ![p] = "down"]
         /\ fn'   = [fn EXCEPT ![p] = "brel"]
         /\ blk'  = [blk EXCEPT ![p] = old[p]]
         /\ UNCHANGED <<size, old>>
    ELSE /\ pc'   = [pc EXCEPT ![p] = "idle"]
         /\ blk'  = [blk EXCEPT ![p] = NoAddr]
         /\ size' = [size EXCEPT ![p] = 0]
         /\ old'  = [old EXCEPT ![p] = NoAddr]
         /\ UNCHANGED fn

\* {-1, IPC_NOWAIT | SEM_UNDO}: fails on a semaphore that is 0 already.
SemUp(p) ==
    /\ pc[p] = "up"
    /\ IF semval > 0
       THEN /\ semval' = semval - 1
            /\ semadj' = [semadj EXCEPT ![p] = @ + 1]
       ELSE UNCHANGED semVars
    /\ Return(p)
    /\ UNCHANGED <<poolVars, owns, faults>>

\* exit_sem(): the adjustments of the process that ends, never below zero.
EndsAdjusted(p, how, adj) ==
    /\ pc'     = [pc EXCEPT ![p] = how]
    /\ semval' = IF semval + adj < 0 THEN 0 ELSE semval + adj
    /\ semadj' = [semadj EXCEPT ![p] = 0]
    /\ UNCHANGED <<poolVars, callVars, blk, owns>>

\* Mutant of Ends: the semaphore is taken without SEM_UNDO.
EndsNoUndo(p, how) == EndsAdjusted(p, how, 0)

Ends(p, how) == EndsAdjusted(p, how, semadj[p])

Inside(p) == pc[p] \in {"scan", "carve", "merge_prev", "merge_next", "up"}
Ended(p)  == pc[p] \in {"aborted", "killed"}

Kill(p) ==
    /\ ~Ended(p)
    /\ Ends(p, "killed")
    /\ torn' = (torn \/ Inside(p))
    /\ UNCHANGED interrupts

----------------------------------------------------------------------------
\* bget(): best fit.

Fits(s) == {b \in freelist : bsize[b] >= s}

\* The smallest free blocks that are large enough.
Best(s) == {b \in Fits(s) : \A c \in Fits(s) : bsize[b] <= bsize[c]}

Found(p, b) ==
    /\ pc'  = [pc EXCEPT ![p] = IF b = NoAddr THEN "up" ELSE "carve"]
    /\ blk' = [blk EXCEPT ![p] = b]
    /\ UNCHANGED <<poolVars, semVars, callVars, owns, faults>>

Scan(p) ==
    /\ pc[p] = "scan"
    /\ \/ Fits(size[p]) = {} /\ Found(p, NoAddr)
       \/ \E b \in Best(size[p]) : Found(p, b)

Rest(p) == bsize[blk[p]] - size[p]

\* Mutant of Splits: the rest may be smaller than a header and the queue links.
SplitsAlways(p) == Rest(p) > 0

\* The block is split only when the rest holds a header and the queue links.
Splits(p) == Rest(p) > SizeQ + Hdr

\* assert(bn->prevfree == b->bh.bsize), and the list assertions of the branch that
\* gives the whole block away.
CarveAsserts(p) ==
    LET b == blk[p]  bn == b + bsize[b]
    IN  /\ bn \in Addr
        /\ prevfree[bn] = bsize[b]
        /\ Splits(p) \/ b \in freelist

Carved(p, b, n) ==
    /\ totalloc' = totalloc + n
    /\ blk'      = [blk EXCEPT ![p] = b]
    /\ owns'     = [owns EXCEPT ![p] = @ \cup {b}]
    /\ pc'       = [pc EXCEPT ![p] = "up"]
    /\ UNCHANGED <<semVars, callVars, faults>>

\* The caller gets the end of the block.
CarveSplitLinked(p, back) ==
    LET b == blk[p]  ba == b + Rest(p)  bn == b + bsize[b]
    IN  /\ pc[p] = "carve" /\ Rest(p) >= 0 /\ CarveAsserts(p)
        /\ Splits(p)
        /\ bsize'    = [bsize EXCEPT ![b] = Rest(p), ![ba] = -size[p]]
        /\ prevfree' = [prevfree EXCEPT ![ba] = back, ![bn] = 0]
        /\ Carved(p, ba, size[p])
        /\ UNCHANGED freelist

\* Mutant of CarveSplit: the caller's block is not linked to the free one before it.
CarveSplitNoLink(p) == CarveSplitLinked(p, 0)

CarveSplit(p) == CarveSplitLinked(p, Rest(p))

\* Too small to split: the whole block leaves the free list.
CarveWhole(p) ==
    LET b == blk[p]  bn == b + bsize[b]
    IN  /\ pc[p] = "carve" /\ Rest(p) >= 0 /\ CarveAsserts(p)
        /\ ~Splits(p)
        /\ freelist' = freelist \ {b}
        /\ bsize'    = [bsize EXCEPT ![b] = -@]
        /\ prevfree' = [prevfree EXCEPT ![bn] = 0]
        /\ Carved(p, b, bsize[b])

\* The block found no longer fits: somebody else was in the pool.  The walk goes
\* on from it to the next one that fits, if any comes after it on the list; its links
\* mean nothing when it is not on the list.
CarveStale(p) ==
    /\ pc[p] = "carve" /\ Rest(p) < 0
    /\ IF blk[p] \in freelist
       THEN \E b \in Fits(size[p]) \cup {NoAddr} : Found(p, b)
       ELSE Ends(p, "aborted") /\ UNCHANGED faults

----------------------------------------------------------------------------
\* brel(): merge with the free block before, or insert; then with the one after.

MergePrevAsserts(p) ==
    LET b == blk[p]  prev == b - prevfree[b]
    IN  /\ bsize[b] < 0
        /\ b - bsize[b] \in Addr
        /\ prevfree[b - bsize[b]] = 0
        /\ totalloc + bsize[b] >= 0
        /\ prevfree[b] = 0 \/ (prev \in Addr /\ bsize[prev] = prevfree[b])

MergePrev(p) ==
    LET b == blk[p]  prev == b - prevfree[b]
    IN  /\ pc[p] = "merge_prev" /\ MergePrevAsserts(p)
        /\ totalloc' = totalloc + bsize[b]
        /\ IF prevfree[b] # 0
           THEN /\ bsize' = [bsize EXCEPT ![prev] = @ - bsize[b]]
                /\ blk'   = [blk EXCEPT ![p] = prev]
                /\ UNCHANGED freelist
           ELSE /\ bsize'    = [bsize EXCEPT ![b] = -@]
                /\ freelist' = freelist \cup {b}
                /\ UNCHANGED blk
        /\ owns' = [owns EXCEPT ![p] = @ \ {b}]
        /\ pc'   = [pc EXCEPT ![p] = "merge_next"]
        /\ UNCHANGED <<prevfree, semVars, callVars, faults>>

\* The block that starts where the one at b ends.
After(b) == b + bsize[b]

\* Mutant of MergedEnd: the sign of the size is ignored, an allocated block is merged.
MergedEndAny(b) ==
    LET n == bsize[After(b)]
    IN  IF After(b) = PoolLen THEN PoolLen ELSE After(b) + (IF n > 0 THEN n ELSE -n)

\* Where the released block ends after the merge with a free block behind it.
MergedEnd(b) == IF bsize[After(b)] > 0 THEN After(After(b)) ELSE After(b)

MergeNextAsserts(p) ==
    LET b == blk[p]  bn == After(b)
    IN  /\ bn \in Addr
        /\ bsize[bn] > 0 => /\ After(bn) \in Addr
                            /\ prevfree[After(bn)] = bsize[bn]
                            /\ bn \in freelist
        /\ bsize[MergedEnd(b)] < 0

\* The free bytes behind the queue links of the block are wiped, headers included.
MergeNextTo(p, end) ==
    LET b       == blk[p]
        Wiped   == {a \in Addr : b < a /\ a < end}
    IN  /\ pc[p] = "merge_next" /\ MergeNextAsserts(p)
        /\ freelist' = freelist \ {After(b)}
        /\ bsize'    = [a \in Addr |-> IF a \in Wiped THEN 0
                                       ELSE IF a = b THEN end - b ELSE bsize[a]]
        /\ prevfree' = [a \in Addr |-> IF a \in Wiped THEN 0
                                       ELSE IF a = end THEN end - b ELSE prevfree[a]]
        /\ pc'       = [pc EXCEPT ![p] = "up"]
        /\ UNCHANGED <<totalloc, semVars, callVars, blk, owns, faults>>

\* Mutant of MergeNext: the block is not merged with the free one behind it.
MergeNextSkipped(p) ==
    /\ pc[p] = "merge_next" /\ MergeNextAsserts(p)
    /\ prevfree' = [prevfree EXCEPT ![After(blk[p])] = bsize[blk[p]]]
    /\ pc'       = [pc EXCEPT ![p] = "up"]
    /\ UNCHANGED <<bsize, freelist, totalloc, semVars, callVars, blk, owns, faults>>

MergeNext(p) == MergeNextTo(p, MergedEnd(blk[p]))

AssertFails(p) ==
    /\ \/ pc[p] = "carve" /\ Rest(p) >= 0 /\ ~CarveAsserts(p)
       \/ pc[p] = "merge_prev" /\ ~MergePrevAsserts(p)
       \/ pc[p] = "merge_next" /\ ~MergeNextAsserts(p)
    /\ Ends(p, "aborted")
    /\ UNCHANGED faults

----------------------------------------------------------------------------

\* The steps of a call that is under way.
Step(p) ==
    \/ SemUp(p) \/ Scan(p) \/ CarveSplit(p) \/ CarveWhole(p) \/ CarveStale(p)
    \/ MergePrev(p) \/ MergeNext(p) \/ AssertFails(p)

Next ==
    \E p \in Proc :
        \/ Bget(p) \/ Bgetr(p) \/ Brel(p)
        \/ SemDown(p) \/ SemDownInterrupted(p)
        \/ Step(p)
        \/ Kill(p)

Spec == Init /\ [][Next]_vars

\* A process inside the pool runs on.  The semaphore is handed to the first sleeper
\* of its queue (update_queue() in ipc/sem.c), so a sleeper is not passed over for
\* ever.
FairSpec == Spec /\ \A p \in Proc : WF_vars(Step(p)) /\ SF_vars(SemDown(p))

----------------------------------------------------------------------------
\* Properties.

TypeOK ==
    /\ bsize    \in [Addr -> Int]
    /\ prevfree \in [Addr -> Int]
    /\ freelist \subseteq Addr
    /\ totalloc \in Int
    /\ semval   \in Nat
    /\ semadj   \in [Proc -> Int]
    /\ pc       \in [Proc -> {"idle", "down", "scan", "carve", "merge_prev",
                              "merge_next", "up", "aborted", "killed"}]
    /\ fn       \in [Proc -> {"bget", "bgetr", "brel"}]
    /\ size     \in [Proc -> Nat]
    /\ blk      \in [Proc -> Addr \cup {NoAddr}]
    /\ old      \in [Proc -> Addr \cup {NoAddr}]
    /\ owns     \in [Proc -> SUBSET Addr]
    /\ interrupts \in 0..MaxInterrupt
    /\ torn     \in BOOLEAN

Calm      == interrupts = 0 /\ ~torn
Quiet     == \A p \in Proc : ~Inside(p)

Block     == {a \in Addr : a < PoolLen /\ bsize[a] # 0}
Magnitude(a) == IF bsize[a] < 0 THEN -bsize[a] ELSE bsize[a]
FreeBlock == {a \in Block : bsize[a] > 0}
Allocated == Block \ FreeBlock

\* As long as no semop was interrupted, at most one process is between BGET_SEMDOWN
\* and BGET_SEMUP, and the semaphore is held exactly while one is: the kernel undoes
\* the semop of a process that dies inside.
Exclusive ==
    interrupts = 0 =>
        /\ \A p, q \in Proc : Inside(p) /\ Inside(q) => p = q
        /\ semval = IF Quiet THEN 0 ELSE 1

\* Between calls the headers cut the pool into blocks without a gap, none of them
\* too small for the queue links.
Tiled ==
    /\ bsize[0] # 0 /\ bsize[PoolLen] = ESent
    /\ \A a \in Block :
        /\ Magnitude(a) >= SizeQ + Hdr
        /\ a + Magnitude(a) \in Block \cup {PoolLen}
        /\ \A c \in Block : ~(a < c /\ c < a + Magnitude(a))

\* Between calls no two free blocks are contiguous, the free list holds exactly the
\* free blocks, and the back link behind a block tells whether it is free.
Coalesced ==
    /\ freelist = FreeBlock
    /\ prevfree[0] = 0
    /\ \A a \in Block :
        prevfree[a + Magnitude(a)] = IF bsize[a] > 0 THEN bsize[a] ELSE 0
    /\ \A a, c \in FreeBlock : a + bsize[a] # c

\* Between calls every allocated block is owned by exactly one process and totalloc
\* is the number of bytes they cover: nothing leaks and nothing is handed out twice.
Bytes(a) == a..(a + Magnitude(a) - 1)

Accounted ==
    /\ Allocated = UNION {owns[p] : p \in Proc}
    /\ \A p, q \in Proc : p # q => owns[p] \cap owns[q] = {}
    /\ totalloc = Cardinality(UNION {Bytes(a) : a \in Allocated})

\* What every call of bget() and brel() leaves behind, in whatever order they come,
\* killed processes outside the pool included.
PoolSound == TypeOK /\ (Quiet /\ Calm => Tiled /\ Coalesced /\ Accounted)

\* No assertion of bget() and brel() about headers, sizes and totalloc fails in any
\* process.  Those about the links of the free list, which is a set here, and about a
\* request of no bytes, which is not made, are not represented.
NoAssertFails == Calm => \A p \in Proc : pc[p] # "aborted"

\* bget() returns NULL only when no block or run of free memory is large enough.
GivesUpRightly ==
    \A p \in Proc :
        pc[p] = "up" /\ fn[p] # "brel" /\ blk[p] = NoAddr /\ Calm =>
            \A a \in Addr, n \in Addr :
                (\A c \in Addr : a <= c /\ c < a + n =>
                    ~\E b \in Allocated : b <= c /\ c < b + Magnitude(b))
                /\ a + n <= PoolLen => n < size[p]

\* A call returns, unless the process ends; once a semop was interrupted, unless
\* some process ended and left the semaphore behind.
CallReturns ==
    \A p \in Proc :
        ~(pc[p] = "idle" \/ Ended(p)) ~>
            \/ pc[p] = "idle" \/ Ended(p)
            \/ interrupts > 0 /\ \E q \in Proc : Ended(q)

\* The pool hands out disjoint buffers (Heap), seen from the processes: a buffer is
\* in use from the moment it is carved to the moment brel() merges it.
use  == [p \in Proc |-> {[start |-> a, end |-> a - bsize[a]] : a \in owns[p]}]
heap == INSTANCE Heap
HandsOutDisjoint == [][Calm' => heap!HeapNext \/ UNCHANGED use]_vars
=============================================================================
