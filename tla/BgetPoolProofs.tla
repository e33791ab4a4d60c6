--------------------------- MODULE BgetPoolProofs ---------------------------
(***************************************************************************)
(* The shared pool, for any number of processes, any pool and any          *)
(* requests.                                                               *)
(*                                                                         *)
(* First the lock: BGET_SEMDOWN and BGET_SEMUP keep the processes apart as *)
(* long as no semop is interrupted, and exit_sem gives the semaphore back  *)
(* when the one inside is killed or fails an assertion (LockInv).          *)
(*                                                                         *)
(* Then the blocks: as long as no process was killed inside, the headers   *)
(* describe a layout, a set L of addresses that cuts the pool into blocks  *)
(* which end where e says (Laid), and the owners and totalloc agree with   *)
(* it (Given).  bget() cuts a block of the layout in two or gives it away  *)
(* whole, brel() joins the block with its neighbours, in two steps between *)
(* which the block is linked to nothing behind it.  The process inside is  *)
(* alone (LockInv), so what it found still holds when it uses it (Sure).   *)
(***************************************************************************)
EXTENDS BgetPool, FiniteSetTheorems, TLAPS

Places  == {"idle", "down", "scan", "carve", "merge_prev", "merge_next", "up",
            "aborted", "killed"}
Within  == {"scan", "carve", "merge_prev", "merge_next", "up"}

LockType ==
    /\ pc \in [Proc -> Places]
    /\ semval \in Nat /\ semadj \in [Proc -> Int]
    /\ interrupts \in Nat

\* The adjustment kept for a process is what exit_sem needs to undo its semop.
LockInv ==
    /\ LockType
    /\ interrupts = 0 =>
        /\ \A p, q \in Proc : Inside(p) /\ Inside(q) => p = q
        /\ semval = IF Quiet THEN 0 ELSE 1
        /\ \A p \in Proc : semadj[p] = IF Inside(p) THEN -1 ELSE 0

----------------------------------------------------------------------------
\* What the steps of a process do to the lock.

Enters(p) ==
    /\ pc[p] = "down" /\ semval = 0
    /\ semval' = semval + 1
    /\ semadj' = [semadj EXCEPT ![p] = @ - 1]
    /\ \E s \in Within : pc' = [pc EXCEPT ![p] = s]
    /\ UNCHANGED interrupts

Intrudes(p) ==
    /\ \E s \in Within : pc' = [pc EXCEPT ![p] = s]
    /\ UNCHANGED semVars /\ interrupts' = interrupts + 1

Leaves(p) ==
    /\ pc[p] = "up"
    /\ \/ semval > 0 /\ semval' = semval - 1 /\ semadj' = [semadj EXCEPT ![p] = @ + 1]
       \/ semval = 0 /\ UNCHANGED semVars
    /\ \E s \in {"idle", "down"} : pc' = [pc EXCEPT ![p] = s]
    /\ UNCHANGED interrupts

Dies(p) ==
    /\ \E s \in {"aborted", "killed"} : pc' = [pc EXCEPT ![p] = s]
    /\ semval' = IF semval + semadj[p] < 0 THEN 0 ELSE semval + semadj[p]
    /\ semadj' = [semadj EXCEPT ![p] = 0]
    /\ UNCHANGED interrupts

Stays(p) ==
    /\ \/ pc[p] \in Within /\ \E s \in Within : pc' = [pc EXCEPT ![p] = s]
       \/ pc[p] = "idle" /\ pc' = [pc EXCEPT ![p] = "down"]
    /\ UNCHANGED <<semVars, interrupts>>

\* Every step of the pool is one of these: the work on the blocks never touches the
\* semaphore, and every way out of the pool gives it back.
LEMMA LockSteps ==
    ASSUME LockType, Next
    PROVE  \E p \in Proc : Enters(p) \/ Intrudes(p) \/ Leaves(p) \/ Dies(p) \/ Stays(p)
<1> PICK p \in Proc : \/ Bget(p) \/ Bgetr(p) \/ Brel(p)
                      \/ SemDown(p) \/ SemDownInterrupted(p) \/ Step(p) \/ Kill(p)
    BY DEF Next
<1>1. CASE Bget(p) \/ Bgetr(p) \/ Brel(p)
    BY <1>1 DEF Bget, Bgetr, Brel, Call, Stays, faults
<1>2. CASE SemDown(p)
    BY <1>2 DEF SemDown, SemDownIf, Enter, Enters, Within, faults
<1>3. CASE SemDownInterrupted(p)
    BY <1>3 DEF SemDownInterrupted, Enter, Intrudes, Within
<1>4. CASE SemUp(p)
    <2>1. \E s \in {"idle", "down"} : pc' = [pc EXCEPT ![p] = s]
        BY <1>4 DEF SemUp, Return
    <2>2. pc[p] = "up" /\ UNCHANGED interrupts
        BY <1>4 DEF SemUp, faults
    <2>3. CASE semval > 0
        BY <1>4, <2>1, <2>2, <2>3 DEF SemUp, Leaves
    <2>4. CASE semval = 0
        <3>1. UNCHANGED semVars
            BY <1>4, <2>4 DEF SemUp
        <3> QED  BY <2>1, <2>2, <2>4, <3>1 DEF Leaves
    <2> QED  BY <2>3, <2>4 DEF LockType
<1>5. CASE Kill(p)
    BY <1>5 DEF Kill, Ends, EndsAdjusted, Dies
<1>6. CASE AssertFails(p)
    BY <1>6 DEF AssertFails, Ends, EndsAdjusted, Dies, faults
<1>7. CASE Scan(p)
    BY <1>7 DEF Scan, Found, Stays, Within, faults
<1>8. CASE CarveSplit(p)
    BY <1>8 DEF CarveSplit, CarveSplitLinked, Carved, Stays, Within, faults
<1>9. CASE CarveWhole(p)
    BY <1>9 DEF CarveWhole, Carved, Stays, Within, faults
<1>10. CASE CarveStale(p)
    <2>1. CASE blk[p] \in freelist
        BY <1>10, <2>1 DEF CarveStale, Found, Stays, Within, faults
    <2>2. CASE blk[p] \notin freelist
        BY <1>10, <2>2 DEF CarveStale, Ends, EndsAdjusted, Dies, faults
    <2> QED  BY <2>1, <2>2
<1>11. CASE MergePrev(p)
    BY <1>11 DEF MergePrev, Stays, Within, faults
<1>12. CASE MergeNext(p)
    BY <1>12 DEF MergeNext, MergeNextTo, Stays, Within, faults
<1> QED
    BY <1>1, <1>2, <1>3, <1>4, <1>5, <1>6, <1>7, <1>8, <1>9, <1>10, <1>11, <1>12 DEF Step

----------------------------------------------------------------------------

\* The pool starts unlocked.
LEMMA LockInit == Init => LockInv
BY DEF Init, LockInv, LockType, Places, Inside, Quiet

\* One process enters an empty pool, or the one inside leaves or dies.
LEMMA LockStep == LockInv /\ [Next]_vars => LockInv'
<1> SUFFICES ASSUME LockInv, [Next]_vars PROVE LockInv'
    OBVIOUS
<1>1. CASE UNCHANGED vars
    BY <1>1 DEF vars, semVars, faults, LockInv, LockType, Inside, Quiet
<1>2. CASE Next
    <2> PICK p \in Proc : Enters(p) \/ Intrudes(p) \/ Leaves(p) \/ Dies(p) \/ Stays(p)
        BY <1>2, LockSteps DEF LockInv
    <2>1. LockType'
        BY DEF LockInv, LockType, Places, Within, semVars, Enters, Intrudes, Leaves, Dies, Stays
    <2>2. ASSUME interrupts' = 0 PROVE interrupts = 0 /\ ~Intrudes(p)
        BY <2>2 DEF LockInv, LockType, Intrudes, Enters, Leaves, Dies, Stays
    <2>3. \A q \in Proc : q # p => (Inside(q)' <=> Inside(q))
        BY DEF LockInv, LockType, Inside, Enters, Intrudes, Leaves, Dies, Stays
    <2>4. CASE Enters(p)
        <3>1. Inside(p)' /\ ~Inside(p)
            BY <2>4 DEF LockInv, LockType, Inside, Enters, Within
        <3>2. interrupts = 0 => Quiet
            BY <2>4 DEF LockInv, Enters
        <3> QED  BY <2>1, <2>2, <2>3, <2>4, <3>1, <3>2 DEF LockInv, LockType, Enters, Quiet
    <2>5. CASE Intrudes(p)
        BY <2>1, <2>2, <2>5 DEF LockInv
    <2>6. CASE Leaves(p)
        <3>1. Inside(p) /\ ~Inside(p)'
            BY <2>6 DEF LockInv, LockType, Inside, Leaves
        <3>2. interrupts = 0 => semval = 1
            BY <3>1 DEF LockInv, Quiet
        <3> QED  BY <2>1, <2>2, <2>3, <2>6, <3>1, <3>2 DEF LockInv, LockType, Leaves, Quiet
    <2>7. CASE Dies(p)
        <3>1. ~Inside(p)'
            BY <2>7 DEF LockInv, LockType, Inside, Dies
        <3>2. CASE Inside(p)
            BY <2>1, <2>2, <2>3, <2>7, <3>1, <3>2 DEF LockInv, LockType, Dies, Quiet
        <3>3. CASE ~Inside(p)
            BY <2>1, <2>2, <2>3, <2>7, <3>1, <3>3 DEF LockInv, LockType, Dies, Quiet
        <3> QED  BY <3>2, <3>3
    <2>8. CASE Stays(p)
        <3>1. Inside(p)' <=> Inside(p)
            BY <2>8 DEF LockInv, LockType, Inside, Stays, Within
        <3> QED  BY <2>1, <2>2, <2>3, <2>8, <3>1 DEF LockInv, LockType, Stays, Quiet, semVars
    <2> QED  BY <2>4, <2>5, <2>6, <2>7, <2>8
<1> QED  BY <1>1, <1>2

\* The semaphore of bget.c is a mutual exclusion lock for any number of processes
\* that get, resize and release buffers and are killed anywhere, until a semop is
\* interrupted.
THEOREM LockSafe == Spec => []Exclusive
<1>1. LockInv => Exclusive
    BY DEF LockInv, Exclusive
<1> QED  BY LockInit, LockStep, <1>1, PTL DEF Spec

----------------------------------------------------------------------------
\* The blocks.

\* A set L of addresses cuts the pool into intervals that end where e says.
Tiles(L, e) ==
    /\ 0 \in L /\ L \subseteq Addr \ {PoolLen} /\ e \in [L -> Addr]
    /\ \A a \in L : a < e[a] /\ e[a] \in L \cup {PoolLen}
    /\ \A a, c \in L : c <= a \/ e[a] <= c
    /\ \A x \in Addr \ {PoolLen} : \E a \in L : a <= x /\ x < e[a]

\* Addresses are numbers from 0 to PoolLen, and none of them is the null pointer.
LEMMA AddrFacts ==
    /\ Addr \subseteq Int /\ 0 \in Addr /\ PoolLen \in Addr /\ PoolLen \in Nat
    /\ \A a \in Addr : 0 <= a /\ a <= PoolLen
    /\ NoAddr \notin Addr
BY PoolAssumption DEF Addr, NoAddr, SizeQuant, SizeQ, Hdr

\* Where a block of n bytes ends at x, it starts at an address.
LEMMA AddrBack ==
    ASSUME NEW x \in Addr, NEW n \in Nat, n % SizeQuant = 0, n <= x
    PROVE  x - n \in Addr
BY PoolAssumption DEF Addr, SizeQuant

\* Addresses are a quantum apart.
LEMMA AddrApart ==
    ASSUME NEW x \in Addr, NEW y \in Addr, x < y
    PROVE  x <= y - SizeQuant /\ y - SizeQuant \in Addr
BY PoolAssumption DEF Addr, SizeQuant

\* A block is cut in two.
LEMMA TilesSplit ==
    ASSUME NEW L, NEW e, Tiles(L, e), NEW b \in L, NEW x \in Addr, b < x, x < e[b],
           NEW M, M = L \cup {x},
           NEW f, f = [a \in M |-> IF a = b THEN x ELSE IF a = x THEN e[b] ELSE e[a]]
    PROVE  x \notin L /\ x # PoolLen /\ Tiles(M, f)
<1>1. /\ 0 \in L /\ L \subseteq Addr \ {PoolLen} /\ e \in [L -> Addr]
      /\ \A a \in L : a < e[a] /\ e[a] \in L \cup {PoolLen}
      /\ \A a, c \in L : c <= a \/ e[a] <= c
      /\ \A y \in Addr \ {PoolLen} : \E a \in L : a <= y /\ y < e[a]
    BY DEF Tiles
<1>2. x \notin L /\ x # PoolLen /\ x \in Int /\ b \in Int /\ e[b] \in Int
    <2>1. b \in Addr /\ e[b] \in Addr
        BY <1>1
    <2>2. x \in Int /\ b \in Int /\ e[b] \in Int /\ e[b] <= PoolLen /\ PoolLen \in Int
        BY <2>1, AddrFacts
    <2>3. x \in L => x <= b \/ e[b] <= x
        BY <1>1
    <2> QED  BY <2>2, <2>3
<1>3. f[b] = x /\ f[x] = e[b] /\ \A a \in L \ {b} : f[a] = e[a]
    BY <1>2
<1>4. 0 \in M /\ M \subseteq Addr \ {PoolLen} /\ f \in [M -> Addr]
    BY <1>1, <1>2
<1>5. \A a \in M : a < f[a] /\ f[a] \in M \cup {PoolLen}
    BY <1>1, <1>2, <1>3, AddrFacts
<1>6. \A a, c \in M : c <= a \/ f[a] <= c
    <2> SUFFICES ASSUME NEW a \in M, NEW c \in M PROVE c <= a \/ f[a] <= c
        OBVIOUS
    <2>1. a \in Int /\ c \in Int /\ f[a] \in Int
        BY <1>4, AddrFacts
    <2>2. CASE a \in L \ {b} /\ c = x
        <3>1. b <= a \/ e[a] <= b
            BY <1>1, <2>2
        <3>2. a <= b \/ e[b] <= a
            BY <1>1, <2>2
        <3> QED  BY <1>1, <1>2, <1>3, <2>1, <2>2, <3>1, <3>2, AddrFacts
    <2>3. CASE a \in L \ {b} /\ c \in L
        BY <1>1, <1>3, <2>3
    <2>4. CASE a = b
        BY <1>1, <1>2, <1>3, <2>1, <2>4
    <2>5. CASE a = x
        BY <1>1, <1>2, <1>3, <2>1, <2>5
    <2> QED  BY <2>2, <2>3, <2>4, <2>5
<1>7. \A y \in Addr \ {PoolLen} : \E a \in M : a <= y /\ y < f[a]
    <2> SUFFICES ASSUME NEW y \in Addr \ {PoolLen} PROVE \E a \in M : a <= y /\ y < f[a]
        OBVIOUS
    <2>1. PICK a \in L : a <= y /\ y < e[a]
        BY <1>1
    <2>2. CASE a # b
        BY <1>3, <2>1, <2>2
    <2>3. CASE a = b
        BY <1>2, <1>3, <2>1, <2>3, AddrFacts
    <2> QED  BY <2>2, <2>3
<1> QED  BY <1>2, <1>4, <1>5, <1>6, <1>7 DEF Tiles

\* Two contiguous blocks become one.
LEMMA TilesMerge ==
    ASSUME NEW L, NEW e, Tiles(L, e), NEW b \in L, NEW x \in L, x = e[b],
           NEW M, M = L \ {x},
           NEW f, f = [a \in M |-> IF a = b THEN e[x] ELSE e[a]]
    PROVE  Tiles(M, f)
<1>1. /\ 0 \in L /\ L \subseteq Addr \ {PoolLen} /\ e \in [L -> Addr]
      /\ \A a \in L : a < e[a] /\ e[a] \in L \cup {PoolLen}
      /\ \A a, c \in L : c <= a \/ e[a] <= c
      /\ \A y \in Addr \ {PoolLen} : \E a \in L : a <= y /\ y < e[a]
    BY DEF Tiles
<1>2. x \in L /\ x \in Int /\ b \in Int /\ e[x] \in Int /\ b < x /\ x < e[x] /\ 0 <= b
    BY <1>1, AddrFacts
<1>3. b \in M /\ f[b] = e[x] /\ \A a \in M \ {b} : f[a] = e[a]
    BY <1>2
<1>4. 0 \in M /\ M \subseteq Addr \ {PoolLen} /\ f \in [M -> Addr]
    <2>1. 0 # x
        BY <1>2
    <2>2. e[x] \in Addr /\ \A a \in M : e[a] \in Addr
        BY <1>1, <1>2
    <2> QED  BY <1>1, <2>1, <2>2
<1>5. \A a \in M \ {b} : e[a] # x
    <2> SUFFICES ASSUME NEW a \in M \ {b}, e[a] = x PROVE FALSE
        OBVIOUS
    <2>1. b <= a \/ e[a] <= b
        BY <1>1
    <2>2. a <= b \/ e[b] <= a
        BY <1>1
    <2> QED  BY <1>1, <1>2, <2>1, <2>2, AddrFacts
<1>6. \A a \in M : a < f[a] /\ f[a] \in M \cup {PoolLen}
    BY <1>1, <1>2, <1>3, <1>5, AddrFacts
<1>7. \A a, c \in M : c <= a \/ f[a] <= c
    <2> SUFFICES ASSUME NEW a \in M, NEW c \in M PROVE c <= a \/ f[a] <= c
        OBVIOUS
    <2>1. CASE a # b
        BY <1>1, <1>3, <2>1
    <2>2. CASE a = b
        <3>1. c <= x \/ e[x] <= c
            BY <1>1, <1>2
        <3>2. c <= b \/ x <= c
            BY <1>1
        <3> QED  BY <1>1, <1>2, <1>3, <2>2, <3>1, <3>2, AddrFacts
    <2> QED  BY <2>1, <2>2
<1>8. \A y \in Addr \ {PoolLen} : \E a \in M : a <= y /\ y < f[a]
    <2> SUFFICES ASSUME NEW y \in Addr \ {PoolLen} PROVE \E a \in M : a <= y /\ y < f[a]
        OBVIOUS
    <2>1. PICK a \in L : a <= y /\ y < e[a]
        BY <1>1
    <2>2. CASE a \in M \ {b}
        BY <1>3, <2>1, <2>2
    <2>3. CASE a = b \/ a = x
        BY <1>1, <1>2, <1>3, <2>1, <2>3, AddrFacts
    <2> QED  BY <2>2, <2>3
<1> QED  BY <1>4, <1>6, <1>7, <1>8 DEF Tiles

\* Blocks that are not the same do not overlap, and no two end together.
LEMMA TilesApart ==
    ASSUME NEW L, NEW e, Tiles(L, e), NEW a \in L, NEW c \in L, a # c
    PROVE  e[a] # e[c] /\ (e[a] <= c \/ e[c] <= a)
<1>1. c <= a \/ e[a] <= c
    BY DEF Tiles
<1>2. a <= c \/ e[c] <= a
    BY DEF Tiles
<1>3. a < e[a] /\ c < e[c] /\ a \in Int /\ c \in Int /\ e[a] \in Int /\ e[c] \in Int
    BY AddrFacts DEF Tiles
<1> QED  BY <1>1, <1>2, <1>3

\* Every block but the first starts where another ends, and one ends with the pool.
LEMMA TilesPred ==
    ASSUME NEW L, NEW e, Tiles(L, e), NEW b \in L \cup {PoolLen}, b # 0
    PROVE  \E a \in L : e[a] = b
<1>1. b \in Addr /\ b \in Int /\ 0 < b
    BY AddrFacts DEF Tiles
<1>2. b - SizeQuant \in Addr \ {PoolLen}
    BY <1>1, AddrApart, AddrFacts DEF SizeQuant
<1>3. PICK a \in L : a <= b - SizeQuant /\ b - SizeQuant < e[a]
    BY <1>2 DEF Tiles
<1>4. a \in Addr /\ e[a] \in Addr /\ a \in Int /\ e[a] \in Int /\ e[a] <= PoolLen
    BY AddrFacts DEF Tiles
<1>5. b <= e[a]
    <2>1. e[a] < b => e[a] <= b - SizeQuant
        BY <1>1, <1>4, AddrApart
    <2> QED  BY <1>1, <1>3, <1>4, <2>1 DEF SizeQuant
<1>6. ~(b < e[a])
    <2> SUFFICES ASSUME b < e[a] PROVE FALSE
        OBVIOUS
    <2>1. b \in L
        BY <1>1, <1>4
    <2>2. b <= a \/ e[a] <= b
        BY <2>1 DEF Tiles
    <2> QED  BY <1>1, <1>3, <1>4, <2>2 DEF SizeQuant
<1> QED  BY <1>1, <1>4, <1>5, <1>6

----------------------------------------------------------------------------
\* The bytes of a set of blocks.

Used(A, e) == UNION {a..(e[a] - 1) : a \in A}

\* The blocks of a pool have finitely many bytes.
LEMMA UsedFinite ==
    ASSUME NEW L, NEW e, Tiles(L, e), NEW A, \A a \in A : a \in L
    PROVE  IsFiniteSet(Used(A, e)) /\ Cardinality(Used(A, e)) \in Nat
<1>1. \A a \in A : a \in Int /\ e[a] \in Int /\ 0 <= a /\ e[a] <= PoolLen
    BY AddrFacts DEF Tiles
<1>2. Used(A, e) \subseteq 0..PoolLen
    <2> SUFFICES ASSUME NEW a \in A, NEW x \in a..(e[a] - 1) PROVE x \in 0..PoolLen
        BY DEF Used
    <2> QED  BY <1>1, AddrFacts
<1>3. IsFiniteSet(0..PoolLen)
    BY FS_Interval, AddrFacts
<1>4. IsFiniteSet(Used(A, e))
    BY <1>2, <1>3, FS_Subset
<1> QED  BY <1>4, FS_CardinalityType

\* A block more is as many bytes more as it is long.
LEMMA UsedMore ==
    ASSUME NEW L, NEW e, Tiles(L, e), NEW A, \A a \in A : a \in L, NEW b \in L, b \notin A,
           NEW B, B = A \cup {b}
    PROVE  Cardinality(Used(B, e)) = Cardinality(Used(A, e)) + (e[b] - b)
<1> DEFINE U == Used(A, e)
           I == b..(e[b] - 1)
<1>1. b \in Int /\ e[b] \in Int /\ b < e[b]
    BY AddrFacts DEF Tiles
<1>2. IsFiniteSet(U) /\ Cardinality(U) \in Nat
    BY UsedFinite
<1>3. IsFiniteSet(I) /\ Cardinality(I) = e[b] - b
    <2>1. e[b] - 1 \in Int /\ ~(b > e[b] - 1)
        BY <1>1
    <2>2. /\ IsFiniteSet(I)
          /\ Cardinality(I) = IF b > e[b] - 1 THEN 0 ELSE e[b] - 1 - b + 1
        BY <1>1, <2>1, FS_Interval
    <2> QED  BY <1>1, <2>1, <2>2
<1>4. U \cap I = {}
    <2> SUFFICES ASSUME NEW a \in A, NEW x \in a..(e[a] - 1), x \in b..(e[b] - 1) PROVE FALSE
        BY DEF Used
    <2>1. a # b /\ a \in L /\ a \in Int /\ e[a] \in Int
        BY AddrFacts DEF Tiles
    <2>2. e[a] <= b \/ e[b] <= a
        BY <2>1, TilesApart
    <2> QED  BY <1>1, <2>1, <2>2
<1>5. Used(B, e) = U \cup I
    BY DEF Used
<1> HIDE DEF U, I
<1>6. Cardinality(U \cap I) = 0
    BY <1>4, FS_EmptySet
<1>7. Cardinality(U \cup I) = Cardinality(U) + Cardinality(I) - Cardinality(U \cap I)
    BY <1>2, <1>3, FS_Union
<1>8. Cardinality(U \cup I) = Cardinality(U) + (e[b] - b)
    BY <1>1, <1>2, <1>3, <1>6, <1>7
<1>9. Cardinality(Used(B, e)) = Cardinality(U \cup I)
    BY <1>5, Zenon
<1> QED  BY <1>8, <1>9, Zenon DEF U

\* Only where the blocks start and end matters.
LEMMA UsedSame ==
    ASSUME NEW A, NEW e, NEW f, \A a \in A : e[a] = f[a]
    PROVE  Used(A, e) = Used(A, f)
BY DEF Used

----------------------------------------------------------------------------
\* The pool between two steps of the process inside it.  While brel() has merged a
\* block with the one before it and not yet looked behind it, m, a header inside m is
\* stale and nothing links back to m.

Laid(L, e, m) ==
    /\ Tiles(L, e)
    /\ freelist \subseteq L /\ m \in freelist \cup {NoAddr}
    /\ \A a \in L : e[a] - a >= SizeQ + Hdr
    /\ \A a \in L : bsize[a] = IF a \in freelist THEN e[a] - a ELSE a - e[a]
    /\ \A a \in L : prevfree[e[a]] = IF a \in freelist \ {m} THEN e[a] - a ELSE 0
    /\ \A x \in Addr \ (L \cup {PoolLen}) : bsize[x] # 0 => m # NoAddr /\ m < x /\ x < e[m]
    /\ bsize[PoolLen] = ESent /\ prevfree[0] = 0
    /\ \A a, c \in freelist : a # m => e[a] # c

\* Who has the allocated blocks, and how many bytes they are.
Given(L, e) ==
    /\ \A a \in Addr : a \in L \ freelist <=> \E p \in Proc : a \in owns[p]
    /\ \A p, q \in Proc : p # q => owns[p] \cap owns[q] = {}
    /\ totalloc = Cardinality(Used(L \ freelist, e))

Shape(m) == \E L, e : Laid(L, e, m) /\ Given(L, e)

PoolType ==
    /\ bsize \in [Addr -> Int] /\ prevfree \in [Addr -> Int]
    /\ freelist \subseteq Addr /\ totalloc \in Int /\ owns \in [Proc -> SUBSET Addr]

Sizes == {n \in Nat : n % SizeQuant = 0 /\ n >= SizeQ + Hdr}

\* What a layout says of a block, in numbers.
LEMMA LaidFacts ==
    ASSUME NEW L, NEW e, NEW m, Laid(L, e, m), NEW a \in L
    PROVE  /\ a \in Addr /\ e[a] \in Addr /\ a \in Int /\ e[a] \in Int
           /\ 0 <= a /\ a < e[a] /\ e[a] <= PoolLen /\ a < PoolLen /\ 16 <= e[a] - a
           /\ a \in freelist => bsize[a] = e[a] - a
           /\ a \notin freelist => bsize[a] = a - e[a]
           /\ e[a] \in L \cup {PoolLen}
<1>1. Tiles(L, e) /\ e[a] - a >= SizeQ + Hdr
    BY DEF Laid
<1>2. a \in Addr /\ a # PoolLen /\ e[a] \in Addr /\ a < e[a] /\ e[a] \in L \cup {PoolLen}
    BY <1>1 DEF Tiles
<1>3. bsize[a] = IF a \in freelist THEN e[a] - a ELSE a - e[a]
    BY DEF Laid
<1>4. a \in Int /\ e[a] \in Int /\ 0 <= a /\ a <= PoolLen /\ e[a] <= PoolLen /\ PoolLen \in Int
    BY <1>2, AddrFacts
<1>5. a < PoolLen /\ 16 <= e[a] - a
    BY <1>1, <1>2, <1>4 DEF SizeQ, Hdr
<1> QED  BY <1>2, <1>3, <1>4, <1>5

\* The last n bytes of the free block from b to end go to the caller.
SplitsOff(p, b, n, end) ==
    /\ end - b - n > SizeQ + Hdr
    /\ bsize'    = [bsize EXCEPT ![b] = end - n - b, ![end - n] = -n]
    /\ prevfree' = [prevfree EXCEPT ![end - n] = end - n - b, ![end] = 0]
    /\ freelist' = freelist /\ totalloc' = totalloc + n
    /\ owns'     = [owns EXCEPT ![p] = @ \cup {end - n}]

\* A free block that bget splits leaves two blocks in its place, one free and one given.
LEMMA SplitShape ==
    ASSUME PoolType, NEW p \in Proc, NEW L, NEW e, Laid(L, e, NoAddr), Given(L, e),
           NEW b \in freelist, NEW n \in Sizes, SplitsOff(p, b, n, e[b])
    PROVE  Shape(NoAddr)'
<1> PICK ba : ba = e[b] - n
    OBVIOUS
<1> /\ bsize'    = [bsize EXCEPT ![b] = ba - b, ![ba] = -n]
    /\ prevfree' = [prevfree EXCEPT ![ba] = ba - b, ![e[b]] = 0]
    /\ freelist' = freelist /\ totalloc' = totalloc + n
    /\ owns'     = [owns EXCEPT ![p] = @ \cup {ba}]
    /\ e[b] - b - n > SizeQ + Hdr
    BY DEF SplitsOff
<1> PICK M : M = L \cup {ba}
    OBVIOUS
<1> PICK f : f = [a \in M |-> IF a = b THEN ba ELSE IF a = ba THEN e[b] ELSE e[a]]
    OBVIOUS
<1>0. b \in L /\ Tiles(L, e)
    BY DEF Laid
<1>1. /\ b \in Addr /\ e[b] \in Addr /\ b \in Int /\ e[b] \in Int /\ 0 <= b
      /\ b < e[b] /\ e[b] <= PoolLen /\ bsize[b] = e[b] - b /\ e[b] \in L \cup {PoolLen}
    BY <1>0, LaidFacts
<1>2. n \in Int /\ n >= 16 /\ n % SizeQuant = 0 /\ ba \in Int /\ b + 16 < ba /\ ba + 16 <= e[b]
    BY <1>1 DEF Sizes, SizeQ, Hdr
<1>3. ba \in Addr
    BY <1>1, <1>2, AddrBack DEF Sizes
<1>4. ba \notin L /\ ba # PoolLen /\ Tiles(M, f)
    <2>1. b < ba /\ ba < e[b]
        BY <1>1, <1>2
    <2> QED  BY <1>0, <1>3, <2>1, TilesSplit
<1>5. b \in M /\ ba \in M /\ f[b] = ba /\ f[ba] = e[b] /\ \A a \in L \ {b} : f[a] = e[a]
    BY <1>0, <1>4
<1>6. \A a \in L \ {b} : e[a] # e[b] /\ e[a] # ba
    <2>1. \A a \in L \ {b} : e[a] # e[b]
        BY <1>0, TilesApart
    <2>2. \A a \in L : e[a] \in L \cup {PoolLen}
        BY LaidFacts
    <2> QED  BY <2>1, <2>2, <1>4
<1>7. /\ bsize'[b] = ba - b /\ bsize'[ba] = -n
      /\ \A x \in Addr \ {b, ba} : bsize'[x] = bsize[x]
    BY <1>1, <1>2, <1>3 DEF PoolType
<1>8. /\ prevfree'[ba] = ba - b /\ prevfree'[e[b]] = 0
      /\ \A x \in Addr \ {e[b], ba} : prevfree'[x] = prevfree[x]
    BY <1>1, <1>2, <1>3 DEF PoolType
<1>9. Laid(M, f, NoAddr)'
    <2>1. freelist' \subseteq M /\ NoAddr \in freelist' \cup {NoAddr}
        BY DEF Laid
    <2>2. \A a \in M : f[a] - a >= SizeQ + Hdr
        <3> TAKE a \in M
        <3>1. CASE a = ba \/ a = b
            BY <1>1, <1>2, <1>5, <3>1 DEF SizeQ, Hdr
        <3>2. CASE a \in L \ {b}
            BY <1>5, <3>2 DEF Laid
        <3> QED  BY <3>1, <3>2
    <2>3. \A a \in M : bsize'[a] = IF a \in freelist' THEN f[a] - a ELSE a - f[a]
        <3> TAKE a \in M
        <3>1. CASE a = ba
            <4>1. ba \notin freelist' /\ -n = ba - e[b]
                BY <1>1, <1>2, <1>4 DEF Laid
            <4> QED  BY <1>5, <1>7, <3>1, <4>1
        <3>2. CASE a = b
            BY <1>5, <1>7, <3>2
        <3>3. CASE a \in L \ {b}
            <4>1. a \in Addr \ {b, ba} /\ f[a] = e[a]
                BY <1>4, <1>5, <3>3, LaidFacts
            <4> QED  BY <1>7, <3>3, <4>1 DEF Laid
        <3> QED  BY <3>1, <3>2, <3>3
    <2>4. \A a \in M : prevfree'[f[a]] = IF a \in freelist' \ {NoAddr} THEN f[a] - a ELSE 0
        <3> TAKE a \in M
        <3>1. CASE a = ba
            BY <1>4, <1>5, <1>8, <3>1 DEF Laid
        <3>2. CASE a = b
            <4>1. b # NoAddr
                BY <1>1, AddrFacts
            <4> QED  BY <1>5, <1>8, <3>2, <4>1
        <3>3. CASE a \in L \ {b}
            <4>1. e[a] \in Addr \ {e[b], ba} /\ f[a] = e[a]
                BY <1>5, <1>6, <3>3, LaidFacts
            <4> QED  BY <1>8, <3>3, <4>1 DEF Laid
        <3> QED  BY <3>1, <3>2, <3>3
    <2>5. \A x \in Addr \ (M \cup {PoolLen}) : bsize'[x] = 0
        <3> TAKE x \in Addr \ (M \cup {PoolLen})
        <3>1. x \in Addr \ {b, ba} /\ x \in Addr \ (L \cup {PoolLen})
            BY <1>5
        <3> QED  BY <1>7, <3>1 DEF Laid
    <2>6. bsize'[PoolLen] = ESent /\ prevfree'[0] = 0
        <3>1. PoolLen \in Addr \ {b, ba} /\ 0 \in Addr \ {e[b], ba}
            BY <1>1, <1>2, <1>4, AddrFacts
        <3> QED  BY <1>7, <1>8, <3>1 DEF Laid
    <2>7. \A a, c \in freelist' : a # NoAddr => f[a] # c
        <3>1. freelist \subseteq L /\ \A a, c \in freelist : a # NoAddr => e[a] # c
            BY DEF Laid
        <3> QED  BY <1>4, <1>5, <3>1
    <2> QED  BY <1>4, <2>1, <2>2, <2>3, <2>4, <2>5, <2>6, <2>7 DEF Laid
<1>10. Given(M, f)'
    <2>1. M \ freelist = (L \ freelist) \cup {ba}
        BY <1>4 DEF Laid
    <2>2. owns'[p] = owns[p] \cup {ba} /\ \A q \in Proc \ {p} : owns'[q] = owns[q]
        BY DEF PoolType
    <2>3. \A a \in Addr : a \in M \ freelist <=> \E q \in Proc : a \in owns'[q]
        BY <2>1, <2>2 DEF Given
    <2>4. \A q \in Proc : ba \notin owns[q]
        BY <1>3, <1>4 DEF Given
    <2>5. \A q, r \in Proc : q # r => owns'[q] \cap owns'[r] = {}
        BY <2>2, <2>4 DEF Given
    <2>6. PICK A : A = L \ freelist
        OBVIOUS
    <2> PICK B : B = A \cup {ba}
        OBVIOUS
    <2>7. Cardinality(Used(B, f)) = Cardinality(Used(A, f)) + (f[ba] - ba)
        <3>1. (\A a \in A : a \in M) /\ ba \in M /\ ba \notin A
            BY <1>4, <2>6
        <3> QED  BY <1>4, <3>1, UsedMore
    <2>8. Used(A, f) = Used(A, e)
        <3>1. \A a \in A : e[a] = f[a]
            BY <1>5, <2>6
        <3> QED  BY <3>1, UsedSame
    <2>9. totalloc' = Cardinality(Used(M \ freelist, f))
        <3>1. totalloc = Cardinality(Used(A, f))
            BY <2>6, <2>8, Zenon DEF Given
        <3>2. Cardinality(Used(M \ freelist, f)) = totalloc + (f[ba] - ba)
            <4>1. M \ freelist = B
                BY <2>1, <2>6
            <4> QED  BY <2>7, <3>1, <4>1, Zenon
        <3>3. f[ba] - ba = n
            BY <1>1, <1>2, <1>5
        <3> QED  BY <3>2, <3>3, Zenon
    <2> QED  BY <2>3, <2>5, <2>9, Zenon DEF Given
<1> QED  BY <1>9, <1>10 DEF Shape

\* The free block from b to end goes to the caller as it is.
GivesWhole(p, b, end) ==
    /\ bsize'    = [bsize EXCEPT ![b] = b - end]
    /\ prevfree' = [prevfree EXCEPT ![end] = 0]
    /\ freelist' = freelist \ {b} /\ totalloc' = totalloc + (end - b)
    /\ owns'     = [owns EXCEPT ![p] = @ \cup {b}]

\* A free block that bget gives away whole leaves the layout as it is.
LEMMA WholeShape ==
    ASSUME PoolType, NEW p \in Proc, NEW L, NEW e, Laid(L, e, NoAddr), Given(L, e),
           NEW b \in freelist, GivesWhole(p, b, e[b])
    PROVE  Shape(NoAddr)'
<1> /\ bsize'    = [bsize EXCEPT ![b] = b - e[b]]
    /\ prevfree' = [prevfree EXCEPT ![e[b]] = 0]
    /\ freelist' = freelist \ {b} /\ totalloc' = totalloc + (e[b] - b)
    /\ owns'     = [owns EXCEPT ![p] = @ \cup {b}]
    BY DEF GivesWhole
<1>1. b \in L /\ Tiles(L, e)
    BY DEF Laid
<1>2. /\ b \in Addr /\ e[b] \in Addr /\ b \in Int /\ e[b] \in Int /\ 0 <= b
      /\ b < e[b] /\ e[b] <= PoolLen /\ bsize[b] = e[b] - b /\ b < PoolLen
    BY <1>1, LaidFacts
<1>3. \A a \in L \ {b} : e[a] # e[b]
    BY <1>1, TilesApart
<1>4. bsize'[b] = b - e[b] /\ \A x \in Addr \ {b} : bsize'[x] = bsize[x]
    BY <1>2 DEF PoolType
<1>5. prevfree'[e[b]] = 0 /\ \A x \in Addr \ {e[b]} : prevfree'[x] = prevfree[x]
    BY <1>2 DEF PoolType
<1>6. Laid(L, e, NoAddr)'
    <2>1. freelist' \subseteq L /\ NoAddr \in freelist' \cup {NoAddr}
        BY DEF Laid
    <2>2. \A a \in L : e[a] - a >= SizeQ + Hdr
        BY DEF Laid
    <2>3. \A a \in L : bsize'[a] = IF a \in freelist' THEN e[a] - a ELSE a - e[a]
        <3> TAKE a \in L
        <3>1. a \in Addr
            BY LaidFacts
        <3>2. CASE a = b
            BY <1>4, <3>2
        <3>3. CASE a # b
            BY <1>4, <3>1, <3>3 DEF Laid
        <3> QED  BY <3>2, <3>3
    <2>4. \A a \in L : prevfree'[e[a]] = IF a \in freelist' \ {NoAddr} THEN e[a] - a ELSE 0
        <3> TAKE a \in L
        <3>1. e[a] \in Addr
            BY LaidFacts
        <3>2. CASE a = b
            BY <1>5, <3>2
        <3>3. CASE a # b
            BY <1>3, <1>5, <3>1, <3>3 DEF Laid
        <3> QED  BY <3>2, <3>3
    <2>5. \A x \in Addr \ (L \cup {PoolLen}) : bsize'[x] = 0
        BY <1>1, <1>4 DEF Laid
    <2>6. bsize'[PoolLen] = ESent /\ prevfree'[0] = 0
        <3>1. PoolLen \in Addr \ {b} /\ 0 \in Addr \ {e[b]}
            BY <1>2, AddrFacts
        <3> QED  BY <1>4, <1>5, <3>1 DEF Laid
    <2>7. \A a, c \in freelist' : a # NoAddr => e[a] # c
        BY DEF Laid
    <2> QED  BY <1>1, <2>1, <2>2, <2>3, <2>4, <2>5, <2>6, <2>7 DEF Laid
<1>7. Given(L, e)'
    <2>1. PICK A : A = L \ freelist
        OBVIOUS
    <2>2. PICK B : B = A \cup {b}
        OBVIOUS
    <2>3. L \ freelist' = B
        BY <1>1, <2>1, <2>2
    <2>4. owns'[p] = owns[p] \cup {b} /\ \A q \in Proc \ {p} : owns'[q] = owns[q]
        BY DEF PoolType
    <2>5. \A a \in Addr : a \in L \ freelist' <=> \E q \in Proc : a \in owns'[q]
        BY <2>1, <2>2, <2>3, <2>4 DEF Given
    <2>6. \A q \in Proc : b \notin owns[q]
        BY <1>2 DEF Given
    <2>7. \A q, r \in Proc : q # r => owns'[q] \cap owns'[r] = {}
        BY <2>4, <2>6 DEF Given
    <2>8. Cardinality(Used(B, e)) = Cardinality(Used(A, e)) + (e[b] - b)
        <3>1. (\A a \in A : a \in L) /\ b \notin A
            BY <2>1
        <3> QED  BY <1>1, <2>2, <3>1, UsedMore
    <2>9. totalloc' = Cardinality(Used(L \ freelist', e))
        BY <2>1, <2>3, <2>8, Zenon DEF Given
    <2> QED  BY <2>5, <2>7, <2>9, Zenon DEF Given
<1> QED  BY <1>6, <1>7 DEF Shape

\* A block of the process, and the free block before it.
LEMMA OwnedBlock ==
    ASSUME PoolType, NEW p \in Proc, NEW L, NEW e, Laid(L, e, NoAddr), Given(L, e),
           NEW b \in owns[p]
    PROVE  /\ b \in L \ freelist /\ bsize[b] < 0 /\ b - bsize[b] = e[b]
           /\ prevfree[e[b]] = 0 /\ totalloc + bsize[b] >= 0
           /\ prevfree[b] # 0 => /\ b - prevfree[b] \in freelist /\ e[b - prevfree[b]] = b
                                 /\ bsize[b - prevfree[b]] = prevfree[b]
<1>1. b \in Addr /\ b \in L /\ b \notin freelist /\ Tiles(L, e)
    BY DEF Given, Laid, PoolType
<1>2. /\ b \in Int /\ e[b] \in Int /\ b < e[b] /\ bsize[b] = b - e[b]
      /\ e[b] \in Addr
    BY <1>1, LaidFacts
<1>3. prevfree[e[b]] = 0
    BY <1>1 DEF Laid
<1>4. totalloc + bsize[b] >= 0
    <2>1. PICK B : B = L \ freelist
        OBVIOUS
    <2>2. PICK A : A = B \ {b}
        OBVIOUS
    <2>3. B = A \cup {b} /\ b \notin A /\ \A a \in A : a \in L
        BY <1>1, <2>1, <2>2
    <2>4. Cardinality(Used(B, e)) = Cardinality(Used(A, e)) + (e[b] - b)
        BY <1>1, <2>3, UsedMore
    <2>5. Cardinality(Used(A, e)) \in Nat
        BY <1>1, <2>3, UsedFinite
    <2>6. totalloc = Cardinality(Used(A, e)) + (e[b] - b)
        BY <2>1, <2>4, Zenon DEF Given
    <2> QED  BY <1>2, <2>5, <2>6
<1>5. ASSUME prevfree[b] # 0
      PROVE  /\ b - prevfree[b] \in freelist /\ e[b - prevfree[b]] = b
             /\ bsize[b - prevfree[b]] = prevfree[b]
    <2>1. b # 0
        BY <1>5 DEF Laid
    <2>2. PICK a \in L : e[a] = b
        BY <1>1, <2>1, TilesPred
    <2>3. a \in freelist /\ prevfree[b] = e[a] - a
        BY <1>5, <2>2 DEF Laid
    <2>4. a \in Int /\ bsize[a] = e[a] - a
        BY <2>3, LaidFacts
    <2>5. b - prevfree[b] = a
        BY <1>2, <2>2, <2>3, <2>4
    <2> QED  BY <2>2, <2>3, <2>4, <2>5
<1> QED  BY <1>1, <1>2, <1>3, <1>4, <1>5

Released(p, b) == totalloc' = totalloc + bsize[b] /\ owns' = [owns EXCEPT ![p] = @ \ {b}]

\* What a release does to the owners and the total, however the block joins the
\* free ones.
LEMMA ReleaseGiven ==
    ASSUME PoolType, NEW p \in Proc, NEW L, NEW e, Laid(L, e, NoAddr), Given(L, e),
           NEW b \in owns[p], Released(p, b)
    PROVE  \E A : /\ A = (L \ freelist) \ {b}
                  /\ \A a \in Addr : a \in A <=> \E q \in Proc : a \in owns'[q]
                  /\ \A q, r \in Proc : q # r => owns'[q] \cap owns'[r] = {}
                  /\ totalloc' = Cardinality(Used(A, e))
<1> PICK A : A = (L \ freelist) \ {b}
    OBVIOUS
<1>0. totalloc' = totalloc + bsize[b] /\ owns' = [owns EXCEPT ![p] = @ \ {b}]
    BY DEF Released
<1>1. b \in L \ freelist /\ bsize[b] < 0 /\ b - bsize[b] = e[b]
    BY OwnedBlock
<1>2. b \in Int /\ e[b] \in Int /\ bsize[b] = b - e[b] /\ Tiles(L, e)
    <2>1. Tiles(L, e)
        BY DEF Laid
    <2> QED  BY <1>1, <2>1, LaidFacts
<1>3. owns'[p] = owns[p] \ {b} /\ \A q \in Proc \ {p} : owns'[q] = owns[q]
    BY <1>0 DEF PoolType
<1>4. \A q \in Proc \ {p} : b \notin owns[q]
    BY DEF Given
<1>5. \A a \in Addr : a \in A <=> \E q \in Proc : a \in owns'[q]
    <2> TAKE a \in Addr
    <2>1. a \in L \ freelist <=> \E q \in Proc : a \in owns[q]
        BY DEF Given
    <2> QED  BY <1>3, <1>4, <2>1
<1>6. \A q, r \in Proc : q # r => owns'[q] \cap owns'[r] = {}
    BY <1>3 DEF Given
<1>7. totalloc' = Cardinality(Used(A, e))
    <2>1. PICK B : B = L \ freelist
        OBVIOUS
    <2>2. B = A \cup {b} /\ b \notin A /\ \A a \in A : a \in L
        BY <1>1, <2>1
    <2>3. Cardinality(Used(B, e)) = Cardinality(Used(A, e)) + (e[b] - b)
        BY <1>1, <1>2, <2>2, UsedMore
    <2>4. PICK u \in Nat : u = Cardinality(Used(A, e))
        BY <1>2, <2>2, UsedFinite
    <2>5. totalloc = u + (e[b] - b)
        BY <2>1, <2>3, <2>4, Zenon DEF Given
    <2>6. totalloc' = u
        BY <1>0, <1>2, <2>5
    <2> QED  BY <2>4, <2>6, Zenon
<1> QED  BY <1>5, <1>6, <1>7, Zenon

\* A released block with no free block before it is put on the free list.
LEMMA InsertShape ==
    ASSUME PoolType, NEW p \in Proc, NEW L, NEW e, Laid(L, e, NoAddr), Given(L, e),
           NEW b \in owns[p], prevfree[b] = 0,
           bsize'    = [bsize EXCEPT ![b] = -@], prevfree' = prevfree,
           freelist' = freelist \cup {b}, Released(p, b)
    PROVE  Shape(b)'
<1>1. b \in L /\ b \notin freelist /\ b - bsize[b] = e[b] /\ prevfree[e[b]] = 0 /\ Tiles(L, e)
    BY OwnedBlock DEF Laid
<1>2. /\ b \in Addr /\ b \in Int /\ e[b] \in Int /\ b < e[b] /\ bsize[b] = b - e[b]
      /\ b < PoolLen
    BY <1>1, LaidFacts
<1>3. bsize'[b] = e[b] - b /\ \A x \in Addr \ {b} : bsize'[x] = bsize[x]
    BY <1>2 DEF PoolType
<1>4. Laid(L, e, b)'
    <2>1. freelist' \subseteq L /\ b \in freelist' \cup {NoAddr}
        BY <1>1 DEF Laid
    <2>2. \A a \in L : e[a] - a >= SizeQ + Hdr
        BY DEF Laid
    <2>3. \A a \in L : bsize'[a] = IF a \in freelist' THEN e[a] - a ELSE a - e[a]
        <3> TAKE a \in L
        <3>1. a \in Addr
            BY LaidFacts
        <3>2. CASE a = b
            BY <1>3, <3>2
        <3>3. CASE a # b
            BY <1>3, <3>1, <3>3 DEF Laid
        <3> QED  BY <3>2, <3>3
    <2>4. \A a \in L : prevfree'[e[a]] = IF a \in freelist' \ {b} THEN e[a] - a ELSE 0
        <3> TAKE a \in L
        <3>1. NoAddr \notin freelist
            BY AddrFacts DEF Laid, Tiles
        <3>2. prevfree[e[a]] = IF a \in freelist THEN e[a] - a ELSE 0
            BY <3>1 DEF Laid
        <3> QED  BY <1>1, <3>2
    <2>5. \A x \in Addr \ (L \cup {PoolLen}) : bsize'[x] = 0
        BY <1>1, <1>3 DEF Laid
    <2>6. bsize'[PoolLen] = ESent /\ prevfree'[0] = 0
        <3>1. PoolLen \in Addr \ {b}
            BY <1>2, AddrFacts
        <3> QED  BY <1>3, <3>1 DEF Laid
    <2>7. \A a, c \in freelist' : a # b => e[a] # c
        <3> SUFFICES ASSUME NEW a \in freelist, NEW c \in freelist', a # b, e[a] = c
                     PROVE  FALSE
            OBVIOUS
        <3>1. a # NoAddr /\ a \in L
            BY AddrFacts DEF Laid, Tiles
        <3>2. c = b
            BY <3>1 DEF Laid
        <3>3. prevfree[b] = e[a] - a
            BY <3>1, <3>2 DEF Laid
        <3>4. a \in Int /\ e[a] \in Int /\ a < e[a]
            BY <3>1, LaidFacts
        <3> QED  BY <3>3, <3>4
    <2> QED  BY <1>1, <2>1, <2>2, <2>3, <2>4, <2>5, <2>6, <2>7 DEF Laid
<1>5. Given(L, e)'
    <2>1. PICK A : /\ A = (L \ freelist) \ {b}
                   /\ \A a \in Addr : a \in A <=> \E q \in Proc : a \in owns'[q]
                   /\ \A q, r \in Proc : q # r => owns'[q] \cap owns'[r] = {}
                   /\ totalloc' = Cardinality(Used(A, e))
        BY ReleaseGiven
    <2>2. L \ freelist' = A
        BY <2>1
    <2> QED  BY <2>1, <2>2, Zenon DEF Given
<1> QED  BY <1>4, <1>5 DEF Shape

\* A released block is joined to the free block before it; its own header is stale.
LEMMA JoinShape ==
    ASSUME PoolType, NEW p \in Proc, NEW L, NEW e, Laid(L, e, NoAddr), Given(L, e),
           NEW b \in owns[p], prevfree[b] # 0, NEW m, m = b - prevfree[b],
           bsize'    = [bsize EXCEPT ![m] = @ - bsize[b]], prevfree' = prevfree,
           freelist' = freelist, Released(p, b)
    PROVE  Shape(m)'
<1>1. /\ b \in L /\ b \notin freelist /\ b - bsize[b] = e[b] /\ prevfree[e[b]] = 0
      /\ m \in freelist /\ e[m] = b
    BY OwnedBlock
<1>2. m \in L /\ Tiles(L, e)
    BY <1>1 DEF Laid
<1>3. /\ b \in Addr /\ b \in Int /\ e[b] \in Int /\ b < e[b] /\ bsize[b] = b - e[b]
      /\ 16 <= e[b] - b
    BY <1>1, LaidFacts
<1>4. /\ m \in Addr /\ m \in Int /\ m < b /\ bsize[m] = b - m /\ m < PoolLen
      /\ 16 <= b - m
    BY <1>1, <1>2, LaidFacts
<1>5. bsize'[m] = e[b] - m /\ \A x \in Addr \ {m} : bsize'[x] = bsize[x]
    BY <1>3, <1>4 DEF PoolType
<1> PICK M : M = L \ {b}
    OBVIOUS
<1>5a. PICK f : f = [a \in M |-> IF a = m THEN e[b] ELSE e[a]]
    OBVIOUS
<1>6. Tiles(M, f)
    BY <1>1, <1>2, <1>5a, TilesMerge
<1>7. m \in M /\ f[m] = e[b] /\ \A a \in M \ {m} : f[a] = e[a]
    BY <1>2, <1>3, <1>4, <1>5a
<1>8. NoAddr \notin freelist
    BY AddrFacts DEF Laid, Tiles
<1>9. Laid(M, f, m)'
    <2>1. freelist' \subseteq M /\ m \in freelist' \cup {NoAddr}
        BY <1>1 DEF Laid
    <2>2. \A a \in M : f[a] - a >= SizeQ + Hdr
        <3> TAKE a \in M
        <3>1. CASE a = m
            BY <1>3, <1>4, <1>7, <3>1 DEF SizeQ, Hdr
        <3>2. CASE a # m
            BY <1>7, <3>2 DEF Laid
        <3> QED  BY <3>1, <3>2
    <2>3. \A a \in M : bsize'[a] = IF a \in freelist' THEN f[a] - a ELSE a - f[a]
        <3> TAKE a \in M
        <3>1. a \in Addr /\ a \in L
            BY LaidFacts
        <3>2. CASE a = m
            BY <1>1, <1>5, <1>7, <3>2
        <3>3. CASE a # m
            BY <1>5, <1>7, <3>1, <3>3 DEF Laid
        <3> QED  BY <3>2, <3>3
    <2>4. \A a \in M : prevfree'[f[a]] = IF a \in freelist' \ {m} THEN f[a] - a ELSE 0
        <3> TAKE a \in M
        <3>1. CASE a = m
            BY <1>1, <1>7, <3>1
        <3>2. CASE a # m
            <4>1. prevfree[e[a]] = IF a \in freelist THEN e[a] - a ELSE 0
                BY <1>8 DEF Laid
            <4> QED  BY <1>7, <3>2, <4>1
        <3> QED  BY <3>1, <3>2
    <2>5. \A x \in Addr \ (M \cup {PoolLen}) : bsize'[x] # 0 => m # NoAddr /\ m < x /\ x < f[m]
        <3> TAKE x \in Addr \ (M \cup {PoolLen})
        <3>1. CASE x = b
            BY <1>1, <1>3, <1>4, <1>7, <1>8, <3>1
        <3>2. CASE x # b
            <4>1. bsize'[x] = bsize[x] /\ x \notin L
                BY <1>5, <1>7, <3>2
            <4> QED  BY <4>1 DEF Laid
        <3> QED  BY <3>1, <3>2
    <2>6. bsize'[PoolLen] = ESent /\ prevfree'[0] = 0
        <3>1. PoolLen \in Addr \ {m}
            BY <1>4, AddrFacts
        <3> QED  BY <1>5, <3>1 DEF Laid
    <2>7. \A a, c \in freelist' : a # m => f[a] # c
        BY <1>7, <1>8, <2>1 DEF Laid
    <2> QED  BY <1>6, <2>1, <2>2, <2>3, <2>4, <2>5, <2>6, <2>7 DEF Laid
<1>10. Given(M, f)'
    <2>1. PICK A : /\ A = (L \ freelist) \ {b}
                   /\ \A a \in Addr : a \in A <=> \E q \in Proc : a \in owns'[q]
                   /\ \A q, r \in Proc : q # r => owns'[q] \cap owns'[r] = {}
                   /\ totalloc' = Cardinality(Used(A, e))
        BY ReleaseGiven
    <2>2. M \ freelist' = A /\ \A a \in A : f[a] = e[a]
        BY <1>1, <1>7, <2>1
    <2>3. Used(A, e) = Used(A, f)
        BY <2>2, UsedSame
    <2> QED  BY <2>1, <2>2, <2>3, Zenon DEF Given
<1> QED  BY <1>9, <1>10 DEF Shape

\* The block behind the one released: where the merge ends, and the assertions.
LEMMA BehindBlock ==
    ASSUME PoolType, NEW L, NEW e, NEW m \in freelist, Laid(L, e, m)
    PROVE  /\ m \in L /\ After(m) = e[m]
           /\ bsize[e[m]] > 0 => /\ e[m] \in freelist /\ After(e[m]) = e[e[m]]
                                 /\ prevfree[e[e[m]]] = bsize[e[m]]
           /\ e[m] \in freelist => bsize[e[m]] > 0
           /\ MergedEnd(m) \in Addr /\ bsize[MergedEnd(m)] < 0
<1>1. m \in L /\ Tiles(L, e)
    BY DEF Laid
<1>2. /\ m \in Int /\ e[m] \in Addr /\ e[m] \in Int /\ m < e[m] /\ bsize[m] = e[m] - m
      /\ e[m] \in L \cup {PoolLen}
    BY <1>1, LaidFacts
<1>3. After(m) = e[m]
    BY <1>2 DEF After
<1>4. ESent < 0 /\ bsize[PoolLen] = ESent
    BY DEF Laid, ESent
<1>5. \A a \in L : /\ a \in freelist <=> bsize[a] > 0
                   /\ a \notin freelist <=> bsize[a] < 0
    <2> TAKE a \in L
    <2>1. /\ a \in Int /\ e[a] \in Int /\ a < e[a]
          /\ a \in freelist => bsize[a] = e[a] - a
          /\ a \notin freelist => bsize[a] = a - e[a]
        BY LaidFacts
    <2> QED  BY <2>1
<1>6. CASE e[m] \in freelist
    <2> PICK b : b = e[m]
        OBVIOUS
    <2>1. b \in L /\ b \in freelist /\ b # m
        BY <1>2, <1>6 DEF Laid
    <2>2. /\ b \in Int /\ e[b] \in Int /\ e[b] \in Addr /\ bsize[b] = e[b] - b
          /\ e[b] \in L \cup {PoolLen} /\ b < e[b]
        BY <2>1, LaidFacts
    <2>3. After(b) = e[b]
        BY <2>2 DEF After
    <2>4. prevfree[e[b]] = bsize[b]
        BY <2>1, <2>2 DEF Laid
    <2>5. MergedEnd(m) = e[b]
        BY <1>3, <2>2, <2>3 DEF MergedEnd
    <2>6. e[b] \notin freelist
        BY <2>1 DEF Laid
    <2>7. bsize[e[b]] < 0
        BY <1>4, <1>5, <2>2, <2>6
    <2> QED  BY <1>1, <1>3, <1>6, <2>1, <2>2, <2>3, <2>4, <2>5, <2>7
<1>7. CASE e[m] \notin freelist
    <2>1. bsize[e[m]] < 0
        BY <1>2, <1>4, <1>5, <1>7
    <2>2. ~(bsize[e[m]] > 0)
        BY <1>2, <2>1 DEF PoolType
    <2>3. MergedEnd(m) = e[m]
        BY <1>3, <2>2 DEF MergedEnd
    <2> QED  BY <1>1, <1>2, <1>3, <1>7, <2>1, <2>2, <2>3
<1> QED  BY <1>6, <1>7

\* A released block and the free block behind it become one, and what was a header
\* inside it is wiped.
LEMMA MergeShape ==
    ASSUME PoolType, NEW L, NEW e, NEW m \in freelist, Laid(L, e, m), Given(L, e),
           NEW end, end = MergedEnd(m),
           bsize'    = [a \in Addr |-> IF m < a /\ a < end THEN 0
                                       ELSE IF a = m THEN end - m ELSE bsize[a]],
           prevfree' = [a \in Addr |-> IF m < a /\ a < end THEN 0
                                       ELSE IF a = end THEN end - m ELSE prevfree[a]],
           freelist' = freelist \ {e[m]}, totalloc' = totalloc, owns' = owns
    PROVE  Shape(NoAddr)'
<1> PICK b : b = e[m]
    OBVIOUS
<1>1. /\ m \in L /\ After(m) = b
      /\ bsize[b] > 0 => b \in freelist /\ After(b) = e[b]
      /\ b \in freelist => bsize[b] > 0
      /\ end \in Addr
    BY BehindBlock
<1>2. Tiles(L, e) /\ freelist \subseteq L /\ b \in L \cup {PoolLen}
    <2>1. Tiles(L, e) /\ freelist \subseteq L
        BY DEF Laid
    <2> QED  BY <1>1, <2>1, LaidFacts
<1>3. /\ m \in Addr /\ m \in Int /\ b \in Addr /\ b \in Int /\ m < b /\ bsize[m] = b - m
      /\ m < PoolLen /\ b <= PoolLen /\ 16 <= b - m /\ 0 <= m
    BY <1>1, LaidFacts
<1> PICK M : M = IF b \in freelist THEN L \ {b} ELSE L
    OBVIOUS
<1> PICK f : f = IF b \in freelist THEN [a \in M |-> IF a = m THEN e[b] ELSE e[a]] ELSE e
    OBVIOUS
<1>4. end = IF b \in freelist THEN e[b] ELSE b
    BY <1>1 DEF MergedEnd
<1>5. Tiles(M, f)
    <2>1. CASE b \in freelist
        BY <1>1, <1>2, <2>1, TilesMerge
    <2>2. CASE b \notin freelist
        BY <1>2, <2>2
    <2> QED  BY <2>1, <2>2
<1>6. m \in M /\ f[m] = end /\ \A a \in M \ {m} : f[a] = e[a]
    BY <1>1, <1>3, <1>4
<1>7. /\ end \in Int /\ b <= end /\ end <= PoolLen /\ end \in M \cup {PoolLen}
      /\ end \notin freelist
    <2>1. CASE b \in freelist
        <3>1. /\ e[b] \in Int /\ b < e[b] /\ e[b] \in L \cup {PoolLen} /\ e[b] <= PoolLen
            BY <1>2, <2>1, LaidFacts
        <3>2. e[b] \notin freelist
            BY <1>3, <2>1 DEF Laid
        <3> QED  BY <1>3, <1>4, <2>1, <3>1, <3>2
    <2>2. CASE b \notin freelist
        BY <1>2, <1>3, <1>4, <2>2
    <2> QED  BY <2>1, <2>2
\* No block starts inside the merged one, and only the merged one ends with it.
<1>8. \A a \in M \ {m} : a \in Addr /\ ~(m < a /\ a < end)
    <2> SUFFICES ASSUME NEW a \in M \ {m} PROVE a \in Addr /\ ~(m < a /\ a < end)
        OBVIOUS
    <2>1. f[a] <= m \/ f[m] <= a
        BY <1>5, <1>6, TilesApart
    <2>2. a \in Int /\ f[a] \in Int /\ a < f[a] /\ a \in Addr
        BY <1>5, AddrFacts DEF Tiles
    <2> QED  BY <1>3, <1>6, <1>7, <2>1, <2>2
<1>9. \A a \in M \ {m} : /\ e[a] \in Addr /\ ~(m < e[a] /\ e[a] < end) /\ e[a] # end
    <2> SUFFICES ASSUME NEW a \in M \ {m}
                 PROVE  e[a] \in Addr /\ ~(m < e[a] /\ e[a] < end) /\ e[a] # end
        OBVIOUS
    <2>1. f[a] # f[m]
        BY <1>5, <1>6, TilesApart
    <2>2. f[a] \in M \cup {PoolLen} /\ f[a] \in Addr
        BY <1>5 DEF Tiles
    <2>3. ~(m < f[a] /\ f[a] < end)
        <3>1. CASE f[a] = PoolLen
            BY <1>3, <1>7, <3>1, AddrFacts
        <3>2. CASE f[a] = m
            BY <1>3, <3>2
        <3>3. CASE f[a] \in M \ {m}
            BY <1>8, <3>3
        <3> QED  BY <2>2, <3>1, <3>2, <3>3
    <2> QED  BY <1>6, <2>1, <2>2, <2>3
<1>10. bsize'[m] = end - m /\ \A a \in M \ {m} : bsize'[a] = bsize[a]
    BY <1>3, <1>8
<1>11. prevfree'[end] = end - m /\ \A a \in M \ {m} : prevfree'[e[a]] = prevfree[e[a]]
    BY <1>1, <1>7, <1>9
<1>12. NoAddr \notin freelist
    BY <1>2, AddrFacts DEF Tiles
<1>13. Laid(M, f, NoAddr)'
    <2>1. freelist' \subseteq M /\ NoAddr \in freelist' \cup {NoAddr}
        BY <1>2
    <2>2. \A a \in M : f[a] - a >= SizeQ + Hdr
        <3> TAKE a \in M
        <3>1. CASE a = m
            BY <1>3, <1>6, <1>7, <3>1 DEF SizeQ, Hdr
        <3>2. CASE a # m
            BY <1>6, <3>2 DEF Laid
        <3> QED  BY <3>1, <3>2
    <2>3. \A a \in M : bsize'[a] = IF a \in freelist' THEN f[a] - a ELSE a - f[a]
        <3> TAKE a \in M
        <3>1. CASE a = m
            BY <1>3, <1>6, <1>10, <3>1
        <3>2. CASE a # m
            <4>1. a \in L /\ (a \in freelist' <=> a \in freelist)
                BY <1>2
            <4> QED  BY <1>6, <1>10, <3>2, <4>1 DEF Laid
        <3> QED  BY <3>1, <3>2
    <2>4. \A a \in M : prevfree'[f[a]] = IF a \in freelist' \ {NoAddr} THEN f[a] - a ELSE 0
        <3> TAKE a \in M
        <3>1. CASE a = m
            BY <1>3, <1>6, <1>11, <1>12, <3>1
        <3>2. CASE a # m
            <4>1. a \in L /\ (a \in freelist' <=> a \in freelist)
                BY <1>2
            <4>2. prevfree[e[a]] = IF a \in freelist THEN e[a] - a ELSE 0
                BY <3>2, <4>1 DEF Laid
            <4> QED  BY <1>6, <1>11, <1>12, <3>2, <4>1, <4>2
        <3> QED  BY <3>1, <3>2
    <2>5. \A x \in Addr \ (M \cup {PoolLen}) : bsize'[x] = 0
        <3> TAKE x \in Addr \ (M \cup {PoolLen})
        <3>1. x # m /\ x \in Int
            BY <1>6, AddrFacts
        <3>2. CASE m < x /\ x < end
            BY <3>2
        <3>3. CASE ~(m < x /\ x < end)
            <4>1. bsize'[x] = bsize[x]
                BY <3>1, <3>3
            <4>2. x \notin L
                BY <1>3, <1>4, <1>7, <3>3
            <4>3. bsize[x] # 0 => m < x /\ x < b
                BY <4>2 DEF Laid
            <4> QED  BY <1>3, <1>7, <3>1, <3>3, <4>1, <4>3
        <3> QED  BY <3>2, <3>3
    <2>6. bsize'[PoolLen] = ESent /\ prevfree'[0] = 0
        <3>1. PoolLen \in Addr /\ 0 \in Addr /\ ~(PoolLen < end) /\ PoolLen # m /\ ~(m < 0)
              /\ 0 # end
            BY <1>3, <1>7, AddrFacts
        <3> QED  BY <3>1 DEF Laid
    <2>7. \A a, c \in freelist' : a # NoAddr => f[a] # c
        <3> SUFFICES ASSUME NEW a \in freelist', NEW c \in freelist' PROVE f[a] # c
            OBVIOUS
        <3>1. CASE a = m
            BY <1>6, <1>7, <3>1
        <3>2. CASE a # m
            BY <1>6, <2>1, <3>2 DEF Laid
        <3> QED  BY <3>1, <3>2
    <2> QED  BY <1>5, <2>1, <2>2, <2>3, <2>4, <2>5, <2>6, <2>7 DEF Laid
<1>14. Given(M, f)'
    <2>1. PICK A : A = L \ freelist
        OBVIOUS
    <2>2. M \ freelist' = A
        BY <1>2, <2>1
    <2>3. \A a \in A : f[a] = e[a]
        BY <1>6, <2>1, <2>2
    <2>4. Used(A, f) = Used(A, e)
        BY <2>3, UsedSame
    <2>5. totalloc' = Cardinality(Used(M \ freelist', f))
        BY <2>1, <2>2, <2>4, Zenon DEF Given
    <2>6. \A a \in Addr : a \in M \ freelist' <=> \E q \in Proc : a \in owns'[q]
        BY <2>1, <2>2 DEF Given
    <2>7. \A q, r \in Proc : q # r => owns'[q] \cap owns'[r] = {}
        BY DEF Given
    <2> QED  BY <2>5, <2>6, <2>7, Zenon DEF Given
<1> QED  BY <1>13, <1>14 DEF Shape

----------------------------------------------------------------------------
\* Where a call is, it works with a size and with addresses.

CallType ==
    /\ fn \in [Proc -> {"bget", "bgetr", "brel"}] /\ size \in [Proc -> Nat]
    /\ blk \in [Proc -> Addr \cup {NoAddr}] /\ old \in [Proc -> Addr \cup {NoAddr}]

HistoryType == interrupts \in 0..MaxInterrupt /\ torn \in BOOLEAN

At(p) ==
    /\ pc[p] \in {"scan", "carve"} => fn[p] # "brel"
    /\ pc[p] \in {"merge_prev", "merge_next"} => fn[p] = "brel"
    /\ pc[p] \in {"down", "scan", "carve", "up"} /\ fn[p] # "brel" => size[p] \in Sizes
    /\ pc[p] \in {"down", "merge_prev", "merge_next"} /\ fn[p] = "brel" => blk[p] \in Addr
    /\ pc[p] = "carve" => blk[p] \in Addr
    /\ pc[p] \in {"down", "scan", "carve", "up"} /\ fn[p] = "bgetr" => old[p] \in Addr

PlaceInv == \A p \in Proc : At(p)

\* One process at a time.
ProcStep(p) ==
    \/ Bget(p) \/ Bgetr(p) \/ Brel(p)
    \/ SemDown(p) \/ SemDownInterrupted(p)
    \/ Step(p)
    \/ Kill(p)

\* The type invariant, part by part.
LEMMA TypeParts == TypeOK <=> PoolType /\ LockType /\ CallType /\ HistoryType
BY BoundAssumption DEF TypeOK, PoolType, LockType, CallType, HistoryType, Places

\* What bget() makes of a request is a multiple of the quantum with room for links and header.
LEMMA RoundedSizes ==
    ASSUME NEW s \in Nat
    PROVE  Rounded(s) \in Sizes
BY DEF Rounded, Sizes, SizeQuant, SizeQ, Hdr

\* What a step leaves of the other processes, and what it does with the pool.
OthersKept(p) ==
    \A q \in Proc \ {p} : /\ pc'[q] = pc[q] /\ fn'[q] = fn[q] /\ size'[q] = size[q]
                          /\ blk'[q] = blk[q] /\ old'[q] = old[q] /\ owns'[q] = owns[q]

\* A call begins with the sizes and the buffers it was given.
LEMMA CallKeeps ==
    ASSUME TypeOK, NEW p \in Proc, Bget(p) \/ Bgetr(p) \/ Brel(p)
    PROVE  /\ OthersKept(p) /\ CallType' /\ UNCHANGED <<poolVars, owns, faults>> /\ At(p)'
           /\ pc[p] = "idle" /\ pc'[p] = "down"
           /\ fn'[p] = "brel" => blk'[p] \in owns[p]
           /\ fn'[p] = "bgetr" => old'[p] \in owns[p]
<1>1. /\ pc \in [Proc -> Places] /\ owns \in [Proc -> SUBSET Addr] /\ CallType
    BY TypeParts DEF LockType, PoolType
<1>2. PICK f \in {"bget", "bgetr", "brel"}, s \in Nat, b \in Addr \cup {NoAddr},
           o \in Addr \cup {NoAddr} :
        /\ Call(p, f, s, b, o)
        /\ f = "brel" => b \in owns[p]
        /\ f # "brel" => s \in Sizes
        /\ f = "bgetr" => o \in owns[p]
    <2>1. \A s \in Request[p] : Rounded(s) \in Sizes /\ Rounded(s) \in Nat
        BY RequestAssumption, RoundedSizes DEF Sizes
    <2>2. CASE Bget(p)
        <3>1. PICK s \in Request[p] : Call(p, "bget", Rounded(s), NoAddr, NoAddr)
            BY <2>2 DEF Bget
        <3> QED  BY <2>1, <3>1
    <2>3. CASE Bgetr(p)
        <3>1. PICK s \in Request[p], b \in owns[p] : Call(p, "bgetr", Rounded(s), NoAddr, b)
            BY <2>3 DEF Bgetr
        <3> QED  BY <1>1, <2>1, <3>1
    <2>4. CASE Brel(p)
        <3>1. PICK b \in owns[p] : Call(p, "brel", 0, b, NoAddr)
            BY <2>4 DEF Brel
        <3> QED  BY <1>1, <3>1
    <2> QED  BY <2>2, <2>3, <2>4
<1>3. /\ pc[p] = "idle"
      /\ pc' = [pc EXCEPT ![p] = "down"] /\ fn' = [fn EXCEPT ![p] = f]
      /\ size' = [size EXCEPT ![p] = s] /\ blk' = [blk EXCEPT ![p] = b]
      /\ old' = [old EXCEPT ![p] = o] /\ UNCHANGED <<poolVars, owns, faults>>
    BY <1>2 DEF Call
<1>4. /\ pc'[p] = "down" /\ fn'[p] = f /\ size'[p] = s /\ blk'[p] = b /\ old'[p] = o
    BY <1>1, <1>3 DEF CallType
<1>5. At(p)'
    BY <1>1, <1>2, <1>4 DEF At
<1>6. CallType'
    BY <1>1, <1>2, <1>3 DEF CallType
<1>7. OthersKept(p)
    BY <1>1, <1>3 DEF OthersKept, CallType
<1> QED  BY <1>2, <1>3, <1>4, <1>5, <1>6, <1>7

\* BGET_SEMDOWN leads to the scan or to the first merge.
LEMMA EnterKeeps ==
    ASSUME TypeOK, NEW p \in Proc, At(p), SemDown(p) \/ SemDownInterrupted(p)
    PROVE  /\ OthersKept(p) /\ CallType' /\ UNCHANGED <<poolVars, callVars, blk, owns>> /\ At(p)'
           /\ pc[p] = "down" /\ pc'[p] = IF fn[p] = "brel" THEN "merge_prev" ELSE "scan"
<1>1. /\ pc \in [Proc -> Places] /\ CallType
    BY TypeParts DEF LockType
<1>2. Enter(p) /\ pc[p] = "down"
    BY DEF SemDown, SemDownIf, SemDownInterrupted
<1>3. /\ pc' = [pc EXCEPT ![p] = IF fn[p] = "brel" THEN "merge_prev" ELSE "scan"]
      /\ UNCHANGED <<poolVars, callVars, blk, owns>>
    BY <1>2 DEF Enter
<1>4. pc'[p] = IF fn[p] = "brel" THEN "merge_prev" ELSE "scan"
    BY <1>1, <1>3
<1>5. At(p)'
    BY <1>2, <1>3, <1>4 DEF At, callVars
<1>6. CallType' /\ OthersKept(p)
    BY <1>1, <1>3 DEF CallType, OthersKept, callVars
<1> QED  BY <1>2, <1>3, <1>4, <1>5, <1>6

\* BGET_SEMUP ends the call, or leads bgetr() to the release of the old buffer.
LEMMA UpKeeps ==
    ASSUME TypeOK, NEW p \in Proc, At(p), SemUp(p)
    PROVE  /\ OthersKept(p) /\ CallType' /\ UNCHANGED <<poolVars, owns, faults>> /\ At(p)'
           /\ pc[p] = "up" /\ pc'[p] \in {"idle", "down"}
           /\ pc'[p] = "down" => fn[p] = "bgetr" /\ fn'[p] = "brel" /\ blk'[p] = old[p]
<1>1. /\ pc \in [Proc -> Places] /\ CallType
    BY TypeParts DEF LockType
<1>2. pc[p] = "up" /\ Return(p) /\ UNCHANGED <<poolVars, owns, faults>>
    BY DEF SemUp
<1>3. CASE fn[p] = "bgetr" /\ blk[p] # NoAddr
    <2>1. /\ pc' = [pc EXCEPT ![p] = "down"] /\ fn' = [fn EXCEPT ![p] = "brel"]
          /\ blk' = [blk EXCEPT ![p] = old[p]] /\ UNCHANGED <<size, old>>
        BY <1>2, <1>3 DEF Return
    <2>2. pc'[p] = "down" /\ fn'[p] = "brel" /\ blk'[p] = old[p]
        BY <1>1, <2>1 DEF CallType
    <2>3. At(p)'
        BY <1>2, <1>3, <2>2 DEF At
    <2>4. CallType'
        BY <1>1, <2>1 DEF CallType
    <2>5. OthersKept(p)
        BY <1>1, <1>2, <2>1 DEF CallType, OthersKept
    <2> QED  BY <1>2, <1>3, <2>2, <2>3, <2>4, <2>5
<1>4. CASE ~(fn[p] = "bgetr" /\ blk[p] # NoAddr)
    <2>1. /\ pc' = [pc EXCEPT ![p] = "idle"] /\ blk' = [blk EXCEPT ![p] = NoAddr]
          /\ size' = [size EXCEPT ![p] = 0] /\ old' = [old EXCEPT ![p] = NoAddr]
          /\ UNCHANGED fn
        BY <1>2, <1>4 DEF Return
    <2>2. pc'[p] = "idle"
        BY <1>1, <2>1
    <2>3. At(p)'
        BY <2>2 DEF At
    <2>4. CallType'
        BY <1>1, <2>1 DEF CallType
    <2>5. OthersKept(p)
        BY <1>1, <1>2, <2>1 DEF CallType, OthersKept
    <2> QED  BY <1>2, <2>2, <2>3, <2>4, <2>5
<1> QED  BY <1>3, <1>4

\* A process that ends leaves the pool as it is.
LEMMA EndKeeps ==
    ASSUME TypeOK, NEW p \in Proc, NEW how \in {"aborted", "killed"}, Ends(p, how)
    PROVE  /\ OthersKept(p) /\ CallType' /\ UNCHANGED <<poolVars, callVars, blk, owns>> /\ At(p)'
           /\ pc'[p] = how
<1>1. /\ pc \in [Proc -> Places] /\ CallType
    BY TypeParts DEF LockType
<1>2. /\ pc' = [pc EXCEPT ![p] = how]
      /\ UNCHANGED <<poolVars, callVars, blk, owns>>
    BY DEF Ends, EndsAdjusted
<1>3. pc'[p] = how
    BY <1>1, <1>2
<1>4. At(p)'
    BY <1>3 DEF At
<1>5. CallType' /\ OthersKept(p)
    BY <1>1, <1>2 DEF CallType, OthersKept, callVars
<1> QED  BY <1>2, <1>3, <1>4, <1>5

\* The scan leaves the pool as it is.
LEMMA FoundKeeps ==
    ASSUME TypeOK, NEW p \in Proc, At(p), pc[p] \in {"scan", "carve"},
           NEW b \in Addr \cup {NoAddr}, Found(p, b)
    PROVE  /\ OthersKept(p) /\ CallType' /\ UNCHANGED <<poolVars, callVars, owns, faults>> /\ At(p)'
           /\ pc'[p] = IF b = NoAddr THEN "up" ELSE "carve"
           /\ blk'[p] = b
<1>1. /\ pc \in [Proc -> Places] /\ CallType
    BY TypeParts DEF LockType
<1>2. /\ pc' = [pc EXCEPT ![p] = IF b = NoAddr THEN "up" ELSE "carve"]
      /\ blk' = [blk EXCEPT ![p] = b] /\ UNCHANGED <<poolVars, callVars, owns, faults>>
    BY DEF Found
<1>3. pc'[p] = (IF b = NoAddr THEN "up" ELSE "carve") /\ blk'[p] = b
    BY <1>1, <1>2 DEF CallType
<1>4. fn'[p] = fn[p] /\ size'[p] = size[p] /\ old'[p] = old[p]
    BY <1>2 DEF callVars
<1>5. At(p)'
    BY <1>3, <1>4 DEF At
<1>6. CallType' /\ OthersKept(p)
    BY <1>1, <1>2 DEF CallType, OthersKept, callVars
<1> QED  BY <1>2, <1>3, <1>5, <1>6

\* The carving takes the end of the block found, or the whole of it.
LEMMA CarveKeeps ==
    ASSUME TypeOK, NEW p \in Proc, At(p), CarveSplit(p) \/ CarveWhole(p)
    PROVE  /\ OthersKept(p) /\ CallType' /\ PoolType' /\ UNCHANGED <<callVars, faults>> /\ At(p)'
           /\ pc[p] = "carve" /\ pc'[p] = "up"
           /\ blk'[p] \in Addr /\ owns'[p] = owns[p] \cup {blk'[p]}
<1>1. /\ pc \in [Proc -> Places] /\ CallType /\ PoolType
    BY TypeParts DEF LockType
<1>2. pc[p] = "carve" /\ Rest(p) >= 0 /\ CarveAsserts(p) /\ blk[p] \in Addr /\ size[p] \in Sizes
    BY DEF At, CarveSplit, CarveSplitLinked, CarveWhole
<1> PICK b \in Addr : b = blk[p]
    BY <1>2
<1> PICK bn : bn = b + bsize[b]
    OBVIOUS
<1> PICK ba : ba = b + Rest(p)
    OBVIOUS
<1>3. bn \in Addr /\ bsize[b] \in Int /\ size[p] \in Nat /\ b \in Int /\ 0 <= b
    BY <1>1, <1>2, AddrFacts DEF PoolType, CarveAsserts, Sizes
<1>4. Rest(p) = bsize[b] - size[p] /\ ba = bn - size[p] /\ Rest(p) \in Int
    BY <1>3 DEF Rest
<1>5. ba \in Addr
    <2>1. size[p] <= bn
        BY <1>2, <1>3, <1>4
    <2>2. size[p] % SizeQuant = 0
        BY <1>2 DEF Sizes
    <2> QED  BY <1>3, <1>4, <2>1, <2>2, AddrBack
<1>6. PICK c \in {b, ba}, n \in Int : Carved(p, c, n)
    <2>1. CASE CarveSplit(p)
        BY <1>3, <2>1 DEF CarveSplit, CarveSplitLinked
    <2>2. CASE CarveWhole(p)
        BY <1>3, <2>2 DEF CarveWhole
    <2> QED  BY <2>1, <2>2
<1>7. /\ totalloc' = totalloc + n /\ blk' = [blk EXCEPT ![p] = c]
      /\ owns' = [owns EXCEPT ![p] = @ \cup {c}] /\ pc' = [pc EXCEPT ![p] = "up"]
      /\ UNCHANGED <<callVars, faults>>
    BY <1>6 DEF Carved
<1>8. c \in Addr
    BY <1>5
<1>9. PoolType'
    <2>1. bsize' \in [Addr -> Int] /\ prevfree' \in [Addr -> Int] /\ freelist' \subseteq Addr
        <3>1. CASE CarveSplit(p)
            <4>1. /\ bsize' = [bsize EXCEPT ![b] = Rest(p), ![ba] = -size[p]]
                  /\ prevfree' = [prevfree EXCEPT ![ba] = Rest(p), ![bn] = 0]
                  /\ UNCHANGED freelist
                BY <3>1 DEF CarveSplit, CarveSplitLinked
            <4> QED  BY <1>1, <1>3, <1>4, <1>5, <4>1 DEF PoolType
        <3>2. CASE CarveWhole(p)
            <4>1. /\ bsize' = [bsize EXCEPT ![b] = -@] /\ prevfree' = [prevfree EXCEPT ![bn] = 0]
                  /\ freelist' = freelist \ {b}
                BY <3>2 DEF CarveWhole
            <4>2. bsize' \in [Addr -> Int]
                BY <1>1, <1>3, <4>1 DEF PoolType
            <4>3. prevfree' \in [Addr -> Int]
                BY <1>1, <1>3, <4>1 DEF PoolType
            <4> QED  BY <1>1, <4>1, <4>2, <4>3 DEF PoolType
        <3> QED  BY <3>1, <3>2
    <2>2. totalloc' \in Int /\ owns' \in [Proc -> SUBSET Addr]
        BY <1>1, <1>6, <1>7, <1>8 DEF PoolType
    <2> QED  BY <2>1, <2>2 DEF PoolType
<1>10. pc'[p] = "up" /\ blk'[p] = c /\ owns'[p] = owns[p] \cup {c}
    BY <1>1, <1>7 DEF CallType, PoolType
<1>11. At(p)'
    BY <1>2, <1>7, <1>10 DEF At, callVars
<1>12. CallType' /\ OthersKept(p)
    BY <1>1, <1>7, <1>8 DEF CallType, OthersKept, callVars, PoolType
<1> QED  BY <1>2, <1>7, <1>8, <1>9, <1>10, <1>11, <1>12

\* The first merge works on one header.
LEMMA MergePrevKeeps ==
    ASSUME TypeOK, NEW p \in Proc, At(p), MergePrev(p)
    PROVE  /\ OthersKept(p) /\ CallType' /\ PoolType' /\ UNCHANGED <<callVars, faults>> /\ At(p)'
           /\ pc[p] = "merge_prev" /\ pc'[p] = "merge_next" /\ blk'[p] \in Addr
<1>1. /\ pc \in [Proc -> Places] /\ CallType /\ PoolType
    BY TypeParts DEF LockType
<1>2. /\ pc[p] = "merge_prev" /\ MergePrevAsserts(p) /\ fn[p] = "brel" /\ blk[p] \in Addr
    BY DEF At, MergePrev
<1> PICK b \in Addr : b = blk[p]
    BY <1>2
<1> PICK prev : prev = b - prevfree[b]
    OBVIOUS
<1>3. bsize[b] \in Int
    BY <1>1 DEF PoolType
<1>4. /\ totalloc' = totalloc + bsize[b] /\ owns' = [owns EXCEPT ![p] = @ \ {b}]
      /\ pc' = [pc EXCEPT ![p] = "merge_next"] /\ UNCHANGED <<prevfree, callVars, faults>>
    BY DEF MergePrev
<1>5. \E c \in Addr : blk' = [blk EXCEPT ![p] = c]
    <2>1. CASE prevfree[b] # 0
        <3>1. prev \in Addr
            BY <1>2, <2>1 DEF MergePrevAsserts
        <3> QED  BY <2>1, <3>1 DEF MergePrev
    <2>2. CASE prevfree[b] = 0
        <3>1. blk' = blk
            BY <2>2 DEF MergePrev
        <3> QED  BY <1>1, <3>1 DEF CallType
    <2> QED  BY <2>1, <2>2
<1>6. bsize' \in [Addr -> Int] /\ freelist' \subseteq Addr
    <2>1. CASE prevfree[b] # 0
        <3>1. prev \in Addr
            BY <1>2, <2>1 DEF MergePrevAsserts
        <3>2. bsize' = [bsize EXCEPT ![prev] = @ - bsize[b]] /\ freelist' = freelist
            BY <2>1 DEF MergePrev
        <3> QED  BY <1>1, <1>3, <3>1, <3>2 DEF PoolType
    <2>2. CASE prevfree[b] = 0
        <3>1. bsize' = [bsize EXCEPT ![b] = -@] /\ freelist' = freelist \cup {b}
            BY <2>2 DEF MergePrev
        <3> QED  BY <1>1, <1>3, <3>1 DEF PoolType
    <2> QED  BY <2>1, <2>2
<1>7. PoolType'
    BY <1>1, <1>3, <1>4, <1>6 DEF PoolType
<1>8. pc'[p] = "merge_next" /\ blk'[p] \in Addr
    BY <1>1, <1>4, <1>5 DEF CallType
<1>9. At(p)'
    BY <1>2, <1>4, <1>8 DEF At, callVars
<1>10. CallType'
    BY <1>1, <1>4, <1>5 DEF CallType, callVars
<1>11. OthersKept(p)
    BY <1>1, <1>4, <1>5 DEF CallType, OthersKept, callVars, PoolType
<1> QED  BY <1>2, <1>4, <1>7, <1>8, <1>9, <1>10, <1>11

\* The second merge wipes headers and writes one.
LEMMA MergeNextKeeps ==
    ASSUME TypeOK, NEW p \in Proc, At(p), MergeNext(p)
    PROVE  /\ OthersKept(p) /\ CallType' /\ PoolType' /\ At(p)'
           /\ UNCHANGED <<callVars, blk, owns, faults>>
           /\ pc[p] = "merge_next" /\ pc'[p] = "up" /\ fn[p] = "brel"
<1>1. /\ pc \in [Proc -> Places] /\ CallType /\ PoolType
    BY TypeParts DEF LockType
<1>2. /\ pc[p] = "merge_next" /\ fn[p] = "brel" /\ blk[p] \in Addr
      /\ MergeNextAsserts(p)
    BY DEF At, MergeNext, MergeNextTo
<1>3. /\ freelist' = freelist \ {After(blk[p])}
      /\ pc' = [pc EXCEPT ![p] = "up"]
      /\ UNCHANGED <<totalloc, callVars, blk, owns, faults>>
    BY DEF MergeNext, MergeNextTo
<1>4. PICK end : end = MergedEnd(blk[p])
    OBVIOUS
<1>5. end \in Int
    <2>1. PICK bn \in Addr : bn = After(blk[p])
        BY <1>2 DEF MergeNextAsserts
    <2>2. bn \in Int /\ bsize[bn] \in Int
        BY <1>1, AddrFacts DEF PoolType
    <2>3. After(bn) \in Int
        BY <2>2 DEF After
    <2> QED  BY <1>4, <2>1, <2>2, <2>3 DEF MergedEnd
<1>6. bsize' \in [Addr -> Int] /\ prevfree' \in [Addr -> Int]
    <2> PICK b : b = blk[p]
        OBVIOUS
    <2>0. b \in Int
        BY <1>2, AddrFacts
    <2>1. bsize' = [a \in Addr |-> IF a \in {x \in Addr : b < x /\ x < end} THEN 0
                                   ELSE IF a = b THEN end - b ELSE bsize[a]]
        BY <1>4 DEF MergeNext, MergeNextTo
    <2>2. prevfree' = [a \in Addr |-> IF a \in {x \in Addr : b < x /\ x < end} THEN 0
                                      ELSE IF a = end THEN end - b ELSE prevfree[a]]
        BY <1>4 DEF MergeNext, MergeNextTo
    <2> QED  BY <1>1, <1>5, <2>0, <2>1, <2>2 DEF PoolType
<1>7. PoolType'
    BY <1>1, <1>3, <1>6 DEF PoolType
<1>8. pc'[p] = "up"
    BY <1>1, <1>3
<1>9. At(p)'
    BY <1>2, <1>3, <1>8 DEF At, callVars
<1>10. CallType' /\ OthersKept(p)
    BY <1>1, <1>3 DEF CallType, OthersKept, callVars
<1> QED  BY <1>2, <1>3, <1>7, <1>8, <1>9, <1>10

----------------------------------------------------------------------------
\* The invariant of the pool.

\* The block a call works with is its own, or free and large enough, and no assertion
\* has failed.
Sure(p) ==
    /\ pc[p] # "aborted"
    /\ pc[p] \in {"down", "merge_prev"} /\ fn[p] = "brel" => blk[p] \in owns[p]
    /\ pc[p] \in {"down", "scan", "carve", "up"} /\ fn[p] = "bgetr" => old[p] \in owns[p]
    /\ pc[p] = "carve" => blk[p] \in freelist /\ bsize[blk[p]] >= size[p]
    /\ pc[p] = "up" /\ fn[p] # "brel" /\ blk[p] = NoAddr => Fits(size[p]) = {}

CallInv == Calm => \A p \in Proc : Sure(p)

ShapeInv ==
    Calm => /\ \A p \in Proc, m \in Addr : pc[p] = "merge_next" /\ blk[p] = m => Shape(m)
            /\ (\A p \in Proc : pc[p] # "merge_next") => Shape(NoAddr)

PoolInv == LockInv /\ TypeOK /\ PlaceInv /\ CallInv /\ ShapeInv

\* bpool() makes one free block.
LEMMA PoolInit == Init => PoolInv
<1> SUFFICES ASSUME Init PROVE PoolInv
    OBVIOUS
<1>1. LockInv
    BY LockInit
<1>2. PoolLen > 0 /\ PoolLen \in Int /\ PoolLen >= 16 /\ 0 \in Addr /\ PoolLen \in Addr
    BY PoolAssumption, AddrFacts DEF SizeQ, Hdr
<1>3. ESent \in Int
    BY DEF ESent
<1>4. PoolType
    BY <1>2, <1>3 DEF Init, PoolType
<1>5. CallType /\ HistoryType
    <2>1. CallType
        BY DEF Init, CallType
    <2>2. interrupts \in 0..MaxInterrupt
        BY BoundAssumption DEF Init
    <2>3. torn \in BOOLEAN
        BY DEF Init
    <2> QED  BY <2>1, <2>2, <2>3 DEF HistoryType
<1>6. TypeOK
    BY <1>1, <1>4, <1>5, TypeParts DEF LockInv
<1>7. PlaceInv /\ CallInv
    BY DEF Init, PlaceInv, At, CallInv, Sure
<1>8. Shape(NoAddr)
    <2> PICK L : L = {0}
        OBVIOUS
    <2> PICK e : e = [a \in L |-> PoolLen]
        OBVIOUS
    <2>1. Tiles(L, e)
        <3>1. \A x \in Addr \ {PoolLen} : 0 <= x /\ x < PoolLen
            BY AddrFacts
        <3> QED  BY <1>2, <3>1 DEF Tiles
    <2>2. /\ freelist = L /\ bsize[0] = PoolLen /\ bsize[PoolLen] = ESent /\ prevfree[0] = 0
          /\ prevfree[PoolLen] = PoolLen /\ \A x \in Addr \ {0, PoolLen} : bsize[x] = 0
          /\ totalloc = 0 /\ owns = [p \in Proc |-> {}]
        BY <1>2 DEF Init
    <2>3. 0 # NoAddr
        BY DEF NoAddr
    <2>4. Laid(L, e, NoAddr)
        BY <1>2, <2>1, <2>2, <2>3 DEF Laid, SizeQ, Hdr
    <2>5. L \ freelist = {}
        BY <2>2
    <2>6. Used({}, e) = {}
        BY DEF Used
    <2>7. totalloc = Cardinality(Used(L \ freelist, e))
        BY <2>2, <2>5, <2>6, FS_EmptySet, Zenon
    <2>8. /\ \A a \in Addr : a \in L \ freelist <=> \E p \in Proc : a \in owns[p]
          /\ \A p, q \in Proc : p # q => owns[p] \cap owns[q] = {}
        BY <2>2, <2>5
    <2>9. Given(L, e)
        BY <2>7, <2>8, Zenon DEF Given
    <2> QED  BY <2>4, <2>9 DEF Shape
<1>9. ShapeInv
    BY <1>8 DEF Init, ShapeInv
<1> QED  BY <1>1, <1>6, <1>7, <1>9 DEF PoolInv

\* Every step keeps the types, and the place of the others.
LEMMA StepTypes ==
    ASSUME TypeOK, PlaceInv, NEW p \in Proc, ProcStep(p)
    PROVE  OthersKept(p) /\ CallType' /\ PoolType' /\ At(p)' /\ HistoryType'
<1>1. PoolType /\ HistoryType /\ At(p)
    BY TypeParts DEF PlaceInv
<1>2. UNCHANGED <<poolVars, owns>> => PoolType'
    BY <1>1 DEF PoolType, poolVars
<1>3. UNCHANGED faults => HistoryType'
    BY <1>1 DEF HistoryType, faults
<1>4. CASE Bget(p) \/ Bgetr(p) \/ Brel(p)
    BY <1>2, <1>3, <1>4, CallKeeps
<1>5. CASE SemDown(p) \/ SemDownInterrupted(p)
    <2>1. ASSUME SemDown(p) PROVE HistoryType'
        BY <1>3, <2>1 DEF SemDown, SemDownIf
    <2>2. ASSUME SemDownInterrupted(p) PROVE HistoryType'
        <3>1. /\ interrupts \in 0..MaxInterrupt /\ interrupts < MaxInterrupt
              /\ interrupts' = interrupts + 1
            BY <1>1, <2>2 DEF SemDownInterrupted, HistoryType
        <3>2. interrupts' \in 0..MaxInterrupt
            BY <3>1, BoundAssumption
        <3>3. torn' \in BOOLEAN
            BY <1>1, <2>2 DEF SemDownInterrupted, HistoryType
        <3> QED  BY <3>2, <3>3 DEF HistoryType
    <2>3. UNCHANGED <<poolVars, owns>>
        BY <1>1, <1>5, EnterKeeps
    <2> QED  BY <1>1, <1>2, <1>5, <2>1, <2>2, <2>3, EnterKeeps
<1>6. CASE SemUp(p)
    BY <1>1, <1>2, <1>3, <1>6, UpKeeps
<1>7. CASE Kill(p)
    <2>1. Ends(p, "killed") /\ torn' = (torn \/ Inside(p)) /\ UNCHANGED interrupts
        BY <1>7 DEF Kill
    <2>2. HistoryType'
        BY <1>1, <2>1 DEF HistoryType
    <2> QED  BY <1>2, <2>1, <2>2, EndKeeps
<1>8. CASE AssertFails(p)
    <2>1. Ends(p, "aborted") /\ UNCHANGED faults
        BY <1>8 DEF AssertFails
    <2> QED  BY <1>2, <1>3, <2>1, EndKeeps
<1>9. CASE Scan(p)
    <2>1. pc[p] = "scan" /\ \E b \in Addr \cup {NoAddr} : Found(p, b)
        BY <1>1, <1>9 DEF Scan, Best, Fits, PoolType
    <2> QED  BY <1>1, <1>2, <1>3, <2>1, FoundKeeps
<1>10. CASE CarveStale(p)
    <2>1. CASE blk[p] \in freelist
        <3>1. pc[p] = "carve" /\ \E b \in Addr \cup {NoAddr} : Found(p, b)
            BY <1>1, <1>10, <2>1 DEF CarveStale, Fits, PoolType
        <3> QED  BY <1>1, <1>2, <1>3, <3>1, FoundKeeps
    <2>2. CASE blk[p] \notin freelist
        <3>1. Ends(p, "aborted") /\ UNCHANGED faults
            BY <1>10, <2>2 DEF CarveStale
        <3> QED  BY <1>2, <1>3, <3>1, EndKeeps
    <2> QED  BY <2>1, <2>2
<1>11. CASE CarveSplit(p) \/ CarveWhole(p)
    BY <1>1, <1>3, <1>11, CarveKeeps
<1>12. CASE MergePrev(p)
    BY <1>1, <1>3, <1>12, MergePrevKeeps
<1>13. CASE MergeNext(p)
    BY <1>1, <1>3, <1>13, MergeNextKeeps
<1> QED
    BY <1>4, <1>5, <1>6, <1>7, <1>8, <1>9, <1>10, <1>11, <1>12, <1>13 DEF ProcStep, Step

\* A process alone in the pool finds it between two calls, or as it left it.
LEMMA ShapeAt ==
    ASSUME PoolInv, Calm, NEW p \in Proc, Inside(p)
    PROVE  /\ pc[p] # "merge_next" => Shape(NoAddr)
           /\ \A m \in Addr : pc[p] = "merge_next" /\ blk[p] = m => Shape(m)
<1>1. \A q \in Proc : Inside(q) => q = p
    BY DEF PoolInv, LockInv, Calm
<1>2. pc[p] # "merge_next" => \A q \in Proc : pc[q] # "merge_next"
    BY <1>1 DEF Inside
<1> QED  BY <1>2 DEF PoolInv, ShapeInv

\* No assertion of bget() and brel() can fail, and a block found still fits.
LEMMA AssertsHold ==
    ASSUME PoolInv, Calm, NEW p \in Proc
    PROVE  ~AssertFails(p) /\ ~CarveStale(p)
<1>1. PoolType /\ At(p) /\ Sure(p) /\ CallType
    BY TypeParts DEF PoolInv, PlaceInv, CallInv
<1>2. ASSUME pc[p] = "carve" PROVE Rest(p) >= 0 /\ CarveAsserts(p)
    <2>1. Shape(NoAddr)
        BY <1>2, ShapeAt DEF Inside
    <2>2. PICK L, e : Laid(L, e, NoAddr)
        BY <2>1 DEF Shape
    <2>3. PICK b \in freelist : b = blk[p]
        BY <1>1, <1>2 DEF Sure
    <2>4. bsize[b] >= size[p] /\ size[p] \in Nat
        BY <1>1, <1>2, <2>3 DEF Sure, CallType
    <2>5. b \in L
        BY <2>2 DEF Laid
    <2>6. /\ b \in Int /\ e[b] \in Int /\ e[b] \in Addr /\ bsize[b] = e[b] - b /\ b \in Addr
        BY <2>2, <2>5, LaidFacts
    <2>7. prevfree[e[b]] = e[b] - b
        <3>1. b \in freelist \ {NoAddr}
            BY <2>6, AddrFacts
        <3> QED  BY <2>2, <2>5, <3>1 DEF Laid
    <2>8. b + bsize[b] = e[b]
        BY <2>6
    <2>9. CarveAsserts(p)
        BY <2>3, <2>6, <2>7, <2>8 DEF CarveAsserts
    <2>10. Rest(p) >= 0
        BY <2>3, <2>4, <2>6 DEF Rest
    <2> QED  BY <2>9, <2>10
<1>3. ASSUME pc[p] = "merge_prev" PROVE MergePrevAsserts(p)
    <2>1. Shape(NoAddr)
        BY <1>3, ShapeAt DEF Inside
    <2>2. PICK L, e : Laid(L, e, NoAddr) /\ Given(L, e)
        BY <2>1 DEF Shape
    <2>3. PICK b \in owns[p] : b = blk[p]
        BY <1>1, <1>3 DEF Sure, At
    <2>4. /\ b \in L \ freelist /\ bsize[b] < 0 /\ b - bsize[b] = e[b]
          /\ prevfree[e[b]] = 0 /\ totalloc + bsize[b] >= 0
          /\ prevfree[b] # 0 => /\ b - prevfree[b] \in freelist
                                /\ bsize[b - prevfree[b]] = prevfree[b]
        BY <1>1, <2>2, OwnedBlock
    <2>5. e[b] \in Addr /\ freelist \subseteq Addr
        BY <1>1, <2>2, <2>4, LaidFacts DEF PoolType
    <2> QED  BY <2>3, <2>4, <2>5 DEF MergePrevAsserts
<1>4. ASSUME pc[p] = "merge_next" PROVE MergeNextAsserts(p)
    <2>1. PICK b \in Addr : b = blk[p]
        BY <1>1, <1>4 DEF At
    <2>2. Shape(b)
        BY <1>4, <2>1, ShapeAt DEF Inside
    <2>3. PICK L, e : Laid(L, e, b)
        BY <2>2 DEF Shape
    <2>4. b \in freelist
        BY <2>3, AddrFacts DEF Laid
    <2>5. /\ After(b) = e[b] /\ b \in L
          /\ bsize[e[b]] > 0 => /\ e[b] \in freelist /\ After(e[b]) = e[e[b]]
                                /\ prevfree[e[e[b]]] = bsize[e[b]]
          /\ bsize[MergedEnd(b)] < 0
        BY <1>1, <2>3, <2>4, BehindBlock
    <2>6. e[b] \in Addr
        BY <2>3, <2>5, LaidFacts
    <2>7. bsize[e[b]] > 0 => After(e[b]) \in Addr
        <3>1. ASSUME e[b] \in freelist PROVE e[e[b]] \in Addr
            <4>1. e[b] \in L
                BY <2>3, <3>1 DEF Laid
            <4> QED  BY <2>3, <4>1, LaidFacts
        <3> QED  BY <2>5, <3>1
    <2> QED  BY <2>1, <2>5, <2>6, <2>7 DEF MergeNextAsserts
<1>5. pc[p] = "carve" => ~(Rest(p) < 0)
    <2>1. pc[p] = "carve" => Rest(p) \in Int
        BY <1>1 DEF Rest, At, PoolType, CallType
    <2> QED  BY <1>2, <2>1
<1> QED  BY <1>2, <1>3, <1>4, <1>5 DEF AssertFails, CarveStale

----------------------------------------------------------------------------
\* What the steps that work on the blocks leave behind.

\* bget() leaves a layout.
LEMMA CarveShape ==
    ASSUME PoolInv, Calm, NEW p \in Proc, CarveSplit(p) \/ CarveWhole(p)
    PROVE  Shape(NoAddr)'
<1>1. PoolType /\ At(p) /\ Sure(p) /\ pc[p] = "carve"
    BY TypeParts DEF PoolInv, PlaceInv, CallInv, CarveSplit, CarveSplitLinked, CarveWhole
<1>2. PICK L, e : Laid(L, e, NoAddr) /\ Given(L, e)
    BY <1>1, ShapeAt DEF Shape, Inside
<1>3. PICK b \in freelist : b = blk[p]
    BY <1>1 DEF Sure
<1>4. PICK n \in Sizes : n = size[p]
    BY <1>1 DEF At
<1>5. b \in L
    BY <1>2 DEF Laid
<1>6. /\ b \in Int /\ e[b] \in Int /\ bsize[b] = e[b] - b /\ n \in Int
    BY <1>2, <1>4, <1>5, LaidFacts DEF Sizes
<1>7. Rest(p) = e[b] - b - n /\ b + bsize[b] = e[b]
    BY <1>3, <1>4, <1>6 DEF Rest
<1>8. CASE CarveSplit(p)
    <2> PICK ba : ba = e[b] - n
        OBVIOUS
    <2>1. b + Rest(p) = ba /\ Rest(p) = ba - b
        BY <1>6, <1>7
    <2>2. /\ bsize' = [bsize EXCEPT ![b] = Rest(p), ![b + Rest(p)] = -n]
          /\ prevfree' = [prevfree EXCEPT ![b + Rest(p)] = Rest(p), ![b + bsize[b]] = 0]
          /\ Carved(p, b + Rest(p), n) /\ freelist' = freelist /\ Splits(p)
        BY <1>3, <1>4, <1>8 DEF CarveSplit, CarveSplitLinked
    <2>3. totalloc' = totalloc + n /\ owns' = [owns EXCEPT ![p] = @ \cup {ba}]
        BY <2>1, <2>2 DEF Carved
    <2>4. /\ bsize' = [bsize EXCEPT ![b] = ba - b, ![ba] = -n]
          /\ prevfree' = [prevfree EXCEPT ![ba] = ba - b, ![e[b]] = 0]
        BY <1>7, <2>1, <2>2
    <2>5. e[b] - b - n > SizeQ + Hdr
        BY <1>7, <2>2 DEF Splits
    <2>6. SplitsOff(p, b, n, e[b])
        BY <2>2, <2>3, <2>4, <2>5 DEF SplitsOff
    <2> QED  BY <1>1, <1>2, <2>6, SplitShape
<1>9. CASE CarveWhole(p)
    <2>1. /\ bsize' = [bsize EXCEPT ![b] = -@]
          /\ prevfree' = [prevfree EXCEPT ![b + bsize[b]] = 0]
          /\ Carved(p, b, bsize[b]) /\ freelist' = freelist \ {b}
        BY <1>3, <1>9 DEF CarveWhole
    <2>2. totalloc' = totalloc + (e[b] - b) /\ owns' = [owns EXCEPT ![p] = @ \cup {b}]
        BY <1>6, <2>1 DEF Carved
    <2>3. -bsize[b] = b - e[b]
        BY <1>6
    <2>4. /\ bsize' = [bsize EXCEPT ![b] = b - e[b]]
          /\ prevfree' = [prevfree EXCEPT ![e[b]] = 0]
        BY <1>7, <2>1, <2>3
    <2>5. GivesWhole(p, b, e[b])
        BY <2>1, <2>2, <2>4 DEF GivesWhole
    <2> QED  BY <1>1, <1>2, <2>5, WholeShape
<1> QED  BY <1>8, <1>9

\* The first half of brel() leaves a layout with a block linked to nothing.
LEMMA MergePrevShape ==
    ASSUME PoolInv, Calm, NEW p \in Proc, MergePrev(p)
    PROVE  \E m \in Addr : blk'[p] = m /\ Shape(m)'
<1>1. PoolType /\ At(p) /\ Sure(p) /\ pc[p] = "merge_prev" /\ CallType
    BY TypeParts DEF PoolInv, PlaceInv, CallInv, MergePrev
<1>2. PICK L, e : Laid(L, e, NoAddr) /\ Given(L, e)
    BY <1>1, ShapeAt DEF Shape, Inside
<1>3. PICK b \in owns[p] : b = blk[p]
    BY <1>1 DEF Sure, At
<1>4. Released(p, b) /\ prevfree' = prevfree
    BY <1>3 DEF MergePrev, Released
<1>5. b \in Addr
    BY <1>1 DEF PoolType
<1>6. CASE prevfree[b] # 0
    <2>1. PICK m \in freelist : m = b - prevfree[b]
        BY <1>1, <1>2, <1>6, OwnedBlock
    <2>2. m \in Addr
        BY <1>1 DEF PoolType
    <2>3. /\ bsize' = [bsize EXCEPT ![m] = @ - bsize[b]] /\ freelist' = freelist
          /\ blk' = [blk EXCEPT ![p] = m]
        BY <1>3, <1>6, <2>1 DEF MergePrev
    <2>4. Shape(m)'
        BY <1>1, <1>2, <1>4, <1>6, <2>1, <2>3, JoinShape
    <2>5. blk'[p] = m
        BY <1>1, <2>3 DEF CallType
    <2> QED  BY <2>2, <2>4, <2>5
<1>7. CASE prevfree[b] = 0
    <2>1. /\ bsize' = [bsize EXCEPT ![b] = -@] /\ freelist' = freelist \cup {b}
          /\ blk' = blk
        BY <1>3, <1>7 DEF MergePrev
    <2>2. Shape(b)'
        BY <1>1, <1>2, <1>4, <1>7, <2>1, InsertShape
    <2> QED  BY <1>3, <1>5, <2>1, <2>2
<1> QED  BY <1>6, <1>7

\* The second half of brel() links it.
LEMMA MergeNextShape ==
    ASSUME PoolInv, Calm, NEW p \in Proc, MergeNext(p)
    PROVE  Shape(NoAddr)'
<1>1. PoolType /\ At(p) /\ pc[p] = "merge_next"
    BY TypeParts DEF PoolInv, PlaceInv, MergeNext, MergeNextTo
<1>2. PICK m \in Addr : m = blk[p]
    BY <1>1 DEF At
<1>3. PICK L, e : Laid(L, e, m) /\ Given(L, e)
    BY <1>1, <1>2, ShapeAt DEF Shape, Inside
<1>4. m \in freelist
    BY <1>3, AddrFacts DEF Laid
<1>5. After(m) = e[m]
    BY <1>1, <1>3, <1>4, BehindBlock
<1> PICK end : end = MergedEnd(m)
    OBVIOUS
<1>6. /\ bsize' = [a \in Addr |-> IF m < a /\ a < end THEN 0
                                  ELSE IF a = m THEN end - m ELSE bsize[a]]
      /\ prevfree' = [a \in Addr |-> IF m < a /\ a < end THEN 0
                                     ELSE IF a = end THEN end - m ELSE prevfree[a]]
    BY <1>2 DEF MergeNext, MergeNextTo
<1>7. freelist' = freelist \ {e[m]} /\ totalloc' = totalloc /\ owns' = owns
    BY <1>2, <1>5 DEF MergeNext, MergeNextTo
<1> QED  BY <1>1, <1>3, <1>4, <1>6, <1>7, MergeShape

----------------------------------------------------------------------------
\* A step of a process that leaves the pool calm: it leaves the pool alone, or it is
\* the only one inside.

\* It is outside of the merges and touches no block.
MergeNot(p) == pc[p] # "merge_next" /\ pc'[p] # "merge_next" /\ UNCHANGED <<poolVars, owns>>

\* What a step inside the pool leaves: a layout without free neighbours, or, between
\* the two merges of brel, one with the block still to be merged.
LEMMA CalmStep ==
    ASSUME PoolInv, NEW p \in Proc, ProcStep(p), Calm'
    PROVE  /\ Calm /\ Sure(p)'
           /\ \/ MergeNot(p)
              \/ Inside(p) /\ pc'[p] # "merge_next" /\ Shape(NoAddr)'
              \/ Inside(p) /\ pc'[p] = "merge_next" /\ \E m \in Addr : blk'[p] = m /\ Shape(m)'
<1>1. TypeOK /\ PoolType /\ CallType /\ HistoryType /\ At(p) /\ pc \in [Proc -> Places]
    BY TypeParts DEF PoolInv, PlaceInv, LockType
<1>2. Calm /\ ~SemDownInterrupted(p) /\ (Kill(p) => ~Inside(p))
    <2>1. UNCHANGED faults => Calm
        BY DEF Calm, faults
    <2>2. interrupts \in Nat
        BY DEF PoolInv, LockInv, LockType
    <2>3. ~SemDownInterrupted(p)
        BY <2>2 DEF Calm, SemDownInterrupted
    <2>4. Kill(p) => Calm /\ ~Inside(p)
        BY DEF Calm, Kill
    <2>5. Bget(p) \/ Bgetr(p) \/ Brel(p) => UNCHANGED faults
        BY <1>1, CallKeeps
    <2>6. SemDown(p) => UNCHANGED faults
        BY DEF SemDown, SemDownIf
    <2>7. Step(p) => UNCHANGED faults
        BY DEF Step, SemUp, Scan, Found, CarveSplit, CarveSplitLinked, CarveWhole, Carved,
               CarveStale, MergePrev, MergeNext, MergeNextTo, AssertFails
    <2> QED  BY <2>1, <2>3, <2>4, <2>5, <2>6, <2>7 DEF ProcStep
<1>3. Sure(p) /\ ~AssertFails(p) /\ ~CarveStale(p)
    BY <1>2, AssertsHold DEF PoolInv, CallInv
<1>4. CASE Bget(p) \/ Bgetr(p) \/ Brel(p)
    <2>1. /\ UNCHANGED <<poolVars, owns>> /\ pc[p] = "idle" /\ pc'[p] = "down"
          /\ fn'[p] = "brel" => blk'[p] \in owns[p]
          /\ fn'[p] = "bgetr" => old'[p] \in owns[p]
        BY <1>1, <1>4, CallKeeps
    <2> QED  BY <1>2, <2>1 DEF Sure, MergeNot
<1>5. CASE SemDown(p)
    <2>1. /\ UNCHANGED <<poolVars, callVars, blk, owns>> /\ pc[p] = "down"
          /\ pc'[p] = IF fn[p] = "brel" THEN "merge_prev" ELSE "scan"
        BY <1>1, <1>5, EnterKeeps
    <2> QED  BY <1>2, <1>3, <2>1 DEF Sure, MergeNot, callVars
<1>6. CASE SemUp(p)
    <2>1. /\ UNCHANGED <<poolVars, owns>> /\ pc[p] = "up" /\ pc'[p] \in {"idle", "down"}
          /\ pc'[p] = "down" => fn[p] = "bgetr" /\ fn'[p] = "brel" /\ blk'[p] = old[p]
        BY <1>1, <1>6, UpKeeps
    <2> QED  BY <1>2, <1>3, <2>1 DEF Sure, MergeNot
<1>7. CASE Kill(p)
    <2>1. UNCHANGED <<poolVars, callVars, blk, owns>> /\ pc'[p] = "killed"
        BY <1>1, <1>7, EndKeeps DEF Kill
    <2> QED  BY <1>2, <1>7, <2>1 DEF Sure, MergeNot, Inside
<1>8. CASE Scan(p)
    <2>1. pc[p] = "scan" /\ fn[p] # "brel"
        BY <1>1, <1>8 DEF Scan, At
    <2>2. PICK b \in Addr \cup {NoAddr} :
              /\ Found(p, b)
              /\ \/ b = NoAddr /\ Fits(size[p]) = {}
                 \/ b \in Fits(size[p])
        BY <1>1, <1>8 DEF Scan, Best, Fits, PoolType
    <2>3. /\ UNCHANGED <<poolVars, callVars, owns>> /\ blk'[p] = b
          /\ pc'[p] = IF b = NoAddr THEN "up" ELSE "carve"
        BY <1>1, <2>1, <2>2, FoundKeeps
    <2>4. /\ fn'[p] = fn[p] /\ size'[p] = size[p] /\ old'[p] = old[p] /\ bsize' = bsize
          /\ freelist' = freelist /\ owns' = owns
        BY <2>3 DEF callVars, poolVars
    <2>5. Sure(p)'
        <3>1. CASE b = NoAddr
            <4>1. NoAddr \notin Fits(size[p])
                BY <1>1, AddrFacts DEF Fits, PoolType
            <4>2. Fits(size[p])' = {}
                BY <2>2, <2>4, <3>1, <4>1 DEF Fits
            <4> QED  BY <1>3, <2>1, <2>3, <2>4, <3>1, <4>2 DEF Sure
        <3>2. CASE b # NoAddr
            BY <1>3, <2>1, <2>2, <2>3, <2>4, <3>2 DEF Sure, Fits
        <3> QED  BY <3>1, <3>2
    <2> QED  BY <1>2, <2>1, <2>3, <2>5 DEF MergeNot
<1>9. CASE CarveSplit(p) \/ CarveWhole(p)
    <2>1. /\ UNCHANGED callVars /\ pc[p] = "carve" /\ pc'[p] = "up"
          /\ blk'[p] \in Addr /\ owns'[p] = owns[p] \cup {blk'[p]}
        BY <1>1, <1>9, CarveKeeps
    <2>2. Sure(p)'
        BY <1>3, <2>1, AddrFacts DEF Sure, callVars
    <2> QED  BY <1>2, <1>9, <2>1, <2>2, CarveShape DEF Inside
<1>10. CASE MergePrev(p)
    <2>1. pc[p] = "merge_prev" /\ pc'[p] = "merge_next"
        BY <1>1, <1>10, MergePrevKeeps
    <2>2. Sure(p)'
        BY <2>1 DEF Sure
    <2> QED  BY <1>2, <1>10, <2>1, <2>2, MergePrevShape DEF Inside
<1>11. CASE MergeNext(p)
    <2>1. /\ pc[p] = "merge_next" /\ pc'[p] = "up" /\ fn[p] = "brel" /\ UNCHANGED callVars
        BY <1>1, <1>11, MergeNextKeeps
    <2>2. Sure(p)'
        BY <2>1 DEF Sure, callVars
    <2> QED  BY <1>2, <1>11, <2>1, <2>2, MergeNextShape DEF Inside
<1> QED
    BY <1>2, <1>3, <1>4, <1>5, <1>6, <1>7, <1>8, <1>9, <1>10, <1>11 DEF ProcStep, Step

\* Who does not touch the pool keeps its layout.
LEMMA ShapeKept ==
    ASSUME NEW m, Shape(m), UNCHANGED <<poolVars, owns>>
    PROVE  Shape(m)'
<1>1. PICK L, e : Laid(L, e, m) /\ Given(L, e)
    BY DEF Shape
<1>2. Laid(L, e, m)'
    BY <1>1 DEF Laid, poolVars
<1>3. Given(L, e)'
    BY <1>1 DEF Given, poolVars
<1> QED  BY <1>2, <1>3 DEF Shape

\* The invariant is inductive.
LEMMA PoolStep == PoolInv /\ [Next]_vars => PoolInv'
<1> SUFFICES ASSUME PoolInv, [Next]_vars PROVE PoolInv'
    OBVIOUS
<1>1. LockInv'
    BY LockStep DEF PoolInv
<1>2. CASE UNCHANGED vars
    <2>1. UNCHANGED <<poolVars, owns>> /\ UNCHANGED <<pc, callVars, blk, faults>>
        BY <1>2 DEF vars
    <2>2. TypeOK'
        BY <1>2 DEF PoolInv, TypeOK, vars, poolVars, semVars, callVars, faults
    <2>3. PlaceInv' /\ CallInv'
        BY <2>1 DEF PoolInv, PlaceInv, At, CallInv, Sure, Calm, Fits, callVars, faults, poolVars
    <2>4. ShapeInv'
        BY <2>1, ShapeKept DEF PoolInv, ShapeInv, Calm, faults
    <2> QED  BY <1>1, <2>2, <2>3, <2>4 DEF PoolInv
<1>3. CASE Next
    <2>1. PICK p \in Proc : ProcStep(p)
        BY <1>3 DEF Next, ProcStep
    <2>2. OthersKept(p) /\ CallType' /\ PoolType' /\ At(p)' /\ HistoryType'
        BY <2>1, StepTypes DEF PoolInv
    <2>3. TypeOK'
        <3>1. LockType'
            BY <1>1 DEF LockInv
        <3>2. (PoolType /\ LockType /\ CallType /\ HistoryType)' => TypeOK'
            BY TypeParts, PTL
        <3> QED  BY <2>2, <3>1, <3>2
    <2>4. PlaceInv'
        <3> SUFFICES ASSUME NEW q \in Proc PROVE At(q)'
            BY DEF PlaceInv
        <3>1. CASE q # p
            BY <2>2, <3>1 DEF OthersKept, PoolInv, PlaceInv, At
        <3> QED  BY <2>2, <3>1
    <2>5. ASSUME Calm'
          PROVE  /\ Calm /\ Sure(p)'
                 /\ \/ MergeNot(p)
                    \/ Inside(p) /\ pc'[p] # "merge_next" /\ Shape(NoAddr)'
                    \/ /\ Inside(p) /\ pc'[p] = "merge_next"
                       /\ \E m \in Addr : blk'[p] = m /\ Shape(m)'
        BY <2>1, <2>5, CalmStep
    <2>6. ASSUME Calm', NEW q \in Proc, q # p, Inside(p)
          PROVE  pc[q] \notin {"scan", "carve", "merge_prev", "merge_next", "up"}
        BY <2>5, <2>6 DEF PoolInv, LockInv, Calm, Inside
    <2>7. CallInv'
        <3> SUFFICES ASSUME Calm', NEW q \in Proc PROVE Sure(q)'
            BY DEF CallInv
        <3>1. Sure(q) /\ Calm
            BY <2>5 DEF PoolInv, CallInv
        <3>2. CASE q = p
            BY <2>5, <3>2
        <3>3. CASE q # p
            <4>1. /\ pc'[q] = pc[q] /\ fn'[q] = fn[q] /\ size'[q] = size[q]
                  /\ blk'[q] = blk[q] /\ old'[q] = old[q] /\ owns'[q] = owns[q]
                BY <2>2, <3>3 DEF OthersKept
            <4>2. CASE Inside(p)
                BY <2>6, <3>1, <3>3, <4>1, <4>2 DEF Sure
            <4>3. CASE ~Inside(p)
                <5>1. bsize' = bsize /\ freelist' = freelist
                    BY <2>5, <4>3 DEF MergeNot, poolVars
                <5> QED  BY <3>1, <4>1, <5>1 DEF Sure, Fits
            <4> QED  BY <4>2, <4>3
        <3> QED  BY <3>2, <3>3
    <2>8. ShapeInv'
        <3> SUFFICES ASSUME Calm'
                     PROVE  /\ \A q \in Proc, m \in Addr :
                                  pc'[q] = "merge_next" /\ blk'[q] = m => Shape(m)'
                            /\ (\A q \in Proc : pc'[q] # "merge_next") => Shape(NoAddr)'
            BY DEF ShapeInv
        <3>1. \A q \in Proc \ {p} : pc'[q] = pc[q] /\ blk'[q] = blk[q]
            BY <2>2 DEF OthersKept
        <3>2. CASE MergeNot(p)
            <4>1. /\ \A q \in Proc, m \in Addr :
                        pc[q] = "merge_next" /\ blk[q] = m => Shape(m)
                  /\ (\A q \in Proc : pc[q] # "merge_next") => Shape(NoAddr)
                BY <2>5 DEF PoolInv, ShapeInv
            <4>2. UNCHANGED <<poolVars, owns>> /\ pc[p] # "merge_next" /\ pc'[p] # "merge_next"
                BY <3>2 DEF MergeNot
            <4>3. \A m : Shape(m) => Shape(m)'
                BY <4>2, ShapeKept
            <4> QED  BY <3>1, <4>1, <4>2, <4>3
        <3>3. CASE Inside(p) /\ pc'[p] # "merge_next" /\ Shape(NoAddr)'
            BY <2>6, <3>1, <3>3
        <3>4. CASE /\ Inside(p) /\ pc'[p] = "merge_next"
                   /\ \E m \in Addr : blk'[p] = m /\ Shape(m)'
            BY <2>6, <3>1, <3>4
        <3> QED  BY <2>5, <3>2, <3>3, <3>4
    <2> QED  BY <1>1, <2>3, <2>4, <2>7, <2>8 DEF PoolInv
<1> QED  BY <1>2, <1>3

\* It holds in every state.
LEMMA PoolAlways == Spec => []PoolInv
BY PoolInit, PoolStep, PTL DEF Spec

----------------------------------------------------------------------------

\* No assertion of bget() and brel() fails in any process, whatever the processes get,
\* resize and release, as long as none is killed inside the pool and no semop is
\* interrupted.
THEOREM AssertionsHold == Spec => []NoAssertFails
<1>1. PoolInv => NoAssertFails
    BY DEF PoolInv, CallInv, Sure, NoAssertFails
<1> QED  BY PoolAlways, <1>1, PTL

\* What a layout says in the words of the properties.
LEMMA LaidSound ==
    ASSUME PoolType, NEW L, NEW e, Laid(L, e, NoAddr), Given(L, e)
    PROVE  /\ Block = L /\ FreeBlock = freelist /\ Allocated = L \ freelist
           /\ \A a \in L : a + Magnitude(a) = e[a] /\ Magnitude(a) = e[a] - a
           /\ Tiled /\ Coalesced /\ Accounted
<1>1. Tiles(L, e) /\ freelist \subseteq L /\ bsize[PoolLen] = ESent /\ prevfree[0] = 0
    BY DEF Laid
<1>2. \A a \in L : /\ a \in Addr /\ e[a] \in Addr /\ a \in Int /\ e[a] \in Int
                   /\ a < e[a] /\ a < PoolLen /\ 16 <= e[a] - a
                   /\ a \in freelist => bsize[a] = e[a] - a
                   /\ a \notin freelist => bsize[a] = a - e[a]
                   /\ e[a] \in L \cup {PoolLen}
    BY LaidFacts
<1>3. \A a \in L : /\ bsize[a] \in Int /\ bsize[a] # 0
                   /\ a \in freelist <=> bsize[a] > 0
                   /\ a \notin freelist <=> bsize[a] < 0
    BY <1>2
<1>4. Block = L
    <2>1. \A a \in Addr : a < PoolLen /\ bsize[a] # 0 => a \in L
        BY AddrFacts DEF Laid
    <2> QED  BY <1>2, <1>3, <2>1 DEF Block
<1>5. FreeBlock = freelist
    BY <1>1, <1>3, <1>4 DEF FreeBlock
<1>6. Allocated = L \ freelist
    BY <1>4, <1>5 DEF Allocated
<1>7. \A a \in L : Magnitude(a) = e[a] - a /\ a + Magnitude(a) = e[a]
    <2> TAKE a \in L
    <2>1. CASE a \in freelist
        BY <1>2, <1>3, <2>1 DEF Magnitude
    <2>2. CASE a \notin freelist
        BY <1>2, <1>3, <2>2 DEF Magnitude
    <2> QED  BY <2>1, <2>2
<1>8. Tiled
    <2>1. bsize[0] # 0
        BY <1>1, <1>3 DEF Tiles
    <2>2. ASSUME NEW a \in L
          PROVE  /\ Magnitude(a) >= SizeQ + Hdr /\ a + Magnitude(a) \in L \cup {PoolLen}
                 /\ \A c \in L : ~(a < c /\ c < a + Magnitude(a))
        <3>1. Magnitude(a) >= SizeQ + Hdr /\ a + Magnitude(a) \in L \cup {PoolLen}
            BY <1>2, <1>7 DEF SizeQ, Hdr
        <3>2. ASSUME NEW c \in L PROVE ~(a < c /\ c < e[a])
            <4>1. c <= a \/ e[a] <= c
                BY <1>1 DEF Tiles
            <4> QED  BY <1>2, <4>1
        <3> QED  BY <1>7, <3>1, <3>2
    <2> QED  BY <1>1, <1>4, <2>1, <2>2 DEF Tiled
<1>9. Coalesced
    <2>0. NoAddr \notin freelist
        BY <1>1, <1>2, AddrFacts
    <2>1. \A a \in L : prevfree[a + Magnitude(a)] = IF bsize[a] > 0 THEN bsize[a] ELSE 0
        <3> TAKE a \in L
        <3>1. prevfree[e[a]] = IF a \in freelist THEN e[a] - a ELSE 0
            BY <2>0 DEF Laid
        <3> QED  BY <1>2, <1>3, <1>7, <3>1
    <2>2. \A a, c \in freelist : a + bsize[a] # c
        <3> TAKE a, c \in freelist
        <3>1. e[a] # c
            BY <2>0 DEF Laid
        <3>2. a + bsize[a] = e[a]
            BY <1>1, <1>2
        <3> QED  BY <3>1, <3>2
    <2> QED  BY <1>1, <1>4, <1>5, <2>1, <2>2 DEF Coalesced
<1>10. Accounted
    <2>1. Allocated = UNION {owns[p] : p \in Proc}
        <3>1. \A a : a \in Allocated <=> \E p \in Proc : a \in owns[p]
            <4>1. \A a \in Addr : a \in Allocated <=> \E p \in Proc : a \in owns[p]
                BY <1>6 DEF Given
            <4>2. \A a : a \in Allocated => a \in Addr
                BY <1>2, <1>6
            <4>3. \A a : (\E p \in Proc : a \in owns[p]) => a \in Addr
                BY DEF PoolType
            <4> QED  BY <4>1, <4>2, <4>3
        <3> QED  BY <3>1
    <2>2. UNION {Bytes(a) : a \in Allocated} = Used(Allocated, e)
        <3>1. \A a \in Allocated : Bytes(a) = a..(e[a] - 1)
            <4> TAKE a \in Allocated
            <4>1. a + Magnitude(a) = e[a] /\ Magnitude(a) = e[a] - a /\ a \in Int /\ e[a] \in Int
                BY <1>2, <1>6, <1>7
            <4>2. a + Magnitude(a) - 1 = e[a] - 1
                BY <4>1
            <4> QED  BY <4>2 DEF Bytes
        <3> QED  BY <3>1 DEF Used
    <2>3. totalloc = Cardinality(UNION {Bytes(a) : a \in Allocated})
        BY <1>6, <2>2, Zenon DEF Given
    <2>4. \A p, q \in Proc : p # q => owns[p] \cap owns[q] = {}
        BY DEF Given
    <2> QED  BY <2>1, <2>3, <2>4, Zenon DEF Accounted
<1> QED  BY <1>4, <1>5, <1>6, <1>7, <1>8, <1>9, <1>10

\* Between calls the pool is cut into blocks without a gap, contiguous free blocks are
\* merged, the free list and the back links say what is free, every allocated block has
\* one owner and totalloc is right: for any pool, any number of processes, any sizes.
THEOREM PoolStaysSound == Spec => []PoolSound
<1>1. PoolInv => PoolSound
    <2> SUFFICES ASSUME PoolInv, Quiet, Calm PROVE Tiled /\ Coalesced /\ Accounted
        BY DEF PoolInv, PoolSound
    <2>1. \A p \in Proc : pc[p] # "merge_next"
        BY DEF Quiet, Inside
    <2>2. PICK L, e : Laid(L, e, NoAddr) /\ Given(L, e)
        BY <2>1 DEF PoolInv, ShapeInv, Shape
    <2>3. PoolType
        BY TypeParts DEF PoolInv
    <2> QED  BY <2>2, <2>3, LaidSound
<1> QED  BY PoolAlways, <1>1, PTL

\* bget() gives up only when no run of free memory is large enough.
THEOREM NullOnlyWhenFull == Spec => []GivesUpRightly
<1>1. PoolInv => GivesUpRightly
    <2> SUFFICES ASSUME PoolInv, NEW p \in Proc, pc[p] = "up", fn[p] # "brel",
                        blk[p] = NoAddr, Calm, NEW a \in Addr, NEW n \in Addr,
                        \A c \in Addr : a <= c /\ c < a + n =>
                            ~\E b \in Allocated : b <= c /\ c < b + Magnitude(b),
                        a + n <= PoolLen
                 PROVE  n < size[p]
        BY DEF GivesUpRightly
    <2>1. PoolType /\ At(p) /\ Sure(p)
        BY TypeParts DEF PoolInv, PlaceInv, CallInv
    <2>2. PICK L, e : Laid(L, e, NoAddr) /\ Given(L, e)
        BY ShapeAt DEF Shape, Inside
    <2>3. /\ Allocated = L \ freelist /\ \A b \in L : b + Magnitude(b) = e[b]
        BY <2>1, <2>2, LaidSound
    <2>4. Fits(size[p]) = {} /\ size[p] \in Sizes
        BY <2>1 DEF Sure, At
    <2>5. a \in Int /\ n \in Int /\ 0 <= n /\ PoolLen \in Int /\ size[p] \in Int /\ 0 < size[p]
          /\ a <= PoolLen
        BY <2>4, AddrFacts DEF Sizes, SizeQ, Hdr
    <2>6. CASE n = 0
        BY <2>5, <2>6
    <2>7. CASE n # 0
        <3>1. a < a + n /\ a \in Addr \ {PoolLen}
            BY <2>5, <2>7
        <3>2. PICK d \in L : a <= a /\ d <= a /\ a < e[d]
            BY <2>2, <2>5, <3>1 DEF Laid, Tiles
        <3>3. d \in freelist
            BY <2>3, <2>5, <3>1, <3>2
        <3>4. d \in Int /\ e[d] \in Int /\ e[d] \in Addr /\ bsize[d] = e[d] - d
              /\ e[d] \in L \cup {PoolLen}
            BY <2>2, <3>3, LaidFacts
        <3>5. a + n <= e[d]
            <4> SUFFICES ASSUME e[d] < a + n PROVE FALSE
                BY <2>5, <3>4
            <4>1. e[d] \in L /\ a <= e[d]
                BY <2>5, <3>2, <3>4
            <4>2. e[d] < e[e[d]] /\ e[d] <= e[d]
                BY <2>2, <3>4, <4>1, LaidFacts
            <4>3. e[d] \in freelist
                BY <2>3, <3>4, <4>1, <4>2
            <4>4. d # NoAddr
                BY <2>2, <3>3, LaidFacts, AddrFacts
            <4> QED  BY <2>2, <3>3, <4>3, <4>4 DEF Laid
        <3>6. bsize[d] < size[p]
            <4>1. ~(bsize[d] >= size[p])
                BY <2>4, <3>3 DEF Fits
            <4> QED  BY <2>5, <3>4, <4>1
        <3> QED  BY <2>5, <3>2, <3>4, <3>5, <3>6
    <2> QED  BY <2>6, <2>7
<1> QED  BY PoolAlways, <1>1, PTL

----------------------------------------------------------------------------
\* The pool hands out disjoint buffers.

BufferAt(a) == [start |-> a, end |-> a - bsize[a]]

\* An allocated block is a buffer that overlaps no other block.
LEMMA BufferFacts ==
    ASSUME PoolType, NEW L, NEW e, NEW m, Laid(L, e, m), Given(L, e),
           NEW p \in Proc, NEW a \in owns[p]
    PROVE  /\ a \in L \ freelist /\ a - bsize[a] = e[a]
<1>1. a \in Addr
    BY DEF PoolType
<1>2. a \in L \ freelist
    BY <1>1 DEF Given
<1> QED  BY <1>2, LaidFacts

\* A block that joins those of p, with the headers of the other buffers as they were,
\* is a buffer handed out.
LEMMA Handed ==
    ASSUME PoolType, NEW p \in Proc, NEW c \in Addr, NEW end \in Addr, c < end,
           owns' = [owns EXCEPT ![p] = @ \cup {c}], c - bsize'[c] = end,
           \A q \in Proc : \A a \in owns[q] :
              bsize'[a] = bsize[a] /\ (end <= a \/ a - bsize[a] <= c)
    PROVE  heap!HeapNext
<1> PICK b : b = [start |-> c, end |-> end]
    OBVIOUS
<1>1. b \in heap!Buffer /\ b.start = c /\ b.end = end
    BY DEF heap!Buffer
<1>2. \A q \in Proc : use[q] = {BufferAt(a) : a \in owns[q]}
    BY DEF use, BufferAt
<1>3. \A u \in heap!InUse : heap!Disjoint(b, u)
    <2> SUFFICES ASSUME NEW q \in Proc, NEW u \in use[q] PROVE heap!Disjoint(b, u)
        BY DEF heap!InUse
    <2>1. PICK a \in owns[q] : u = BufferAt(a)
        BY <1>2
    <2>2. u.start = a /\ u.end = a - bsize[a]
        BY <2>1 DEF BufferAt
    <2>3. end <= a \/ a - bsize[a] <= c
        OBVIOUS
    <2> QED  BY <1>1, <2>2, <2>3 DEF heap!Disjoint
<1>4. use' = [use EXCEPT ![p] = @ \cup {b}]
    <2>1. owns'[p] = owns[p] \cup {c} /\ \A q \in Proc \ {p} : owns'[q] = owns[q]
        BY DEF PoolType
    <2>2. \A q \in Proc : \A a \in owns[q] : BufferAt(a)' = BufferAt(a)
        BY DEF BufferAt
    <2>3. BufferAt(c)' = b
        BY DEF BufferAt
    <2>4. use' = [q \in Proc |-> {BufferAt(a)' : a \in owns'[q]}]
        BY DEF use, BufferAt
    <2>5. ASSUME NEW q \in Proc, q # p PROVE {BufferAt(a)' : a \in owns'[q]} = use[q]
        BY <1>2, <2>1, <2>2, <2>5
    <2>6. {BufferAt(a)' : a \in owns'[p]} = use[p] \cup {b}
        BY <1>2, <2>1, <2>2, <2>3
    <2>7. use = [q \in Proc |-> use[q]]
        BY DEF use
    <2> QED  BY <2>4, <2>5, <2>6, <2>7
<1> QED  BY <1>1, <1>3, <1>4 DEF heap!HeapNext, heap!Get

\* A block that leaves those of p is a buffer given back.
LEMMA HandedBack ==
    ASSUME PoolType, NEW p \in Proc, NEW b \in owns[p],
           owns' = [owns EXCEPT ![p] = @ \ {b}],
           \A q \in Proc : \A a \in owns[q] \ {b} : bsize'[a] = bsize[a],
           \A q \in Proc \ {p} : b \notin owns[q]
    PROVE  heap!HeapNext
<1> PICK u : u = BufferAt(b)
    OBVIOUS
<1>1. \A q \in Proc : use[q] = {BufferAt(a) : a \in owns[q]}
    BY DEF use, BufferAt
<1>2. u \in use[p]
    BY <1>1
<1>3. owns'[p] = owns[p] \ {b} /\ \A q \in Proc \ {p} : owns'[q] = owns[q]
    BY DEF PoolType
<1>4. \A q \in Proc : \A a \in owns[q] \ {b} : BufferAt(a)' = BufferAt(a)
    BY DEF BufferAt
<1>5. \A a \in owns[p] \ {b} : BufferAt(a) # u
    BY DEF BufferAt
<1>6. use' = [q \in Proc |-> {BufferAt(a)' : a \in owns'[q]}]
    BY DEF use, BufferAt
<1>7. ASSUME NEW q \in Proc, q # p PROVE {BufferAt(a)' : a \in owns'[q]} = use[q]
    BY <1>1, <1>3, <1>4, <1>7
<1>8. {BufferAt(a)' : a \in owns'[p]} = use[p] \ {u}
    BY <1>1, <1>3, <1>4, <1>5
<1>9. use = [q \in Proc |-> use[q]]
    BY DEF use
<1>10. use' = [use EXCEPT ![p] = @ \ {u}]
    BY <1>6, <1>7, <1>8, <1>9
<1> QED  BY <1>2, <1>10 DEF heap!HeapNext, heap!Release

\* Headers of buffers in use that stay as they are keep the buffers.
LEMMA UseKept ==
    ASSUME owns' = owns, \A q \in Proc : \A a \in owns[q] : bsize'[a] = bsize[a]
    PROVE  UNCHANGED use
BY DEF use

\* As long as the pool is calm, every step hands out one buffer that overlaps none in
\* use, takes back one buffer from the process that has it, or changes no buffer: the
\* pool implements Heap.
THEOREM BuffersDisjoint == Spec => HandsOutDisjoint
<1>1. PoolInv /\ [Next]_vars => [Calm' => heap!HeapNext \/ UNCHANGED use]_vars
    <2> SUFFICES ASSUME PoolInv, Next, Calm' PROVE heap!HeapNext \/ UNCHANGED use
        OBVIOUS
    <2>1. PICK p \in Proc : ProcStep(p)
        BY DEF Next, ProcStep
    <2>2. Calm /\ (MergeNot(p) \/ Inside(p))
        BY <2>1, CalmStep
    <2>3. PoolType /\ At(p) /\ Sure(p) /\ TypeOK /\ CallType /\ ~AssertFails(p) /\ ~CarveStale(p)
        BY <2>2, TypeParts, AssertsHold DEF PoolInv, PlaceInv, CallInv
    <2>4. CASE UNCHANGED <<poolVars, owns>>
        BY <2>4, UseKept DEF poolVars
    <2>5. CASE CarveSplit(p) \/ CarveWhole(p)
        <3>1. pc[p] = "carve"
            BY <2>5 DEF CarveSplit, CarveSplitLinked, CarveWhole
        <3>2. PICK L, e : Laid(L, e, NoAddr) /\ Given(L, e)
            BY <2>2, <3>1, ShapeAt DEF Shape, Inside
        <3>3. PICK b \in freelist : b = blk[p]
            BY <2>3, <3>1 DEF Sure
        <3>4. PICK n \in Sizes : n = size[p]
            BY <2>3, <3>1 DEF At
        <3>5. b \in L /\ Tiles(L, e)
            BY <3>2 DEF Laid
        <3>6. /\ b \in Int /\ e[b] \in Int /\ bsize[b] = e[b] - b /\ n \in Int /\ n > 0
              /\ b \in Addr /\ e[b] \in Addr /\ b < e[b]
            BY <3>2, <3>4, <3>5, LaidFacts DEF Sizes, SizeQ, Hdr
        <3>7. Rest(p) = e[b] - b - n /\ b + Rest(p) = e[b] - n /\ b + bsize[b] = e[b]
            BY <3>3, <3>4, <3>6 DEF Rest
        <3>8. \A q \in Proc : \A a \in owns[q] :
                  /\ a # b /\ a - bsize[a] = e[a] /\ a \in L /\ a \in Int /\ e[a] \in Int
                  /\ e[b] <= a \/ e[a] <= b
            <4> TAKE q \in Proc
            <4> TAKE a \in owns[q]
            <4>1. a \in L \ freelist /\ a - bsize[a] = e[a]
                BY <2>3, <3>2, BufferFacts
            <4>2. a \in Int /\ e[a] \in Int
                BY <3>2, <4>1, LaidFacts
            <4>3. e[b] <= a \/ e[a] <= b
                BY <3>5, <4>1, TilesApart
            <4> QED  BY <4>1, <4>2, <4>3
        <3>9. CASE CarveSplit(p)
            <4>0. PICK ba : ba = e[b] - n
                OBVIOUS
            <4>1. /\ bsize' = [bsize EXCEPT ![b] = Rest(p), ![b + Rest(p)] = -n]
                  /\ Carved(p, b + Rest(p), n) /\ Splits(p) /\ CarveAsserts(p)
                BY <3>3, <3>4, <3>9 DEF CarveSplit, CarveSplitLinked
            <4>2. ba \in Int /\ b < ba /\ ba < e[b] /\ n <= e[b]
                BY <3>6, <3>7, <4>0, <4>1, AddrFacts DEF Splits, SizeQ, Hdr
            <4>3. ba \in Addr
                BY <3>4, <3>6, <4>0, <4>2, AddrBack DEF Sizes
            <4>4. ba \notin L
                <5>1. ba \in L => ba <= b \/ e[b] <= ba
                    BY <3>5 DEF Tiles
                <5> QED  BY <3>6, <4>2, <5>1
            <4>5. /\ owns' = [owns EXCEPT ![p] = @ \cup {ba}]
                  /\ bsize' = [bsize EXCEPT ![b] = Rest(p), ![ba] = -n]
                BY <3>7, <4>0, <4>1 DEF Carved
            <4>6. bsize'[ba] = -n /\ \A a \in Addr \ {b, ba} : bsize'[a] = bsize[a]
                BY <2>3, <3>6, <4>2, <4>3, <4>5 DEF PoolType
            <4>7. ba - bsize'[ba] = e[b]
                BY <3>6, <4>0, <4>2, <4>6
            <4>8. \A q \in Proc : \A a \in owns[q] :
                      bsize'[a] = bsize[a] /\ (e[b] <= a \/ a - bsize[a] <= ba)
                <5> TAKE q \in Proc
                <5> TAKE a \in owns[q]
                <5>1. a \in Addr \ {b, ba}
                    BY <2>3, <3>8, <4>4 DEF PoolType
                <5>2. e[b] <= a \/ e[a] <= b
                    BY <3>8
                <5>3. a - bsize[a] = e[a] /\ a \in Int /\ e[a] \in Int
                    BY <3>8
                <5> QED  BY <3>6, <4>2, <4>6, <5>1, <5>2, <5>3
            <4> QED  BY <2>3, <3>6, <4>2, <4>3, <4>5, <4>7, <4>8, Handed
        <3>10. CASE CarveWhole(p)
            <4>1. bsize' = [bsize EXCEPT ![b] = -@] /\ Carved(p, b, bsize[b])
                BY <3>3, <3>10 DEF CarveWhole
            <4>2. owns' = [owns EXCEPT ![p] = @ \cup {b}]
                BY <4>1 DEF Carved
            <4>3. bsize'[b] = -bsize[b] /\ \A a \in Addr \ {b} : bsize'[a] = bsize[a]
                BY <2>3, <3>6, <4>1 DEF PoolType
            <4>4. b - bsize'[b] = e[b]
                BY <3>6, <4>3
            <4>5. \A q \in Proc : \A a \in owns[q] :
                      bsize'[a] = bsize[a] /\ (e[b] <= a \/ a - bsize[a] <= b)
                <5> TAKE q \in Proc
                <5> TAKE a \in owns[q]
                <5>1. a \in Addr \ {b}
                    BY <2>3, <3>8 DEF PoolType
                <5>2. (e[b] <= a \/ e[a] <= b) /\ a - bsize[a] = e[a]
                    BY <3>8
                <5> QED  BY <4>3, <5>1, <5>2
            <4> QED  BY <2>3, <3>6, <4>2, <4>4, <4>5, Handed
        <3> QED  BY <2>5, <3>9, <3>10
    <2>6. CASE MergePrev(p)
        <3>1. pc[p] = "merge_prev"
            BY <2>6 DEF MergePrev
        <3>2. PICK L, e : Laid(L, e, NoAddr) /\ Given(L, e)
            BY <2>2, <3>1, ShapeAt DEF Shape, Inside
        <3>3. PICK b \in owns[p] : b = blk[p]
            BY <2>3, <3>1 DEF Sure, At
        <3>4. owns' = [owns EXCEPT ![p] = @ \ {b}]
            BY <2>6, <3>3 DEF MergePrev
        <3>5. \A q \in Proc \ {p} : b \notin owns[q]
            BY <3>2 DEF Given
        <3>6. \A q \in Proc : \A a \in owns[q] : a \in Addr /\ a \notin freelist
            BY <2>3, <3>2 DEF Given, PoolType
        <3>7. \A q \in Proc : \A a \in owns[q] \ {b} : bsize'[a] = bsize[a]
            <4>1. CASE prevfree[b] # 0
                <5>1. PICK m \in freelist : m = b - prevfree[b]
                    BY <2>3, <3>2, <4>1, OwnedBlock
                <5>2. bsize' = [bsize EXCEPT ![m] = @ - bsize[b]]
                    BY <2>6, <3>3, <4>1, <5>1 DEF MergePrev
                <5> QED  BY <2>3, <3>6, <5>2 DEF PoolType
            <4>2. CASE prevfree[b] = 0
                <5>1. bsize' = [bsize EXCEPT ![b] = -@]
                    BY <2>6, <3>3, <4>2 DEF MergePrev
                <5> QED  BY <2>3, <3>6, <5>1 DEF PoolType
            <4> QED  BY <4>1, <4>2
        <3> QED  BY <2>3, <3>4, <3>5, <3>7, HandedBack
    <2>7. CASE MergeNext(p)
        <3>1. pc[p] = "merge_next"
            BY <2>7 DEF MergeNext, MergeNextTo
        <3>2. PICK m \in Addr : m = blk[p]
            BY <2>3, <3>1 DEF At
        <3>3. PICK L, e : Laid(L, e, m) /\ Given(L, e)
            BY <2>2, <3>1, <3>2, ShapeAt DEF Shape, Inside
        <3>4. m \in freelist /\ m \in L /\ Tiles(L, e)
            BY <3>3, AddrFacts DEF Laid
        <3>5. /\ After(m) = e[m] /\ (e[m] \in freelist => bsize[e[m]] > 0)
              /\ bsize[e[m]] > 0 => e[m] \in freelist /\ After(e[m]) = e[e[m]]
            BY <2>3, <3>3, <3>4, BehindBlock
        <3>6. PICK end : end = MergedEnd(m)
            OBVIOUS
        <3>7. end = IF e[m] \in freelist THEN e[e[m]] ELSE e[m]
            BY <3>5, <3>6 DEF MergedEnd
        <3>8. owns' = owns
              /\ bsize' = [a \in Addr |-> IF m < a /\ a < end THEN 0
                                          ELSE IF a = m THEN end - m ELSE bsize[a]]
            BY <2>7, <3>2, <3>6 DEF MergeNext, MergeNextTo
        <3>9. ASSUME NEW q \in Proc, NEW a \in owns[q] PROVE bsize'[a] = bsize[a]
            <4>1. a \in L /\ a \notin freelist /\ a # m
                BY <2>3, <3>3, <3>4, BufferFacts
            <4>2. a \in Addr /\ a \in Int /\ e[a] \in Int /\ a < e[a]
                BY <3>3, <4>1, LaidFacts
            <4>3. m \in Int /\ e[m] \in Int
                BY <3>3, <3>4, LaidFacts
            <4>4. e[a] <= m \/ e[m] <= a
                BY <3>4, <4>1, TilesApart
            <4>5. ~(m < a /\ a < end)
                <5>1. CASE e[m] \in freelist
                    <6> PICK b : b = e[m]
                        OBVIOUS
                    <6>1. b \in L /\ b # a
                        BY <3>3, <4>1, <5>1 DEF Laid
                    <6>2. e[a] <= b \/ e[b] <= a
                        BY <3>4, <4>1, <6>1, TilesApart
                    <6>3. e[b] \in Int
                        BY <3>3, <6>1, LaidFacts
                    <6> QED  BY <3>7, <4>2, <4>3, <4>4, <5>1, <6>2, <6>3
                <5>2. CASE e[m] \notin freelist
                    BY <3>7, <4>2, <4>3, <4>4, <5>2
                <5> QED  BY <5>1, <5>2
            <4> QED  BY <3>8, <4>1, <4>2, <4>5
        <3> QED  BY <3>8, <3>9, UseKept
    <2>8. Bget(p) \/ Bgetr(p) \/ Brel(p) => UNCHANGED <<poolVars, owns>>
        BY DEF Bget, Bgetr, Brel, Call
    <2>9. SemDown(p) \/ SemDownInterrupted(p) => UNCHANGED <<poolVars, owns>>
        BY DEF SemDown, SemDownIf, SemDownInterrupted, Enter
    <2>10. SemUp(p) \/ Scan(p) \/ Kill(p) => UNCHANGED <<poolVars, owns>>
        BY DEF SemUp, Scan, Found, Kill, Ends, EndsAdjusted
    <2> QED  BY <2>1, <2>3, <2>4, <2>5, <2>6, <2>7, <2>8, <2>9, <2>10 DEF ProcStep, Step
<1> QED  BY PoolAlways, <1>1, PTL DEF Spec, HandsOutDisjoint
=============================================================================
