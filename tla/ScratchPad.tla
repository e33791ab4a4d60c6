----------------------------- MODULE ScratchPad -----------------------------
(***************************************************************************)
(* The scratch pad: a flash region that holds a header with a magic number *)
(* and a list of named tokens (kerSysScratchPadGet, kerSysScratchPadSet,   *)
(* kerSysScratchPadClearAll of bcm63xx_flash.c, structures of board.h).    *)
(*                                                                         *)
(* The pad is a sequence of cells.  A token is a name and a length, which  *)
(* take TokLen cells, and its data, padded to a multiple of Align.  The    *)
(* list ends at the first cell that does not begin a token.                *)
(***************************************************************************)
EXTENDS Integers, Sequences

CONSTANTS
    PadLen,    \* cells of the pad (8192)
    HeadLen,   \* sizeof(SP_HEADER) (32)
    TokLen,    \* sizeof(SP_TOKEN) (20)
    Align,     \* lengths are rounded up to a multiple of this (4)
    Name,      \* token names: they begin with a letter and have at most 15 letters
    Val,       \* what the data of a token can be
    Lengths,   \* bound: the lengths of token data that callers pass
    None,
    OldPads    \* pads left by a version with another magic number

ASSUME SizeAssumption ==
    /\ {PadLen, HeadLen, TokLen, Align} \subseteq Nat \ {0} /\ Lengths \subseteq Nat
    /\ \A x \in {PadLen, HeadLen, TokLen} : x % Align = 0
    /\ HeadLen + TokLen < PadLen

\* Cells.  A token header is one cell with its name and length and TokLen - 1
\* cells that follow; a cell of data carries its value and its place.
Zero      == <<"zero">>       \* 0x00
Ff        == <<"ff">>         \* 0xff, an erased cell
Magic     == <<"magic">>      \* MAGIC_NUMBER
Rest      == <<"rest">>       \* the rest of a header
Foreign   == <<"foreign">>    \* memory behind the buffer, taken not to look like a token
Cell == {Zero, Ff, Magic, Rest, <<"old">>} \cup ({"tok"} \X Name \X (Lengths \cup {0}))
            \cup ({"data"} \X Val \X (1..PadLen))

Offset == 0..(PadLen - 1)
Value  == {<<l, v>> : l \in Lengths, v \in Val}

ASSUME NoneAssumption == None \notin Value \cup Val

VARIABLES
    pad,     \* the cells of the region
    spill,   \* a write went past the end of the pad
    last,    \* the call that was made last
    ret      \* what it returned

vars == <<pad, spill, last, ret>>

Aligned(l) == ((l + Align - 1) \div Align) * Align
HasMagic(p) == p[0] = Magic

\* A token with a length the loops accept.
IsToken(c) == c[1] = "tok" /\ c[3] > 0 /\ c[3] < PadLen
Size(c)    == TokLen + Aligned(c[3])

\* What a loop finds at offset o: the pad ends where its buffer ends.
At(p, o) == IF o < PadLen THEN p[o] ELSE Foreign

\* A loop of kerSysScratchPadSet: from token to token, until one it looks for.
Skip(p, stop) ==
    LET skip[o \in Nat] ==
            IF ~IsToken(At(p, o)) \/ o \in stop THEN o ELSE skip[o + Size(At(p, o))]
    IN  skip[HeadLen]

\* The first loop: where the list of tokens ends.
UsedLen(p) == Skip(p, {})

\* The second loop: where the token is, or the end of the list.
Named(p, n) == {o \in Offset : IsToken(p[o]) /\ p[o][2] = n}
Find(p, n)  == Skip(p, Named(p, n))

\* The loop of kerSysScratchPadGet: usedLen does not count the token headers, so
\* the search of a full pad ends only behind the pad, where the buffer ends too.
Lookup(p, n) ==
    LET get[o \in Nat] == [usedLen \in Nat |->
            IF ~IsToken(At(p, o)) \/ usedLen >= PadLen THEN PadLen
            ELSE IF At(p, o)[2] = n THEN o
            ELSE get[o + Size(At(p, o))][usedLen + Aligned(At(p, o)[3])]]
    IN  IF HasMagic(p) THEN get[HeadLen][HeadLen] ELSE PadLen

\* The data kerSysScratchPadGet copies out.
Data(p, n) ==
    LET o == Lookup(p, n)  l == p[o][3]  first == p[o + TokLen] IN
    IF o = PadLen THEN None
    ELSE IF \E v \in Val : \A i \in 1..l : p[o + TokLen + i - 1] = <<"data", v, i>>
    THEN <<l, first[2]>> ELSE <<"torn">>

-----------------------------------------------------------------------------

\* memcpy of the cells s to offset o; what goes past the pad is lost here.
Put(p, o, s) ==
    [i \in Offset |-> IF i >= o /\ i < o + Len(s) THEN s[i - o + 1] ELSE p[i]]

Header == [i \in 1..HeadLen |-> IF i = 1 THEN Magic ELSE Rest]
DataCells(l, v) == [i \in 1..l |-> <<"data", v, i>>]
TokenCells(n, l, v) ==
    [i \in 1..TokLen |-> IF i = 1 THEN <<"tok", n, l>> ELSE Rest] \o DataCells(l, v)

AllZero == [i \in Offset |-> Zero]
AllFf   == [i \in Offset |-> Ff]

Init ==
    /\ pad \in {AllZero, AllFf} \cup OldPads
    /\ spill = FALSE
    /\ last = <<"none">> /\ ret = <<"ok">>

Refuse == ret' = <<"fail">> /\ UNCHANGED <<pad, spill>>

\* setSharedBlks erases the pad's sector and programs the buffer.  A sector that does
\* not verify makes flash_write_buf sleep; if it ever wakes and gives up, the sector is
\* left erased and the call returns -1.
SetSharedBlks(p) ==
    \/ pad' = p /\ ret' = <<"ok">>
    \/ pad' = AllFf /\ ret' = <<"fail">>

\* Mutant of Removed: the copy is one token header too short.
RemovedShort(p, o) ==
    LET size == Size(p[o])  copyLen == UsedLen(p) - (o + size) - TokLen
    IN  [i \in Offset |-> IF i < o THEN p[i]
                          ELSE IF i < o + copyLen THEN p[i + size] ELSE Zero]

\* The tokens behind the one at o move over it and the rest of the pad is zeroed.  The
\* copy overlaps; memcpy runs upwards on this processor.
Removed(p, o) ==
    LET size == Size(p[o])  copyLen == UsedLen(p) - (o + size)
    IN  [i \in Offset |-> IF i < o THEN p[i]
                          ELSE IF i < o + copyLen THEN p[i + size] ELSE Zero]

\* The token at the end of the list, and the header again.
PutAtEnd(p, n, l, v) ==
    LET u == UsedLen(p) IN
    /\ SetSharedBlks(Put(IF v = None THEN p ELSE Put(p, u, TokenCells(n, l, v)), 0, Header))
    /\ spill' = (spill \/ (v # None /\ u + TokLen + l > PadLen))

\* A pad without magic number: kerSysScratchPadClearAll clears the flash, but the
\* header and the token go into the buffer read before, and all of it is written,
\* whatever became of the clearing.
SetNew(n, l, v) ==
    /\ SetSharedBlks(Put(Put(pad, 0, Header), HeadLen, TokenCells(n, l, v)))
    /\ spill' = (spill \/ HeadLen + TokLen + l > PadLen)

\* Mutant of Overflows: the header of the new token is not counted.
OverflowsNoHeader(l) == UsedLen(pad) + l > PadLen

Overflows(l) == UsedLen(pad) + l + TokLen > PadLen

\* A pad that has tokens: overwrite data of the same length, otherwise remove the
\* token and put it at the end.  v is None for a null tokBuf.
SetToken(n, l, v) ==
    LET o == Find(pad, n) IN
    IF o >= UsedLen(pad) THEN PutAtEnd(pad, n, l, v)
    ELSE IF pad[o][3] = l /\ v # None
    THEN SetSharedBlks(Put(pad, o + TokLen, DataCells(l, v))) /\ UNCHANGED spill
    ELSE PutAtEnd(Removed(pad, o), n, l, v)

\* kerSysScratchPadSet.  A token that does not fit behind the others is refused.
Set(n, l, v) ==
    LET tooLong == l >= PadLen - HeadLen - TokLen
        full    == HasMagic(pad) /\ Overflows(l)
    IN
    /\ last' = <<"set", n, IF l = 0 \/ v = None THEN None ELSE <<l, v>>>>
    /\ IF tooLong \/ full THEN Refuse
       ELSE IF HasMagic(pad) THEN SetToken(n, l, v) ELSE SetNew(n, l, v)

\* kerSysScratchPadGet.  A pad without magic number is cleared: that may find no memory,
\* and it may fail and leave the pad erased.
Get(n) ==
    /\ last' = <<"get", n>>
    /\ ret' = IF Lookup(pad, n) = PadLen THEN <<"fail">> ELSE <<"value", Data(pad, n)>>
    /\ pad' \in IF HasMagic(pad) THEN {pad} ELSE {pad, AllZero, AllFf}
    /\ UNCHANGED spill

\* kerSysScratchPadClearAll.
ClearAll ==
    /\ last' = <<"clear">>
    /\ SetSharedBlks(AllZero)
    /\ UNCHANGED spill

\* retriedKmalloc gave up: any call fails and does nothing.
NoMemory ==
    /\ \/ last' = <<"clear">>
       \/ \E n \in Name : \/ last' = <<"get", n>>
                           \/ \E v \in Value \cup {None} : last' = <<"set", n, v>>
    /\ Refuse

Next ==
    \/ \E n \in Name : \/ Get(n)
                       \/ \E l \in Lengths, v \in Val : Set(n, l, v)
                       \/ Set(n, 0, None)
    \/ ClearAll
    \/ NoMemory

Spec == Init /\ [][Next]_vars

-----------------------------------------------------------------------------
(* Properties *)

\* The pad holds cells, and a get that succeeds returns whole data of a length and
\* value that some caller passed.
TypeOK ==
    /\ pad \in [Offset -> Cell] /\ spill \in BOOLEAN
    /\ ret \in {<<"ok">>, <<"fail">>} \cup {<<"value", t>> : t \in Value}

\* No sequence of sets writes past the end of the pad, which is also the end of the
\* buffer: the check before a set counts the header and the padding of every token.
NoSpill == ~spill

\* No sequence of sets leaves two tokens with one name, of which a get would see
\* only the first.
UniqueNames ==
    \A n \in Name : HasMagic(pad) =>
        LET o == Find(pad, n) IN
        o < UsedLen(pad) => \A i \in Offset :
            i > o /\ i < UsedLen(pad) => ~(pad[i][1] = "tok" /\ pad[i][2] = n)

\* What any sequence of calls leaves: cells, inside the pad, one token of a name.
PadSound == TypeOK /\ NoSpill /\ UniqueNames

\* The list of tokens implements the map its callers see: moving tokens about never
\* changes, loses or brings back one that the call does not name, and a write that
\* fails loses all of them and is reported.
TM == INSTANCE TokenMap WITH map <- [n \in Name |-> Data(pad, n)]
ImplementsTokenMap == TM!Spec

\* bcm63xx_flash.c: "new sp, so just flash the token": the first set of a pad
\* without magic number leaves a pad with that token only.
NewPadJustToken ==
    [][~HasMagic(pad) /\ HasMagic(pad') =>
        \A n \in Name : Data(pad', n) # None => last'[2] = n]_vars
=============================================================================
