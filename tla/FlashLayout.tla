---------------------------- MODULE FlashLayout -----------------------------
(***************************************************************************)
(* Where the partitions of the flash are: kerSysFlashInit of               *)
(* bcm63xx_flash.c carves them off the end of the flash one after another, *)
(* each on sectors of its own and at the end of those sectors.  The sizes  *)
(* of the sectors come from the chip, the size of the PSI from the board   *)
(* parameters or a default, the size of the WLAN calibration data from the *)
(* hardware type.                                                          *)
(***************************************************************************)
EXTENDS Integers, Sequences

CONSTANTS
    NSect,     \* flash_get_numsectors()
    Geometry,  \* base[i]: the address of sector i; base[NSect]: the size of the flash
    Lengths    \* the lengths the partitions can have

\* In the order in which they are carved off.
Order == <<"persistent", "psi_backup", "fix", "avail", "variable", "scratch_pad",
           "firewalllog", "systemlog", "wlanparam">>
Partition == {Order[i] : i \in 1..9}
Index == 1..9

\* The sectors tile the flash.
ASSUME SectorAssumption == NSect \in Nat \ {0}
ASSUME GeometryAssumption ==
    \A b \in Geometry :
        /\ b \in [0..NSect -> Nat] /\ b[0] = 0
        /\ \A i, j \in 0..NSect : i < j => b[i] < b[j]
        /\ \A a \in 0..(b[NSect] - 1) : \E i \in 0..(NSect - 1) : b[i] <= a /\ a < b[i + 1]
ASSUME LengthAssumption == Lengths \subseteq [Partition -> Nat \ {0}]

VARIABLES
    base,    \* the sector table of the chip
    len,     \* flash_*_length
    count,   \* partitions carved off so far
    top,     \* start_blk of the last one
    used,    \* usedBlkSize
    part     \* flash_*_start_blk, flash_*_number_blk and flash_*_blk_offset

vars == <<base, len, count, top, used, part>>

NoPart == [start |-> NSect, number |-> 0, offset |-> 0]

Init ==
    /\ base \in Geometry /\ len \in Lengths
    /\ count = 0 /\ top = NSect /\ used = 0
    /\ part = [i \in Index |-> NoPart]

\* flash_get_blk: the sector of an address; -1 for an address below the flash.
GetBlk(a) ==
    IF a < 0 THEN -1 ELSE CHOOSE i \in 0..(NSect - 1) : base[i] <= a /\ a < base[i + 1]

\* The sum of flash_get_sector_size over the sectors from s up to t.
SizeOf(s, t) == base[t] - base[s]

\* Mutant of Carve: usedBlkSize is not advanced.
CarveUsedStuck ==
    /\ count < Len(Order) /\ top >= 0
    /\ LET l == len[Order[count + 1]]
           s == GetBlk(base[NSect] - used - l)
           size == IF s >= 0 THEN SizeOf(s, top) ELSE l
       IN  /\ part' = [part EXCEPT ![count + 1] =
                           [start |-> s, number |-> top - s, offset |-> size - l]]
           /\ top' = s /\ used' = IF count = 0 THEN size ELSE used
    /\ count' = count + 1
    /\ UNCHANGED <<base, len>>

\* Mutant of Carve: the partition is put at the start of its sectors.
CarveAtStart ==
    /\ count < Len(Order) /\ top >= 0
    /\ LET l == len[Order[count + 1]]
           s == GetBlk(base[NSect] - used - l)
           size == IF s >= 0 THEN SizeOf(s, top) ELSE l
       IN  /\ part' = [part EXCEPT ![count + 1] =
                           [start |-> s, number |-> top - s, offset |-> 0]]
           /\ top' = s /\ used' = used + l
    /\ count' = count + 1
    /\ UNCHANGED <<base, len>>

\* Mutant of Carve: the counter of the partition's sectors is not reset to 0.
CarveNoReset ==
    /\ count < Len(Order) /\ top >= 0
    /\ LET l == len[Order[count + 1]]
           s == GetBlk(base[NSect] - used - l)
           size == IF s >= 0 THEN used + SizeOf(s, top) ELSE l
       IN  /\ part' = [part EXCEPT ![count + 1] =
                           [start |-> s, number |-> top - s, offset |-> size - l]]
           /\ top' = s /\ used' = used + size
    /\ count' = count + 1
    /\ UNCHANGED <<base, len>>

\* One partition.  Below the start of the flash start_blk is -1: what the code does
\* from there on reads outside the sector table and is not modelled.
Carve ==
    /\ count < Len(Order) /\ top >= 0
    /\ LET l == len[Order[count + 1]]
           s == GetBlk(base[NSect] - used - l)
           size == IF s >= 0 THEN SizeOf(s, top) ELSE l
       IN  /\ part' = [part EXCEPT ![count + 1] =
                           [start |-> s, number |-> top - s, offset |-> size - l]]
           /\ top' = s /\ used' = used + size
    /\ count' = count + 1
    /\ UNCHANGED <<base, len>>

\* kerSysFlashInit has returned, or the flash is too small.
Finished == (count = Len(Order) \/ top < 0) /\ UNCHANGED vars

Next == Carve \/ Finished

Spec == Init /\ [][Next]_vars

-----------------------------------------------------------------------------
(* Properties *)

Sectors(i) == part[i].start .. (part[i].start + part[i].number - 1)
Placed(i)  == i <= count /\ part[i].start >= 0

\* The variables keep their types; a partition that is placed has at least one
\* sector.
TypeOK ==
    /\ base \in Geometry /\ len \in Lengths
    /\ count \in 0..9 /\ top \in -1..NSect /\ used \in Nat
    /\ part \in [Index -> [start : -1..NSect, number : 0..(NSect + 1), offset : Nat]]
    /\ \A i \in Index : Placed(i) => part[i].number >= 1

\* The read-modify-write of a partition's sectors never touches another partition:
\* no two of them share a sector, whatever the sizes of the sectors.
OwnSectors ==
    \A i, j \in Index : Placed(i) /\ Placed(j) /\ i # j => Sectors(i) \cap Sectors(j) = {}

\* A partition lies within the buffer that getSharedBlks makes of its sectors, and
\* ends where the buffer ends.
InsideSectors ==
    \A i \in Index : Placed(i) =>
        /\ part[i].offset >= 0
        /\ part[i].offset + len[Order[i]] = SizeOf(part[i].start, part[i].start + part[i].number)

\* No partition takes more sectors than it needs: it begins in its first sector.
NoSpareSector ==
    \A i \in Index : Placed(i) =>
        part[i].offset < SizeOf(part[i].start, part[i].start + 1)

\* No sector of the chip is larger than w.
Widest(w) == \A i \in 0..(NSect - 1) : SizeOf(i, i + 1) <= w

\* What the partitions need when each may waste all but one unit of a sector of size w.
Need(w) == len["persistent"] + len["psi_backup"] + len["fix"] + len["avail"] + len["variable"]
           + len["scratch_pad"] + len["firewalllog"] + len["systemlog"] + len["wlanparam"]
           + 9 * (w - 1)

\* The boot sector, which holds the NVRAM, is left alone when the flash above it has
\* room for every partition and the waste of one largest sector each.
BootSectorSpared ==
    \A w \in {SizeOf(i, i + 1) : i \in 0..(NSect - 1)} :
        Widest(w) /\ base[NSect] - base[1] >= Need(w) =>
            \A i \in Index : i <= count => part[i].start >= 1
=============================================================================
