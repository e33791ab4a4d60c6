---------------------------- MODULE ImageUpgrade ----------------------------
(***************************************************************************)
(* Writing a new firmware image: the BCM_IMAGE_FS case of board_ioctl,     *)
(* flashFsKernelImage and kerSysBcmImageSet, with failing calls and power  *)
(* cuts, up to the choice of the image whose file system is mounted after  *)
(* the next start (getBootImageTag).                                       *)
(*                                                                         *)
(* The flash is a row of sectors of one size: the boot loader and NVRAM,   *)
(* partition 1 with its tag in sector First, partition 2 with its tag in   *)
(* sector Half, the configuration partitions.  The scratch pad is in the   *)
(* sector below that of VARIABLE.                                          *)
(***************************************************************************)
EXTENDS Integers

CONSTANTS
    NSect,    \* flash_get_numsectors()
    First,    \* the sector at FLASH_LENGTH_BOOT_ROM
    Half,     \* the sector at half of the flash
    VaSect,   \* flash_variable_start_blk
    Lens,     \* lengths of images, in sectors
    MaxImage  \* bound: images 1 and 2 are there at first, the others are flashed

\* FLASH_RESERVED_AT_END and the sector of the scratch pad.
Reserved == 1
SpSect   == VaSect - 1

ASSUME LayoutAssumption ==
    /\ {NSect, First, Half, VaSect} \subseteq Nat
    /\ 0 < First /\ First + 1 < Half /\ Half + 1 < SpSect /\ VaSect < NSect
ASSUME ImageAssumption == Lens \subseteq Nat \ {0, 1} /\ MaxImage \in Nat \ {0, 1}

Sector == 0..(NSect - 1)
Image  == 1..MaxImage

\* What a sector holds: a piece of an image, whole or only its beginning; nothing
\* (erased or in part written); or what was there before, which is no image.
Erased == 0
Other  == -1
Cell   == [id : Image \cup {Erased, Other}, idx : 0..NSect, whole : BOOLEAN]
Piece(i, k) == [id |-> i, idx |-> k, whole |-> TRUE]
Blank  == Piece(Erased, 0)
Foreign == Piece(Other, 0)

VARIABLES
    flash,   \* the sectors
    len,     \* len[i]: the length of image i
    small,   \* small[i]: its last piece leaves room for VARIABLE in the sector
    seq,     \* seq[i]: imageSequence in the tag of image i
    va,      \* the upgrade flag at offset 256 of VARIABLE
    boot,    \* p= of the bootline in the NVRAM
    pc,      \* where the upgrade is
    img,     \* the image it writes
    pos,     \* blk_start of kerSysBcmImageSet
    buf,     \* the flag and the piece of an image in the buffer for VARIABLE's sector
    bootline,\* p= of the bootline in nvramData, read at the beginning
    sleep,   \* write_sem_lock: a write sleeps on it, or was woken and left it one too high
    ignored  \* history: a call failed whose result flashFsKernelImage ignores

imgVars  == <<len, small, seq>>
vars     == <<flash, imgVars, va, boot, pc, img, pos, buf, bootline, sleep, ignored>>

At(p) == IF p = 1 THEN First ELSE Half

NoBuf == [va |-> "lost", piece |-> Blank]

\* Images 1 and, in some boards, 2 are complete.
Init ==
    \E two \in BOOLEAN, s1, s2 \in {1, 2} :
        /\ s1 # s2
        /\ flash = [s \in Sector |->
               CASE s \in {First, First + 1} -> Piece(1, s - First)
                 [] two /\ s \in {Half, Half + 1} -> Piece(2, s - Half)
                 [] OTHER -> Foreign]
        /\ len = [i \in Image |-> 2] /\ small = [i \in Image |-> FALSE]
        /\ seq = [i \in Image |-> IF i = 1 THEN s1 ELSE IF i = 2 THEN s2 ELSE 0]
        /\ va = "1" /\ boot \in {"latest", "previous"}
        /\ pc = "idle" /\ img = 2 /\ pos = First /\ buf = NoBuf
        /\ bootline = "latest" /\ sleep = "no" /\ ignored = FALSE

-----------------------------------------------------------------------------
(* Tags *)

\* getTagFromPartition: the tag is there and its CRC is right.
HasTag(p) == flash[At(p)].id \in Image /\ flash[At(p)].idx = 0
Tag(p)    == flash[At(p)].id

\* getBootImageTag, as a partition; meaningful when there is a tag at all.
BootPartition ==
    IF HasTag(1) /\ HasTag(2)
    THEN IF boot = "latest"
         THEN IF seq[Tag(2)] > seq[Tag(1)] THEN 2 ELSE 1
         ELSE IF seq[Tag(2)] < seq[Tag(1)] THEN 2 ELSE 1
    ELSE IF HasTag(2) THEN 2 ELSE 1

\* Mutant of NextSequence: only partition 1 is looked at.
NextSequenceFirst == 1 + IF HasTag(1) THEN seq[Tag(1)] ELSE 0

\* UpdateImageSequenceNumber.
NextSequence ==
    LET s1 == IF HasTag(1) THEN seq[Tag(1)] ELSE 0
        s2 == IF HasTag(2) THEN seq[Tag(2)] ELSE 0
    IN  1 + IF s2 > s1 THEN s2 ELSE s1

\* Every piece of the image of the tag is in its place.
Intact(p) ==
    /\ HasTag(p)
    /\ \A k \in 0..(len[Tag(p)] - 1) : flash[At(p) + k] = Piece(Tag(p), k)

-----------------------------------------------------------------------------
(* flashFsKernelImage *)

Upgrading == pc \notin {"idle", "boot", "dead"}

Awake == sleep # "asleep"

\* VARIABLE's sector is being programmed.
OnVariable == pc \in {"flag3w", "flag1w"} \/ (pc = "bodyw" /\ pos = VaSect)

\* flash_write_buf finds a difference and erases the sector again.  The erase takes
\* write_sem_lock, which the write already holds: the ioctl sleeps.  What it has
\* programmed may look right in parts, the flag or the bootline say.
VerifyFails ==
    /\ pc \in {"flag3w", "flag1w", "bodyw", "tagw", "tagr", "nvramw"} /\ sleep = "no"
    /\ sleep' = "asleep"
    /\ va' \in IF OnVariable THEN {va, buf.va} ELSE {va}
    /\ boot' \in IF pc = "nvramw" THEN {boot, "latest"} ELSE {boot}
    /\ ignored' = (ignored \/ pc \in {"flag3w", "flag1w"})
    /\ UNCHANGED <<flash, imgVars, pc, img, pos, buf, bootline>>

\* A signal ends the sleep, and down_interruptible's result is ignored: the sector is
\* erased and programmed again.  The erase has put up the semaphore without having put
\* it down, so that later writes that do not verify no longer sleep.
Woken ==
    /\ sleep = "asleep" /\ sleep' = "woken"
    /\ va' = IF OnVariable THEN "lost" ELSE va
    /\ boot' = IF pc = "nvramw" THEN "lost" ELSE boot
    /\ flash' = IF pc = "tagr" THEN [flash EXCEPT ![First] = Blank] ELSE flash
    /\ pc' = IF pc = "tagr" THEN "tagw" ELSE pc
    /\ UNCHANGED <<imgVars, img, pos, buf, bootline, ignored>>

\* flash_write_buf can return an error: it gives up after three tries.
GivesUp == sleep = "woken"

\* Mutant of Begin: the flag "3" is not stored.
BeginUnflagged(l, s) ==
    /\ pc = "idle" /\ img < MaxImage /\ First + l <= NSect - Reserved
    /\ img' = img + 1 /\ pc' = "body" /\ pos' = First + 1
    /\ len' = [len EXCEPT ![img + 1] = l] /\ small' = [small EXCEPT ![img + 1] = s]
    /\ bootline' = boot
    /\ seq' = [seq EXCEPT ![img + 1] = NextSequence]
    /\ UNCHANGED <<flash, va, boot, buf, sleep, ignored>>

\* The image passes the check of its size; one that does not is refused with nothing
\* changed.  The second partition is never chosen: that code is commented out.
Begin(l, s) ==
    /\ pc = "idle" /\ img < MaxImage /\ First + l <= NSect - Reserved
    /\ img' = img + 1 /\ pc' = "flag3"
    /\ len' = [len EXCEPT ![img + 1] = l] /\ small' = [small EXCEPT ![img + 1] = s]
    /\ bootline' = boot
    /\ UNCHANGED <<flash, seq, va, boot, pos, buf, sleep, ignored>>

\* kerSysVariableSet rewrites the sector of VARIABLE around the flag.
FlagErase ==
    /\ pc \in {"flag3", "flag1"}
    /\ buf' = [va |-> IF pc = "flag3" THEN "3" ELSE "1", piece |-> flash[VaSect]]
    /\ flash' = [flash EXCEPT ![VaSect] = Blank] /\ va' = "lost"
    /\ pc' = IF pc = "flag3" THEN "flag3w" ELSE "flag1w"
    /\ UNCHANGED <<imgVars, boot, img, pos, bootline, sleep, ignored>>

\* After the first flag the tag gets its sequence number and the sectors after that
\* of the tag come first; after the second flag board_ioctl resets the board.
AfterFlag ==
    IF pc \in {"flag3", "flag3w"}
    THEN /\ seq' = [seq EXCEPT ![img] = NextSequence]
         /\ pc' = "body" /\ pos' = First + 1
    ELSE pc' = "reset" /\ UNCHANGED <<seq, pos>>

FlagProgram ==
    /\ pc \in {"flag3w", "flag1w"} /\ Awake
    /\ flash' = [flash EXCEPT ![VaSect] = buf.piece] /\ va' = buf.va
    /\ ignored' = (ignored /\ pc = "flag1w")
    /\ AfterFlag
    /\ UNCHANGED <<len, small, boot, img, buf, bootline, sleep>>

\* No memory for the buffer, or a program given up: flashFsKernelImage goes on.
FlagFails ==
    /\ pc \in {"flag3", "flag1"} \/ (pc \in {"flag3w", "flag1w"} /\ GivesUp)
    /\ ignored' = TRUE
    /\ AfterFlag
    /\ UNCHANGED <<flash, len, small, va, boot, img, buf, bootline, sleep>>

-----------------------------------------------------------------------------
(* kerSysBcmImageSet for the sectors after that of the tag *)

Last == pos = First + len[img] - 1

\* In the sector of VARIABLE only a last piece that leaves room for it is written.
MaySet == pos = VaSect => Last /\ small[img]

\* VARIABLE is kept in a copy of its sector.
SectorErase ==
    /\ pc = "body" /\ MaySet
    /\ flash' = [flash EXCEPT ![pos] = Blank]
    /\ IF pos = VaSect
       THEN va' = "lost" /\ buf' = [va |-> va, piece |-> Piece(img, pos - First)]
       ELSE UNCHANGED <<va, buf>>
    /\ pc' = "bodyw"
    /\ UNCHANGED <<imgVars, boot, img, pos, bootline, sleep, ignored>>

\* Mutants of SectorProgram: the loop runs once more with nothing left, or does not
\* advance.
SectorProgramOver ==
    /\ pc = "bodyw" /\ Awake
    /\ flash' = [flash EXCEPT ![pos] = Piece(img, pos - First)]
    /\ va' = IF pos = VaSect THEN buf.va ELSE va
    /\ IF pos = First + len[img] THEN pc' = "tag" /\ UNCHANGED pos
                                 ELSE pc' = "body" /\ pos' = pos + 1
    /\ UNCHANGED <<imgVars, boot, img, buf, bootline, sleep, ignored>>
SectorProgramStuck ==
    /\ pc = "bodyw" /\ Awake
    /\ flash' = [flash EXCEPT ![pos] = Piece(img, pos - First)]
    /\ va' = IF pos = VaSect THEN buf.va ELSE va
    /\ pc' = IF Last THEN "tag" ELSE "body"
    /\ UNCHANGED <<imgVars, boot, img, pos, buf, bootline, sleep, ignored>>

\* The loop of kerSysBcmImageSet ends when nothing of the image is left.
SectorProgram ==
    /\ pc = "bodyw" /\ Awake
    /\ flash' = [flash EXCEPT ![pos] = Piece(img, pos - First)]
    /\ va' = IF pos = VaSect THEN buf.va ELSE va
    /\ IF Last THEN pc' = "tag" /\ UNCHANGED pos ELSE pc' = "body" /\ pos' = pos + 1
    /\ UNCHANGED <<imgVars, boot, img, buf, bootline, sleep, ignored>>

\* "Image is too big", copy_from_user failed, or flash_write_buf came back short:
\* flashFsKernelImage returns the sector, the flag "3" stays.
SectorFails ==
    /\ (pc = "bodyw" /\ GivesUp) \/ (pc = "body" /\ pos = VaSect)
    /\ pc' = "idle"
    /\ UNCHANGED <<flash, imgVars, va, boot, img, pos, buf, bootline, sleep, ignored>>

-----------------------------------------------------------------------------
(* The sector of the tag, the boot partition and the end *)

TagErase ==
    /\ pc = "tag"
    /\ flash' = [flash EXCEPT ![First] = Blank]
    /\ pc' = "tagw"
    /\ UNCHANGED <<imgVars, va, boot, img, pos, buf, bootline, sleep, ignored>>

\* cfi_flash_write goes up from the start of the sector: the tag comes first.
TagHead ==
    /\ pc = "tagw" /\ Awake
    /\ flash' = [flash EXCEPT ![First] = [Piece(img, 0) EXCEPT !.whole = FALSE]]
    /\ pc' = "tagr"
    /\ UNCHANGED <<imgVars, va, boot, img, pos, buf, bootline, sleep, ignored>>

TagRest ==
    /\ pc = "tagr" /\ Awake
    /\ flash' = [flash EXCEPT ![First] = Piece(img, 0)]
    /\ pc' = IF bootline = "latest" THEN "flag1" ELSE "nvram"
    /\ UNCHANGED <<imgVars, va, boot, img, pos, buf, bootline, sleep, ignored>>

\* flash_write_buf gives up and leaves the sector erased.
TagFails ==
    /\ pc \in {"tagw", "tagr"} /\ GivesUp
    /\ flash' = [flash EXCEPT ![First] = Blank]
    /\ pc' = "idle"
    /\ UNCHANGED <<imgVars, va, boot, img, pos, buf, bootline, sleep, ignored>>

\* kerSysNvRamSet: the NVRAM shares its sector with the boot loader.
NvramErase ==
    /\ pc = "nvram"
    /\ boot' = "lost" /\ pc' = "nvramw"
    /\ UNCHANGED <<flash, imgVars, va, img, pos, buf, bootline, sleep, ignored>>

NvramProgram ==
    /\ pc = "nvramw" /\ Awake
    /\ boot' = "latest" /\ pc' = "flag1"
    /\ UNCHANGED <<flash, imgVars, va, img, pos, buf, bootline, sleep, ignored>>

NvramFails ==
    /\ pc = "nvram" \/ (pc = "nvramw" /\ GivesUp)
    /\ ignored' = TRUE /\ pc' = "flag1"
    /\ UNCHANGED <<flash, imgVars, va, boot, img, pos, buf, bootline, sleep>>

-----------------------------------------------------------------------------
(* Resets *)

Restart ==
    /\ pc' = "boot" /\ pos' = First /\ buf' = NoBuf /\ bootline' = "latest" /\ sleep' = "no"
    /\ UNCHANGED <<flash, imgVars, va, boot, img, ignored>>

\* kerSysMipsSoftReset after a successful upgrade.
SoftReset == pc = "reset" /\ Restart

\* The mains fail, or kerSysBcmImageSet resets the board for want of memory.
PowerCut == Upgrading /\ Restart

\* The boot loader needs its sector and a tag.
Boot ==
    /\ pc = "boot"
    /\ pc' = IF boot # "lost" /\ (HasTag(1) \/ HasTag(2)) THEN "idle" ELSE "dead"
    /\ UNCHANGED <<flash, imgVars, va, boot, img, pos, buf, bootline, sleep, ignored>>

Step ==
    \/ FlagErase \/ FlagProgram \/ FlagFails
    \/ SectorErase \/ SectorProgram \/ SectorFails
    \/ TagErase \/ TagHead \/ TagRest \/ TagFails
    \/ NvramErase \/ NvramProgram \/ NvramFails
    \/ SoftReset \/ Boot

Next == Step \/ VerifyFails \/ Woken \/ PowerCut \/ \E l \in Lens, s \in BOOLEAN : Begin(l, s)

Spec     == Init /\ [][Next]_vars
\* The ioctl runs on until it returns or sleeps; nobody owes it the signal that wakes it.
FairSpec == Spec /\ WF_vars(Step)

-----------------------------------------------------------------------------
(* Properties *)

\* When board_ioctl resets the board after an upgrade, the image mounted next is the
\* new one and complete, whatever tags, sequence numbers and remains of earlier
\* upgrades were there, unless a call failed whose result is ignored.
UpgradeBoots ==
    pc = "reset" /\ ~ignored => BootPartition = 1 /\ Tag(1) = img /\ Intact(1)

\* The flag "1" vouches for partition 1: whatever power cuts and failures left half
\* of an image there, the flag is not "1", unless storing it failed unnoticed.
FlagTellsTorn == va = "1" => Intact(1) \/ ignored

\* No step of an upgrade touches a sector the image does not reach, save VARIABLE's:
\* partition 2 and the scratch pad, which the size check does not protect, survive
\* every image that ends in front of them, retries and failures included.
ElsewhereKept ==
    [][\A s \in Sector \ {VaSect} :
        flash'[s] # flash[s] => s \in First..(First + len[img] - 1)]_vars

\* An upgrade returns or resets the board, and the board then starts or is dead; only a
\* sector that does not verify makes it sleep.
UpgradeEnds == Upgrading ~> pc \in {"idle", "dead"} \/ ~Awake
=============================================================================
