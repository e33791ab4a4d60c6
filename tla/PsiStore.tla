------------------------------ MODULE PsiStore ------------------------------
(***************************************************************************)
(* The persistent configuration store of the gateway: the PSI tree kept in *)
(* shared memory (userapps/broadcom/cfm/util/psi/psiifc.cpp) and the two   *)
(* flash regions that hold its XML text, the PSI region and the PSI backup *)
(* region (kerSysPersistent*, kerSysPsiBackup* of bcm63xx_flash.c).        *)
(*                                                                         *)
(* A text is cut into the flash sectors it occupies.  Writing it rewrites   *)
(* the whole region, read back first: what an older, longer text left      *)
(* behind the end of the new one stays.  A sector is erased and then       *)
(* written, and the power may be cut between any two of those steps.  A    *)
(* buffer allocation or a flash read may fail; a sector that does not      *)
(* verify puts its writer to sleep.  One operation of the store is under   *)
(* way at a time.                                                          *)
(***************************************************************************)
EXTENDS Integers

CONSTANTS
    NSector,     \* flash sectors of a region
    MaxVersion,  \* bound: configuration texts created during a behaviour
    MaxFault,    \* bound: faults counted since both copies last agreed
    MaxCut,      \* bound: power cuts during a behaviour
    Layout,      \* Layout[v]: where the tags of text v fall in the sectors
    Length,      \* Length[v]: the sector in which text v ends
    Large        \* the texts that do not fit the PSI region

ASSUME SectorAssumption  == NSector \in Nat \ {0}
ASSUME BoundAssumption   == MaxVersion \in Nat /\ MaxFault \in Nat /\ MaxCut \in Nat
ASSUME DefaultAssumption == 0 \notin Large

Sector  == 1..NSector
Version == 0..MaxVersion     \* 0 is the default configuration file

\* What a sector can hold besides its piece of a complete text: nothing that
\* parses (erased, or erased and partly written), the 0x00 fill of profileErase,
\* or its piece of the well-formed text of a tree that lost objects.
Erased  == -1
Zero    == -2
Partial == -3

\* No sector of the flash: a text does not reach that far.
Rest == -4

Piece  == Version \cup {Partial}
Cell   == Piece \cup {Erased, Zero}
Copy   == [Sector -> Cell]
Text   == [Sector -> Cell \cup {Rest}]
Region == {"psi", "backup"}

ASSUME LengthAssumption == Length \in [Piece -> Sector]

VARIABLES
    flash,    \* flash[r]: the sectors of region r
    tree,     \* the PSI tree m_apps, as the text it would be written as
    pc,       \* where init() or the API call in progress is
    op,       \* the operation that is writing the flash
    buf,      \* the text it writes, string[strLen]
    image,    \* the sectors it is going to write, pBuf of kerSysPersistentSet
    reg,      \* the region it is writing
    sect,     \* 0: buffer not allocated yet, else the next sector to write
    wiped,    \* sector sect is erased and not written yet
    stuck,    \* the writer sleeps on write_sem_lock, which it holds itself
    sts,      \* the PSI_STATUS collected so far
    spad,     \* the scratch pad still holds its tokens
    clock,    \* the newest text created
    cuts,     \* power cuts so far
    recent,   \* history: the last text reported as written and those tried since
    faults,   \* history: faults since both copies were last written alike
    erasing   \* history: the configuration was given up by profileErase

jobVars  == <<op, buf, image, reg, sect, wiped, stuck, sts>>
histVars == <<recent, faults, erasing>>
vars     == <<flash, tree, pc, jobVars, spad, clock, cuts, histVars>>

Uniform(v) == [s \in Sector |-> v]
EmptyTree  == Uniform(Erased)

\* A complete text that does not mix versions.
TextOf(v) == [s \in Sector |-> IF s <= Length[v] THEN v ELSE Rest]

\* Text t copied to the beginning of what region c held.
Over(t, c) == [s \in Sector |-> IF t[s] = Rest THEN c[s] ELSE t[s]]

\* Two pieces can follow one another in a document that parses: they come from
\* one text, or from texts whose tags fall at the same offsets.
Aligned(a, b) ==
    a = b \/ (a \in Version /\ b \in Version /\ Layout[a] = Layout[b])

\* The document at the start of t ends in sector e: strstr finds the first
\* </psitree> there, and up to it the pieces fit together.
EndsAt(t, e) ==
    /\ \A s1, s2 \in 1..e : t[s1] \in Piece /\ Aligned(t[s1], t[s2])
    /\ Length[t[e]] = e
    /\ \A s \in 1..(e - 1) : Length[t[s]] # s

\* profileGetFromFlash(PROFILE_VERIFY_YES): <psitree> at the start and a
\* document that dlXmlParse accepts.
Valid(t) == \E e \in Sector : EndsAt(t, e)

\* What is parsed of a valid region: nothing behind its first </psitree>.
Document(t) ==
    LET end == CHOOSE e \in Sector : EndsAt(t, e)
    IN  [s \in Sector |-> IF s <= end THEN t[s] ELSE Rest]

\* Mutant of Load: the <psitree> test is dropped.
LoadUnchecked(t, old) == t

\* profileGetFromFlash(PROFILE_VERIFY_NO): the parser's callbacks store objects
\* into the tree until the document stops making sense; without <psitree> at the
\* start nothing is parsed.
Load(t, old) ==
    IF Valid(t) THEN Document(t) ELSE IF t[1] \in Piece THEN TextOf(Partial) ELSE old

Fits(t) == \A s \in Sector : t[s] \notin Large

Init ==
    /\ flash = [r \in Region |-> Over(TextOf(0), Uniform(Erased))]
    /\ tree = EmptyTree
    /\ pc = "off"
    /\ op = "none" /\ buf = EmptyTree /\ image = EmptyTree /\ reg = "psi" /\ sect = 0
    /\ wiped = FALSE /\ stuck = FALSE /\ sts = "ok"
    /\ spad = TRUE
    /\ clock = 0 /\ cuts = 0
    /\ recent = {TextOf(0)} /\ faults = 0 /\ erasing = FALSE

-----------------------------------------------------------------------------
(* Writing a region: sysPersistentSet / sysPsiBackupSet down to the sector. *)

\* Hand a text to writeStreamToFlash (or, for the repair, to sysPersistentSet).
BeginWrite(o, t) ==
    /\ pc' = "write"
    /\ op' = o /\ buf' = t /\ image' = EmptyTree /\ reg' = "psi" /\ sect' = 0
    /\ wiped' = FALSE /\ stuck' = FALSE /\ sts' = "ok"

\* getSharedBlks reads the region's sectors into a new buffer, and the text is
\* copied over the beginning of it.
AllocBuf ==
    /\ pc = "write" /\ sect = 0
    /\ image' = Over(buf, flash[reg])
    /\ sect' = 1
    /\ UNCHANGED <<flash, tree, pc, op, buf, reg, wiped, stuck, sts, spad, clock, cuts, histVars>>

\* Mutant of EraseSector: both copies are rewritten side by side.
EraseSectorBoth ==
    /\ pc = "write" /\ sect \in Sector /\ ~wiped
    /\ flash' = [flash EXCEPT !["psi"][sect] = Erased, !["backup"][sect] = Erased]
    /\ wiped' = TRUE
    /\ UNCHANGED <<tree, pc, op, buf, image, reg, sect, stuck, sts, spad, clock, cuts, histVars>>

\* flash_sector_erase_int of setSharedBlks.
EraseSector ==
    /\ pc = "write" /\ sect \in Sector /\ ~wiped
    /\ flash' = [flash EXCEPT ![reg][sect] = Erased]
    /\ wiped' = TRUE
    /\ UNCHANGED <<tree, pc, op, buf, image, reg, sect, stuck, sts, spad, clock, cuts, histVars>>

\* The sector holds what the buffer has for it.
Programmed == flash' = [flash EXCEPT ![reg][sect] = image[sect]]

\* flash_write_buf of setSharedBlks.
WriteSector ==
    /\ pc = "write" /\ sect \in Sector /\ wiped /\ ~stuck
    /\ Programmed
    /\ sect' = sect + 1
    /\ wiped' = FALSE
    /\ UNCHANGED <<tree, pc, op, buf, image, reg, stuck, sts, spad, clock, cuts, histVars>>

\* The operation is over.  Nothing reads the result of init()'s two writes.
Return(status) ==
    /\ pc' = IF op \in {"repair", "default"} THEN "retrieve" ELSE "run"
    /\ op' = "none" /\ buf' = EmptyTree /\ reg' = "psi" /\ sts' = "ok"
    /\ recent'  = IF status = "ok" /\ op # "repair" THEN {buf} ELSE recent
    /\ erasing' = IF status = "ok" /\ op \notin {"erase", "repair"} THEN FALSE ELSE erasing

\* Mutant of Advance: the backup is not written.
AdvancePsiOnly(status) == Return(status)

\* writeStreamToFlash goes on to the backup whatever became of the PSI region;
\* the repair of init() writes the PSI region only.
Advance(status) ==
    IF reg = "psi" /\ op # "repair"
    THEN /\ reg' = "backup" /\ sts' = status
         /\ UNCHANGED <<pc, op, buf, recent, erasing>>
    ELSE Return(status)

EndRegion ==
    /\ pc = "write" /\ sect = NSector + 1
    /\ sect' = 0 /\ image' = EmptyTree
    /\ Advance(sts)
    /\ faults' = IF sts = "ok" /\ (reg = "backup" \/ op = "repair") THEN 0 ELSE faults
    /\ UNCHANGED <<flash, tree, wiped, stuck, spad, clock, cuts>>

\* getSharedBlks found no memory: the region is untouched and the write returns -1.
NoMemory ==
    /\ pc = "write" /\ sect = 0 /\ faults < MaxFault
    /\ faults' = faults + 1
    /\ Advance("err")
    /\ UNCHANGED <<flash, tree, image, sect, wiped, stuck, spad, clock, cuts>>

\* The sector does not verify.  cfi_flash_write_buf holds write_sem_lock and erases
\* the sector to try again; the erase takes write_sem_lock, and sleeps.
VerifyFails ==
    /\ pc = "write" /\ wiped /\ ~stuck /\ faults < MaxFault
    /\ stuck' = TRUE
    /\ faults' = faults + 1
    /\ UNCHANGED <<flash, tree, pc, op, buf, image, reg, sect, wiped, sts, spad, clock, cuts,
                   recent, erasing>>

\* Mutant of WriteFails: the loop breaks without setting sts to -1.
WriteFailsSilently ==
    /\ stuck
    /\ stuck' = FALSE /\ wiped' = FALSE
    /\ sect' = 0 /\ image' = EmptyTree
    /\ faults' = IF reg = "backup" \/ op = "repair" THEN 0 ELSE faults
    /\ Advance("ok")
    /\ UNCHANGED <<flash, tree, spad, clock, cuts>>

\* Three times the sector did not verify: the sectors after it are not tried and
\* the write returns -1.  That far it gets only after a signal.
WriteFails ==
    /\ stuck
    /\ stuck' = FALSE /\ wiped' = FALSE
    /\ sect' = 0 /\ image' = EmptyTree
    /\ Advance("err")
    /\ UNCHANGED <<flash, tree, spad, clock, cuts, faults>>

\* A signal ends the sleep on write_sem_lock.  Nobody looks at the result of
\* down_interruptible: the sector is erased and tried again, with or without success.
Signal ==
    \/ /\ stuck
       /\ Programmed
       /\ sect' = sect + 1 /\ wiped' = FALSE /\ stuck' = FALSE
       /\ UNCHANGED <<tree, pc, op, buf, image, reg, sts, spad, clock, cuts, histVars>>
    \/ WriteFails

WriteStep == AllocBuf \/ EraseSector \/ WriteSector \/ EndRegion

-----------------------------------------------------------------------------
(* PsiIfc::init *)

PowerOn ==
    /\ pc = "off"
    /\ pc' = "verifyPsi"
    /\ UNCHANGED <<flash, tree, jobVars, spad, clock, cuts, histVars>>

\* Mutant of VerifyPsi: a build without SUPPORT_BACKUPCFGFILE.
VerifyPsiNoBackup ==
    /\ pc = "verifyPsi"
    /\ pc' = IF Valid(flash["psi"]) THEN "retrieve" ELSE "default"
    /\ UNCHANGED <<flash, tree, jobVars, spad, clock, cuts, histVars>>

\* status = profileGetFromFlash(PROFILE_VERIFY_YES)
VerifyPsi ==
    /\ pc = "verifyPsi"
    /\ pc' = IF Valid(flash["psi"]) THEN "retrieve" ELSE "verifyBackup"
    /\ UNCHANGED <<flash, tree, jobVars, spad, clock, cuts, histVars>>

\* Mutant of VerifyBackup: a valid backup is not copied over the PSI region.
VerifyBackupNoRepair ==
    /\ pc = "verifyBackup"
    /\ pc' = IF Valid(flash["backup"]) THEN "retrieve" ELSE "default"
    /\ UNCHANGED <<flash, tree, jobVars, spad, clock, cuts, histVars>>

\* Mutant of VerifyBackup: no fall-back to the default configuration.
VerifyBackupRetry ==
    /\ pc = "verifyBackup"
    /\ IF Valid(flash["backup"])
       THEN BeginWrite("repair", flash["backup"])
       ELSE pc' = "verifyPsi" /\ UNCHANGED jobVars
    /\ UNCHANGED <<flash, tree, spad, clock, cuts, histVars>>

\* profileGetFromBackupFlash; a valid backup is read again and copied over the
\* PSI region.
VerifyBackup ==
    /\ pc = "verifyBackup"
    /\ IF Valid(flash["backup"])
       THEN BeginWrite("repair", flash["backup"])
       ELSE pc' = "default" /\ UNCHANGED jobVars
    /\ UNCHANGED <<flash, tree, spad, clock, cuts, histVars>>

\* sysScratchPadClearAll, then writeFileToFlash of the default file.
LoadDefault ==
    /\ pc = "default"
    /\ spad' = FALSE
    /\ BeginWrite("default", TextOf(0))
    /\ recent' = recent \cup {TextOf(0)}
    /\ UNCHANGED <<flash, tree, clock, cuts, faults, erasing>>

\* profileRetrieve: PROFILE_VERIFY_NO, and always from the PSI region.
Retrieve ==
    /\ pc = "retrieve"
    /\ tree' = Load(flash["psi"], tree)
    /\ pc' = "run"
    /\ UNCHANGED <<flash, jobVars, spad, clock, cuts, histVars>>

\* A flash read of init() fails, and its result is ignored but for the repair, which
\* is then not tried.  The buffer it should fill is a local array that was never
\* written: it can hold what an earlier read of init() left on the stack.  Up to the
\* verification of the backup that is nothing that verifies.
ReadFails ==
    /\ faults < MaxFault
    /\ \/ pc = "verifyPsi" /\ pc' = "verifyBackup" /\ UNCHANGED tree
       \/ pc = "verifyBackup" /\ pc' = "default" /\ UNCHANGED tree
       \/ pc = "verifyBackup" /\ Valid(flash["backup"]) /\ pc' = "retrieve" /\ UNCHANGED tree
       \/ /\ pc = "retrieve" /\ pc' = "run"
          /\ tree' \in {tree} \cup {Load(flash[r], tree) : r \in Region}
    /\ faults' = faults + 1
    /\ UNCHANGED <<flash, jobVars, spad, clock, cuts, recent, erasing>>

BootStep == PowerOn \/ VerifyPsi \/ VerifyBackup \/ LoadDefault \/ Retrieve

-----------------------------------------------------------------------------
(* The API while the gateway runs *)

\* BcmPsi_objStore and the other operations that change the tree.  They make a
\* new configuration of a complete one; objects the tree lost stay lost.
Update ==
    /\ pc = "run" /\ clock < MaxVersion
    /\ clock' = clock + 1
    /\ tree' = IF tree \in {EmptyTree, TextOf(Partial)} THEN TextOf(Partial)
               ELSE TextOf(clock + 1)
    /\ UNCHANGED <<flash, pc, jobVars, spad, cuts, histVars>>

\* BcmPsi_profileStore.  An empty tree leaves an empty file (close, not fclose)
\* and a text that is too large is refused: the flash is not touched.
ProfileStore ==
    /\ pc = "run"
    /\ tree # EmptyTree /\ Fits(tree)
    /\ BeginWrite("store", tree)
    /\ recent' = recent \cup {tree}
    /\ UNCHANGED <<flash, tree, spad, clock, cuts, faults, erasing>>

\* BcmPsi_writeStreamToFlash, writeFileToFlash: a new text that does not pass
\* through the tree.
WriteStream ==
    /\ pc = "run" /\ clock < MaxVersion
    /\ clock' = clock + 1
    /\ Fits(TextOf(clock + 1))
    /\ BeginWrite("stream", TextOf(clock + 1))
    /\ recent' = recent \cup {TextOf(clock + 1)}
    /\ UNCHANGED <<flash, tree, spad, cuts, faults, erasing>>

\* BcmPsi_profileErase: zeros into both regions.
ProfileErase ==
    /\ pc = "run"
    /\ BeginWrite("erase", Uniform(Zero))
    /\ recent' = recent \cup {Uniform(Zero)} /\ erasing' = TRUE
    /\ UNCHANGED <<flash, tree, spad, clock, cuts, faults>>

\* BcmPsi_profileRetrieve.
ProfileRetrieve ==
    /\ pc = "run"
    /\ tree' = Load(flash["psi"], tree)
    /\ UNCHANGED <<flash, pc, jobVars, spad, clock, cuts, histVars>>

\* The mains fail, or the board resets.  Shared memory is lost.  A cut counts as
\* a fault when it interrupts a write; one that ends a write that sleeps for ever
\* belongs to the fault that put it to sleep.
PowerCut ==
    /\ pc # "off" /\ cuts < MaxCut
    /\ pc = "write" /\ ~stuck => faults < MaxFault
    /\ cuts' = cuts + 1
    /\ faults' = IF pc = "write" /\ ~stuck THEN faults + 1 ELSE faults
    /\ pc' = "off" /\ tree' = EmptyTree
    /\ op' = "none" /\ buf' = EmptyTree /\ image' = EmptyTree /\ reg' = "psi" /\ sect' = 0
    /\ wiped' = FALSE /\ stuck' = FALSE /\ sts' = "ok"
    /\ UNCHANGED <<flash, spad, clock, recent, erasing>>

ApiCall == Update \/ ProfileStore \/ WriteStream \/ ProfileErase \/ ProfileRetrieve

Next == BootStep \/ WriteStep \/ ApiCall \/ NoMemory \/ VerifyFails \/ Signal
        \/ ReadFails \/ PowerCut

Spec == Init /\ [][Next]_vars

\* The processor does not stop inside init() or inside a write; no signal is owed
\* to a writer that sleeps.
FairSpec == Spec /\ WF_vars(BootStep) /\ WF_vars(WriteStep)

-----------------------------------------------------------------------------
(* Properties *)

\* The variables keep their types; a sector is marked as wiped only while its
\* region is being written.
TypeOK ==
    /\ flash \in [Region -> Copy]
    /\ tree \in [Sector -> Piece \cup {Erased, Rest}]
    /\ pc \in {"off", "verifyPsi", "verifyBackup", "default", "write", "retrieve", "run"}
    /\ op \in {"none", "store", "stream", "erase", "default", "repair"}
    /\ buf \in Text /\ image \in Copy
    /\ reg \in Region /\ sect \in 0..(NSector + 1)
    /\ wiped \in BOOLEAN /\ stuck \in BOOLEAN /\ sts \in {"ok", "err"}
    /\ spad \in BOOLEAN
    /\ clock \in Version /\ cuts \in 0..MaxCut
    /\ recent \in SUBSET Text
    /\ faults \in 0..MaxFault /\ erasing \in BOOLEAN

\* Faults since the two copies last agreed, were the power cut now.
Exposure == IF pc = "write" /\ ~stuck THEN faults + 1 ELSE faults

\* A single fault never costs the configuration: with at most one fault since
\* the copies agreed (a cut at this very moment included), one of the regions
\* holds a document init() accepts.  It rests on writeStreamToFlash finishing the
\* PSI region before it touches the backup, and on init() repairing the PSI region.
OneFaultSurvivable ==
    Exposure <= 1 /\ ~erasing => Valid(flash["psi"]) \/ Valid(flash["backup"])

\* init() wipes the scratch pad and falls back to the default configuration only
\* after two faults, or after the configuration was erased on purpose.
DefaultNeedsTwoFaults ==
    pc = "default" => faults >= 2 \/ erasing

\* As far as the last text reported as written and those tried since all reach, the
\* regions hold pieces of these and nothing older.  Every text reaches its first
\* sector, so no boot brings a whole older configuration back; kerSysPersistentSet
\* keeps what lies behind the text it is given, so further up an older one may show.
NothingOlder ==
    \A r \in Region, s \in Sector :
        (flash[r][s] # Erased /\ \A t \in recent : t[s] # Rest)
            => \E t \in recent : flash[r][s] = t[s]

\* Whenever no write is under way and no fault happened since the last complete
\* write or repair, the PSI region and its backup are the same document, or the same
\* bytes; what older texts left behind the end of the document may differ.
QuietCopiesAgree ==
    pc # "write" /\ faults = 0 =>
        \/ flash["psi"] = flash["backup"]
        \/ /\ Valid(flash["psi"]) /\ Valid(flash["backup"])
           /\ Document(flash["psi"]) = Document(flash["backup"])

\* What init() finally builds the tree from, without verifying it again, is a
\* valid document, unless the repair or the default write met a second fault.
BootReadsValidCopy ==
    pc = "retrieve" => Valid(flash["psi"]) \/ faults >= 2 \/ erasing

\* Once the power stays on, init() ends and the gateway runs, from every state of
\* the flash, unless a sector of its repair or of the default file does not verify:
\* then cfi_flash_write_buf sleeps for ever, and with it the boot.
BootCompletes == pc = "off" ~> pc = "run" \/ stuck
=============================================================================
