----------------------------- MODULE BoardFlash -----------------------------
(***************************************************************************)
(* Who may touch the flash at the same time: the FLASH_WRITE, FLASH_READ,  *)
(* EQUIPMENT_TEST and DEL_EXTENDMACADDR ioctls of /dev/brcmboard           *)
(* (board.c), the flash regions behind them (bcm63xx_flash.c), the chip's  *)
(* lock (cfiflash.c), and the work item that the restore button queues.    *)
(*                                                                         *)
(* Every region is updated by reading its sectors into a buffer, changing  *)
(* the buffer, erasing the sectors and programming the buffer back.  The   *)
(* kernel is not preemptive and has one processor: control changes hands   *)
(* only where the code sleeps, in down_interruptible, msleep, kmalloc and  *)
(* the waiting loops of a sector erase and a sector program.               *)
(***************************************************************************)
EXTENDS Integers, Sequences, FiniteSets

CONSTANTS
    Proc,         \* processes calling boardIoctl
    UserRegion,   \* the regions they read and write
    Slot,         \* disjoint pieces of a region, each at an offset of its own
    Val,          \* what a slot can hold once it is written
    InitVal,      \* what the regions hold when the board has booted
    Blank,        \* the value of a slot filled with 0x00
    Erased,       \* a slot of an erased sector
    MaxRetry,     \* attempts of a writer that finds the flag set (10)
    RestoreTime,  \* polls the button must be held for (5)
    Signals,      \* TRUE: a signal may interrupt a sleeping down_interruptible
    Restore       \* TRUE: somebody may press the restore button

Region == {"psi", "backup", "fix", "avail", "va", "sp", "fwlog", "syslog", "wlan", "nvram"}

ASSUME ProcAssumption   == IsFiniteSet(Proc) /\ Proc # {}
ASSUME RegionAssumption == UserRegion \subseteq Region /\ Slot # {}
ASSUME ValueAssumption  ==
    {Blank, InitVal} \subseteq Val /\ Erased \notin Val
ASSUME BoundAssumption  == MaxRetry \in Nat \ {0} /\ RestoreTime \in Nat \ {0}
ASSUME SwitchAssumption == Signals \in BOOLEAN /\ Restore \in BOOLEAN

Content == [Slot -> Val \cup {Erased}]
All(v)  == [s \in Slot |-> v]
ASlot   == CHOOSE s \in Slot : TRUE

\* Mutant of Script: the PSI backup is forgotten.
ScriptNoBackup == <<"avail", "psi", "sp", "avail", "va", "avail">>

\* Regions restore_do_tasklet rewrites, in order: it clears psi, backup and sp and
\* stores flags into avail and va.  Calls that follow one another on one region are
\* one entry.
Script == <<"avail", "psi", "backup", "sp", "avail", "va", "avail">>
Clears(r) == r \in {"psi", "backup", "sp"}

\* What a process asks for.  FLASH_WRITE: "write", and "clear" for the scratch pad
\* with offset -1.  FLASH_READ: "read", and "spget" for a scratch pad token, which
\* may turn into a write.  EQUIPMENT_TEST: "equip", which stores into the NVRAM.
\* DEL_EXTENDMACADDR: "delmac", which fills one address of avail with 0x00.
NoRequest == [kind |-> "none", reg |-> "psi", slot |-> ASlot, val |-> Blank]
Request ==
    [kind : {"write"}, reg : UserRegion, slot : Slot, val : Val]
        \cup [kind : {"read"}, reg : UserRegion \ {"sp"}, slot : {ASlot}, val : {Blank}]
        \cup [kind : {"clear", "spget"}, reg : UserRegion \cap {"sp"}, slot : {ASlot},
              val : {Blank}]
        \cup [kind : {"equip"}, reg : UserRegion \cap {"nvram"}, slot : Slot, val : Val]
        \cup [kind : {"delmac"}, reg : UserRegion \cap {"avail"}, slot : Slot, val : {Blank}]
FlashWrite == {"write", "clear"}

VARIABLES
    flash,    \* flash[r]: the sectors of region r
    sem,      \* count of flash_sem_lock
    flag,     \* s_iFlashWriteFlg = FLASH_WRITING
    off,      \* ulCount of dg_setScheduleState: the scheduling monitor is on at 0
    pc,       \* pc[p]: where the ioctl of p is
    req,      \* req[p]: its parameters
    buf,      \* buf[p]: the copy getSharedBlks made for it
    retry,    \* retry[p]: iWriteRetryTimes
    btn,      \* s_iRestoreDefCfgBtnCnt
    wpc,      \* where the restore work is
    wpos,     \* the position in Script it is at
    wbuf,     \* the copy getSharedBlks made for it
    latest,   \* history: each region with every finished write applied in order
    crossed,  \* history: an ioctl was at work while the restore work ran
    failed,   \* history: a call of the restore work failed
    meddled   \* history: a DEL_EXTENDMACADDR met another ioctl on avail

ioVars   == <<pc, req, buf, retry>>
workVars == <<btn, wpc, wpos, wbuf>>
histVars == <<crossed, failed, meddled>>
vars     == <<flash, sem, flag, off, ioVars, workVars, latest, histVars>>

Busy(p)    == pc[p] \notin {"idle", "down"}
InLock(p)  == Busy(p) /\ req[p].kind # "delmac"
Writer(p)  == req[p].kind \in FlashWrite /\ pc[p] \notin {"idle", "down", "flag"}
Stuck(p)   == pc[p] \in {"stuck", "stuckfill"}
Rewriting(p) == pc[p] \in {"wipe", "fill", "erase", "program"} \/ Stuck(p)
Working    == wpc \notin {"idle", "done"}

\* Somebody sleeps in the chip's driver with write_sem_lock held (see VerifyFails).
\* Every read, erase and program of a sector waits for that lock first, with a
\* down_interruptible that a signal ends.
Jam  == wpc = "stuck" \/ \E p \in Proc : Stuck(p)
Chip == Signals \/ ~Jam

Init ==
    /\ flash = [r \in Region |-> All(InitVal)]
    /\ sem = 1 /\ flag = FALSE /\ off = 0
    /\ pc = [p \in Proc |-> "idle"]
    /\ req = [p \in Proc |-> NoRequest]
    /\ buf = [p \in Proc |-> All(Blank)]
    /\ retry = [p \in Proc |-> 0]
    /\ btn = 0 /\ wpc = "idle" /\ wpos = 1 /\ wbuf = All(Blank)
    /\ latest = [r \in Region |-> All(InitVal)]
    /\ crossed = FALSE /\ failed = FALSE /\ meddled = FALSE

-----------------------------------------------------------------------------
(* board_ioctl *)

\* dg_setScheduleState counts the requests to disable the monitor.
SchedDisable == off' = off + 1

\* Mutant of SchedEnable: a state that is set and cleared.
SchedEnableAtOnce == off' = 0

SchedEnable == off' = IF off > 0 THEN off - 1 ELSE off

Goto(p, l) == pc' = [pc EXCEPT ![p] = l]

\* Another ioctl is at work on avail.
Meets(p) == \E x \in Proc \ {p} : Busy(x) /\ req[x].reg = "avail"

\* DEL_EXTENDMACADDR calls kerSysAvailSet with neither semaphore nor flag.
Call(p, q) ==
    LET free == q.kind = "delmac" IN
    /\ pc[p] = "idle"
    /\ Goto(p, IF free THEN "blks" ELSE "down")
    /\ req' = [req EXCEPT ![p] = q]
    /\ retry' = [retry EXCEPT ![p] = 0]
    /\ crossed' = (crossed \/ (free /\ Working))
    /\ meddled' = (meddled \/ (free /\ Meets(p)))
    /\ UNCHANGED <<flash, sem, flag, off, buf, workVars, latest, failed>>

\* Only FLASH_WRITE looks at s_iFlashWriteFlg.
Enter(p) ==
    /\ Goto(p, IF req[p].kind \in FlashWrite THEN "flag" ELSE "blks")
    /\ crossed' = (crossed \/ Working)
    /\ meddled' = (meddled \/ (/\ req[p].reg = "avail"
                               /\ \E x \in Proc : Busy(x) /\ req[x].kind = "delmac"))
    /\ UNCHANGED <<flash, flag, off, req, buf, retry, workVars, latest, failed>>

\* Mutants of Down: FLASH_READ does not take the semaphore; EQUIPMENT_TEST does
\* not take it.
DownReadsFree(p) ==
    /\ pc[p] = "down" /\ (req[p].kind = "read" \/ sem > 0)
    /\ sem' = IF req[p].kind = "read" THEN sem ELSE sem - 1
    /\ Enter(p)
DownEquipFree(p) ==
    /\ pc[p] = "down" /\ (req[p].kind = "equip" \/ sem > 0)
    /\ sem' = IF req[p].kind = "equip" THEN sem ELSE sem - 1
    /\ Enter(p)

Down(p) ==
    /\ pc[p] = "down" /\ sem > 0
    /\ sem' = sem - 1
    /\ Enter(p)

\* A signal ends the sleep in down_interruptible; the result is ignored and the
\* ioctl goes on without the semaphore.
DownInterrupted(p) ==
    /\ Signals
    /\ pc[p] = "down" /\ sem = 0
    /\ Enter(p)
    /\ UNCHANGED sem

\* Mutant of TakeFlag: the loop on the flag is missing.
TakeFlagUnchecked(p) ==
    /\ pc[p] = "flag"
    /\ flag' = TRUE /\ SchedDisable
    /\ Goto(p, "blks")
    /\ UNCHANGED <<flash, sem, req, buf, retry, workVars, latest, histVars>>

\* The loop on the flag ends and the flag is set, without a sleep in between.
TakeFlag(p) ==
    /\ pc[p] = "flag" /\ ~flag
    /\ flag' = TRUE /\ SchedDisable
    /\ Goto(p, "blks")
    /\ UNCHANGED <<flash, sem, req, buf, retry, workVars, latest, histVars>>

\* The way out of every ioctl: up() is called whether or not down_interruptible
\* took the semaphore.  DEL_EXTENDMACADDR calls neither.
Leave(p) ==
    /\ sem' = IF req[p].kind = "delmac" THEN sem ELSE sem + 1
    /\ Goto(p, "idle")
    /\ req' = [req EXCEPT ![p] = NoRequest]
    /\ buf' = [buf EXCEPT ![p] = All(Blank)]
    /\ retry' = [retry EXCEPT ![p] = 0]

\* "Flash Write confliction, wait...": another second, or after ten of them give
\* up with -1 and leave the flag as it is.
Conflict(p) ==
    /\ pc[p] = "flag" /\ flag
    /\ IF retry[p] + 1 >= MaxRetry
       THEN Leave(p)
       ELSE retry' = [retry EXCEPT ![p] = @ + 1] /\ UNCHANGED <<sem, pc, req, buf>>
    /\ UNCHANGED <<flash, flag, off, workVars, latest, histVars>>

\* The scratch pad does not begin with MAGIC_NUMBER.
NoMagic(c) == c = All(Blank) \/ \E s \in Slot : c[s] = Erased

\* getSharedBlks.  Setting or getting a token of a pad without magic number clears
\* the pad first.
GetSharedBlks(p) ==
    LET q == req[p]  c == flash[q.reg] IN
    /\ pc[p] = "blks" /\ Chip
    /\ buf' = [buf EXCEPT ![p] = c]
    /\ Goto(p, CASE q.kind = "clear" -> "wipe"
                 [] q.kind \in {"write", "spget"} /\ q.reg = "sp" /\ NoMagic(c) -> "wipe"
                 [] q.kind = "read" \/ (q.kind = "spget" /\ ~NoMagic(c)) -> "up"
                 [] OTHER -> "erase")
    /\ UNCHANGED <<flash, sem, flag, off, req, retry, workVars, latest, histVars>>

\* Mutant of NoMemory: the ioctl returns at once.
NoMemoryReturns(p) ==
    /\ pc[p] = "blks"
    /\ Goto(p, "idle")
    /\ req' = [req EXCEPT ![p] = NoRequest]
    /\ UNCHANGED <<flash, sem, flag, off, buf, retry, workVars, latest, histVars>>

\* Mutant of NoMemory: kmalloc is retried without a limit.
NoMemoryRetries(p) ==
    /\ pc[p] = "blks"
    /\ retry' = [retry EXCEPT ![p] = 1 - @]
    /\ UNCHANGED <<flash, sem, flag, off, pc, req, buf, workVars, latest, histVars>>

\* retriedKmalloc gave up: -1, nothing is read or written.
NoMemory(p) ==
    /\ pc[p] = "blks"
    /\ Goto(p, "err")
    /\ UNCHANGED <<flash, sem, flag, off, req, buf, retry, workVars, latest, histVars>>

\* What a sector reads back as whose programming failed.
Unwritten == All(Erased)

\* flash_sector_erase_int and flash_write_buf of the setSharedBlks that
\* kerSysScratchPadClearAll calls.
Wipe(p) ==
    /\ pc[p] = "wipe" /\ Chip
    /\ flash' = [flash EXCEPT ![req[p].reg] = All(Erased)]
    /\ Goto(p, "fill")
    /\ UNCHANGED <<sem, flag, off, req, buf, retry, workVars, latest, histVars>>

\* kerSysScratchPadSet goes on with the buffer it read before the pad was
\* cleared, whatever became of the clearing.
AfterClear(p, c) ==
    LET r == req[p].reg  set == req[p].kind = "write" IN
    /\ flash' = [flash EXCEPT ![r] = c]
    /\ latest' = IF set THEN latest ELSE [latest EXCEPT ![r] = c]
    /\ Goto(p, IF set THEN "erase" ELSE "up")
    /\ UNCHANGED <<sem, flag, off, req, buf, retry, workVars, histVars>>

Fill(p) == pc[p] = "fill" /\ Chip /\ AfterClear(p, All(Blank))

\* The same two steps of the setSharedBlks that writes the edited buffer.
Erase(p) ==
    /\ pc[p] = "erase" /\ Chip
    /\ flash' = [flash EXCEPT ![req[p].reg] = All(Erased)]
    /\ Goto(p, "program")
    /\ UNCHANGED <<sem, flag, off, req, buf, retry, workVars, latest, histVars>>

Edited(q, c) == [c EXCEPT ![q.slot] = q.val]

\* The write has ended with region r as c, and with l for the history.
Written(p, c, l) ==
    LET r == req[p].reg IN
    /\ flash' = [flash EXCEPT ![r] = c]
    /\ latest' = [latest EXCEPT ![r] = l]
    /\ Goto(p, "up")
    /\ UNCHANGED <<sem, flag, off, req, buf, retry, workVars, histVars>>

Rewritten(p) == Written(p, Edited(req[p], buf[p]), Edited(req[p], latest[req[p].reg]))

Program(p) == pc[p] = "program" /\ Chip /\ Rewritten(p)

\* cfi_flash_write_buf finds that the sector does not read back as the buffer.  It
\* erases the sector to try again, but cfi_flash_sector_erase_int takes
\* write_sem_lock, which cfi_flash_write_buf holds: the ioctl sleeps.
VerifyFails(p) ==
    /\ pc[p] \in {"fill", "program"} /\ Chip
    /\ flash' = [flash EXCEPT ![req[p].reg] = Unwritten]
    /\ Goto(p, IF pc[p] = "fill" THEN "stuckfill" ELSE "stuck")
    /\ UNCHANGED <<sem, flag, off, req, buf, retry, workVars, latest, histVars>>

\* A signal, or the up() of somebody whom a signal let past write_sem_lock, wakes the
\* sleeper: now it erases and tries again, and ends with the buffer written or, after
\* three attempts, with -1.
Woken(p) ==
    /\ Signals
    /\ \/ pc[p] = "stuck" /\ (Rewritten(p) \/ Written(p, Unwritten, Unwritten))
       \/ pc[p] = "stuckfill" /\ (AfterClear(p, All(Blank)) \/ AfterClear(p, Unwritten))

\* The end of the ioctl: FLASH_WRITE enables the monitor and clears the flag.
Up(p) ==
    /\ pc[p] \in {"up", "err"}
    /\ IF req[p].kind \in FlashWrite THEN SchedEnable ELSE UNCHANGED off
    /\ flag' = (flag /\ req[p].kind \notin FlashWrite)
    /\ Leave(p)
    /\ UNCHANGED <<flash, workVars, latest, histVars>>

Run(p) ==
    \/ Down(p) \/ TakeFlag(p) \/ Conflict(p) \/ GetSharedBlks(p) \/ NoMemory(p)
    \/ Wipe(p) \/ Fill(p) \/ Erase(p) \/ Program(p) \/ VerifyFails(p) \/ Up(p)

IoStep(p) == Run(p) \/ DownInterrupted(p) \/ Woken(p)

-----------------------------------------------------------------------------
(* The restore button and the work it queues *)

\* bcm63xx_poll_restore_default_config_button, once a second: a poll during a
\* flash write, or with the button up, starts the count again.  Once the work is
\* queued (g_iRestoreFlag) no poll has an effect.  The equipment key test, which
\* takes the button for itself, is off.
Poll(down) ==
    LET n == IF flag \/ ~down THEN 0 ELSE btn + 1 IN
    /\ Restore /\ wpc = "idle"
    /\ btn' = n
    /\ IF n >= RestoreTime
       THEN wpc' = "blks" /\ crossed' = \E p \in Proc : Busy(p)
       ELSE UNCHANGED <<wpc, crossed>>
    /\ UNCHANGED <<flash, sem, flag, off, ioVars, wpos, wbuf, latest, failed, meddled>>

\* restore_do_tasklet calls the kerSys functions directly, with neither semaphore
\* nor flag.
WorkBlks ==
    /\ wpc = "blks" /\ Chip
    /\ wbuf' = flash[Script[wpos]]
    /\ wpc' = "erase"
    /\ UNCHANGED <<flash, sem, flag, off, ioVars, btn, wpos, latest, histVars>>

WorkErase ==
    /\ wpc = "erase" /\ Chip
    /\ flash' = [flash EXCEPT ![Script[wpos]] = All(Erased)]
    /\ wpc' = "program"
    /\ UNCHANGED <<sem, flag, off, ioVars, btn, wpos, wbuf, latest, histVars>>

\* The flags the work stores go to one slot of the region.
WorkEdit(r, c) == IF Clears(r) THEN All(Blank) ELSE [c EXCEPT ![ASlot] = Blank]

\* On to the next call whatever this one returned.  The monitor is disabled before
\* the first clear and enabled after the last call.
WorkNext ==
    /\ wbuf' = All(Blank)
    /\ IF wpos < Len(Script)
       THEN /\ wpos' = wpos + 1 /\ wpc' = "blks"
            /\ IF wpos = 1 THEN SchedDisable ELSE UNCHANGED off
       ELSE wpc' = "done" /\ SchedEnable /\ UNCHANGED wpos

WorkWritten ==
    LET r == Script[wpos] IN
    /\ flash' = [flash EXCEPT ![r] = WorkEdit(r, wbuf)]
    /\ latest' = [latest EXCEPT ![r] = WorkEdit(r, @)]
    /\ WorkNext
    /\ UNCHANGED <<sem, flag, ioVars, btn, histVars>>

WorkProgram == wpc = "program" /\ Chip /\ WorkWritten

\* No memory: the work does not look at the results.
WorkFails ==
    /\ wpc = "blks"
    /\ failed' = TRUE
    /\ WorkNext
    /\ UNCHANGED <<flash, latest, sem, flag, ioVars, btn, crossed, meddled>>

\* The VerifyFails and the Woken of the work, which runs in a process too.
WorkVerifyFails ==
    /\ wpc = "program" /\ Chip
    /\ flash' = [flash EXCEPT ![Script[wpos]] = Unwritten]
    /\ wpc' = "stuck"
    /\ UNCHANGED <<sem, flag, off, ioVars, btn, wpos, wbuf, latest, histVars>>

WorkGivesUp ==
    LET r == Script[wpos] IN
    /\ failed' = TRUE
    /\ flash' = [flash EXCEPT ![r] = Unwritten]
    /\ latest' = [latest EXCEPT ![r] = Unwritten]
    /\ WorkNext
    /\ UNCHANGED <<sem, flag, ioVars, btn, crossed, meddled>>

WorkWoken == Signals /\ wpc = "stuck" /\ (WorkWritten \/ WorkGivesUp)

WorkRun  == WorkBlks \/ WorkErase \/ WorkProgram \/ WorkFails \/ WorkVerifyFails
WorkStep == WorkRun \/ WorkWoken

Next ==
    \/ \E p \in Proc : IoStep(p) \/ \E q \in Request : Call(p, q)
    \/ \E down \in BOOLEAN : Poll(down)
    \/ WorkStep

Spec == Init /\ [][Next]_vars

\* A runnable thread runs; the wait queue of the semaphore wakes a sleeper that
\* finds it free again and again.  No signal need ever come.
FairSpec ==
    /\ Spec /\ WF_vars(WorkRun)
    /\ \A p \in Proc : WF_vars(Run(p)) /\ SF_vars(Down(p))

-----------------------------------------------------------------------------
(* Properties *)

\* The variables keep their types: a writer that waits for the flag has made fewer
\* than MaxRetry attempts, and a button held for RestoreTime polls has its work queued.
TypeOK ==
    /\ flash \in [Region -> Content] /\ latest \in [Region -> Content]
    /\ sem \in Nat /\ off \in Nat /\ flag \in BOOLEAN
    /\ pc \in [Proc -> {"idle", "down", "flag", "blks", "wipe", "fill", "erase", "program",
                        "up", "err", "stuck", "stuckfill"}]
    /\ req \in [Proc -> Request \cup {NoRequest}]
    /\ buf \in [Proc -> Content]
    /\ retry \in [Proc -> 0..(MaxRetry - 1)]
    /\ btn \in 0..RestoreTime /\ (wpc = "idle" => btn < RestoreTime)
    /\ wpc \in {"idle", "blks", "erase", "program", "stuck", "done"} /\ wpos \in 1..Len(Script)
    /\ wbuf \in Content /\ crossed \in BOOLEAN /\ failed \in BOOLEAN /\ meddled \in BOOLEAN

\* Without signals flash_sem_lock is a lock: no two ioctls are past their
\* down_interruptible, and it is free exactly when none is.
LockExclusive ==
    ~Signals =>
        /\ \A p, q \in Proc : InLock(p) /\ InLock(q) => p = q
        /\ sem = 1 <=> \A p \in Proc : ~InLock(p)

\* An ioctl that a signal let in without the semaphore still calls up(): the
\* semaphore then admits one ioctl more, for good.  It is never lost altogether
\* and never admits more than there are processes.
SemaphoreDrift ==
    LET tokens == sem + Cardinality({p \in Proc : InLock(p)})
    IN  tokens >= 1 /\ tokens <= Cardinality(Proc)

\* Even when signals break the semaphore, the flag alone keeps two FLASH_WRITE
\* ioctls apart, and it is set exactly while one of them writes.
WritersExclusive ==
    /\ \A p, q \in Proc : Writer(p) /\ Writer(q) => p = q
    /\ flag <=> \E p \in Proc : Writer(p)

\* Without signals and without the restore button, the read-modify-write of a region
\* by one process never undoes or garbles the completed write of another: a region
\* that nobody is rewriting holds every write that was finished in it.  For avail this
\* is so only until a DEL_EXTENDMACADDR, which takes no lock, meets another ioctl there.
NoLostUpdate ==
    ~Signals /\ ~Restore => \A r \in Region :
        \/ flash[r] = latest[r]
        \/ \E p \in Proc : req[p].reg = r /\ Rewriting(p)
        \/ r = "avail" /\ meddled

\* Under the same conditions a FLASH_READ that returns data returns the region as
\* last written, never one that is being rewritten.
ReadsLatest ==
    ~Signals /\ ~Restore => \A p \in Proc :
        pc[p] = "up" /\ req[p].kind = "read" =>
            \/ buf[p] = latest[req[p].reg]
            \/ req[p].reg = "avail" /\ meddled

\* The calls of dg_setScheduleState balance: the monitor is off exactly while a
\* FLASH_WRITE or the restore work writes, also when one ends within the other, and
\* nobody leaves it off.
MonitorBalanced ==
    off > 0 <=> (\E p \in Proc : Writer(p)) \/ (Working /\ wpos > 1)

\* When the restore work ends, and no ioctl came across it and no step of it
\* failed, the PSI, its backup and the scratch pad are cleared.
RestoreAloneComplete ==
    [][wpc # "done" /\ wpc' = "done" /\ ~crossed' /\ ~failed' =>
        \A r \in {"psi", "backup", "sp"} : flash'[r] = All(Blank)]_vars

\* Every ioctl returns: nobody waits for the semaphore or for the flag for ever,
\* unless a sector does not verify, which stops everybody who wants the flash.
CallsReturn == \A p \in Proc : pc[p] # "idle" ~> pc[p] = "idle" \/ Jam
=============================================================================
