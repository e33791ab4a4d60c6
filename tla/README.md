# HG556a configuration storage and 3G command channel: TLA+ models, checks and proofs

The repository is the firmware of the Huawei EchoLife HG556a home gateway
(Broadcom BCM6358, Linux 2.6): a vendored kernel, vendored applications, and the
vendor's own code.  The vendor's own logic with the most state and the hardest
failures is **how the gateway keeps its configuration**: a tree in shared memory,
its XML text in two flash regions, a scratch pad of tokens, the partitions of the
flash, and the driver that lets several processes and a reset button at them.
The second piece with threads, timeouts and failures of its own is **the daemon that
shares the 3G card's command port** between the applications.  These two are what this
project models.

## 1. Inventory

| Component | Source | State | Operations | Talks to |
|---|---|---|---|---|
| PSI store | `userapps/broadcom/cfm/util/psi/psiifc.cpp`, `psiapi.cpp`, `psidl.c` | tree `m_apps` in SysV shared memory | `init`, object operations, `profileStore`, `profileErase`, `profileRetrieve`, `writeStreamToFlash`, `writeFileToFlash` | board API, XML reader |
| XML reader/writer | `psixml.cpp`, `nanoxml.c` | none | `xmlParse`, `xmlWrite` | PSI store (callbacks) |
| PSI objects | `psiapp.cpp`, `psiobject.cpp`, `psishm.cpp` | lists of applications and of objects in shared memory | `open`, `remove`, `set`, `get` | memory pool, PSI store |
| Memory pool, semaphores | `bget.c`, `psisema.h` | blocks, free list, `bg_semid`, `psi_semid` | `bget`, `bgetz`, `bgetr`, `brel`, semaphores | every PSI user |
| 3G card daemon | `userapps/opensource/ttyUSB/ttyUSB.c`, client `ppp/pppoe/at/at_sm.c` | message queues, `sem`, `work_mutex`, `g_stAtFromOther`, `g_iWriteFlag`, `g_sndflg`, `g_HspaExistFlag` | `WritePcui`, `ReadPcui`, `SendSysinfo`, `HspaDeviceDetect`, SIGALRM and SIGUSR1 handlers, `at_sm_submit_at`, `AtRcv` | PPP daemon, web, voice, TR-069 |
| Board API | `board_api.c` | none | `sysPersistentSet`, `sysPsiBackupSet`, `sysScratchPad*` ... | ioctls of `/dev/brcmboard` |
| Board driver | `bcmdrivers/.../impl1/board.c` | `flash_sem_lock`, `s_iFlashWriteFlg`, button counter, `g_iRestoreFlag`, work queue | `FLASH_WRITE`, `FLASH_READ`, `EQUIPMENT_TEST`, button polls, `restore_do_tasklet` | flash regions, dying gasp |
| Flash regions | `impl1/bcm63xx_flash.c` | sectors of the regions | `getSharedBlks`, `setSharedBlks`, `kerSys*Get/Set/Clear` | flash chip |
| Scratch pad | same file | header and token list | `kerSysScratchPadGet/Set/ClearAll` | flash regions |
| Partition layout | same file, `kerSysFlashInit` | `fInfo` | carving of nine partitions | sector table of the chip |
| Flash chip | `shared/opensource/flash/cfiflash.c`, `spiflash.c` | the sectors | erase, program, read a sector | - |
| Scheduling monitor, dying gasp | `kernel/linux/kernel/dyinggasp.c` | `sSchedulerState`, log in reserved RAM | `dg_setScheduleState`, log | board driver |
| Firmware upgrade | `board.c` (`flashFsKernelImage`), `bcm63xx_flash.c` (`kerSysBcmImageSet`), `drivers/mtd/maps/bcm963xx.c` | image sectors, tags, upgrade flag, bootline | image write, choice of the image | flash regions, boot loader |
| LEDs, board parameters | `bcm63xx_led.c`, `boardparms.c` | blink timers, tables | - | - |

Outside: the Linux kernel, busybox, iptables, dnsmasq, samba, zebra, udhcp, ppp
(vendored); the ADSL, WLAN and voice parts (binary or third party); the web tool and
the diagnostics daemons.
The files of `board/bcm963xx/impl1` are the reference for the driver.  `bcmdrivers/Makefile`
compiles `board/bcm963xx/bcm9$(BRCM_CHIP)`, normally a link to `impl1`; in the repository
`bcm96358` is a directory of its own, a copy in which `bcm63xx_flash.c` differs by one blank
line and `board.c` in the WPS button, in the ioctl for the WLAN status, and in one more
`kerSysAvailSet` at the end of `restore_do_tasklet`, which the last `avail` of `Script` covers.

What makes the storage hard:

- **Crashes.**  A text spans several sectors; erase and program are separate; the
  power can go at any point, and go again while the damage is being repaired.
- **Partial failure.**  An allocation or a read may fail; some results are used, some are
  dropped.  A sector that does not verify makes the chip driver wait for a semaphore that
  it holds itself.
- **Interleaving.**  Every region is updated by read, change, erase, program.
  Processes sleep in the middle; signals end the sleep on the semaphore; the
  restore work and one ioctl do not take the semaphore at all.
- **Long legal sequences.**  The scratch pad moves tokens about; a full pad and a
  token that changes its length are reached only after many calls.
- **No lock, or half a lock.**  The semaphore around the PSI calls is never created; the
  one around the pool is given up on a signal; the daemon's threads share variables of
  which `work_mutex` guards only some.
- **Timeouts and late answers.**  The 3G card answers late, or is pulled out with a command
  in it; handlers of answers use the card themselves; a client stops waiting; the queue of
  requests is full.
- **Boundaries.**  Partitions on chips with sectors of different sizes; images that reach
  into the partitions behind them.

Correct means: the configuration survives any single fault; a boot ends as long as the
flash takes what is written; no update is lost and no half-written region is read; the scratch pad behaves like a map;
partitions never share a sector; after an upgrade the board starts from a complete
image; the pool hands out disjoint buffers and its lock survives the death of its holder;
the tree holds what was stored; a command to the card is answered once, to the one who
asked, and the next one is always let out.  The list of hazards, each with its line and the
properties that watch it, is in `PROJECT.json`.

## 2. Modules

| Module | Models | Checked by | Proved in |
|---|---|---|---|
| `PsiStore` | PSI store, its two regions down to the sector, power cuts | `MCPsiStore` | `PsiStoreProofs` |
| `BoardFlash` | ioctls, lock, flag, monitor, restore button and work | `MCBoardFlash` | `BoardFlashProofs` |
| `ScratchPad` | the pad cell by cell | `MCScratchPad` | `ScratchPadProofs` |
| `TokenMap` | what the pad promises: a map | (through `ScratchPad`) | (through `ScratchPadProofs`) |
| `FlashLayout` | `kerSysFlashInit` | `MCFlashLayout` | `FlashLayoutProofs` |
| `PsiTree` | the tree in shared memory, pointer by pointer, by several processes | `MCPsiTree` | `PsiTreeProofs` |
| `BgetPool` | the pool block by block, its semaphore, interrupts and killed processes | `MCBgetPool` | `BgetPoolProofs` |
| `Heap` | what the pool promises: disjoint buffers | (through `BgetPool`) | (through `BgetPoolProofs`) |
| `AtChannel` | threads, queues and clients of the 3G card's daemon, the card | `MCAtChannel` | `AtChannelProofs` |
| `ImageUpgrade` | an image write sector by sector, tags, flag, bootline, restarts | `MCImageUpgrade` | `ImageUpgradeProofs` |

The modules meet at fixed points.  `FlashLayout` shows that regions have sectors of
their own, which lets the other modules treat a region as a thing by itself.
`BoardFlash` shows that one region is rewritten by one process at a time, which lets
`PsiStore` and `ScratchPad` treat one operation at a time.  `BgetPool` shows that `bget` is
an allocator even with several processes, which lets `PsiTree` take a fresh node or NULL
from it.  `PsiTree` shows what a sequence of PSI calls leaves in the tree whose text
`PsiStore` writes, and that it takes calls that do not overlap.

### PsiStore

A configuration text is a function from sectors to pieces.  A piece is the number
of the text it comes from (0 is the default file), `Partial` (the text of a tree
that lost objects), `Zero` (the fill of `profileErase`) or `Erased`; `Length` says in which
sector a text ends, and behind it is `Rest`.  `flash` holds the two regions, `tree` the shared
tree, `pc`, `op`, `buf`, `image`, `reg`, `sect`, `wiped`, `stuck`, `sts` the operation under way.

- `PowerOn`, `VerifyPsi`, `VerifyBackup`, `LoadDefault`, `Retrieve` are the steps of
  `PsiIfc::init` in the build with `SUPPORT_BACKUPCFGFILE` (`BUILD_BACKUPCFGFILE=y`
  in the product's profile): PSI region, else backup and repair, else scratch pad
  wiped and default file; then the tree is read from the PSI region without
  verification.
- `AllocBuf`, `EraseSector`, `WriteSector`, `EndRegion` are `kerSysPersistentSet` and
  `kerSysPsiBackupSet`: the region is read into a buffer, the text is copied over the
  beginning of it (`Over`) and all of it is written, so the tail of an older, longer text
  stays.  `Advance` goes from the PSI region to the backup whatever became of the first, as
  `writeStreamToFlash` does.
- `NoMemory`, `VerifyFails`, `ReadFails`, `PowerCut` are the faults.  When a sector does not
  verify `cfi_flash_write_buf` erases it with `write_sem_lock` held; the erase takes the same
  semaphore and the writer sleeps (`stuck`) until the power is cut or, `Signal`, a signal ends
  the sleep and the write is tried again or given up (`WriteFails`).  After a failed read the
  local buffer may hold what an earlier read left on the stack; `ReadFails` chooses.
- `Valid` says which mixtures of sectors parse: from `<psitree>` to the first `</psitree>`
  (`EndsAt`), and a document put together from two texts does when their tags fall at the
  same offsets (`Layout`).  What lies behind `</psitree>` is not looked at.  `Load` says what
  the parser's callbacks leave in the tree.

Assumed: the default file is in the read-only file system and valid; one operation
of the store at a time (the semaphores of `psiapi.cpp` do not enforce it: `psi_semid`
is never assigned, see `PsiTree`); a text that is too long is refused (`Large`); a sector that
was not written to its end holds nothing that parses.

### BoardFlash

The kernel is not preemptive and has one processor, so control changes hands only
where the code sleeps: `down_interruptible`, `msleep`, `kmalloc` and the waits of a
sector erase and program.  Each action is the code from one of those points to the
next.  `cfiflash.c` holds a semaphore of its own around each sector operation, which
is why erase and program are single steps.  When a sector does not read back as it was
written, `cfi_flash_write_buf` erases it to try again; the erase takes `write_sem_lock`, which
`cfi_flash_write_buf` holds, and sleeps (`VerifyFails`, `Stuck`).  From then on everybody else who
reads, erases or programs a sector sleeps on the same semaphore (`Jam`, `Chip`), unless signals
end these sleeps (`Woken`): then the write is tried again or, after three attempts, given up with
the sector erased (`Unwritten`).

- An ioctl is `Call`, `Down` or `DownInterrupted`, for `FLASH_WRITE` then `TakeFlag` or
  `Conflict`, `GetSharedBlks` or `NoMemory`, then for a clear `Wipe` and `Fill`, for a write
  `Erase` and `Program`, and `Up`.
  A region is a function from slots (pieces written at offsets of their own) to
  values; `kerSysNvRamSet`, `kerSysFixSet`, `kerSysWlanParamSet` and the others
  differ in the region only.
- `DEL_EXTENDMACADDR` ("delmac") goes straight from `Call` to `GetSharedBlks` on `avail`: it takes
  neither the semaphore nor the flag.
- `Signals` switches on signals.  `down_interruptible`'s result is ignored, so an
  interrupted ioctl goes on without the semaphore and still calls `up()`.
- `Poll` is the button's timer, `WorkBlks` ... `WorkFails` is `restore_do_tasklet` over
  `Script`, its regions in order.  Calls that follow one another on the same region
  are one entry.  At its end the product resets the board, or with a WLAN build
  wakes the monitor task that does.
- `latest`, `crossed`, `failed` and `meddled` (a `DEL_EXTENDMACADDR` met another ioctl on `avail`) are
  history variables.

Left out: image writes (`ImageUpgrade`), `firstInitExtendMACInfo` (it writes `avail` once while the
driver is loaded, before there are callers), the equipment key test that borrows the
button, a negative button status (which stops the polling), `copy_from_user` errors
(they return before the lock).

### ScratchPad and TokenMap

The pad is a function from offsets to cells.  The loops of `kerSysScratchPadSet` and
`kerSysScratchPadGet` are recursive functions over offsets, with the same conditions
(`Skip` is the walk that both loops of a set share, `Find` stops it at a name);
their differences are kept (`Get` does not count token headers, `Set` looks for
names that begin with a letter).  `TokenMap` is the abstract specification, and
`ImplementsTokenMap` the refinement with `map` mapped to what a get would return.
`SetSharedBlks` writes the buffer, or fails and leaves the pad erased: in `TokenMap` a call that
fails says so, and has changed nothing or lost every token.
Assumed: names begin with a letter and are shorter than 16, a removal has length 0,
callers' buffers are large enough, `memcpy` copies upwards, the bytes behind a full
pad's buffer do not look like a token.  A set is one step here; its interleavings are
`BoardFlash`'s matter.  A pad torn by a power cut, or by a reset while a write sleeps in the chip
driver, is not modelled; nor is the memory that the early returns do not release.

### FlashLayout

One `Carve` per partition, nine in the order of `kerSysFlashInit`.  `base` is the sector
table.  When an address falls below the flash `flash_get_blk` returns -1 and the
model stops; the code would go on and index the sector table out of range.

### ImageUpgrade

The flash is a row of sectors of one size; a sector holds a numbered piece of a numbered
image, nothing, or something that is no image.  A tag is the beginning of piece 0, and
`HasTag` is `getTagFromPartition`: the CRC covers the tag only, not the image.

- `Begin` is the entry of `flashFsKernelImage` with its size check.  The code that would
  choose the second partition is commented out, so the running image is overwritten.
- `FlagErase`, `FlagProgram`, `FlagFails` are `kerSysVariableSet` for the flags "3" and
  "1"; `NvramErase`, `NvramProgram`, `NvramFails` are `kerSysNvRamSet` for the bootline.
  Their results are ignored, which the history variable `ignored` records.
- `SectorErase`, `SectorProgram`, `SectorFails` are the loop of `kerSysBcmImageSet` with
  its branch for the sector of VARIABLE; `TagErase`, `TagHead`, `TagRest`, `TagFails` are its
  second call, for the tag's sector.
- A sector that does not verify puts the ioctl to sleep, as in `BoardFlash` (`VerifyFails`); what was
  programmed so far may already look right.  A signal wakes it (`Woken`): the sector is written again,
  and since the erase has put the semaphore up without having put it down, later failures
  return an error (`GivesUp`), which the actions named `...Fails` handle.
- `PowerCut` and `SoftReset` lead to `Boot`, which fails when the first sector (boot loader
  and NVRAM) is lost or no tag is valid.  The boot loader itself is not in the
  repository; `BootPartition` is `getBootImageTag`, by which the kernel mounts its root
  file system.

Assumed: an image is longer than one sector and begins at `FLASH_LENGTH_BOOT_ROM`; the
tag's address fields are right.  Left out: `BCM_IMAGE_CFE` and `BCM_IMAGE_WHOLE`.

### BgetPool and Heap

The pool is a row of addresses.  `bsize[a]` and `prevfree[a]` are the header at `a` (0: no
header there), `freelist` the set of blocks on the free list.  The order of the list
decides only between blocks of one size, so `Best` leaves that choice open.

- `Bget`, `Bgetr`, `Brel` begin a call, `SemDown` is `BGET_SEMDOWN`; `SemDownInterrupted` is
  the same when a signal ends the sleep: `perror` and on, without the semaphore.  `SemUp` is
  `BGET_SEMUP`, which fails on a semaphore that is 0 already.
- `Scan` and one of `CarveSplit`, `CarveWhole`, `CarveStale` are `bget`; `MergePrev` and
  `MergeNext` are `brel`; `AssertFails` is a failed `assert`, which ends the process.
- `Kill` ends a process anywhere, `Ends` is `exit_sem` of the kernel with the adjustments of
  `SEM_UNDO`.
- `torn` and `interrupts` are history.  After a process died inside the pool, or two were
  inside at once, nothing is said about the blocks (`Calm`), only about the semaphore.

`Heap` is the abstract specification: a set of disjoint buffers per process, `Get` adds
one that meets no other, `Release` takes one away.  `HandsOutDisjoint` says that every step of
the pool is a step of `Heap` or leaves the buffers alone.  Left out: statistics other than
`totalloc`, `bpoold`, `bpoolv`, and pool expansion (`bectl` is never called); the order of
the free list, and with it the assertions about its links (`bget.c:910`), and the one against a request
of no bytes (588).

### PsiTree

A node is a unit of memory for an `AppNode` or `ObjectNode` with what hangs on it; `head`, `next`,
`key` and `value` are the lists.  A loop along a list is `Walk`, the least set of nodes that holds
its first node and is closed under its steps; `Ends` says that it ends.  A call is cut where it carries a pointer: `FindStep`,
`Create`, `Tail` (the walk of `append`), `Link` (the store at its end), `Assign` and `Realloc`
(`PsiObject::set`), `Unlink`.  `CreateFails` and the second half of `Realloc` are `bget` returning
NULL, with what the code does then: most places write through the pointer and crash; an object
without a buffer is linked all the same; without an `ObjectNode` the new object and its buffer are
lost (`lost`).  `want` is what the calls that returned should have left; `overlap`, `freed` and
`failed` record what the properties make exceptions for.

Memory is released by removals and by a store of another length, which releases the old value
buffer first, without a lock.  When processes came across each other and memory was
released, a process may write to, or release again, what already belongs to somebody else.  Such a
state is `Wild`: the calls under way are followed to their end, no new one begins, and no property
speaks of it.  So the properties are about all interleavings in which nothing is released,
and about all sequences of calls that take turns.  Left out: `appRename`, the counter of changes,
`unInit`.

### AtChannel

A command is a module, a type and a serial number, which the code does not have and which
tells whose answer a reply is.  Types are told apart by what writing or answering them does besides
replying and posting (`Type`): `AT+CFUN=` arms the alarm; the handler of `AT^SYSINFO` asks the card
for the SIM lock; that of a PIN command uses the card and queues two commands after it has
posted; a dialled call is replied to only when it fails, an accepted one and `AT^DDSETEX` tell the
voice module, whoever asked; the rest ("query") are replied to.

- `Submit`, `Take`, `Drained`, `GiveUp` are a client: `at_sm_submit_at`, and `AtRcv`, which after a
  reply takes every other one of the same type out of its queue (`Drained` is the end of that).
- `SemWait`, `Clear`, `MsgRcv`, `Write` are `WritePcui`; `AlarmFires` and `AlarmSend` the SIGALRM
  handler, which runs in that thread; `Poll` is what other threads and signal handlers queue:
  `SendSysinfo`, `DelayTimeInformIMSI`, `debugswitch`.
- `Top`, `Detect`, `ReaderSend`, `ReaderSent`, `ReadAnswer`, `Handle`, `ReadNothing`, `ReadFails`,
  `Failed`, `ErrorReply` are `ReadPcui` with `HspaDeviceDetect` and the handlers.  The mutex is
  held over several steps only while the card is looked for (`Locked`).  `Detect` opens a card, finds
  none, finds another, or returns early (`FindsNothingNew`).
- `Probe` is what `SystemInfoQuery` does with the card: it writes `AT+CLCK`, and `AT^CPIN` when the SIM
  wants its PIN, and reads once after each.  The read may take everything the card owed, or not
  wait long enough; then the answer is left for a later read (`Leaves`) and handled as any other.
  `Clip` is `PinNumVerfication` after its post: `AT+CLIP` and a read that may take the
  answer to the writer's next command.  `PinEnableQuery` writes `AT^CURC=1` and reads nothing; no
  handler knows that answer, and the reader drops it.
- `Told` is the reply: `SendReply` to the module in `g_stAtFromOther`, `Deliver` to the voice module, or
  nothing.  `ReadReport` is `^CONF` or `^CONN`, on which the reader queues a `DEX_SET`.
- `PullOut`, `PlugIn` and `Swap` are the user, and the kernel's signal with it.
- `hasty` records that the reader went on while something was still owed: it gave up a command
  that the card still has or that was not yet written (a late answer, or a card change at the
  wrong moment), or one of its handlers did not wait for the answer to a command of its own.  From
  then on two commands may be under way and replies go astray.  The four safety properties exempt
  these behaviours and so say that there is no other way to get there; `Served` includes them.
  `tired` records that a call of a client ended with AT_TIMEOUT; the client may take an old reply
  from then on.

Left out: what the answers say; answers that come in two parts, for which `HspaMatchRead` reads on;
unasked reports other than `^CONF` and `^CONN`; more than one late answer to the commands that set up a
card, and a late one at the start of the daemon; the thresholds of `HSPA_ERR_LIMIT` (any failed
write or read may be the one that reaches it); partial writes; the shared status file; and the
blocking `msgsnd` to the voice and TR-069 processes under the mutex (lines 1132, 3995 and 4076), which
would stop the daemon as long as their queues are full.

## 3. Runs

| Run | Config | Instance | Shows |
|---|---|---|---|
| `psi_store` | `MCPsiStore.cfg` | 2 sectors, 2 new texts of different lengths, 3 faults, 2 cuts | one fault is survived; default only after two; nothing older; copies agree; boots read a valid copy and end unless a sector does not verify |
| `board_lock` | `MCBoardLock.cfg` | 2 processes, scratch pad, NVRAM and AVAIL, 2 slots | mutual exclusion, no lost update, clean reads, but for AVAIL once `DEL_EXTENDMACADDR` met another ioctl |
| `board_signals` | `MCBoardSignals.cfg` | 2 processes, PSI and scratch pad, 1 slot, signals, restore | the flag alone keeps writers apart; drift of the semaphore is bounded |
| `board_restore` | `MCBoardRestore.cfg` | 2 processes, scratch pad, 1 slot, restore | monitor balanced; an undisturbed restore is complete; every ioctl returns unless a sector does not verify |
| `scratch_pad` | `MCScratchPad.cfg` | 3 names, 2 values, 5 lengths | the pad implements a map and never spills; a failing write is reported |
| `scratch_pad_old` | `MCScratchPadOld.cfg` | a pad with an old magic number | violated: old tokens come back |
| `flash_layout` | `MCFlashLayout.cfg` | 256 sector tables, 9 choices of lengths | own sectors, fitting buffers, boot sector spared |
| `image_upgrade` | `MCImageUpgrade.cfg` | 10 sectors, 2 upgrades, 4 lengths | success boots the new image; flag "1" vouches for a whole image; nothing beyond the image is touched; upgrades end unless a sector does not verify |
| `bget_pool` | `MCBgetPool.cfg` | 2 processes, 56 bytes of pool, 1 interrupt, kills | exclusion, blocks tile the pool, merge and are accounted for, NULL only when full, no assertion fails, implements `Heap`, calls return |
| `psi_tree` | `MCPsiTree.cfg` | 2 processes, 2 applications, 2 objects, 2 lengths, 3 nodes | the tree holds what was stored; only removed objects, and new ones without a node, are lost; who crashes and when; lists stay apart under overlapping stores |
| `psi_tree_store` | `MCPsiTreeStore.cfg` | the same | violated: two overlapping `appOpen` calls lose an application |
| `at_channel` | `MCAtChannel.cfg` | 1 client, the voice module, with an `AT^SYSINFO`; queues of 2; 1 command of the daemon of each cause, 1 card change, 1 late answer | one command at a time, each answered once, to its asker and fresh, none forgotten; the writer is always woken |

Why the bounds are enough.  Two sectors are enough to tear a text; two new texts give
an old, a current and a newer one; three faults and two cuts allow a fault in the
write, in the repair and in the boot after it.  With `MaxRetry` 2 a writer waits,
tries again and gives up (the code tries 10 times); with `RestoreTime` 2 a count is
started, reset and completed (the code needs 5).  Two processes show every conflict of
two: with signals, one that was interrupted hands the semaphore back once too often, and both
are inside afterwards.  The lengths of the scratch pad include 0, one that needs padding, one
that fits exactly and one that is refused.  The sector tables put the change from
small to large sectors at every place among the last eight sectors, and some lengths
leave the flash too small.  The lengths of images are the smallest, one that ends just
below partition 2, one that covers its tag and one that ends in the sector of VARIABLE,
with and without room for it; with two upgrades the second meets every remainder of the
first.  Deadlock is not checked there: a board without boot loader or tag stops for good.
The pool holds three blocks at most: one process asks for the smallest buffer, the other for
one that splits a large block and takes a smaller one whole.  Deadlock is not checked for `BgetPool`, `PsiTree` and `AtChannel`: all processes may
be killed or crash, and the daemon really may stop on a full queue.  Three nodes make a
list of applications and a list of objects of which one has a successor, or run out.  In
`AtChannel` queues of two fill up with the commands that the alarm, the detection, the handlers and
the poller send; one card change and one late answer reach every exception.  The
`AT^SYSINFO` of the client makes its handler probe the card and queue the `CFUN_SET` that arms the
alarm, and a probe answered late brings a PIN answer; with the commands of the daemon all types
occur but a dialled and an accepted call, whose replies are those of `Told` for "dex".  `Fresh` makes a next command start from a clean
queue, so one command of the client shows what happens to the following ones, and the proofs cover
any number.  Processes are symmetric in the safety runs.

Fairness.  `PsiStore!FairSpec`: weak fairness of the boot and of the write steps (the
processor does not stop in `init()`), none of the API calls, faults or cuts.
`BoardFlash!FairSpec`: weak fairness of every ioctl and of the restore work (a runnable
thread runs; waits in the flash driver are bounded) and strong fairness of `Down`
(the wait queue of a semaphore wakes its sleepers in turn).  `ImageUpgrade!FairSpec`: weak fairness
of the steps of an upgrade and of the start (the ioctl waits for nobody), none of `Begin` and
`PowerCut`.  In these three nobody owes a signal to a writer that sleeps on `write_sem_lock`, so
`BootCompletes`, `CallsReturn` and `UpgradeEnds` name that sleep as the one way not to end.
`BgetPool!FairSpec`: weak fairness of the steps inside the pool and strong fairness of `SemDown`
(`update_queue` in `ipc/sem.c` hands a freed semaphore to the sleepers in their order); no
interrupts, calls or kills.  `AtChannel!FairSpec`: weak fairness of the writer and of the reader (a
read returns after five seconds, `VTIME`), and strong fairness of `Write`, which waits for the
mutex: an assumption about the thread library.  None of the user, the card's reports, the
poller, the alarm, or the clients.  The card may stay silent: that is `ReadNothing`, not a missing
answer.

Several properties are conjunctions of named parts: `PadSound` (types, `NoSpill`, `UniqueNames`),
`PoolSound` (types, `Tiled`, `Coalesced`, `Accounted`), `TreeSound` (types, `ListsStayApart`),
`ChannelSound` (types, `OneAtATime`).  The type invariants of `BoardFlash` and `FlashLayout` are
proved and not run.

Every property has a mutant in `PROJECT.json`: a definition changed as a plausible
bug would change it, under which TLC finds the property violated.

### What the violated runs say

1. `scratch_pad_old`.  The buffer is read before the pad is cleared and then written.
2. `psi_tree_store`.  `psi_semid` is -1: the `append` of two `appOpen` calls finds the same last
   node, both return a handle, and one of the two applications is not in the tree.  Two `objStore`
   calls lose an object in the same way.

Seen while modelling, without a run of its own:

- `init()` tests a status computed before the repair (`psiifc.cpp:441`); the results of the repair
  and of the default write are dropped.  After two faults the tree is built from a region that
  does not verify, which is why `BootReadsValidCopy` has its exception.
- A sector that does not verify stops the flash: `cfi_flash_write_buf` (`cfiflash.c:736`) holds
  `write_sem_lock` when it calls the erase (751), which takes it again (605).  "Try to write the sector
  successfully up to three times" is what it does only after a signal, or for a caller in an interrupt.
- `DEL_EXTENDMACADDR` (`board.c:4306`) rewrites AVAIL without semaphore and flag (`meddled`).
- A shorter configuration text does not remove the tail of a longer one (`bcm63xx_flash.c:738`).  The
  parser stops at the first `</psitree>`, so the tail matters only after a second fault.
- The restore work takes no lock.  A `FLASH_WRITE` of the PSI that reads before the clear
  and programs after it leaves the old configuration (`crossed` in `RestoreAloneComplete`).
- The size check of an image leaves one sector for nine partitions (`board.c:2691`); only the
  sector of VARIABLE stops the write, so a long image erases the scratch pad.
  `ElsewhereKept` says that nothing but the image's own length does.
- Writing the tag last protects the first image ever written to a partition; over an older
  image the old tag vouches for the mixture.  The flag "3" tells (`FlagTellsTorn`), but the
  code that reads it is switched off (`LY_DEBUG`).
- `EQUIPMENT_TEST` writes the NVRAM with the monitor on, against the comment at `board.c:2873`;
  two early returns of the scratch pad (`bcm63xx_flash.c:1151`, `1271`) do not release the buffer;
  `kerSysBcmImageSet` releases the copy of VARIABLE's sector twice (lines 1049 and 1097);
  `kerSysScratchPadGet` copies with the stored length, not the caller's (line 1166).
- `PsiApp::remove` never releases the `ObjectNode`.  A failed `bget` in `PsiObject::set` leaves an
  object without a buffer, and `PsiIfc::set` reports success.  When `PsiApp::add` finds no memory the new
  `PsiObject` is lost.
- `PinNumVerfication` reads the card after its post and may take the answer to the next command;
  that command is then answered with an error.
- A late answer of the 3G card is handed to the next one who asks, one to a handler's own command
  too; a full request queue stops
  the daemon for good when the alarm handler, the detection or the handler of
  `AT^SYSINFO` meets it.

## 4. Proofs

All theorems hold for every value of the constants under the named `ASSUME`s.

**PsiStoreProofs.**  `IInv == TypeOK /\ WriteInv /\ QuietInv /\ TreeInv /\ NothingOlder`.
The properties are not inductive alone: `WriteInv` says what a write in progress has
written, what the buffer it writes from has behind the text, and that, as long as no fault
happened, the other region is valid; `QuietInv`
counts how many faults it takes to lose a copy when nothing is written; `TreeInv` says
that the tree can be written as a valid document, so that what a store writes is
valid.  From it: `OneFaultSafe`, `DefaultsSafe`, `NoStaleText`, `CopiesAgree`,
`BootReadSafe`, and `TypeCorrect`.

**BoardFlashProofs.**  `BoardInv == TypeOK /\ ControlInv /\ LockInv /\ FlagInv /\ DataInv`.
`ControlInv` ties the place of an ioctl to its parameters; `LockInv` is the semaphore's;
`FlagInv` says that the flag has one owner and the monitor's counter is the number
of those who disabled it; `DataInv` says that a process between read and write of a
guarded region has the latest contents in its buffer (of `avail` until it was meddled with).  `OneHolder` is the core: without
signals the semaphore, with signals the flag, lets one process hold a guarded region.
From it: `LockSafe`, `WritersSafe`, `MonitorSafe`, `UpdatesSafe`, `ReadsSafe`,
`TypeCorrect`.  `DriftBounded` counts: the semaphore and the number of ioctls inside the lock together
change only when a signal lets one in while the semaphore is 0, for any finite set of
processes (`ProcAssumption`).  `RestoreComplete` rests on `WorkInv`: as long as nobody
crossed the work and no call of it failed, every region that it has passed in `Script` is clear.

**FlashLayoutProofs.**  `LayoutInv == TypeOK /\ TotalInv /\ StackInv /\ InsideSectors /\
NoSpareSector`: the running total is what lies above the last partition, and the
partitions lie one below the other.  From it: `SectorsDisjoint`, `BufferFits`,
`SectorsNeeded`, `TypeCorrect`.  `RoomInv` bounds the running total by the lengths placed so
far and less than one largest sector of waste for each; from it `BootSectorSafe`.

**BgetPoolProofs.**  `PoolInv == LockInv /\ TypeOK /\ PlaceInv /\ CallInv /\ ShapeInv`, for any
number of processes, any pool and any requests.

- `LockInv` adds to `Exclusive` that the adjustment the kernel keeps for a
  process is -1 while it is inside and 0 otherwise: without it the death of the holder could
  leave the semaphore up.  `LockSteps` sorts the steps of the pool into five by what they do
  to the lock (enters, intrudes, leaves, dies, stays), so the invariant is proved once for
  each of these.  From it: `LockSafe`.
- `ShapeInv` is about the blocks: while the pool is calm there is a set of headers and a
  function that gives the end of each block, so that the blocks tile the pool, the headers
  agree with it (`Laid`), no two neighbours are free, and `totalloc` is the number of bytes in
  the allocated blocks (`Given`).  Between the two merges of `brel` one block, the one the
  process carries, is free and may have a free neighbour behind it (`Shape(m)`).  The tiling
  is stated by its ends and not by walking from header to header, so a split or a merge
  changes it at one place (`TilesSplit`, `TilesMerge`) and no induction is needed.  The sum of
  the sizes is the cardinality of the set of bytes, for the same reason.
- `CallInv` says what a process inside the pool knows about the block it carries.
- From it: `AssertionsHold`, `PoolStaysSound`, `NullOnlyWhenFull`, and `BuffersDisjoint`, the
  refinement of `Heap`: the buffers handed out are the allocated blocks behind their headers.

**ImageUpgradeProofs.**  `UpgradeInv == UpgradeType /\ RangeInv /\ PlacedInv /\ TagInv /\ LineInv /\
FlagInv`, for every flash that `LayoutAssumption` allows, every length of image and any number
of upgrades.  `PlacedInv` says how many pieces of the image are in the flash at each place of
the upgrade, including the piece that is in the buffer alone while VARIABLE's sector is
rewritten; `TagInv` that the new image has the largest sequence number; `LineInv` follows the
bootline and `FlagInv` the flag through buffer and flash.  From it: `ResetBootsNewImage`,
`FlagVouches`, and the action property `OthersSpared`.

**AtChannelProofs.**  `ChannelInv == TypeOK /\ ReaderInv /\ TurnInv /\ SerialInv /\ UnderWayInv /\
ReplyInv /\ NoneForgotten`, for any number of clients, queues, commands, card changes and late answers.
`TurnInv` is the core: unless the reader was hasty, the semaphore, the writer, the card, the
answer and the error pass a single turn on.  `TurnSteps` sorts the steps of writer and reader by what
they do to it: look at the card, take stray answers, abandon a command, send, or post.
`SerialInv` says that no command is twice in the queue or both there and under way; `UnderWayInv`
and `ReplyInv` that a command of a client is in one of three places (queue, daemon, reply) and,
as long as the client did not give up, is its last one.  `Delivered` and `Reaches` say what a reply
does to the queues, `Suffix` what a read does to what the card owes, and `ForgottenStep` goes through
the steps for `NoneForgotten`.  From it: `TakesTurns` (`ChannelSound`), `AskerGetsReply`
(`HandedToAsker`), `NothingStale` (`Fresh`), `NothingForgotten` (`NoneForgotten`).  `NoneAssumption` keeps
"no command" apart from the commands.

**PsiTreeProofs.**  `Inv == Base /\ ValInv /\ HoldsInv /\ NoCrash`, `Base == TypeOK /\ CallInv /\ ListInv /\
TurnInv /\ PlaceInv /\ KeyInv /\ UsedInv`, for any processes, applications, objects, values and
memory (`NameAssumption` keeps `None` and the top of the tree apart from names, ids and nodes).  `StepKinds` sorts the steps by
what they change, and the lemmas about `Walk` say what a changed pointer does to the nodes of
a list: the nodes are the least closed set, so that exhibiting a closed set takes the place of
induction along the list.

- `ListInv` is about the pointers: they lead to memory in use, no two to the same node, every
  walk ends, and a node that a call has not yet linked is seen by nobody.  It holds while the
  processes took turns, or, however they overlap, until a node was released; that is why overlapping
  stores may lose a node and never tie two lists together.
- `TurnInv`, `PlaceInv`, `KeyInv` and `UsedInv` hold while the processes took turns: where each call is
  in the list it works on, that keys differ, and that the nodes in use are those in the
  tree, those leaked and the one that a call is about to link, apart from those lost.
- `ValInv` says that objects have values until something was released or an allocation failed;
  it needs that a node which `appOpen` is going to link comes behind no object.
- `HoldsInv` ties the tree to the history of the calls.
- From it: `TreeStaysSound` (`TreeSound`), `TreeHoldsWhatWasStored` (`HoldsWhatWasStored`),
  `OnlyObjectsAreLost` (`OnlyObjectsLeak`), `NoProcessCrashes` (`NoCrash`).

**ScratchPadProofs.**  `Inv` says that the pad is blank (no magic number, no token) or good: its
tokens form a list (`Listed`), a set of offsets each of which begins a token that the next
one or the end of the list follows, with whole data and different names, aligned, and inside
the pad.  The part that makes it inductive is that no other cell looks like the beginning of a
token: without it a token of the list could move and uncover a stale one.

- The loops are recursive functions, and a recursive function has a value only if some function
  satisfies its equation.  `SkipExists` and `GetExists` prove that, and `SkipFinds` and `GetFinds`
  what the value is on a list, each by leading the least number for which it fails to a
  contradiction (`LeastNat`, from the theorem `WFMin` of the library): every token leads
  further up the pad.  `GetFinds` shows that the search of a get, which counts the data
  and not the headers, never gives up before the token.
- One lemma per way of writing the pad: the header again, a token behind the list, data over
  data, tokens moved over a removed one (`HeaderKeeps`, `AppendToken`, `Overwrite`, `Remove`), and
  one for what it does to the map.
- From it: `PadStaysSound` (`PadSound`) and `PadImplementsTokenMap` (`ImplementsTokenMap`).  Both are
  proved under `NewPads`: a pad with another magic number has no tokens in it.  Without this
  TLC finds each of them violated from the old pad of `MCScratchPadOld.cfg`.

Only model-checked: liveness (`BootCompletes`, `CallsReturn`, `UpgradeEnds`, `CallReturns`, `Served`),
which needs fairness and `ENABLED` and is out of the prover's reach.  Every other property of a passing
run is stated by a theorem.

## 5. Not modelled, and the plan

Not modelled: hardware command sequences of the flash chips; tables (`boardparms.c`); the
per-object XML code and the field validation of the database API; the dying gasp log;
everything listed above as outside.  The LED driver (`bcm63xx_led.c`) was read: its state is
a blink state per LED and one timer, changed by an ioctl and the timer without a lock, and
nothing else depends on it.  Torn rewrites of the scratch pad and of the boot sector
are reached or named, but the code has no protection against them that a property could
state.

Next, in this order:

1. A composition of `PsiStore` with the ioctls of `BoardFlash`: a store beside a restore, with a
   reset at its end.
2. `BCM_IMAGE_CFE` and `BCM_IMAGE_WHOLE` in `ImageUpgrade`.
3. The LED timers and the dying gasp log.
