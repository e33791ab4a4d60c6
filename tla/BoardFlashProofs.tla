-------------------------- MODULE BoardFlashProofs --------------------------
(***************************************************************************)
(* Proofs about BoardFlash for any set of processes, any regions in use,   *)
(* any slots and values, with and without signals and the restore button.  *)
(***************************************************************************)
EXTENDS BoardFlash, FiniteSetTheorems, TLAPS

\* A filled or an edited region is again the contents of a region, and the
\* parameters of an ioctl name a region, a slot and a value.
LEMMA ContentFacts ==
    /\ \A v \in Val \cup {Erased} : All(v) \in Content
    /\ All(Blank) \in Content /\ All(Erased) \in Content
    /\ ASlot \in Slot
    /\ \A c \in Content, s \in Slot, v \in Val : [c EXCEPT ![s] = v] \in Content
    /\ Unwritten \in Content
<1>1. \A v \in Val \cup {Erased} : All(v) \in Content BY DEF All, Content
<1>2. Blank \in Val BY ValueAssumption
<1>3. ASlot \in Slot BY RegionAssumption DEF ASlot
<1>4. \A c \in Content, s \in Slot, v \in Val : [c EXCEPT ![s] = v] \in Content
  BY DEF Content
<1>5. Unwritten \in Content BY <1>1 DEF Unwritten
<1> QED BY <1>1, <1>2, <1>3, <1>4, <1>5

\* EQUIPMENT_TEST stores into the NVRAM only, clearing and reading a token concern
\* the scratch pad only.
LEMMA RequestFacts ==
    ASSUME NEW q \in Request \cup {NoRequest}
    PROVE  /\ q.reg \in Region /\ q.slot \in Slot /\ q.val \in Val
           /\ q.kind \in {"none", "write", "read", "clear", "spget", "equip", "delmac"}
           /\ q.kind = "equip" => q.reg = "nvram"
           /\ q.kind = "delmac" => q.reg = "avail"
           /\ q.kind \in {"clear", "spget"} => q.reg = "sp"
           /\ q.kind = "none" <=> q = NoRequest
           /\ q \in Request => q.kind # "none"
<1> DEFINE Good == /\ q.reg \in Region /\ q.slot \in Slot /\ q.val \in Val
                   /\ q.kind \in {"none", "write", "read", "clear", "spget", "equip", "delmac"}
                   /\ q.kind = "equip" => q.reg = "nvram"
                   /\ q.kind = "delmac" => q.reg = "avail"
                   /\ q.kind \in {"clear", "spget"} => q.reg = "sp"
                   /\ q.kind = "none" <=> q = NoRequest
                   /\ q \in Request => q.kind # "none"
<1> USE DEF Good
<1>a. Blank \in Val /\ ASlot \in Slot /\ UserRegion \subseteq Region /\ "psi" \in Region
  BY ValueAssumption, ContentFacts, RegionAssumption DEF Region
<1>1. CASE q \in [kind : {"write"}, reg : UserRegion, slot : Slot, val : Val]
  BY <1>1, <1>a DEF NoRequest
<1>2. CASE q \in [kind : {"read"}, reg : UserRegion \ {"sp"}, slot : {ASlot}, val : {Blank}]
  BY <1>2, <1>a DEF NoRequest
<1>3. CASE q \in [kind : {"clear", "spget"}, reg : UserRegion \cap {"sp"}, slot : {ASlot},
                  val : {Blank}]
  BY <1>3, <1>a DEF NoRequest
<1>4. CASE q \in [kind : {"equip"}, reg : UserRegion \cap {"nvram"}, slot : Slot, val : Val]
  BY <1>4, <1>a DEF NoRequest
<1>6. CASE q \in [kind : {"delmac"}, reg : UserRegion \cap {"avail"}, slot : Slot, val : {Blank}]
  BY <1>6, <1>a DEF NoRequest
<1>5. CASE q = NoRequest
  <2>1. \A r \in Request : r.kind # "none" BY DEF Request
  <2>2. q \notin Request BY <2>1, <1>5 DEF NoRequest
  <2> QED BY <2>2, <1>5, <1>a DEF NoRequest
<1> QED BY <1>1, <1>2, <1>3, <1>4, <1>5, <1>6 DEF Request

-----------------------------------------------------------------------------
(* Types *)

Pc == {"idle", "down", "flag", "blks", "wipe", "fill", "erase", "program", "up", "err",
       "stuck", "stuckfill"}

\* The part of TypeOK about the ioctls.
TypeIo ==
    /\ pc \in [Proc -> Pc]
    /\ req \in [Proc -> Request \cup {NoRequest}]
    /\ buf \in [Proc -> Content]
    /\ retry \in [Proc -> 0..(MaxRetry - 1)]

\* The board boots into a well-typed state.
LEMMA TypeInit == Init => TypeOK
<1> SUFFICES ASSUME Init PROVE TypeOK
  OBVIOUS
<1> USE DEF Init
<1>1. flash \in [Region -> Content] /\ latest \in [Region -> Content]
  BY ContentFacts, ValueAssumption
<1>2. flag \in BOOLEAN /\ crossed \in BOOLEAN /\ failed \in BOOLEAN /\ meddled \in BOOLEAN
  OBVIOUS
<1>3. pc \in [Proc -> Pc] /\ req \in [Proc -> Request \cup {NoRequest}] BY DEF Pc
<1>4. buf \in [Proc -> Content] /\ wbuf \in Content BY ContentFacts
<1>5. retry \in [Proc -> 0..(MaxRetry - 1)] BY BoundAssumption
<1>6. sem \in Nat /\ off \in Nat /\ btn \in 0..RestoreTime /\ btn < RestoreTime BY BoundAssumption
<1>7. wpos \in 1..Len(Script) BY DEF Script
<1>8. wpc \in {"idle", "blks", "erase", "program", "stuck", "done"} OBVIOUS
<1> QED BY <1>1, <1>2, <1>3, <1>4, <1>5, <1>6, <1>7, <1>8 DEF TypeOK, Pc

\* Every step keeps the parts of TypeOK that the ioctls work on.
LEMMA TypeIoStep == TypeOK /\ [Next]_vars => TypeIo'
<1> SUFFICES ASSUME TypeOK, [Next]_vars PROVE TypeIo'
  OBVIOUS
<1> USE DEF TypeIo, Goto
<1>t. /\ pc \in [Proc -> Pc] /\ req \in [Proc -> Request \cup {NoRequest}]
      /\ buf \in [Proc -> Content] /\ retry \in [Proc -> 0..(MaxRetry - 1)]
      /\ flash \in [Region -> Content]
  BY DEF TypeOK, Pc
<1>m. 0 \in 0..(MaxRetry - 1) BY BoundAssumption
<1>e. ASSUME NEW p \in Proc, Enter(p) PROVE TypeIo'
  BY <1>e, <1>t DEF Enter, Pc
<1>l. ASSUME NEW p \in Proc, Leave(p) PROVE TypeIo'
  BY <1>l, <1>t, <1>m, ContentFacts DEF Leave, Pc
<1>c. ASSUME NEW p \in Proc, NEW q \in Request, Call(p, q) PROVE TypeIo'
  BY <1>c, <1>t, <1>m DEF Call, Pc
<1>i. ASSUME NEW p \in Proc, IoStep(p) PROVE TypeIo'
  <2>1. CASE Down(p) BY <2>1, <1>e DEF Down
  <2>2. CASE DownInterrupted(p) BY <2>2, <1>e DEF DownInterrupted
  <2>3. CASE TakeFlag(p) BY <2>3, <1>t DEF TakeFlag, Pc
  <2>4. CASE Conflict(p)
    <3>1. CASE retry[p] + 1 >= MaxRetry BY <3>1, <2>4, <1>l DEF Conflict
    <3>2. CASE ~(retry[p] + 1 >= MaxRetry)
      <4>1. retry[p] + 1 \in 0..(MaxRetry - 1) BY <3>2, <1>t, BoundAssumption
      <4> QED BY <4>1, <3>2, <2>4, <1>t DEF Conflict
    <3> QED BY <3>1, <3>2
  <2>5. CASE GetSharedBlks(p)
    <3>1. req[p].reg \in Region BY <1>t, RequestFacts
    <3>2. buf' \in [Proc -> Content] BY <3>1, <2>5, <1>t DEF GetSharedBlks
    <3>3. pc' \in [Proc -> Pc] BY <2>5, <1>t DEF GetSharedBlks, Pc
    <3> QED BY <3>2, <3>3, <2>5, <1>t DEF GetSharedBlks
  <2>6. CASE NoMemory(p) BY <2>6, <1>t DEF NoMemory, Pc
  <2>7. CASE Wipe(p) BY <2>7, <1>t DEF Wipe, Pc
  <2>8. CASE Fill(p) \/ VerifyFails(p) BY <2>8, <1>t DEF Fill, AfterClear, VerifyFails, Pc
  <2>9. CASE Erase(p) BY <2>9, <1>t DEF Erase, Pc
  <2>10. CASE Program(p) \/ Woken(p)
    BY <2>10, <1>t DEF Program, Rewritten, Written, Woken, AfterClear, Pc
  <2>11. CASE Up(p) BY <2>11, <1>l DEF Up
  <2> QED BY <1>i, <2>1, <2>2, <2>3, <2>4, <2>5, <2>6, <2>7, <2>8, <2>9, <2>10, <2>11 DEF IoStep, Run
<1>p. ASSUME NEW down \in BOOLEAN, Poll(down) PROVE TypeIo'
  BY <1>p, <1>t DEF Poll, ioVars
<1>w. CASE WorkStep
  BY <1>w, <1>t DEF WorkStep, WorkRun, WorkBlks, WorkErase, WorkProgram, WorkWritten, WorkFails,
     WorkVerifyFails, WorkWoken, WorkGivesUp, ioVars
<1>u. CASE UNCHANGED vars BY <1>u, <1>t DEF vars, ioVars
<1> QED BY <1>i, <1>c, <1>p, <1>w, <1>u DEF Next

\* The part of TypeOK about the flash, the locks and the restore work.
TypeRest ==
    /\ flash \in [Region -> Content] /\ latest \in [Region -> Content]
    /\ sem \in Nat /\ off \in Nat
    /\ btn \in 0..RestoreTime /\ (wpc = "idle" => btn < RestoreTime)
    /\ wpc \in {"idle", "blks", "erase", "program", "stuck", "done"} /\ wpos \in 1..Len(Script)
    /\ wbuf \in Content

TypeBool == flag \in BOOLEAN /\ crossed \in BOOLEAN /\ failed \in BOOLEAN /\ meddled \in BOOLEAN

\* Every flag stays a truth value.
LEMMA TypeBoolStep == TypeBool /\ [Next]_vars => TypeBool'
<1> SUFFICES ASSUME TypeBool, [Next]_vars PROVE TypeBool'
  OBVIOUS
<1> USE DEF TypeBool
<1>1. ASSUME NEW p \in Proc, IoStep(p) PROVE TypeBool'
  BY <1>1 DEF IoStep, Run, Down, DownInterrupted, Enter, TakeFlag, Conflict, GetSharedBlks, NoMemory,
     Wipe, Fill, AfterClear, VerifyFails, Erase, Program, Rewritten, Written, Woken, Up, histVars
<1>2. ASSUME NEW p \in Proc, NEW q \in Request, Call(p, q) PROVE TypeBool'
  BY <1>2 DEF Call, histVars
<1>3. ASSUME NEW down \in BOOLEAN, Poll(down) PROVE TypeBool'
  BY <1>3 DEF Poll
<1>4. CASE WorkStep
  BY <1>4 DEF WorkStep, WorkRun, WorkBlks, WorkErase, WorkProgram, WorkWritten, WorkFails,
     WorkVerifyFails, WorkWoken, WorkGivesUp, WorkNext, histVars
<1>5. CASE UNCHANGED vars BY <1>5 DEF vars, histVars
<1> QED BY <1>1, <1>2, <1>3, <1>4, <1>5 DEF Next

\* Every step keeps the rest of the types.
LEMMA TypeRestStep == TypeOK /\ [Next]_vars => TypeRest'
<1> SUFFICES ASSUME TypeOK, [Next]_vars PROVE TypeRest'
  OBVIOUS
<1> USE DEF TypeRest
<1>t. /\ flash \in [Region -> Content] /\ latest \in [Region -> Content]
      /\ sem \in Nat /\ off \in Nat /\ btn \in 0..RestoreTime /\ (wpc = "idle" => btn < RestoreTime)
      /\ wpc \in {"idle", "blks", "erase", "program", "stuck", "done"} /\ wpos \in 1..Len(Script)
      /\ wbuf \in Content
      /\ buf \in [Proc -> Content] /\ req \in [Proc -> Request \cup {NoRequest}]
  BY DEF TypeOK
<1>i. ASSUME NEW p \in Proc, IoStep(p) PROVE TypeRest'
  <2> USE DEF workVars
  <2>r. /\ req[p].reg \in Region /\ req[p].slot \in Slot /\ req[p].val \in Val
        /\ buf[p] \in Content
    BY <1>t, RequestFacts
  <2>1. CASE Down(p) \/ DownInterrupted(p) BY <2>1, <1>t DEF Down, DownInterrupted, Enter
  <2>2. CASE TakeFlag(p) BY <2>2, <1>t DEF TakeFlag, SchedDisable
  <2>3. CASE Conflict(p) BY <2>3, <1>t DEF Conflict, Leave
  <2>4. CASE GetSharedBlks(p) \/ NoMemory(p) BY <2>4, <1>t DEF GetSharedBlks, NoMemory
  <2>5. CASE Wipe(p) \/ Erase(p) \/ VerifyFails(p)
    <3>1. flash' \in [Region -> Content]
      BY <2>5, <1>t, ContentFacts DEF Wipe, Erase, VerifyFails
    <3> QED BY <3>1, <2>5, <1>t DEF Wipe, Erase, VerifyFails
  <2>6. ASSUME NEW c \in Content, AfterClear(p, c) PROVE TypeRest'
    <3>1. flash' \in [Region -> Content] /\ latest' \in [Region -> Content]
      BY <2>6, <1>t DEF AfterClear
    <3> QED BY <3>1, <2>6, <1>t DEF AfterClear
  <2>7. CASE Fill(p) BY <2>6, <2>7, ContentFacts DEF Fill
  <2>8. ASSUME NEW c \in Content, NEW l \in Content, Written(p, c, l) PROVE TypeRest'
    <3>1. flash' \in [Region -> Content] /\ latest' \in [Region -> Content]
      BY <2>8, <1>t DEF Written
    <3> QED BY <3>1, <2>8, <1>t DEF Written
  <2>9. ASSUME Rewritten(p) PROVE TypeRest'
    <3>1. \A c \in Content : Edited(req[p], c) \in Content BY <2>r, ContentFacts DEF Edited
    <3>2. latest[req[p].reg] \in Content BY <2>r, <1>t
    <3> QED BY <3>1, <3>2, <2>8, <2>9, <2>r DEF Rewritten
  <2>p. CASE Program(p) BY <2>p, <2>9 DEF Program
  <2>w. CASE Woken(p) BY <2>w, <2>6, <2>8, <2>9, ContentFacts DEF Woken
  <2>10. CASE Up(p) BY <2>10, <1>t DEF Up, Leave, SchedEnable
  <2> QED BY <1>i, <2>1, <2>2, <2>3, <2>4, <2>5, <2>7, <2>p, <2>w, <2>10 DEF IoStep, Run
<1>c. ASSUME NEW p \in Proc, NEW q \in Request, Call(p, q) PROVE TypeRest'
  BY <1>c, <1>t DEF Call, workVars
<1>p. ASSUME NEW down \in BOOLEAN, Poll(down) PROVE TypeRest'
  <2> DEFINE n == IF flag \/ ~down THEN 0 ELSE btn + 1
  <2>1. n \in 0..RestoreTime BY <1>p, <1>t, BoundAssumption DEF Poll
  <2>2. btn' = n /\ wpc' = (IF n >= RestoreTime THEN "blks" ELSE "idle")
    BY <1>p DEF Poll
  <2>3. /\ btn' \in 0..RestoreTime /\ (wpc' = "idle" => btn' < RestoreTime)
        /\ wpc' \in {"idle", "blks", "erase", "program", "stuck", "done"}
    BY <2>1, <2>2, BoundAssumption
  <2> QED BY <2>3, <1>p, <1>t DEF Poll
<1>w. CASE WorkStep
  <2>l. Len(Script) = 7 /\ \A i \in 1..7 : Script[i] \in Region BY DEF Script, Region
  <2>r. Script[wpos] \in Region BY <2>l, <1>t
  <2>e. \A c \in Content : WorkEdit(Script[wpos], c) \in Content
    BY <2>r, ContentFacts, ValueAssumption DEF WorkEdit
  <2>n. WorkNext => /\ wpos' \in 1..Len(Script) /\ wbuf' \in Content
                    /\ wpc' \in {"blks", "done"} /\ off' \in Nat
    BY <2>l, <1>t, ContentFacts DEF WorkNext, SchedDisable, SchedEnable
  <2>1. CASE WorkBlks BY <2>1, <2>r, <1>t DEF WorkBlks
  <2>2. CASE WorkErase
    <3>1. flash' \in [Region -> Content] BY <2>2, <1>t, ContentFacts DEF WorkErase
    <3> QED BY <3>1, <2>2, <1>t DEF WorkErase
  <2>3. ASSUME WorkWritten PROVE TypeRest'
    <3>1. flash' \in [Region -> Content]
      BY <2>3, <2>e, <2>r, <1>t, ContentFacts DEF WorkWritten
    <3>2. latest' \in [Region -> Content] BY <2>3, <2>e, <2>r, <1>t DEF WorkWritten
    <3> QED BY <3>1, <3>2, <2>n, <2>3, <1>t DEF WorkWritten
  <2>4. CASE WorkFails BY <2>4, <2>n, <1>t DEF WorkFails
  <2>5. CASE WorkVerifyFails
    <3>1. flash' \in [Region -> Content] BY <2>5, <1>t, ContentFacts DEF WorkVerifyFails
    <3> QED BY <3>1, <2>5, <1>t DEF WorkVerifyFails
  <2>6. ASSUME WorkGivesUp PROVE TypeRest'
    <3>1. flash' \in [Region -> Content] /\ latest' \in [Region -> Content]
      BY <2>6, <1>t, ContentFacts DEF WorkGivesUp
    <3> QED BY <3>1, <2>n, <2>6, <1>t DEF WorkGivesUp
  <2> QED BY <1>w, <2>1, <2>2, <2>3, <2>4, <2>5, <2>6
          DEF WorkStep, WorkRun, WorkProgram, WorkWoken
<1>u. CASE UNCHANGED vars BY <1>u, <1>t DEF vars, workVars
<1> QED BY <1>i, <1>c, <1>p, <1>w, <1>u DEF Next

\* No ioctl, no poll of the button and no step of the restore work leaves the types.
LEMMA TypeStep == TypeOK /\ [Next]_vars => TypeOK'
<1>1. TypeOK <=> TypeIo /\ TypeRest /\ TypeBool
  BY DEF TypeOK, TypeIo, TypeRest, TypeBool, Pc
<1>2. TypeOK' <=> TypeIo' /\ TypeRest' /\ TypeBool'
  BY DEF TypeOK, TypeIo, TypeRest, TypeBool, Pc
<1> QED BY <1>1, <1>2, TypeIoStep, TypeRestStep, TypeBoolStep

\* The ioctls, the button and the restore work keep every variable in its type; a
\* writer that waits for the flag has made fewer than MaxRetry attempts.
THEOREM TypeCorrect == Spec => []TypeOK
BY TypeInit, TypeStep, PTL DEF Spec

-----------------------------------------------------------------------------
(* The control of an ioctl *)

\* What the place an ioctl has reached says about its parameters and its buffer,
\* and that no work runs when nobody presses the button.
ControlInv ==
    /\ \A p \in Proc :
        /\ pc[p] = "idle" <=> req[p].kind = "none"
        /\ pc[p] = "flag" => req[p].kind \in FlashWrite
        /\ pc[p] = "down" => req[p].kind # "delmac"
        /\ Rewriting(p) => req[p].kind \notin {"none", "read"}
        /\ pc[p] \in {"idle", "down", "flag", "blks"} => buf[p] = All(Blank)
    /\ ~Restore => wpc = "idle"
    /\ wpc = "idle" => wpos = 1

\* board_ioctl reaches a place only with the parameters that lead there.
LEMMA ControlStep == TypeOK /\ ControlInv /\ [Next]_vars => ControlInv'
<1> SUFFICES ASSUME TypeOK, ControlInv, [Next]_vars PROVE ControlInv'
  OBVIOUS
<1> USE DEF ControlInv, Rewriting, Stuck, Goto, FlashWrite
<1>t. /\ pc \in [Proc -> Pc] /\ req \in [Proc -> Request \cup {NoRequest}]
      /\ buf \in [Proc -> Content]
  BY DEF TypeOK, Pc
<1>e. ASSUME NEW p \in Proc, pc[p] = "down", Enter(p) PROVE ControlInv'
  BY <1>e, <1>t DEF Enter, workVars
<1>l. ASSUME NEW p \in Proc, Leave(p), UNCHANGED workVars PROVE ControlInv'
  BY <1>l, <1>t DEF Leave, NoRequest, workVars
<1>c. ASSUME NEW p \in Proc, NEW q \in Request, Call(p, q) PROVE ControlInv'
  <2>1. q.kind # "none" BY RequestFacts
  <2> QED BY <2>1, <1>c, <1>t DEF Call, workVars
<1>i. ASSUME NEW p \in Proc, IoStep(p) PROVE ControlInv'
  <2> USE DEF workVars
  <2>1. CASE Down(p) \/ DownInterrupted(p) BY <2>1, <1>e DEF Down, DownInterrupted
  <2>2. CASE TakeFlag(p) BY <2>2, <1>t DEF TakeFlag
  <2>3. CASE Conflict(p)
    <3>1. CASE Leave(p) BY <3>1, <2>3, <1>l DEF Conflict
    <3>2. CASE ~Leave(p) BY <3>2, <2>3, <1>t DEF Conflict
    <3> QED BY <3>1, <3>2
  <2>4. CASE GetSharedBlks(p)
    <3>1. req[p].kind \in {"none", "read"} => pc'[p] \in {"up", "erase"}
      BY <2>4, <1>t DEF GetSharedBlks
    <3>2. req[p].kind # "none"
      BY <2>4, <1>t DEF GetSharedBlks
    <3> QED BY <3>1, <3>2, <2>4, <1>t DEF GetSharedBlks
  <2>5. CASE NoMemory(p) BY <2>5, <1>t DEF NoMemory
  <2>6. CASE Wipe(p) BY <2>6, <1>t DEF Wipe
  <2>7. CASE Fill(p) \/ VerifyFails(p) BY <2>7, <1>t DEF Fill, AfterClear, VerifyFails
  <2>8. CASE Erase(p) BY <2>8, <1>t DEF Erase
  <2>9. CASE Program(p) \/ Woken(p)
    BY <2>9, <1>t DEF Program, Rewritten, Written, Woken, AfterClear
  <2>10. CASE Up(p) BY <2>10, <1>l DEF Up
  <2> QED BY <1>i, <2>1, <2>2, <2>3, <2>4, <2>5, <2>6, <2>7, <2>8, <2>9, <2>10 DEF IoStep, Run
<1>p. ASSUME NEW down \in BOOLEAN, Poll(down) PROVE ControlInv'
  BY <1>p DEF Poll, ioVars
<1>w. CASE WorkStep
  <2>1. wpc # "idle" /\ wpc' # "idle"
    BY <1>w DEF WorkStep, WorkRun, WorkBlks, WorkErase, WorkProgram, WorkWritten, WorkFails,
     WorkVerifyFails, WorkWoken, WorkGivesUp, WorkNext
  <2>2. UNCHANGED ioVars
    BY <1>w DEF WorkStep, WorkRun, WorkBlks, WorkErase, WorkProgram, WorkWritten, WorkFails,
     WorkVerifyFails, WorkWoken, WorkGivesUp
  <2> QED BY <2>1, <2>2 DEF ioVars
<1>u. CASE UNCHANGED vars BY <1>u DEF vars, ioVars, workVars
<1> QED BY <1>i, <1>c, <1>p, <1>w, <1>u DEF Next

\* The control of the ioctls holds always.
LEMMA ControlAlways == Spec => []ControlInv
<1>1. Init => ControlInv
  <2> SUFFICES ASSUME Init PROVE ControlInv
    OBVIOUS
  <2>1. \A p \in Proc : pc[p] = "idle" /\ req[p] = NoRequest /\ buf[p] = All(Blank) BY DEF Init
  <2> QED BY <2>1 DEF Init, ControlInv, Rewriting, Stuck, NoRequest
<1> QED BY <1>1, TypeCorrect, ControlStep, PTL DEF Spec

\* A step of one ioctl leaves the others where they are, with what they hold.
LEMMA IoFrame ==
    ASSUME TypeOK, NEW p \in Proc, NEW q \in Proc, q # p,
           IoStep(p) \/ \E c \in Request : Call(p, c)
    PROVE  pc'[q] = pc[q] /\ req'[q] = req[q] /\ buf'[q] = buf[q]
<1>t. /\ pc \in [Proc -> Pc] /\ req \in [Proc -> Request \cup {NoRequest}]
      /\ buf \in [Proc -> Content]
  BY DEF TypeOK, Pc
<1> USE DEF Goto
<1>l. ASSUME Leave(p) PROVE pc'[q] = pc[q] /\ req'[q] = req[q] /\ buf'[q] = buf[q]
  BY <1>l, <1>t DEF Leave
<1>1. CASE \E c \in Request : Call(p, c) BY <1>1, <1>t DEF Call
<1>2. CASE Down(p) \/ DownInterrupted(p) BY <1>2, <1>t DEF Down, DownInterrupted, Enter
<1>3. CASE TakeFlag(p) BY <1>3, <1>t DEF TakeFlag
<1>4. CASE Conflict(p) BY <1>4, <1>l, <1>t DEF Conflict
<1>5. CASE GetSharedBlks(p) BY <1>5, <1>t DEF GetSharedBlks
<1>6. CASE NoMemory(p) BY <1>6, <1>t DEF NoMemory
<1>7. CASE Wipe(p) \/ Erase(p) BY <1>7, <1>t DEF Wipe, Erase
<1>8. CASE Fill(p) \/ VerifyFails(p) BY <1>8, <1>t DEF Fill, AfterClear, VerifyFails
<1>9. CASE Program(p) \/ Woken(p)
    BY <1>9, <1>t DEF Program, Rewritten, Written, Woken, AfterClear
<1>10. CASE Up(p) BY <1>10, <1>l DEF Up
<1> QED BY <1>1, <1>2, <1>3, <1>4, <1>5, <1>6, <1>7, <1>8, <1>9, <1>10 DEF IoStep, Run

\* What a step of p does to the semaphore and to its own place: it comes in through
\* Down, or through DownInterrupted when there are signals, it goes out with an
\* up(), or it stays on its side.
LEMMA LockFrame ==
    ASSUME TypeOK, ControlInv, NEW p \in Proc, IoStep(p) \/ \E c \in Request : Call(p, c)
    PROVE  \/ ~InLock(p) /\ InLock(p)' /\ sem > 0 /\ sem' = sem - 1
           \/ ~InLock(p) /\ InLock(p)' /\ Signals /\ sem = 0 /\ sem' = sem
           \/ InLock(p) /\ ~InLock(p)' /\ sem' = sem + 1
           \/ (InLock(p)' <=> InLock(p)) /\ sem' = sem
<1>t. pc \in [Proc -> Pc] /\ req \in [Proc -> Request \cup {NoRequest}] BY DEF TypeOK, Pc
<1>k. pc[p] = "down" => req[p].kind # "delmac" BY DEF ControlInv
<1> USE DEF Goto, InLock, Busy
<1>1. CASE \E c \in Request : Call(p, c) BY <1>1, <1>t DEF Call
<1>2. CASE Down(p) BY <1>2, <1>t, <1>k DEF Down, Enter
<1>3. CASE DownInterrupted(p) BY <1>3, <1>t, <1>k DEF DownInterrupted, Enter
<1>4. CASE TakeFlag(p) BY <1>4, <1>t DEF TakeFlag
<1>5. CASE Conflict(p) BY <1>5, <1>t DEF Conflict, Leave
<1>6. CASE GetSharedBlks(p) BY <1>6, <1>t DEF GetSharedBlks
<1>7. CASE NoMemory(p) BY <1>7, <1>t DEF NoMemory
<1>8. CASE Wipe(p) \/ Erase(p) BY <1>8, <1>t DEF Wipe, Erase
<1>9. CASE Fill(p) \/ VerifyFails(p) BY <1>9, <1>t DEF Fill, AfterClear, VerifyFails
<1>10. CASE Program(p) \/ Woken(p)
    BY <1>10, <1>t DEF Program, Rewritten, Written, Woken, AfterClear
<1>11. CASE Up(p) BY <1>11, <1>t DEF Up, Leave
<1> QED BY <1>1, <1>2, <1>3, <1>4, <1>5, <1>6, <1>7, <1>8, <1>9, <1>10, <1>11 DEF IoStep, Run

\* The inductive form of LockExclusive: without signals the semaphore never counts
\* beyond one.
LockInv == LockExclusive /\ (~Signals => sem <= 1)

\* down_interruptible lets the next ioctl in only when the last one is out.
LEMMA LockStep == TypeOK /\ ControlInv /\ LockInv /\ [Next]_vars => LockInv'
<1> SUFFICES ASSUME TypeOK, ControlInv, LockInv, [Next]_vars, ~Signals PROVE LockInv'
  BY DEF LockInv, LockExclusive
<1>s. /\ sem \in Nat /\ sem <= 1
      /\ \A x, y \in Proc : InLock(x) /\ InLock(y) => x = y
      /\ sem = 1 <=> \A x \in Proc : ~InLock(x)
  BY DEF LockInv, LockExclusive, TypeOK
<1>1. ASSUME NEW p \in Proc, IoStep(p) \/ \E c \in Request : Call(p, c) PROVE LockInv'
  <2>o. \A q \in Proc : q # p => (InLock(q)' <=> InLock(q)) BY <1>1, IoFrame DEF InLock, Busy
  <2>1. CASE ~InLock(p) /\ InLock(p)' /\ sem > 0 /\ sem' = sem - 1
    <3>1. sem = 1 /\ sem' = 0 BY <2>1, <1>s
    <3>2. \A x \in Proc : ~InLock(x) BY <3>1, <1>s
    <3>3. \A x \in Proc : InLock(x)' => x = p BY <3>2, <2>o
    <3> QED BY <2>1, <3>1, <3>3 DEF LockInv, LockExclusive
  <2>2. CASE InLock(p) /\ ~InLock(p)' /\ sem' = sem + 1
    <3>1. sem = 0 /\ sem' = 1 BY <2>2, <1>s
    <3>2. \A x \in Proc : ~InLock(x)' BY <2>2, <2>o, <1>s
    <3> QED BY <3>1, <3>2 DEF LockInv, LockExclusive
  <2>3. CASE (InLock(p)' <=> InLock(p)) /\ sem' = sem
    <3>1. \A x \in Proc : InLock(x)' <=> InLock(x) BY <2>3, <2>o
    <3> QED BY <3>1, <2>3, <1>s DEF LockInv, LockExclusive
  <2> QED BY <1>1, <2>1, <2>2, <2>3, LockFrame
<1>2. ASSUME pc' = pc, req' = req, sem' = sem PROVE LockInv'
  <2>1. \A x \in Proc : InLock(x)' <=> InLock(x) BY <1>2 DEF InLock, Busy
  <2> QED BY <2>1, <1>2, <1>s DEF LockInv, LockExclusive
<1>3. ASSUME NEW down \in BOOLEAN, Poll(down) PROVE LockInv' BY <1>2, <1>3 DEF Poll, ioVars
<1>4. CASE WorkStep
  BY <1>2, <1>4 DEF WorkStep, WorkRun, WorkBlks, WorkErase, WorkProgram, WorkWritten, WorkFails,
     WorkVerifyFails, WorkWoken, WorkGivesUp, ioVars
<1>5. CASE UNCHANGED vars BY <1>2, <1>5 DEF vars, ioVars
<1> QED BY <1>1, <1>3, <1>4, <1>5 DEF Next

\* Without signals flash_sem_lock is a lock, for any number of processes and
\* whether or not the restore button is pressed.
THEOREM LockSafe == Spec => []LockExclusive
<1>1. Init => LockInv
  <2> SUFFICES ASSUME Init PROVE LockInv
    OBVIOUS
  <2>1. sem = 1 /\ \A p \in Proc : ~InLock(p) BY DEF Init, InLock, Busy
  <2> QED BY <2>1 DEF LockInv, LockExclusive
<1> QED BY <1>1, TypeCorrect, ControlAlways, LockStep, PTL DEF Spec, LockInv

-----------------------------------------------------------------------------
(* The semaphore with signals *)

Inside == {p \in Proc : InLock(p)}

\* The ioctls inside and the semaphore's count together change only when a signal
\* lets one in while the count is 0.
LEMMA DriftStep == TypeOK /\ ControlInv /\ SemaphoreDrift /\ [Next]_vars => SemaphoreDrift'
<1> SUFFICES ASSUME TypeOK, ControlInv, SemaphoreDrift, [Next]_vars PROVE SemaphoreDrift'
  OBVIOUS
<1>n. sem \in Nat BY DEF TypeOK
<1>f. IsFiniteSet(Inside) /\ Cardinality(Inside) \in Nat /\ Cardinality(Proc) \in Nat
  <2>1. Inside \in SUBSET Proc BY DEF Inside
  <2> QED BY <2>1, ProcAssumption, FS_Subset, FS_CardinalityType
<1>d. sem + Cardinality(Inside) >= 1 /\ sem + Cardinality(Inside) <= Cardinality(Proc)
  BY DEF SemaphoreDrift, Inside
<1>s. SUFFICES /\ sem' + Cardinality(Inside') >= 1
               /\ sem' + Cardinality(Inside') <= Cardinality(Proc)
  BY DEF SemaphoreDrift, Inside
<1>1. ASSUME NEW p \in Proc, IoStep(p) \/ \E c \in Request : Call(p, c)
      PROVE  /\ sem' + Cardinality(Inside') >= 1
             /\ sem' + Cardinality(Inside') <= Cardinality(Proc)
  <2>o. \A q \in Proc : q # p => (InLock(q)' <=> InLock(q)) BY <1>1, IoFrame DEF InLock, Busy
  <2>1. CASE ~InLock(p) /\ InLock(p)'
    <3>1. Inside' = Inside \cup {p} /\ p \notin Inside BY <2>o, <2>1 DEF Inside
    <3>2. Cardinality(Inside') = Cardinality(Inside) + 1 BY <3>1, <1>f, FS_AddElement
    <3>3. CASE sem > 0 /\ sem' = sem - 1 BY <3>2, <3>3, <1>n, <1>f, <1>d
    <3>4. CASE sem = 0 /\ sem' = sem
      <4>1. Inside' \in SUBSET Proc BY DEF Inside
      <4>2. Cardinality(Inside') <= Cardinality(Proc) BY <4>1, ProcAssumption, FS_Subset
      <4> QED BY <3>2, <3>4, <4>2, <1>f
    <3> QED BY <2>1, <3>3, <3>4, <1>1, LockFrame
  <2>2. CASE InLock(p) /\ ~InLock(p)'
    <3>1. Inside' = Inside \ {p} /\ p \in Inside BY <2>o, <2>2 DEF Inside
    <3>2. Cardinality(Inside') = Cardinality(Inside) - 1 BY <3>1, <1>f, FS_RemoveElement
    <3>3. sem' = sem + 1 BY <2>2, <1>1, LockFrame
    <3> QED BY <3>2, <3>3, <1>n, <1>f, <1>d
  <2>3. CASE InLock(p)' <=> InLock(p)
    <3>1. Inside' = Inside BY <2>o, <2>3 DEF Inside
    <3>2. sem' = sem BY <2>3, <1>1, LockFrame
    <3> QED BY <3>1, <3>2, <1>d
  <2> QED BY <2>1, <2>2, <2>3
<1>2. ASSUME pc' = pc, req' = req, sem' = sem
      PROVE  /\ sem' + Cardinality(Inside') >= 1
             /\ sem' + Cardinality(Inside') <= Cardinality(Proc)
  <2>1. Inside' = Inside BY <1>2 DEF Inside, InLock, Busy
  <2> QED BY <2>1, <1>2, <1>d
<1>3. ASSUME NEW down \in BOOLEAN, Poll(down) PROVE pc' = pc /\ req' = req /\ sem' = sem BY <1>3 DEF Poll, ioVars
<1>4. ASSUME WorkStep PROVE pc' = pc /\ req' = req /\ sem' = sem
  BY <1>4 DEF WorkStep, WorkRun, WorkBlks, WorkErase, WorkProgram, WorkWritten, WorkFails,
     WorkVerifyFails, WorkWoken, WorkGivesUp, ioVars
<1>5. ASSUME UNCHANGED vars PROVE pc' = pc /\ req' = req /\ sem' = sem BY <1>5 DEF vars, ioVars
<1> QED BY <1>1, <1>2, <1>3, <1>4, <1>5 DEF Next

\* However many sleeps signals interrupt, the semaphore is never lost and never lets
\* in more ioctls than there are processes.
THEOREM DriftBounded == Spec => []SemaphoreDrift
<1>1. Init => SemaphoreDrift
  <2> SUFFICES ASSUME Init PROVE SemaphoreDrift
    OBVIOUS
  <2>1. Inside = {} BY DEF Init, Inside, InLock, Busy
  <2>2. Cardinality(Inside) = 0 BY <2>1, FS_EmptySet
  <2>3. Cardinality(Proc) \in Nat /\ Cardinality(Proc) # 0
    BY ProcAssumption, FS_CardinalityType, FS_EmptySet
  <2> QED BY <2>2, <2>3 DEF Init, SemaphoreDrift, Inside
<1> QED BY <1>1, DriftStep, TypeCorrect, ControlAlways, PTL DEF Spec

-----------------------------------------------------------------------------
(* The flag and the monitor *)

\* What a step of p does to the flag and the monitor: p becomes a writer where the
\* flag was clear, stops being one, or neither.
LEMMA WriterFrame ==
    ASSUME TypeOK, ControlInv, NEW p \in Proc, IoStep(p) \/ \E c \in Request : Call(p, c)
    PROVE  \/ ~flag /\ Writer(p)' /\ flag' = TRUE /\ SchedDisable
           \/ Writer(p) /\ ~Writer(p)' /\ flag' = FALSE /\ SchedEnable
           \/ (Writer(p)' <=> Writer(p)) /\ flag' = flag /\ off' = off
<1>t. pc \in [Proc -> Pc] /\ req \in [Proc -> Request \cup {NoRequest}]
  BY DEF TypeOK, Pc
<1>b. flag \in BOOLEAN BY DEF TypeOK
<1>k. /\ pc[p] = "idle" <=> req[p].kind = "none"
      /\ pc[p] = "flag" => req[p].kind \in FlashWrite
  BY DEF ControlInv
<1> USE DEF Goto, Writer
<1>1. CASE \E c \in Request : Call(p, c) BY <1>1, <1>t DEF Call, FlashWrite
<1>2. CASE Down(p) \/ DownInterrupted(p) BY <1>2, <1>t DEF Down, DownInterrupted, Enter
<1>4. CASE TakeFlag(p)
  <2>1. Writer(p)' BY <1>4, <1>t, <1>k DEF TakeFlag
  <2> QED BY <2>1, <1>4 DEF TakeFlag
<1>5. CASE Conflict(p)
  <2>1. ~Writer(p) /\ ~Writer(p)' BY <1>5, <1>t DEF Conflict, Leave, NoRequest
  <2> QED BY <2>1, <1>5 DEF Conflict
<1>6. CASE GetSharedBlks(p)
  <2>1. Writer(p)' <=> Writer(p) BY <1>6, <1>t DEF GetSharedBlks
  <2> QED BY <2>1, <1>6 DEF GetSharedBlks
<1>7. CASE NoMemory(p)
  <2>1. Writer(p)' <=> Writer(p) BY <1>7, <1>t DEF NoMemory
  <2> QED BY <2>1, <1>7 DEF NoMemory
<1>8. CASE Wipe(p) \/ Erase(p)
  <2>1. Writer(p)' <=> Writer(p) BY <1>8, <1>t DEF Wipe, Erase
  <2> QED BY <2>1, <1>8 DEF Wipe, Erase
<1>9. CASE Fill(p) \/ VerifyFails(p)
  <2>1. Writer(p)' <=> Writer(p) BY <1>9, <1>t DEF Fill, AfterClear, VerifyFails
  <2> QED BY <2>1, <1>9 DEF Fill, AfterClear, VerifyFails
<1>10. CASE Program(p) \/ Woken(p)
  <2>1. Writer(p)' <=> Writer(p)
    BY <1>10, <1>t DEF Program, Rewritten, Written, Woken, AfterClear
  <2> QED BY <2>1, <1>10 DEF Program, Rewritten, Written, Woken, AfterClear
<1>11. CASE Up(p)
  <2>1. ~Writer(p)' /\ (Writer(p) <=> req[p].kind \in FlashWrite)
    BY <1>11, <1>t DEF Up, Leave, NoRequest
  <2>2. /\ IF Writer(p) THEN SchedEnable ELSE UNCHANGED off
        /\ flag' = (flag /\ ~Writer(p))
    BY <2>1, <1>11 DEF Up
  <2>3. CASE Writer(p) BY <2>1, <2>2, <2>3
  <2>4. CASE ~Writer(p) BY <2>1, <2>2, <2>4, <1>b
  <2> QED BY <2>3, <2>4
<1> QED BY <1>1, <1>2, <1>4, <1>5, <1>6, <1>7, <1>8, <1>9, <1>10, <1>11 DEF IoStep, Run

\* The restore work has disabled the monitor and not enabled it yet.
WorkOff == Working /\ wpos > 1

\* s_iFlashWriteFlg lets the next writer in only when the last one is done, and
\* the monitor is disabled once for the writer and once for the restore work.
FlagInv ==
    /\ WritersExclusive
    /\ off = (IF flag THEN 1 ELSE 0) + (IF WorkOff THEN 1 ELSE 0)

\* No step lets a second writer in or loses count of who disabled the monitor.
LEMMA FlagStep == TypeOK /\ ControlInv /\ FlagInv /\ [Next]_vars => FlagInv'
<1> SUFFICES ASSUME TypeOK, ControlInv, FlagInv, [Next]_vars PROVE FlagInv'
  OBVIOUS
<1>s. /\ \A x, y \in Proc : Writer(x) /\ Writer(y) => x = y
      /\ flag <=> \E x \in Proc : Writer(x)
      /\ off = (IF flag THEN 1 ELSE 0) + (IF WorkOff THEN 1 ELSE 0)
      /\ flag \in BOOLEAN /\ off \in Nat
  BY DEF FlagInv, WritersExclusive, TypeOK
<1> USE DEF FlagInv, WritersExclusive
<1>1. ASSUME NEW p \in Proc, IoStep(p) \/ \E c \in Request : Call(p, c) PROVE FlagInv'
  <2>o. \A q \in Proc : q # p => (Writer(q)' <=> Writer(q)) BY <1>1, IoFrame DEF Writer
  <2>w. WorkOff' <=> WorkOff
    BY <1>1 DEF WorkOff, Working, workVars, IoStep, Run, Call, Down, DownInterrupted, Enter, TakeFlag,
       Conflict, GetSharedBlks, NoMemory, Wipe, Fill, AfterClear, VerifyFails, Erase, Program,
       Rewritten, Written, Woken, Up
  <2>1. CASE ~flag /\ Writer(p)' /\ flag' = TRUE /\ SchedDisable
    <3>1. \A x \in Proc : Writer(x)' => x = p BY <2>1, <2>o, <1>s
    <3>2. off' = 1 + (IF WorkOff' THEN 1 ELSE 0) BY <2>1, <2>w, <1>s DEF SchedDisable
    <3> QED BY <3>1, <3>2, <2>1
  <2>2. CASE Writer(p) /\ ~Writer(p)' /\ flag' = FALSE /\ SchedEnable
    <3>1. \A x \in Proc : ~Writer(x)' BY <2>2, <2>o, <1>s
    <3>2. off' = (IF WorkOff' THEN 1 ELSE 0) BY <2>2, <2>w, <1>s DEF SchedEnable
    <3> QED BY <3>1, <3>2, <2>2
  <2>3. CASE (Writer(p)' <=> Writer(p)) /\ flag' = flag /\ off' = off
    <3>1. \A x \in Proc : Writer(x)' <=> Writer(x) BY <2>3, <2>o
    <3> QED BY <3>1, <2>3, <2>w, <1>s
  <2> QED BY <1>1, <2>1, <2>2, <2>3, WriterFrame
<1>2. ASSUME pc' = pc, req' = req, flag' = flag,
             off' = (IF flag THEN 1 ELSE 0) + (IF WorkOff' THEN 1 ELSE 0)
      PROVE FlagInv'
  <2>1. \A x \in Proc : Writer(x)' <=> Writer(x) BY <1>2 DEF Writer
  <2> QED BY <2>1, <1>2, <1>s
<1>3. ASSUME NEW down \in BOOLEAN, Poll(down) PROVE FlagInv'
  <2>1. ~WorkOff /\ ~WorkOff' BY <1>3 DEF Poll, WorkOff, Working, ControlInv
  <2>2. off' = off /\ pc' = pc /\ req' = req /\ flag' = flag BY <1>3 DEF Poll, ioVars
  <2> QED BY <2>1, <2>2, <1>2, <1>s
<1>4. CASE WorkStep
  <2>1. pc' = pc /\ req' = req /\ flag' = flag
    BY <1>4 DEF WorkStep, WorkRun, WorkBlks, WorkErase, WorkProgram, WorkWritten, WorkFails,
     WorkVerifyFails, WorkWoken, WorkGivesUp, ioVars
  <2>2. Working /\ wpos \in 1..7 /\ Len(Script) = 7
    BY <1>4 DEF WorkStep, WorkRun, WorkBlks, WorkErase, WorkProgram, WorkWritten, WorkFails,
     WorkVerifyFails, WorkWoken, WorkGivesUp, Working, TypeOK, Script
  <2>3. CASE WorkNext
    <3>1. CASE wpos = 1
      <4>1. ~WorkOff /\ WorkOff' /\ off' = off + 1
        BY <3>1, <2>2, <2>3 DEF WorkNext, WorkOff, Working, SchedDisable
      <4> QED BY <4>1, <2>1, <1>2, <1>s
    <3>2. CASE wpos > 1 /\ wpos < 7
      <4>1. WorkOff /\ WorkOff' /\ off' = off
        BY <3>2, <2>2, <2>3 DEF WorkNext, WorkOff, Working
      <4> QED BY <4>1, <2>1, <1>2, <1>s
    <3>3. CASE wpos = 7
      <4>1. WorkOff /\ ~WorkOff' /\ SchedEnable
        BY <3>3, <2>2, <2>3 DEF WorkNext, WorkOff, Working
      <4>2. off' = off - 1 BY <4>1, <1>s DEF SchedEnable
      <4> QED BY <4>1, <4>2, <2>1, <1>2, <1>s
    <3> QED BY <3>1, <3>2, <3>3, <2>2
  <2>4. CASE WorkBlks \/ WorkErase \/ WorkVerifyFails
    <3>1. (WorkOff' <=> WorkOff) /\ off' = off
      BY <2>4 DEF WorkBlks, WorkErase, WorkVerifyFails, WorkOff, Working
    <3> QED BY <3>1, <2>1, <1>2, <1>s
  <2> QED BY <2>3, <2>4, <1>4
          DEF WorkStep, WorkRun, WorkProgram, WorkWritten, WorkFails, WorkWoken, WorkGivesUp
<1>5. CASE UNCHANGED vars
  <2>1. (WorkOff' <=> WorkOff) /\ off' = off /\ pc' = pc /\ req' = req /\ flag' = flag
    BY <1>5 DEF vars, workVars, ioVars, WorkOff, Working
  <2> QED BY <2>1, <1>2, <1>s
<1> QED BY <1>1, <1>3, <1>4, <1>5 DEF Next

\* What the control of the ioctls and the flag need of one another.
LEMMA ControlFlagInit == Init => ControlInv /\ FlagInv
<1> SUFFICES ASSUME Init PROVE ControlInv /\ FlagInv
  OBVIOUS
<1>1. \A p \in Proc : pc[p] = "idle" /\ req[p] = NoRequest /\ buf[p] = All(Blank) BY DEF Init
<1>2. ControlInv BY <1>1 DEF Init, ControlInv, Rewriting, Stuck, NoRequest
<1>3. \A p \in Proc : ~Writer(p) BY <1>1 DEF Writer
<1>4. FlagInv
  BY <1>3 DEF Init, FlagInv, WritersExclusive, WorkOff, Working
<1> QED BY <1>2, <1>4

\* Signals or not, restore button or not: at most one FLASH_WRITE writes, and the
\* flag is set exactly while it does.
THEOREM WritersSafe == Spec => []WritersExclusive
BY TypeCorrect, ControlFlagInit, ControlStep, FlagStep, PTL DEF Spec, FlagInv

\* Signals or not, restore button or not: dg_setScheduleState has the scheduling
\* monitor off exactly while a FLASH_WRITE or the restore work writes.
THEOREM MonitorSafe == Spec => []MonitorBalanced
<1>1. TypeOK /\ FlagInv => MonitorBalanced
  BY DEF TypeOK, FlagInv, WritersExclusive, MonitorBalanced, WorkOff
<1> QED BY <1>1, TypeCorrect, ControlFlagInit, ControlStep, FlagStep, PTL DEF Spec

-----------------------------------------------------------------------------
(* The contents of the regions *)

Guard(r) == ~Signals /\ (r = "avail" => ~meddled)

\* p is between getSharedBlks and the end of setSharedBlks in a region that the
\* semaphore protects, or in avail with nobody else in it.
Holds(p) == Busy(p) /\ Guard(req[p].reg)

\* What is known of the contents when nobody presses the restore button: the
\* buffer of a process that rewrites a guarded region is up to date, and a sector
\* about to be programmed is erased.
DataInv ==
    ~Restore =>
        /\ \A r \in Region : Guard(r) =>
            flash[r] = latest[r] \/ \E p \in Proc : req[p].reg = r /\ Rewriting(p)
        /\ \A p \in Proc : Rewriting(p) /\ Guard(req[p].reg) => buf[p] = latest[req[p].reg]

\* As long as avail is not meddled with, a DEL_EXTENDMACADDR is alone in it.
MeddleInv ==
    ~meddled => \A p, q \in Proc :
        Busy(p) /\ req[p].kind = "delmac" /\ Busy(q) /\ req[q].reg = "avail" => p = q

\* Only one process at a time is at work on a guarded region.
LEMMA OneHolder ==
    ASSUME TypeOK, LockExclusive, MeddleInv,
           NEW p \in Proc, NEW q \in Proc, Holds(p), Holds(q), req[p].reg = req[q].reg
    PROVE  p = q
<1>1. CASE InLock(p) /\ InLock(q) BY <1>1 DEF LockExclusive, Holds, Guard
<1>2. ASSUME NEW x \in Proc, Holds(x), ~InLock(x)
      PROVE  req[x].kind = "delmac" /\ req[x].reg = "avail" /\ ~meddled
  <2>1. req[x] \in Request \cup {NoRequest} BY DEF TypeOK
  <2>2. req[x].kind = "delmac" BY <1>2 DEF Holds, InLock
  <2>3. req[x].reg = "avail" BY <2>1, <2>2, RequestFacts
  <2> QED BY <2>2, <2>3, <1>2 DEF Holds, Guard
<1> QED BY <1>1, <1>2 DEF MeddleInv, Holds

\* A call that meets a DEL_EXTENDMACADDR in avail, or the other way round, is noted.
LEMMA MeddleStep == TypeOK /\ ControlInv /\ MeddleInv /\ [Next]_vars => MeddleInv'
<1> SUFFICES ASSUME TypeOK, ControlInv, MeddleInv, [Next]_vars, ~meddled' PROVE MeddleInv'
  BY DEF MeddleInv
<1>t. /\ pc \in [Proc -> Pc] /\ req \in [Proc -> Request \cup {NoRequest}]
  BY DEF TypeOK, Pc
<1>1. ASSUME NEW p \in Proc, IoStep(p) \/ \E c \in Request : Call(p, c) PROVE MeddleInv'
  <2>o. \A q \in Proc : q # p => (Busy(q)' <=> Busy(q)) /\ req'[q] = req[q]
    BY <1>1, IoFrame DEF Busy
  <2>1. ASSUME NEW c \in Request, Call(p, c) PROVE MeddleInv'
    <3>1. ~meddled /\ (c.kind = "delmac" => ~Meets(p)) /\ req'[p] = c
      BY <2>1, <1>t DEF Call
    <3>2. Busy(p)' => c.kind = "delmac" BY <2>1, <1>t DEF Call, Busy, Goto
    <3>3. c.kind = "delmac" => c.reg = "avail" BY RequestFacts
    <3>4. \A q \in Proc : q # p /\ Busy(q)' /\ Busy(p)' => req'[q].reg # "avail"
      BY <3>1, <3>2, <2>o DEF Meets
    <3>5. \A q \in Proc : q # p /\ req'[q].kind = "delmac" => req'[q].reg = "avail"
      BY <2>o, <1>t, RequestFacts
    <3> QED BY <3>1, <3>4, <3>5, <2>o DEF MeddleInv
  <2>2. CASE Down(p) \/ DownInterrupted(p)
    <3>1. Enter(p) /\ pc[p] = "down" BY <2>2 DEF Down, DownInterrupted
    <3>2. /\ ~meddled /\ req' = req
          /\ ~(req[p].reg = "avail" /\ \E x \in Proc : Busy(x) /\ req[x].kind = "delmac")
      BY <3>1 DEF Enter
    <3>3. req[p].kind # "delmac" BY <3>1 DEF ControlInv
    <3> QED BY <3>2, <3>3, <2>o DEF MeddleInv
  <2>3. CASE ~(Down(p) \/ DownInterrupted(p)) /\ ~\E c \in Request : Call(p, c)
    <3>1. meddled' = meddled
      BY <2>3, <1>1 DEF IoStep, Run, TakeFlag, Conflict, GetSharedBlks, NoMemory, Wipe, Fill,
         AfterClear, VerifyFails, Erase, Program, Rewritten, Written, Woken, Up, histVars
    <3>2. (Busy(p)' => Busy(p)) /\ (Busy(p)' => req'[p] = req[p])
      BY <2>3, <1>1, <1>t DEF IoStep, Run, TakeFlag, Conflict, GetSharedBlks, NoMemory, Wipe,
         Fill, AfterClear, VerifyFails, Erase, Program, Rewritten, Written, Woken, Up, Leave,
         Goto, Busy
    <3> QED BY <3>1, <3>2, <2>o DEF MeddleInv
  <2> QED BY <1>1, <2>1, <2>2, <2>3
<1>2. ASSUME pc' = pc, req' = req, meddled' = meddled PROVE MeddleInv'
  BY <1>2 DEF MeddleInv, Busy
<1>3. ASSUME NEW down \in BOOLEAN, Poll(down) PROVE MeddleInv' BY <1>2, <1>3 DEF Poll, ioVars
<1>4. CASE WorkStep
  BY <1>2, <1>4 DEF WorkStep, WorkRun, WorkBlks, WorkErase, WorkProgram, WorkWritten, WorkFails,
     WorkVerifyFails, WorkWoken, WorkGivesUp, ioVars, histVars
<1>5. CASE UNCHANGED vars BY <1>2, <1>5 DEF vars, ioVars, histVars
<1> QED BY <1>1, <1>3, <1>4, <1>5 DEF Next

\* A process that rewrites a guarded region holds it.
LEMMA RewriterHolds ==
    ASSUME NEW p \in Proc, Rewriting(p), Guard(req[p].reg)
    PROVE  Holds(p)
BY DEF Rewriting, Stuck, Holds, Busy

\* No step gives a region back the protection it has lost.
LEMMA GuardKept ==
    ASSUME TypeOK, [Next]_vars, NEW r, Guard(r)'
    PROVE  Guard(r)
<1>1. meddled \in BOOLEAN /\ (meddled => meddled')
  <2>1. ASSUME NEW p \in Proc, IoStep(p) \/ \E c \in Request : Call(p, c) PROVE meddled => meddled'
    BY <2>1 DEF IoStep, Run, Call, Down, DownInterrupted, Enter, TakeFlag, Conflict,
       GetSharedBlks, NoMemory, Wipe, Fill, AfterClear, VerifyFails, Erase, Program, Rewritten,
       Written, Woken, Up, histVars
  <2>2. WorkStep => meddled' = meddled
    BY DEF WorkStep, WorkRun, WorkBlks, WorkErase, WorkProgram, WorkWritten, WorkFails,
       WorkVerifyFails, WorkWoken, WorkGivesUp, histVars
  <2> QED BY <2>1, <2>2 DEF Next, Poll, vars, histVars, TypeOK
<1> QED BY <1>1 DEF Guard

\* Only a process that rewrites a region changes it.
LEMMA FlashFrame ==
    ASSUME TypeOK, NEW p \in Proc, IoStep(p) \/ \E c \in Request : Call(p, c),
           NEW r \in Region, ~Rewriting(p) \/ r # req[p].reg
    PROVE  flash'[r] = flash[r] /\ latest'[r] = latest[r]
<1>t. flash \in [Region -> Content] /\ latest \in [Region -> Content] BY DEF TypeOK
<1> USE DEF Rewriting, Stuck
<1>1. CASE \E c \in Request : Call(p, c) BY <1>1 DEF Call
<1>2. CASE Down(p) \/ DownInterrupted(p) BY <1>2 DEF Down, DownInterrupted, Enter
<1>3. CASE TakeFlag(p) \/ Conflict(p) BY <1>3 DEF TakeFlag, Conflict
<1>4. CASE GetSharedBlks(p) \/ NoMemory(p) BY <1>4 DEF GetSharedBlks, NoMemory
<1>5. CASE Wipe(p) \/ Erase(p) BY <1>5, <1>t DEF Wipe, Erase
<1>6. CASE Fill(p) \/ VerifyFails(p) BY <1>6, <1>t DEF Fill, AfterClear, VerifyFails
<1>7. CASE Program(p) \/ Woken(p)
    BY <1>7, <1>t DEF Program, Rewritten, Written, Woken, AfterClear
<1>8. CASE Up(p) BY <1>8 DEF Up
<1> QED BY <1>1, <1>2, <1>3, <1>4, <1>5, <1>6, <1>7, <1>8 DEF IoStep, Run

\* A rewriter goes on with its buffer, or it ends with what it programmed.
LEMMA RewriteStep ==
    ASSUME TypeOK, ~Signals, NEW p \in Proc, IoStep(p) \/ \E c \in Request : Call(p, c),
           Rewriting(p), buf[p] = latest[req[p].reg]
    PROVE  /\ req' = req /\ buf' = buf
           /\ \/ Rewriting(p)' /\ latest' = latest
              \/ ~Rewriting(p)' /\ flash'[req[p].reg] = latest'[req[p].reg]
<1>t. /\ flash \in [Region -> Content] /\ latest \in [Region -> Content]
      /\ pc \in [Proc -> Pc] /\ req[p].reg \in Region
  BY RequestFacts DEF TypeOK, Pc
<1> USE DEF Goto
<1>1. CASE Wipe(p) \/ Erase(p) \/ VerifyFails(p)
  BY <1>1, <1>t DEF Wipe, Erase, VerifyFails, Rewriting, Stuck
<1>2. CASE Fill(p) BY <1>2, <1>t DEF Fill, AfterClear, Rewriting, Stuck
<1>3. CASE Program(p)
  <2>1. flash'[req[p].reg] = Edited(req[p], buf[p])
    BY <1>3, <1>t DEF Program, Rewritten, Written
  <2>2. latest'[req[p].reg] = Edited(req[p], buf[p])
    BY <1>3, <1>t DEF Program, Rewritten, Written
  <2> QED BY <2>1, <2>2, <1>3, <1>t DEF Program, Rewritten, Written, Rewriting, Stuck
<1> QED BY <1>1, <1>2, <1>3 DEF IoStep, Run, Rewriting, Stuck, Call, Down, DownInterrupted,
        TakeFlag, Conflict, GetSharedBlks, NoMemory, Up, Woken

\* A process starts to rewrite a region with a fresh copy of it.
LEMMA RewriteBegins ==
    ASSUME TypeOK, NEW p \in Proc, IoStep(p) \/ \E c \in Request : Call(p, c),
           ~Rewriting(p), Rewriting(p)'
    PROVE  /\ pc[p] = "blks" /\ req' = req /\ buf'[p] = flash[req[p].reg]
           /\ pc'[p] \in {"wipe", "erase"} /\ flash' = flash /\ latest' = latest
           /\ req[p].kind # "read"
<1>t. pc \in [Proc -> Pc] /\ buf \in [Proc -> Content] BY DEF TypeOK, Pc
<1> USE DEF Goto, Rewriting, Stuck
<1>1. CASE \E c \in Request : Call(p, c) BY <1>1, <1>t DEF Call
<1>2. CASE Down(p) \/ DownInterrupted(p) BY <1>2, <1>t DEF Down, DownInterrupted, Enter
<1>3. CASE TakeFlag(p) \/ Conflict(p) BY <1>3, <1>t DEF TakeFlag, Conflict, Leave
<1>4. CASE GetSharedBlks(p) BY <1>4, <1>t DEF GetSharedBlks
<1>5. CASE NoMemory(p) BY <1>5, <1>t DEF NoMemory
<1>6. CASE Up(p) BY <1>6, <1>t DEF Up, Leave
<1>7. CASE Wipe(p) \/ Erase(p) BY <1>7 DEF Wipe, Erase
<1>8. CASE Fill(p) \/ VerifyFails(p) BY <1>8 DEF Fill, AfterClear, VerifyFails
<1>9. CASE Program(p) \/ Woken(p) BY <1>9 DEF Program, Rewritten, Written, Woken
<1> QED BY <1>1, <1>2, <1>3, <1>4, <1>5, <1>6, <1>7, <1>8, <1>9 DEF IoStep, Run

\* The read-modify-write of a guarded region keeps every write programmed before it.
LEMMA DataStep ==
    TypeOK /\ ControlInv /\ LockExclusive /\ MeddleInv /\ DataInv /\ [Next]_vars => DataInv'
<1> SUFFICES ASSUME TypeOK, ControlInv, LockExclusive, MeddleInv, DataInv, [Next]_vars, ~Restore
             PROVE  DataInv'
  BY DEF DataInv
<1>d. /\ \A r \in Region : Guard(r) =>
          flash[r] = latest[r] \/ \E x \in Proc : req[x].reg = r /\ Rewriting(x)
      /\ \A x \in Proc : Rewriting(x) /\ Guard(req[x].reg) => buf[x] = latest[req[x].reg]
  BY DEF DataInv
<1>r. \A x \in Proc : req[x].reg \in Region BY RequestFacts DEF TypeOK
<1>g. \A r : Guard(r)' => Guard(r) /\ ~Signals BY GuardKept DEF Guard
<1>1. ASSUME NEW p \in Proc, IoStep(p) \/ \E c \in Request : Call(p, c) PROVE DataInv'
  <2>o. \A q \in Proc : q # p => /\ pc'[q] = pc[q] /\ req'[q] = req[q] /\ buf'[q] = buf[q]
                                 /\ Rewriting(q)' <=> Rewriting(q)
    BY <1>1, IoFrame DEF Rewriting, Stuck
  <2>f. \A r \in Region : ~Rewriting(p) \/ r # req[p].reg =>
            flash'[r] = flash[r] /\ latest'[r] = latest[r]
    BY <1>1, FlashFrame
  <2>h. \A q \in Proc : Holds(p) /\ Holds(q) /\ req[p].reg = req[q].reg => q = p BY OneHolder
  <2>1. ASSUME NEW r \in Region, Guard(r)'
        PROVE  flash'[r] = latest'[r] \/ \E x \in Proc : req'[x].reg = r /\ Rewriting(x)'
    <3>g. Guard(r) /\ ~Signals BY <2>1, <1>g
    <3>1. CASE \E q \in Proc : q # p /\ req[q].reg = r /\ Rewriting(q) BY <3>1, <2>o
    <3>2. CASE Rewriting(p) /\ req[p].reg = r
      <4>1. buf[p] = latest[r] BY <3>2, <3>g, <1>d
      <4>2. req' = req /\ (Rewriting(p)' \/ flash'[r] = latest'[r])
        BY <4>1, <3>2, <3>g, <1>1, RewriteStep
      <4> QED BY <4>2, <3>2
    <3>3. CASE /\ ~\E q \in Proc : q # p /\ req[q].reg = r /\ Rewriting(q)
               /\ ~(Rewriting(p) /\ req[p].reg = r)
      <4>1. flash[r] = latest[r] BY <3>3, <3>g, <1>d
      <4> QED BY <4>1, <3>3, <2>f
    <3> QED BY <3>1, <3>2, <3>3
  <2>2. ASSUME NEW x \in Proc, Rewriting(x)', Guard(req[x].reg), ~Signals, req'[x] = req[x]
        PROVE  buf'[x] = latest'[req'[x].reg]
    <3>g. Guard(req[x].reg) /\ ~Signals BY <2>2
    <3>1. CASE x # p
      <4>1. Rewriting(x) BY <3>1, <2>2, <2>o
      <4>2. Holds(x) BY <4>1, <3>g, RewriterHolds
      <4>3. ~Rewriting(p) \/ req[x].reg # req[p].reg
        <5>1. SUFFICES ASSUME Rewriting(p), req[x].reg = req[p].reg PROVE FALSE
          OBVIOUS
        <5>2. Holds(p) BY <5>1, <3>g, RewriterHolds
        <5> QED BY <5>1, <5>2, <4>2, <2>h, <3>1
      <4>4. latest'[req[x].reg] = latest[req[x].reg] BY <4>3, <2>f, <1>r
      <4> QED BY <4>1, <4>4, <3>1, <3>g, <2>2, <2>o, <1>d
    <3>2. CASE x = p /\ Rewriting(p)
      <4>2. buf[p] = latest[req[p].reg] BY <3>2, <3>g, <1>d
      <4>3. buf' = buf /\ latest' = latest BY <4>2, <3>2, <3>g, <2>2, <1>1, RewriteStep
      <4> QED BY <4>2, <4>3, <3>2, <2>2
    <3>3. CASE x = p /\ ~Rewriting(p)
      <4>1. /\ pc[p] = "blks" /\ buf'[p] = flash[req[p].reg] /\ latest' = latest
        BY <3>3, <2>2, <1>1, RewriteBegins
      <4>2. Holds(p) BY <4>1, <3>3, <3>g DEF Holds, Busy
      <4>3. \A q \in Proc : req[q].reg = req[p].reg /\ Rewriting(q) => FALSE
        <5>1. SUFFICES ASSUME NEW q \in Proc, req[q].reg = req[p].reg, Rewriting(q) PROVE FALSE
          OBVIOUS
        <5>2. Holds(q) BY <5>1, <4>2, RewriterHolds DEF Holds
        <5> QED BY <5>1, <5>2, <4>2, <2>h, <3>3
      <4>4. flash[req[p].reg] = latest[req[p].reg]
        BY <4>2, <4>3, <1>d, <1>r DEF Holds
      <4> QED BY <4>1, <4>4, <3>3, <2>2
    <3> QED BY <3>1, <3>2, <3>3
  <2>3. ASSUME NEW x \in Proc, Rewriting(x)' PROVE req'[x] = req[x]
    <3>1. CASE x # p BY <3>1, <2>o
    <3>2. CASE x = p /\ Rewriting(p)
      BY <3>2, <1>1 DEF Rewriting, Stuck, IoStep, Run, Call, Down, DownInterrupted, TakeFlag,
         Conflict, GetSharedBlks, NoMemory, Wipe, Fill, AfterClear, VerifyFails, Erase, Program,
         Rewritten, Written, Woken, Up
    <3>3. CASE x = p /\ ~Rewriting(p) BY <3>3, <2>3, <1>1, RewriteBegins
    <3> QED BY <3>1, <3>2, <3>3
  <2>4. \A x \in Proc : (Rewriting(x) /\ Guard(req[x].reg))' => buf'[x] = latest'[req'[x].reg]
    <3> SUFFICES ASSUME NEW x \in Proc, (Rewriting(x) /\ Guard(req[x].reg))'
                 PROVE  buf'[x] = latest'[req'[x].reg]
      OBVIOUS
    <3>1. req'[x] = req[x] BY <2>3
    <3>2. Guard(req[x].reg) /\ ~Signals BY <3>1, <1>g
    <3> QED BY <3>1, <3>2, <2>2
  <2> QED BY <2>1, <2>4 DEF DataInv
<1>2. ASSUME UNCHANGED <<flash, latest, pc, req, buf, meddled>> PROVE DataInv'
  <2>1. \A x \in Proc : Rewriting(x)' <=> Rewriting(x) BY <1>2 DEF Rewriting, Stuck
  <2> QED BY <2>1, <1>2, <1>d DEF DataInv, Guard
<1>3. ASSUME NEW down \in BOOLEAN, Poll(down) PROVE DataInv' BY <1>3 DEF Poll
<1>4. CASE WorkStep
  BY <1>4 DEF ControlInv, WorkStep, WorkRun, WorkBlks, WorkErase, WorkProgram, WorkFails,
     WorkVerifyFails, WorkWoken
<1>5. CASE UNCHANGED vars BY <1>2, <1>5 DEF vars, ioVars, histVars
<1> QED BY <1>1, <1>3, <1>4, <1>5 DEF Next

\* All the invariants of the module together.
BoardInv == TypeOK /\ ControlInv /\ LockInv /\ FlagInv /\ MeddleInv /\ DataInv

\* The board boots into BoardInv and no ioctl, poll or restore work leaves it.
LEMMA BoardInvAlways == Spec => []BoardInv
<1>1. Init => BoardInv
  <2> SUFFICES ASSUME Init PROVE BoardInv
    OBVIOUS
  <2>1. sem = 1 /\ flash = latest /\ \A p \in Proc : ~Busy(p) /\ ~InLock(p) /\ ~Rewriting(p)
    BY DEF Init, InLock, Busy, Rewriting, Stuck
  <2>2. LockInv BY <2>1 DEF LockInv, LockExclusive
  <2>3. DataInv /\ MeddleInv BY <2>1 DEF DataInv, MeddleInv
  <2> QED BY <2>2, <2>3, TypeInit, ControlFlagInit DEF BoardInv
<1>2. BoardInv /\ [Next]_vars => BoardInv'
  BY TypeStep, ControlStep, LockStep, FlagStep, MeddleStep, DataStep DEF BoardInv, LockInv, FlagInv
<1> QED BY <1>1, <1>2, PTL DEF Spec

\* Without signals and without the restore button no completed write of a region is
\* undone or garbled by a concurrent read-modify-write; in avail, as long as no
\* DEL_EXTENDMACADDR met another ioctl there.
THEOREM UpdatesSafe == Spec => []NoLostUpdate
<1>1. BoardInv => NoLostUpdate BY DEF BoardInv, DataInv, NoLostUpdate, Guard
<1> QED BY <1>1, BoardInvAlways, PTL

\* A reader alone in a region copies it as last written.
LEMMA ReadStep == BoardInv /\ ReadsLatest /\ [Next]_vars => ReadsLatest'
<1> SUFFICES ASSUME BoardInv, ReadsLatest, [Next]_vars, ~Signals, ~Restore,
                    NEW x \in Proc, pc'[x] = "up", req'[x].kind = "read",
                    ~(req'[x].reg = "avail" /\ meddled')
             PROVE  buf'[x] = latest'[req'[x].reg]
  BY DEF ReadsLatest
<1>i. TypeOK /\ ControlInv /\ LockExclusive /\ MeddleInv /\ DataInv BY DEF BoardInv, LockInv
<1>t. /\ pc \in [Proc -> Pc] /\ buf \in [Proc -> Content] /\ req[x].reg \in Region
  BY <1>i, RequestFacts DEF TypeOK, Pc
<1>g. Guard(req'[x].reg) BY <1>i, GuardKept DEF Guard
<1>1. ASSUME NEW p \in Proc, IoStep(p) \/ \E c \in Request : Call(p, c)
      PROVE  buf'[x] = latest'[req'[x].reg]
  <2>1. CASE x # p
    <3>1. pc[x] = "up" /\ req'[x] = req[x] /\ buf'[x] = buf[x] BY <2>1, <1>1, <1>i, IoFrame
    <3>2. Holds(x) BY <3>1, <1>g DEF Holds, Busy
    <3>3. ~Rewriting(p) \/ req[x].reg # req[p].reg
      <4>1. SUFFICES ASSUME Rewriting(p), req[x].reg = req[p].reg PROVE FALSE
        OBVIOUS
      <4>2. Holds(p) BY <4>1, <3>1, <1>g, RewriterHolds
      <4> QED BY <4>1, <4>2, <3>2, <2>1, <1>i, OneHolder
    <3>4. latest'[req[x].reg] = latest[req[x].reg] BY <3>3, <1>1, <1>i, <1>t, FlashFrame
    <3> QED BY <3>1, <3>4, <1>g DEF ReadsLatest, Guard
  <2>2. CASE x = p
    <3>1. pc[p] \in {"blks", "fill", "program"} /\ req' = req
      BY <2>2, <1>1, <1>t DEF IoStep, Run, Call, Down, DownInterrupted, Enter, TakeFlag,
         Conflict, Leave, GetSharedBlks, NoMemory, Wipe, Fill, AfterClear, VerifyFails, Erase,
         Program, Rewritten, Written, Woken, Up, Goto
    <3>2. pc[p] = "blks" BY <3>1, <2>2, <1>i DEF ControlInv, Rewriting, Stuck
    <3>3. GetSharedBlks(p)
      BY <3>2, <2>2, <1>1, <1>t DEF IoStep, Run, Call, Down, DownInterrupted, TakeFlag, Conflict,
         NoMemory, Goto, Wipe, Fill, VerifyFails, Erase, Program, Woken, Up
    <3>4. Holds(p) BY <3>1, <3>2, <2>2, <1>g DEF Holds, Busy
    <3>5. \A q \in Proc : ~(req[q].reg = req[p].reg /\ Rewriting(q))
      <4> SUFFICES ASSUME NEW q \in Proc, req[q].reg = req[p].reg, Rewriting(q) PROVE FALSE
        OBVIOUS
      <4>1. Holds(q) BY <3>4, RewriterHolds DEF Holds
      <4>2. q = p BY <4>1, <3>4, <1>i, OneHolder
      <4> QED BY <4>2, <3>2 DEF Rewriting, Stuck
    <3>6. flash[req[p].reg] = latest[req[p].reg]
      BY <3>5, <3>4, <2>2, <1>i, <1>t DEF DataInv, Holds
    <3>7. buf'[p] = flash[req[p].reg] /\ latest' = latest BY <3>3, <1>t DEF GetSharedBlks
    <3> QED BY <3>6, <3>7, <3>1, <2>2
  <2> QED BY <2>1, <2>2
<1>3. ASSUME NEW down \in BOOLEAN, Poll(down) PROVE FALSE BY <1>3 DEF Poll
<1>4. CASE WorkStep
  BY <1>4, <1>i DEF ControlInv, WorkStep, WorkRun, WorkBlks, WorkErase, WorkProgram, WorkFails,
     WorkVerifyFails, WorkWoken
<1>5. CASE UNCHANGED vars BY <1>5, <1>g DEF vars, ioVars, ReadsLatest, Guard
<1> QED BY <1>1, <1>3, <1>4, <1>5 DEF Next

\* Without signals and without the restore button FLASH_READ never returns a region
\* in the middle of a rewrite; of avail, as long as no DEL_EXTENDMACADDR met another
\* ioctl there.
THEOREM ReadsSafe == Spec => []ReadsLatest
<1>1. Init => ReadsLatest BY DEF Init, ReadsLatest
<1> QED BY <1>1, BoardInvAlways, ReadStep, PTL DEF Spec

-----------------------------------------------------------------------------
(* The restore work *)

\* The places of the regions that the work clears in Script.
LEMMA ScriptFacts ==
    /\ Len(Script) = 7 /\ \A n \in 1..7 : Script[n] \in Region
    /\ \A n \in 1..7 : Script[n] = "psi" <=> n = 2
    /\ \A n \in 1..7 : Script[n] = "backup" <=> n = 3
    /\ \A n \in 1..7 : Script[n] = "sp" <=> n = 4
<1>1. \A n \in 1..7 : n \in {1, 2, 3, 4, 5, 6, 7} OBVIOUS
<1>2. /\ Script[1] = "avail" /\ Script[2] = "psi" /\ Script[3] = "backup" /\ Script[4] = "sp"
      /\ Script[5] = "avail" /\ Script[6] = "va" /\ Script[7] = "avail"
  BY DEF Script
<1>3. Len(Script) = 7 BY DEF Script
<1> QED BY <1>1, <1>2, <1>3 DEF Region

\* As long as no ioctl came across the work and none of its calls failed, nobody is in
\* the lock and the regions the work has been through are cleared.
Cleared ==
    /\ wpos > 2 => flash["psi"] = All(Blank)
    /\ wpos > 3 => flash["backup"] = All(Blank)
    /\ wpos > 4 => flash["sp"] = All(Blank)

WorkInv ==
    Working /\ ~crossed => (\A p \in Proc : ~Busy(p)) /\ (~failed => Cleared)

\* A call of the work that does not fail clears its region and touches no other.
LEMMA WorkClears ==
    ASSUME TypeOK, WorkStep, ~failed', Cleared
    PROVE  Cleared' /\ (wpc' = "done" => wpos = 7)
<1>t. wpos \in 1..7 /\ flash \in [Region -> Content] BY ScriptFacts DEF TypeOK
<1>r. {"psi", "backup", "sp"} \subseteq Region BY DEF Region
<1> DEFINE r == Script[wpos]
<1>1. /\ r \in Region /\ (r = "psi" <=> wpos = 2) /\ (r = "backup" <=> wpos = 3)
      /\ (r = "sp" <=> wpos = 4)
  BY <1>t, ScriptFacts
<1>2. CASE WorkBlks BY <1>2 DEF WorkBlks, Cleared
<1>3. CASE WorkErase
  <2>1. wpos' = wpos /\ wpc' # "done" BY <1>3 DEF WorkErase
  <2>2. \A x \in Region : x # r => flash'[x] = flash[x] BY <1>3, <1>t DEF WorkErase
  <2> QED BY <2>1, <2>2, <1>1, <1>r, <1>t DEF Cleared
<1>4. ASSUME WorkWritten PROVE Cleared' /\ (wpc' = "done" => wpos = 7)
  <2>1. /\ wpos' = IF wpos < 7 THEN wpos + 1 ELSE wpos
        /\ wpc' = "done" => wpos = 7
    BY <1>4, <1>t, ScriptFacts DEF WorkWritten, WorkNext
  <2>2. \A x \in Region : x # r => flash'[x] = flash[x] BY <1>4, <1>t DEF WorkWritten
  <2>3. r \in {"psi", "backup", "sp"} => flash'[r] = All(Blank)
    BY <1>4, <1>1, <1>t DEF WorkWritten, WorkEdit, Clears
  <2> QED BY <2>1, <2>2, <2>3, <1>1, <1>r, <1>t DEF Cleared
<1>5. CASE WorkVerifyFails
  <2>1. wpos' = wpos /\ wpc' # "done" BY <1>5 DEF WorkVerifyFails
  <2>2. \A x \in Region : x # r => flash'[x] = flash[x] BY <1>5, <1>t DEF WorkVerifyFails
  <2> QED BY <2>1, <2>2, <1>1, <1>r, <1>t DEF Cleared
<1>6. ~WorkFails /\ ~WorkGivesUp BY DEF WorkFails, WorkGivesUp
<1> QED BY <1>2, <1>3, <1>4, <1>5, <1>6 DEF WorkStep, WorkRun, WorkProgram, WorkWoken

\* The work is alone until an ioctl comes across it.
LEMMA WorkStepKept == TypeOK /\ ControlInv /\ WorkInv /\ [Next]_vars => WorkInv'
<1> SUFFICES ASSUME TypeOK, ControlInv, WorkInv, [Next]_vars PROVE WorkInv'
  OBVIOUS
<1>1. ASSUME NEW p \in Proc, IoStep(p) \/ \E c \in Request : Call(p, c) PROVE WorkInv'
  <2> SUFFICES ASSUME Working', ~crossed'
               PROVE  (\A q \in Proc : ~Busy(q)') /\ (~failed' => Cleared')
    BY DEF WorkInv
  <2>a. UNCHANGED <<workVars, failed>>
    BY <1>1 DEF IoStep, Run, Call, Down, DownInterrupted, Enter, TakeFlag, Conflict, GetSharedBlks,
       NoMemory, Wipe, Fill, AfterClear, VerifyFails, Erase, Program, Rewritten, Written, Woken,
       Up, histVars, workVars
  <2>b. Working BY <2>a DEF Working, workVars
  <2>c. ~Enter(p) /\ \A c \in Request : Call(p, c) => c.kind # "delmac"
    BY <2>b DEF Enter, Call
  <2>d. crossed' = crossed
    <3>1. CASE \E c \in Request : Call(p, c)
      <4>1. PICK c \in Request : Call(p, c) BY <3>1
      <4>2. crossed' = (crossed \/ FALSE) BY <4>1, <2>c DEF Call
      <4>3. crossed \in BOOLEAN BY DEF TypeOK
      <4> QED BY <4>2, <4>3
    <3>2. CASE IoStep(p)
      BY <3>2, <2>c DEF IoStep, Run, Down, DownInterrupted, TakeFlag, Conflict, GetSharedBlks,
         NoMemory, Wipe, Fill, AfterClear, VerifyFails, Erase, Program, Rewritten, Written,
         Woken, Up, histVars
    <3> QED BY <3>1, <3>2, <1>1
  <2>1. UNCHANGED <<workVars, failed, crossed>> /\ ~Enter(p)
        /\ \A c \in Request : Call(p, c) => c.kind # "delmac"
    BY <2>a, <2>c, <2>d
  <2>2. Working /\ ~crossed BY <2>1 DEF Working, workVars
  <2>3. ~Busy(p) /\ \A q \in Proc : ~Busy(q) BY <2>2 DEF WorkInv
  <2>4. ~Busy(p)'
    <3>1. \E c \in Request : Call(p, c) /\ c.kind # "delmac"
      BY <1>1, <2>1, <2>3 DEF IoStep, Run, Busy, Down, DownInterrupted, TakeFlag, Conflict,
         GetSharedBlks, NoMemory, Wipe, Fill, AfterClear, VerifyFails, Erase, Program,
         Rewritten, Written, Woken, Up
    <3> QED BY <3>1 DEF Call, Goto, Busy, TypeOK
  <2>5. \A q \in Proc : ~Busy(q)' BY <2>3, <2>4, <1>1, IoFrame DEF Busy
  <2>6. \A r \in Region : flash'[r] = flash[r]
    BY <1>1, <2>3, FlashFrame DEF Busy, Rewriting, Stuck
  <2> QED BY <2>1, <2>2, <2>5, <2>6 DEF WorkInv, Cleared, workVars, Region
<1>2. ASSUME NEW down \in BOOLEAN, Poll(down) PROVE WorkInv'
  <2>1. wpos' = 1 /\ ~Working /\ pc' = pc BY <1>2 DEF Poll, ControlInv, Working, ioVars
  <2>2. Cleared' BY <2>1 DEF Cleared
  <2>3. Working' => crossed' = \E p \in Proc : Busy(p) BY <1>2 DEF Poll, Working
  <2> QED BY <2>1, <2>2, <2>3 DEF WorkInv, Busy
<1>3. CASE WorkStep
  <2>1. pc' = pc /\ crossed' = crossed /\ Working /\ (~failed' => ~failed)
    BY <1>3 DEF WorkStep, WorkRun, WorkBlks, WorkErase, WorkProgram, WorkWritten, WorkFails,
     WorkVerifyFails, WorkWoken, WorkGivesUp, ioVars, histVars, Working
  <2> QED BY <2>1, <1>3, WorkClears DEF WorkInv, Busy
<1>4. CASE UNCHANGED vars
  BY <1>4 DEF vars, ioVars, workVars, histVars, WorkInv, Working, Busy, Cleared
<1> QED BY <1>1, <1>2, <1>3, <1>4 DEF Next

\* The work that ends, neither crossed nor failed, leaves the PSI, its backup and the
\* scratch pad cleared.
THEOREM RestoreComplete == Spec => RestoreAloneComplete
<1> DEFINE Ends == wpc # "done" /\ wpc' = "done" /\ ~crossed' /\ ~failed' =>
                      \A r \in {"psi", "backup", "sp"} : flash'[r] = All(Blank)
<1>1. BoardInv /\ WorkInv /\ [Next]_vars => [Ends]_vars
  <2> SUFFICES ASSUME BoardInv, WorkInv, Next, wpc # "done", wpc' = "done", ~crossed', ~failed'
               PROVE  \A r \in {"psi", "backup", "sp"} : flash'[r] = All(Blank)
    BY DEF vars, workVars
  <2>1. WorkStep
    <3>1. ASSUME NEW p \in Proc, IoStep(p) \/ \E c \in Request : Call(p, c) PROVE wpc' = wpc
      BY <3>1 DEF IoStep, Run, Call, Down, DownInterrupted, Enter, TakeFlag, Conflict,
         GetSharedBlks, NoMemory, Wipe, Fill, AfterClear, VerifyFails, Erase, Program,
         Rewritten, Written, Woken, Up, workVars
    <3> QED BY <3>1 DEF Next, Poll
  <2>2. Working /\ ~crossed /\ ~failed
    BY <2>1 DEF WorkStep, WorkRun, WorkBlks, WorkErase, WorkProgram, WorkWritten, WorkFails,
     WorkVerifyFails, WorkWoken, WorkGivesUp, Working, histVars
  <2>3. Cleared' /\ wpos = 7 BY <2>1, <2>2, WorkClears DEF BoardInv, WorkInv
  <2>4. wpos' = wpos
    BY <2>1, <2>3, ScriptFacts
       DEF WorkStep, WorkRun, WorkBlks, WorkErase, WorkProgram, WorkWritten, WorkFails,
     WorkVerifyFails, WorkWoken, WorkGivesUp, WorkNext
  <2> QED BY <2>3, <2>4 DEF Cleared
<1>2. Init => WorkInv BY DEF Init, WorkInv, Working
<1>3. BoardInv => TypeOK /\ ControlInv BY DEF BoardInv
<1> QED BY <1>1, <1>2, <1>3, WorkStepKept, BoardInvAlways, PTL DEF Spec, RestoreAloneComplete
=============================================================================
