--------------------------- MODULE PsiStoreProofs ---------------------------
(***************************************************************************)
(* Proofs about PsiStore for any number of sectors, any texts and any      *)
(* number of faults and power cuts.                                        *)
(***************************************************************************)
EXTENDS PsiStore, TLAPS

\* Facts about the kinds of cells: a piece of a text is neither nothing, nor fill,
\* nor the end of a text.
LEMMA CellFacts ==
    /\ Version \subseteq Piece /\ Piece \subseteq Cell
    /\ Erased \in Cell /\ Zero \in Cell /\ Partial \in Piece /\ 0 \in Version
    /\ Rest \notin Cell /\ Zero \notin Piece /\ Erased \notin Piece
BY BoundAssumption DEF Cell, Piece, Version, Erased, Zero, Partial, Rest

\* A complete text is a text, and valid: it ends where its length says.
LEMMA TextOfValid ==
    ASSUME NEW v \in Piece
    PROVE  TextOf(v) \in [Sector -> Piece \cup {Rest}] /\ Valid(TextOf(v))
<1>1. Length[v] \in Sector /\ Sector \subseteq Nat \ {0}
  BY LengthAssumption, SectorAssumption DEF Sector
<1>2. \A s \in 1..Length[v] : s \in Sector /\ TextOf(v)[s] = v
  BY <1>1, SectorAssumption DEF TextOf, Sector
<1>3. EndsAt(TextOf(v), Length[v])
  <2>0. ASSUME NEW n \in Nat \ {0}
        PROVE  n \in 1..n /\ \A s \in 1..(n - 1) : s \in 1..n /\ n # s
    OBVIOUS
  <2>1. Length[v] \in 1..Length[v] BY <1>1, <2>0
  <2>2. \A s \in 1..(Length[v] - 1) : s \in 1..Length[v] /\ Length[v] # s BY <1>1, <2>0
  <2>3. \A s1, s2 \in 1..Length[v] : Aligned(TextOf(v)[s1], TextOf(v)[s2])
    BY <1>2 DEF Aligned
  <2> QED BY <1>2, <2>1, <2>2, <2>3 DEF EndsAt
<1> QED BY <1>1, <1>3 DEF Valid, TextOf

\* strstr finds one first </psitree>.
LEMMA EndsOnce ==
    ASSUME NEW t, NEW d \in Sector, NEW e \in Sector, EndsAt(t, d), EndsAt(t, e)
    PROVE  d = e
<1>1. d \in Nat /\ e \in Nat /\ d >= 1 /\ e >= 1 BY SectorAssumption DEF Sector
<1>2. CASE d < e BY <1>1, <1>2 DEF EndsAt
<1>3. CASE e < d BY <1>1, <1>3 DEF EndsAt
<1> QED BY <1>1, <1>2, <1>3

\* A region that begins with a valid text is valid, and is read as that text.
Holds(c, t) == \A s \in Sector : t[s] # Rest => c[s] = t[s]

LEMMA HoldsValid ==
    ASSUME NEW c, NEW t, Holds(c, t), Valid(t)
    PROVE  Valid(c) /\ Document(c) = Document(t)
<1>1. PICK e \in Sector : EndsAt(t, e) BY DEF Valid
<1>2. e \in Nat /\ e >= 1 /\ \A s \in 1..e : s \in Sector BY SectorAssumption DEF Sector
<1>3. \A s \in 1..e : t[s] \in Piece BY <1>1 DEF EndsAt
<1>4. \A s \in 1..e : c[s] = t[s]
  BY <1>2, <1>3, CellFacts DEF Holds
<1>5. EndsAt(c, e)
  <2>1. \A s \in 1..(e - 1) : s \in 1..e BY <1>2
  <2>2. e \in 1..e BY <1>2
  <2> QED BY <1>1, <1>4, <2>1, <2>2 DEF EndsAt
<1>6. (CHOOSE x \in Sector : EndsAt(t, x)) = e BY <1>1, EndsOnce
<1>7. (CHOOSE x \in Sector : EndsAt(c, x)) = e BY <1>5, EndsOnce
<1>8. \A s \in Sector : s <= e => s \in 1..e BY <1>2 DEF Sector
<1>9. Document(c) = Document(t) BY <1>4, <1>6, <1>7, <1>8 DEF Document
<1> QED BY <1>5, <1>9 DEF Valid

\* What is parsed of a valid region is a valid text.
LEMMA DocumentValid ==
    ASSUME NEW t, Valid(t)
    PROVE  Document(t) \in [Sector -> Piece \cup {Rest}] /\ Valid(Document(t))
<1>1. PICK e \in Sector : EndsAt(t, e) BY DEF Valid
<1>2. e \in Nat /\ e >= 1 /\ \A s \in 1..e : s \in Sector BY SectorAssumption DEF Sector
<1>3. (CHOOSE x \in Sector : EndsAt(t, x)) = e BY <1>1, EndsOnce
<1>4. Document(t) = [s \in Sector |-> IF s <= e THEN t[s] ELSE Rest] BY <1>3 DEF Document
<1>5. \A s \in 1..e : Document(t)[s] = t[s] BY <1>2, <1>4
<1>6. \A s \in Sector : s <= e => s \in 1..e BY <1>2 DEF Sector
<1>7. \A s \in 1..(e - 1) : s \in 1..e BY <1>2
<1>8. e \in 1..e BY <1>2
<1>9. EndsAt(Document(t), e) BY <1>1, <1>5, <1>7, <1>8 DEF EndsAt
<1>10. \A s \in 1..e : t[s] \in Piece BY <1>1 DEF EndsAt
<1> QED BY <1>4, <1>6, <1>9, <1>10 DEF Valid

\* The store leaves the factory in a well-typed state.
LEMMA TypeInit == Init => TypeOK
<1> USE SectorAssumption, BoundAssumption
<1> SUFFICES ASSUME Init PROVE TypeOK
  OBVIOUS
<1> USE DEF Init
<1>0. TextOf(0) \in Text /\ EmptyTree \in Copy /\ EmptyTree \in Text
  BY TextOfValid, CellFacts DEF Text, Copy, EmptyTree, Uniform
<1>1. flash \in [Region -> Copy]
  BY <1>0, CellFacts DEF Copy, Text, Over, Uniform
<1>2. tree \in [Sector -> Piece \cup {Erased, Rest}] BY DEF EmptyTree, Uniform
<1>3. wiped \in BOOLEAN /\ stuck \in BOOLEAN /\ spad \in BOOLEAN /\ erasing \in BOOLEAN OBVIOUS
<1>4. recent \in SUBSET Text BY <1>0
<1>5. buf \in Text /\ image \in Copy BY <1>0
<1>6. pc \in {"off", "verifyPsi", "verifyBackup", "default", "write", "retrieve", "run"}
  OBVIOUS
<1>7. op \in {"none", "store", "stream", "erase", "default", "repair"} OBVIOUS
<1>8. reg \in Region /\ sect \in 0..(NSector + 1) /\ sts \in {"ok", "err"} BY DEF Region
<1>9. clock \in Version /\ cuts \in 0..MaxCut /\ faults \in 0..MaxFault BY DEF Version
<1> QED BY <1>1, <1>2, <1>3, <1>4, <1>5, <1>6, <1>7, <1>8, <1>9 DEF TypeOK

\* A writer that sleeps is in the middle of a sector, and so is one that has erased it.
StuckInv ==
    /\ stuck => pc = "write" /\ wiped
    /\ wiped => sect \in Sector

\* A sector is left only written, or with the region.
LEMMA StuckStep == TypeOK /\ StuckInv /\ [Next]_vars => StuckInv'
<1> SUFFICES ASSUME TypeOK, StuckInv, [Next]_vars PROVE StuckInv'
  OBVIOUS
<1> USE DEF StuckInv
<1>1. CASE AllocBuf
  <2>1. ~wiped BY <1>1, SectorAssumption DEF AllocBuf, Sector
  <2> QED BY <1>1, <2>1 DEF AllocBuf
<1>2. CASE EraseSector BY <1>2 DEF EraseSector
<1>3. CASE WriteSector BY <1>3 DEF WriteSector
<1>4. CASE EndRegion
  <2>1. ~wiped BY <1>4, SectorAssumption DEF EndRegion, Sector
  <2> QED BY <1>4, <2>1 DEF EndRegion
<1>5. CASE NoMemory
  <2>1. ~wiped BY <1>5, SectorAssumption DEF NoMemory, Sector
  <2> QED BY <1>5, <2>1 DEF NoMemory
<1>6. CASE VerifyFails BY <1>6 DEF VerifyFails
<1>7. CASE Signal BY <1>7 DEF Signal, WriteFails
<1>8. CASE BootStep
  <2>1. ~stuck BY <1>8 DEF BootStep, PowerOn, VerifyPsi, VerifyBackup, LoadDefault, Retrieve
  <2> QED BY <1>8, <2>1
    DEF BootStep, PowerOn, VerifyPsi, VerifyBackup, LoadDefault, Retrieve, jobVars, BeginWrite
<1>9. CASE ApiCall \/ ReadFails \/ PowerCut
  <2>1. ~stuck \/ PowerCut
    BY <1>9 DEF ApiCall, Update, ProfileStore, WriteStream, ProfileErase, ProfileRetrieve, ReadFails
  <2> QED BY <1>9, <2>1
    DEF ApiCall, Update, ProfileStore, WriteStream, ProfileErase, ProfileRetrieve, ReadFails,
        PowerCut, jobVars, BeginWrite
<1>10. CASE UNCHANGED vars BY <1>10 DEF vars, jobVars
<1> QED
  BY <1>1, <1>2, <1>3, <1>4, <1>5, <1>6, <1>7, <1>8, <1>9, <1>10 DEF Next, WriteStep

\* No step of init(), of a write or of an API call, and no failure of one,
\* leaves the types.
LEMMA TypeStep == TypeOK /\ StuckInv /\ [Next]_vars => TypeOK'
<1> USE SectorAssumption, BoundAssumption
<1> SUFFICES ASSUME TypeOK, StuckInv, [Next]_vars PROVE TypeOK'
  OBVIOUS
<1> USE DEF TypeOK
<1> DEFINE TreeText == [Sector -> Piece \cup {Erased, Rest}]
<1>t. /\ \A v \in Cell : Uniform(v) \in Copy
      /\ Copy \subseteq Text /\ TreeText \subseteq Text /\ EmptyTree \in TreeText /\ EmptyTree \in Copy
      /\ \A v \in Piece : TextOf(v) \in TreeText
      /\ Erased \in Cell /\ Zero \in Cell /\ Partial \in Piece
      /\ Version \subseteq Piece /\ 0 \in Version
  <2>1. \A v \in Cell : Uniform(v) \in Copy BY DEF Copy, Uniform
  <2>2. Copy \subseteq Text /\ TreeText \subseteq Text BY CellFacts DEF Copy, Text
  <2>3. EmptyTree \in TreeText /\ EmptyTree \in Copy BY <2>1, CellFacts DEF EmptyTree, Uniform
  <2>4. \A v \in Piece : TextOf(v) \in TreeText BY TextOfValid
  <2> QED BY <2>1, <2>2, <2>3, <2>4, CellFacts
<1>w. ASSUME pc = "write", Advance("err") \/ Advance(sts)
      PROVE /\ pc' \in {"write", "retrieve", "run"} /\ op' \in {"none", op}
            /\ buf' \in Text /\ reg' \in Region /\ sts' \in {"ok", "err"}
            /\ recent' \in SUBSET Text /\ erasing' \in BOOLEAN
  <2>1. buf' \in Text BY <1>w, <1>t DEF Advance, Return
  <2>2. recent' \in SUBSET Text BY <1>w, <1>t DEF Advance, Return
  <2>3. erasing' \in BOOLEAN BY <1>w DEF Advance, Return
  <2>4. pc' \in {"write", "retrieve", "run"} /\ op' \in {"none", op}
    BY <1>w DEF Advance, Return
  <2>5. reg' \in Region /\ sts' \in {"ok", "err"}
    BY <1>w DEF Advance, Return, Region
  <2> QED BY <2>1, <2>2, <2>3, <2>4, <2>5
<1>b. ASSUME NEW o \in {"store", "stream", "erase", "default", "repair"},
             NEW t \in Text, BeginWrite(o, t)
      PROVE /\ pc' = "write" /\ op' = o /\ buf' \in Text /\ image' \in Copy /\ reg' \in Region
            /\ sect' \in 0..(NSector + 1) /\ wiped' \in BOOLEAN /\ stuck' \in BOOLEAN
            /\ sts' \in {"ok", "err"}
  <2>1. wiped' \in BOOLEAN /\ stuck' \in BOOLEAN BY <1>b DEF BeginWrite
  <2>2. sect' \in 0..(NSector + 1) BY <1>b DEF BeginWrite
  <2>3. buf' \in Text /\ image' \in Copy BY <1>b, <1>t DEF BeginWrite
  <2> QED BY <2>1, <2>2, <2>3, <1>b DEF BeginWrite, Region
<1>l. \A t : \A old \in TreeText : Load(t, old) \in TreeText
  <2> SUFFICES ASSUME NEW t, NEW old \in TreeText PROVE Load(t, old) \in TreeText
    OBVIOUS
  <2>1. Valid(t) => Document(t) \in TreeText BY DocumentValid
  <2> QED BY <2>1, <1>t DEF Load
<1>1. CASE AllocBuf
  <2>1. image' \in Copy
    <3>1. flash[reg] \in Copy /\ buf \in Text OBVIOUS
    <3> QED BY <3>1, <1>1 DEF AllocBuf, Over, Copy, Text
  <2> QED BY <1>1, <2>1 DEF AllocBuf, histVars
<1>2. CASE EraseSector BY <1>2, <1>t DEF EraseSector, histVars, Copy, Sector
<1>3. CASE WriteSector
  <2>1. image[sect] \in Cell BY <1>3 DEF WriteSector, Copy
  <2>2. flash' \in [Region -> Copy] BY <2>1, <1>3 DEF WriteSector, Programmed, Copy
  <2>3. wiped' \in BOOLEAN BY <1>3 DEF WriteSector
  <2>4. sect' \in 0..(NSector + 1) BY <1>3 DEF WriteSector, Sector
  <2> QED BY <2>2, <2>3, <2>4, <1>3 DEF WriteSector, histVars
<1>4. CASE EndRegion BY <1>4, <1>w, <1>t DEF EndRegion
<1>5. CASE NoMemory BY <1>5, <1>w DEF NoMemory
<1>5a. CASE VerifyFails
  <2>1. stuck' \in BOOLEAN BY <1>5a DEF VerifyFails
  <2>2. faults' \in 0..MaxFault BY <1>5a DEF VerifyFails
  <2> QED BY <2>1, <2>2, <1>5a DEF VerifyFails
<1>5b. CASE stuck /\ pc = "write" /\ wiped /\ sect \in Sector /\ Signal
  <2>1. CASE WriteFails
    <3>1. wiped' \in BOOLEAN /\ stuck' \in BOOLEAN BY <2>1 DEF WriteFails
    <3>2. sect' \in 0..(NSector + 1) /\ image' \in Copy BY <2>1, <1>t DEF WriteFails
    <3> QED BY <3>1, <3>2, <2>1, <1>5b, <1>w DEF WriteFails
  <2>2. CASE ~WriteFails
    <3>0. Programmed /\ sect' = sect + 1 /\ wiped' = FALSE /\ stuck' = FALSE
          /\ UNCHANGED <<tree, pc, op, buf, image, reg, sts, spad, clock, cuts, histVars>>
      BY <2>2, <1>5b DEF Signal
    <3>1. image[sect] \in Cell BY <1>5b DEF Copy
    <3>2. flash' \in [Region -> Copy] BY <3>0, <3>1 DEF Programmed, Copy
    <3>3. wiped' \in BOOLEAN /\ stuck' \in BOOLEAN BY <3>0
    <3>4. sect' \in 0..(NSector + 1) BY <3>0, <1>5b DEF Sector
    <3> QED BY <3>0, <3>2, <3>3, <3>4 DEF histVars
  <2> QED BY <2>1, <2>2
<1>5c. Signal => stuck BY DEF Signal, WriteFails
<1>6. CASE PowerOn BY <1>6 DEF PowerOn, jobVars, histVars
<1>7. CASE VerifyPsi BY <1>7 DEF VerifyPsi, jobVars, histVars
<1>8. CASE VerifyBackup
  <2>1. flash["backup"] \in Text BY <1>t DEF Region
  <2> QED BY <2>1, <1>8, <1>b DEF VerifyBackup, jobVars, histVars
<1>9. CASE LoadDefault
  <2>1. TextOf(0) \in Text BY <1>t
  <2> QED BY <1>9, <1>b, <2>1 DEF LoadDefault
<1>10. CASE Retrieve BY <1>10, <1>l DEF Retrieve, jobVars, histVars, Region
<1>11. CASE ReadFails
  <2>1. tree' \in TreeText BY <1>11, <1>l DEF ReadFails
  <2> QED BY <2>1, <1>11 DEF ReadFails, jobVars
<1>12. CASE Update
  <2>1. clock + 1 \in Version BY <1>12 DEF Update, Version
  <2>2. tree' \in TreeText BY <1>12, <2>1, <1>t DEF Update
  <2> QED BY <2>1, <2>2, <1>12 DEF Update, jobVars, histVars
<1>13. CASE ProfileStore
  <2>1. tree \in Text BY <1>t
  <2> QED BY <2>1, <1>13, <1>b DEF ProfileStore
<1>14. CASE WriteStream
  <2>1. clock + 1 \in Version BY <1>14 DEF WriteStream, Version
  <2>2. TextOf(clock + 1) \in Text BY <2>1, <1>t
  <2> QED BY <2>1, <2>2, <1>14, <1>b DEF WriteStream
<1>15. CASE ProfileErase
  <2>1. Uniform(Zero) \in Text BY <1>t
  <2> QED BY <2>1, <1>15, <1>b DEF ProfileErase
<1>16. CASE ProfileRetrieve BY <1>16, <1>l DEF ProfileRetrieve, jobVars, histVars, Region
<1>17. CASE PowerCut
  <2>1. wiped' \in BOOLEAN /\ stuck' \in BOOLEAN BY <1>17 DEF PowerCut
  <2>2. sect' \in 0..(NSector + 1) /\ faults' \in 0..MaxFault /\ cuts' \in 0..MaxCut
    BY <1>17 DEF PowerCut
  <2>3. buf' \in Text /\ image' \in Copy /\ tree' \in TreeText
    BY <1>17, <1>t DEF PowerCut
  <2> QED BY <2>1, <2>2, <2>3, <1>17 DEF PowerCut, Region
<1>18. CASE UNCHANGED vars BY <1>18 DEF vars, jobVars, histVars
<1> QED
  BY <1>1, <1>2, <1>3, <1>4, <1>5, <1>5a, <1>5b, <1>5c, <1>6, <1>7, <1>8, <1>9, <1>10, <1>11,
     <1>12, <1>13, <1>14, <1>15, <1>16, <1>17, <1>18
  DEF Next, BootStep, WriteStep, ApiCall, StuckInv

\* Every state of the configuration store is well typed: init(), the writes and
\* every failure of them keep each variable of psiifc.cpp in its type.
THEOREM TypeCorrect == Spec => []TypeOK
<1>1. Init => TypeOK /\ StuckInv BY TypeInit DEF Init, StuckInv
<1>2. TypeOK /\ StuckInv /\ [Next]_vars => (TypeOK /\ StuckInv)' BY TypeStep, StuckStep
<1> QED BY <1>1, <1>2, PTL DEF Spec

-----------------------------------------------------------------------------
(* The inductive invariant behind the safety properties.                    *)

\* A write in progress: what it has written so far, and what it can rely on.
WriteInv ==
    pc = "write" =>
        /\ op # "none"
        /\ op = "repair" => reg = "psi" /\ flash["backup"] = buf
        /\ op = "repair" => faults >= 1 \/ erasing
        /\ op = "default" => faults >= 2 \/ erasing
        /\ op = "erase" => erasing /\ buf = Uniform(Zero)
        /\ op # "erase" => Valid(buf)
        /\ op # "repair" => buf \in recent
        /\ sts = "err" => faults >= 1
        /\ sect > 0 => Holds(image, buf)
        /\ \A s \in Sector : s < sect => flash[reg][s] = image[s]
        /\ reg = "backup" /\ sts = "ok" => Holds(flash["psi"], buf)
        /\ faults = 0 /\ ~erasing /\ reg = "psi" => Valid(flash["backup"])

\* A writer that sleeps met a fault, and if it was the first, the other region is valid.
SleepInv ==
    stuck =>
        /\ faults >= 1
        /\ faults = 1 /\ ~erasing => (reg = "psi" => op # "repair" /\ Valid(flash["backup"]))
        /\ faults = 1 /\ ~erasing => (reg = "backup" => Valid(flash["psi"]))

\* Both regions are read alike, or hold the same bytes.
CopiesAlike ==
    \/ flash["psi"] = flash["backup"]
    \/ /\ Valid(flash["psi"]) /\ Valid(flash["backup"])
       /\ Document(flash["psi"]) = Document(flash["backup"])

\* Between writes: how many faults it takes to lose a copy.
QuietInv ==
    pc # "write" =>
        /\ faults = 0 => CopiesAlike
        /\ faults <= 1 /\ ~erasing => Valid(flash["psi"]) \/ Valid(flash["backup"])
        /\ pc = "verifyBackup" /\ faults <= 1 /\ ~erasing => Valid(flash["backup"])
        /\ pc = "verifyBackup" /\ faults = 0 => ~Valid(flash["psi"])
        /\ pc = "default" => faults >= 2 \/ erasing
        /\ pc = "retrieve" => Valid(flash["psi"]) \/ faults >= 2 \/ erasing

TreeInv == tree = EmptyTree \/ Valid(tree)

IInv == TypeOK /\ StuckInv /\ WriteInv /\ SleepInv /\ QuietInv /\ TreeInv /\ NothingOlder

\* Loading a copy leaves a tree that can be written as a valid document.
LEMMA LoadValid ==
    ASSUME NEW t, NEW old, old = EmptyTree \/ Valid(old)
    PROVE  Load(t, old) = EmptyTree \/ Valid(Load(t, old))
BY TextOfValid, DocumentValid, CellFacts DEF Load

\* IInv holds of the factory state: both regions hold the default file.
LEMMA IInvInit == Init => IInv
<1> SUFFICES ASSUME Init PROVE IInv
  OBVIOUS
<1>0. Holds(Over(TextOf(0), Uniform(Erased)), TextOf(0)) BY DEF Holds, Over
<1>1. Valid(Over(TextOf(0), Uniform(Erased)))
  BY <1>0, TextOfValid, CellFacts, HoldsValid
<1>2. StuckInv /\ WriteInv /\ SleepInv /\ TreeInv
  BY DEF Init, StuckInv, WriteInv, SleepInv, TreeInv
<1>3. QuietInv BY <1>1 DEF Init, QuietInv, CopiesAlike, Region
<1>4. NothingOlder BY <1>0 DEF Init, NothingOlder, Holds, Region
<1> QED BY TypeInit, <1>2, <1>3, <1>4 DEF IInv

\* A write that starts: what BeginWrite establishes when its text is valid, or
\* is the fill of profileErase, and is one of the recent ones.
LEMMA BeginWriteInv ==
    ASSUME IInv, pc # "write", UNCHANGED flash, faults' = faults,
           NEW o \in {"store", "stream", "erase", "default"}, NEW t,
           BeginWrite(o, t), recent' = recent \cup {t},
           o = "erase" => erasing' /\ t = Uniform(Zero), o # "erase" => Valid(t),
           o = "default" => faults >= 2 \/ erasing,
           erasing' \/ erasing' = erasing
    PROVE  WriteInv' /\ SleepInv' /\ QuietInv' /\ NothingOlder'
<1> USE DEF IInv
<1>1. /\ pc' = "write" /\ op' = o /\ buf' = t /\ reg' = "psi" /\ sect' = 0 /\ sts' = "ok"
      /\ ~stuck'
  BY DEF BeginWrite
<1>s. SleepInv' BY <1>1 DEF SleepInv
<1>2. QuietInv' BY <1>1 DEF QuietInv
<1>3. NothingOlder' BY DEF NothingOlder
<1>4. \A s \in Sector : ~(s < 0) BY SectorAssumption DEF Sector
<1>5. faults = 0 /\ ~erasing' => Valid(flash["backup"]) BY DEF QuietInv, CopiesAlike, TypeOK
<1>6. o = "default" => faults' >= 2 \/ erasing' OBVIOUS
<1>7. WriteInv' BY <1>1, <1>4, <1>5, <1>6 DEF WriteInv
<1> QED BY <1>2, <1>3, <1>7, <1>s

\* A step that leaves the flash, the history and any write alone.
LEMMA QuietStepInv ==
    ASSUME IInv, pc # "write", pc' # "write", UNCHANGED <<flash, recent, faults, erasing>>,
           pc' \in {"verifyPsi", "run"}, stuck' = stuck
    PROVE  WriteInv' /\ SleepInv' /\ QuietInv' /\ NothingOlder'
<1>1. ~stuck' BY DEF IInv, StuckInv
<1> QED BY <1>1 DEF IInv, WriteInv, SleepInv, QuietInv, CopiesAlike, NothingOlder

\* The end of a region, written to its last sector.
LEMMA EndRegionInv ==
    ASSUME IInv, EndRegion
    PROVE  WriteInv' /\ SleepInv' /\ QuietInv' /\ NothingOlder'
<1> USE DEF IInv
<1>1. Holds(flash[reg], buf)
  <2>1. \A s \in Sector : flash[reg][s] = image[s]
    BY SectorAssumption DEF EndRegion, WriteInv, Sector
  <2>2. Holds(image, buf) BY SectorAssumption DEF EndRegion, WriteInv
  <2> QED BY <2>1, <2>2 DEF Holds
<1>2. pc = "write" /\ sect' = 0 /\ flash' = flash /\ stuck' = stuck BY DEF EndRegion
<1>s. ~stuck'
  BY <1>2, SectorAssumption DEF EndRegion, StuckInv, Sector
<1>r. SleepInv' BY <1>s DEF SleepInv
<1>v. op # "erase" => Valid(flash[reg])
  BY <1>1, <1>2, HoldsValid DEF WriteInv
<1>z. op = "repair" => flash["psi"] = flash["backup"]
  <2> SUFFICES ASSUME op = "repair" PROVE flash["psi"] = flash["backup"]
    OBVIOUS
  <2>1. buf = flash["backup"] /\ reg = "psi" BY <1>2 DEF WriteInv
  <2>2. flash["psi"] \in Copy /\ flash["backup"] \in Copy BY DEF TypeOK, Region
  <2>3. \A s \in Sector : buf[s] # Rest BY <2>1, <2>2, CellFacts DEF Copy
  <2>4. \A s \in Sector : flash["psi"][s] = flash["backup"][s] BY <1>1, <2>1, <2>3 DEF Holds
  <2> QED BY <2>2, <2>4 DEF Copy
<1>3. \A s \in Sector : ~(s < 0) BY SectorAssumption DEF Sector
<1>4. CASE reg = "psi" /\ op # "repair"
  <2>1. /\ pc' = "write" /\ op' = op /\ buf' = buf /\ reg' = "backup" /\ sts' = sts
        /\ recent' = recent /\ erasing' = erasing /\ faults' = faults
    BY <1>2, <1>4 DEF EndRegion, Advance
  <2>2. WriteInv'
    BY <2>1, <1>1, <1>2, <1>3, <1>4 DEF WriteInv
  <2> QED BY <2>1, <2>2, <1>2, <1>r DEF QuietInv, NothingOlder
<1>5. CASE ~(reg = "psi" /\ op # "repair")
  <2>1. Return(sts) BY <1>5 DEF EndRegion, Advance
  <2>2. pc' \in {"run", "retrieve"} BY <2>1 DEF Return
  <2>3. WriteInv' BY <2>2 DEF WriteInv
  <2>4. CASE sts = "ok"
    <3>1. faults' = 0 BY <2>4, <1>5 DEF EndRegion, TypeOK, Region
    <3>2. op # "repair" => Holds(flash["psi"], buf) /\ Holds(flash["backup"], buf)
      BY <1>1, <1>2, <1>5, <2>4 DEF WriteInv, TypeOK, Region
    <3>a. op # "erase" => Valid(flash["psi"]) /\ Valid(flash["backup"])
      <4>1. CASE op = "repair" BY <4>1, <1>v, <1>z, <1>2 DEF WriteInv
      <4>2. CASE op # "repair" BY <4>2, <3>2, <1>2, HoldsValid DEF WriteInv
      <4> QED BY <4>1, <4>2
    <3>b. CopiesAlike
      <4>1. CASE op = "repair" BY <4>1, <1>z DEF CopiesAlike
      <4>2. CASE op = "erase"
        <5>1. buf = Uniform(Zero) BY <4>2, <1>2 DEF WriteInv
        <5>2. \A s \in Sector : flash["psi"][s] = Zero /\ flash["backup"][s] = Zero
          BY <5>1, <3>2, <4>2 DEF Holds, Uniform, Zero, Rest
        <5>3. flash["psi"] \in Copy /\ flash["backup"] \in Copy BY DEF TypeOK, Region
        <5> QED BY <5>2, <5>3 DEF CopiesAlike, Copy
      <4>3. CASE op \notin {"repair", "erase"}
        BY <4>3, <3>2, <1>2, HoldsValid DEF WriteInv, CopiesAlike
      <4> QED BY <4>1, <4>2, <4>3
    <3>3. ~erasing' => op # "erase"
      BY <1>2, <2>1, <2>4 DEF Return, WriteInv
    <3>4. pc' = "retrieve" => op # "erase"
      BY <1>2, <2>1 DEF Return
    <3>5. QuietInv' BY <3>1, <3>a, <3>b, <3>3, <3>4, <2>2, <1>2 DEF QuietInv, CopiesAlike
    <3>6. NothingOlder'
      <4>1. CASE op = "repair"
        BY <4>1, <1>2, <2>1, <2>4 DEF NothingOlder, Return
      <4>2. CASE op # "repair"
        <5>1. recent' = {buf} BY <4>2, <2>1, <2>4 DEF Return
        <5> QED BY <5>1, <4>2, <3>2, <1>2 DEF NothingOlder, Holds, Region
      <4> QED BY <4>1, <4>2
    <3> QED BY <3>5, <3>6, <2>3, <1>r
  <2>5. CASE sts = "err"
    <3>1. /\ faults' = faults /\ recent' = recent /\ erasing' = erasing /\ faults >= 1
      BY <2>5, <2>1, <1>2 DEF EndRegion, Return, WriteInv
    <3>2. reg = "backup" => (op # "erase" => Valid(flash["backup"]))
      BY <1>v
    <3>3. op = "repair" => flash["psi"] = flash["backup"] /\ Valid(flash["psi"])
      BY <1>v, <1>z, <1>2 DEF WriteInv
    <3>4. ~erasing => Valid(flash["psi"]) \/ Valid(flash["backup"])
      BY <3>2, <3>3, <1>2, <1>5 DEF WriteInv, TypeOK, Region
    <3>5. pc' = "retrieve" => Valid(flash["psi"]) \/ faults >= 2 \/ erasing
      BY <3>3, <1>2, <2>1 DEF Return, WriteInv
    <3>6. faults' # 0 BY <3>1 DEF TypeOK
    <3>7. QuietInv' BY <3>1, <3>4, <3>5, <3>6, <2>2, <1>2 DEF QuietInv
    <3>8. NothingOlder' BY <3>1, <1>2 DEF NothingOlder
    <3> QED BY <3>7, <3>8, <2>3, <1>r
  <2> QED BY <2>4, <2>5 DEF TypeOK
<1> QED BY <1>4, <1>5

\* A region that is given up: the fault is counted, and if it was the first, the
\* other region is valid.
LEMMA GivenUpInv ==
    ASSUME IInv, pc = "write", Advance("err"), sect' = 0, flash' = flash, ~stuck',
           faults' \in Nat, faults' >= 1,
           faults >= 2 => faults' >= 2,
           op = "repair" /\ ~erasing => faults' >= 2,
           reg = "backup" /\ faults' = 1 /\ ~erasing => Valid(flash["psi"])
    PROVE  WriteInv' /\ SleepInv' /\ QuietInv' /\ NothingOlder'
<1> USE DEF IInv
<1>r. SleepInv' BY DEF SleepInv
<1>2. \A s \in Sector : ~(s < 0) BY SectorAssumption DEF Sector
<1>3. CASE reg = "psi" /\ op # "repair"
  <2>1. /\ pc' = "write" /\ op' = op /\ buf' = buf /\ reg' = "backup" /\ sts' = "err"
        /\ recent' = recent /\ erasing' = erasing
    BY <1>3 DEF Advance
  <2>2. WriteInv' BY <2>1, <1>2, <1>3 DEF WriteInv
  <2> QED BY <2>1, <2>2, <1>r DEF QuietInv, NothingOlder
<1>4. CASE ~(reg = "psi" /\ op # "repair")
  <2>1. Return("err") BY <1>4 DEF Advance
  <2>2. pc' \in {"run", "retrieve"} /\ recent' = recent /\ erasing' = erasing
    BY <2>1 DEF Return
  <2>4. op = "default" => faults' >= 2 \/ erasing BY DEF WriteInv
  <2>6. faults' <= 1 /\ ~erasing => Valid(flash["psi"])
    BY <1>4 DEF TypeOK, Region
  <2>7. pc' = "retrieve" => faults' >= 2 \/ erasing
    BY <2>1, <2>4 DEF Return
  <2>8. QuietInv' BY <2>2, <2>6, <2>7 DEF QuietInv
  <2> QED BY <2>2, <2>8, <1>r DEF WriteInv, NothingOlder
<1> QED BY <1>3, <1>4

\* A sector that is programmed with its part of the buffer.
LEMMA ProgrammedInv ==
    ASSUME IInv, TypeOK', pc = "write", sect \in Sector, Programmed, sect' = sect + 1, ~stuck',
           UNCHANGED <<tree, pc, op, buf, image, reg, sts, recent, faults, erasing>>
    PROVE  WriteInv' /\ SleepInv' /\ QuietInv' /\ NothingOlder'
<1>t. TypeOK BY DEF IInv
<1>r. SleepInv' BY DEF SleepInv
<1>1. reg \in Region /\ flash' = [flash EXCEPT ![reg][sect] = image[sect]] /\ sect \in Nat /\ sect > 0
  BY <1>t, SectorAssumption DEF Programmed, TypeOK, Sector
<1>2. /\ \A r \in Region : r # reg => flash'[r] = flash[r]
      /\ \A s \in Sector : s # sect => flash'[reg][s] = flash[reg][s]
      /\ flash'[reg][sect] = image[sect]
  BY <1>1, <1>t DEF TypeOK, Copy
<1>3. \A s \in Sector : s < sect + 1 => flash'[reg][s] = image[s]
  <2> SUFFICES ASSUME NEW s \in Sector, s < sect + 1 PROVE flash'[reg][s] = image[s]
    OBVIOUS
  <2>1. CASE s = sect BY <2>1, <1>2
  <2>2. CASE s # sect
    <3>1. s < sect BY <2>2, <1>1, SectorAssumption DEF Sector
    <3> QED BY <3>1, <2>2, <1>2 DEF IInv, WriteInv
  <2> QED BY <2>1, <2>2
<1>4. (reg = "psi" => flash'["backup"] = flash["backup"])
      /\ (reg = "backup" => flash'["psi"] = flash["psi"])
  BY <1>2 DEF Region
<1>h. Holds(image, buf) BY <1>1 DEF IInv, WriteInv
<1>5. WriteInv' BY <1>1, <1>3, <1>4, <1>h DEF IInv, WriteInv
<1>6. (image[sect] # Erased /\ \A t \in recent : t[sect] # Rest)
          => \E t \in recent : image[sect] = t[sect]
  <2>1. CASE op = "repair"
    <3>1. buf = flash["backup"] /\ flash["backup"] \in Copy
      BY <2>1, <1>t DEF IInv, WriteInv, TypeOK, Region
    <3>2. image[sect] = flash["backup"][sect] BY <3>1, <1>h, CellFacts DEF Holds, Copy
    <3> QED BY <3>2 DEF IInv, NothingOlder, Region
  <2>2. CASE op # "repair"
    <3>1. buf \in recent BY <2>2 DEF IInv, WriteInv
    <3> QED BY <3>1, <1>h DEF Holds
  <2> QED BY <2>1, <2>2
<1>7. NothingOlder' BY <1>1, <1>2, <1>6 DEF IInv, NothingOlder
<1> QED BY <1>5, <1>7, <1>r DEF QuietInv

\* Every step preserves IInv.
LEMMA IInvStep == IInv /\ [Next]_vars => IInv'
<1> SUFFICES ASSUME IInv, [Next]_vars PROVE IInv'
  OBVIOUS
<1>t. TypeOK /\ TypeOK' /\ StuckInv /\ StuckInv' BY TypeStep, StuckStep DEF IInv
<1> SUFFICES WriteInv' /\ SleepInv' /\ QuietInv' /\ TreeInv' /\ NothingOlder'
  BY <1>t DEF IInv
<1>s. pc # "write" => ~stuck BY <1>t DEF StuckInv
<1>q. pc' # "write" => SleepInv' BY <1>t DEF SleepInv, StuckInv
<1>u. UNCHANGED tree => TreeInv' BY DEF IInv, TreeInv
<1>e. tree' = EmptyTree => TreeInv' BY DEF TreeInv
<1>1. CASE AllocBuf
  <2>1. \A s \in Sector : ~(s < 1) BY SectorAssumption DEF Sector
  <2>2. image' = Over(buf, flash[reg]) /\ UNCHANGED <<flash, pc, op, buf, reg, sts, stuck, faults, recent, erasing, tree>>
        /\ sect' = 1
    BY <1>1 DEF AllocBuf, histVars
  <2>3. Holds(image', buf) BY <2>2 DEF Holds, Over
  <2>4. WriteInv' BY <2>1, <2>2, <2>3 DEF IInv, WriteInv
  <2>5. SleepInv' BY <2>2 DEF IInv, SleepInv
  <2> QED BY <1>1, <2>2, <2>4, <2>5, <1>u DEF IInv, AllocBuf, QuietInv, NothingOlder
<1>2. CASE EraseSector
  <2>1. /\ pc = "write" /\ pc' = "write" /\ reg \in Region /\ sect \in Sector /\ ~wiped
        /\ flash' = [flash EXCEPT ![reg][sect] = Erased]
        /\ UNCHANGED <<tree, pc, op, buf, image, reg, sect, stuck, sts, recent, faults, erasing>>
    BY <1>2, <1>t DEF EraseSector, histVars, TypeOK
  <2>2. /\ \A r \in Region : r # reg => flash'[r] = flash[r]
        /\ \A s \in Sector : s # sect => flash'[reg][s] = flash[reg][s]
        /\ flash'[reg][sect] = Erased
    BY <2>1, <1>t DEF TypeOK, Copy
  <2>3. \A s \in Sector : s < sect => flash'[reg][s] = image[s]
    BY <2>1, <2>2 DEF IInv, WriteInv, Sector
  <2>4. (reg = "psi" => flash'["backup"] = flash["backup"])
        /\ (reg = "backup" => flash'["psi"] = flash["psi"])
    BY <2>2 DEF Region
  <2>5. WriteInv' BY <2>1, <2>3, <2>4 DEF IInv, WriteInv
  <2>6. NothingOlder'
    BY <2>1, <2>2 DEF IInv, NothingOlder
  <2>7. SleepInv' BY <2>1, <1>t DEF StuckInv, SleepInv
  <2> QED BY <2>1, <2>5, <2>6, <2>7, <1>u DEF QuietInv
<1>3. CASE WriteSector BY <1>3, <1>u, <1>t, ProgrammedInv DEF WriteSector, histVars
<1>4. CASE EndRegion BY <1>4, <1>u, EndRegionInv DEF EndRegion
<1>5. CASE NoMemory
  <2>1. /\ pc = "write" /\ sect = 0 /\ sect' = 0 /\ flash' = flash /\ faults' = faults + 1
        /\ faults \in Nat /\ Advance("err") /\ stuck' = stuck /\ UNCHANGED tree
    BY <1>5, <1>t DEF NoMemory, TypeOK
  <2>2. ~stuck' BY <2>1, <1>t, SectorAssumption DEF StuckInv, Sector
  <2>3. reg = "backup" /\ faults = 0 /\ ~erasing => Valid(flash["psi"])
    BY <2>1, <1>t, HoldsValid DEF IInv, WriteInv, TypeOK
  <2>4. op = "repair" /\ ~erasing => faults >= 1 BY <2>1 DEF IInv, WriteInv
  <2> QED BY <2>1, <2>2, <2>3, <2>4, <1>u, GivenUpInv
<1>5a. CASE VerifyFails
  <2>1. /\ pc = "write" /\ stuck' /\ faults' = faults + 1 /\ faults \in Nat
        /\ UNCHANGED <<flash, tree, pc, op, buf, image, reg, sect, wiped, sts, recent, erasing>>
    BY <1>5a, <1>t DEF VerifyFails, TypeOK
  <2>2. reg = "backup" /\ faults = 0 /\ ~erasing => Valid(flash["psi"])
    BY <2>1, <1>t, HoldsValid DEF IInv, WriteInv, TypeOK
  <2>3. reg = "psi" /\ faults = 0 /\ ~erasing => op # "repair" /\ Valid(flash["backup"])
    BY <2>1 DEF IInv, WriteInv
  <2>4. SleepInv' BY <2>1, <2>2, <2>3 DEF SleepInv
  <2>5. WriteInv' BY <2>1 DEF IInv, WriteInv
  <2> QED BY <2>1, <2>4, <2>5, <1>u DEF IInv, QuietInv, NothingOlder
<1>5b. CASE Signal
  <2>0. stuck /\ pc = "write" /\ wiped /\ sect \in Sector
    BY <1>5b, <1>t DEF Signal, WriteFails, StuckInv
  <2>1. CASE WriteFails
    <3>1. /\ sect' = 0 /\ flash' = flash /\ faults' = faults
          /\ faults \in Nat /\ Advance("err") /\ ~stuck' /\ UNCHANGED tree
      BY <2>1, <1>t DEF WriteFails, TypeOK
    <3>2. /\ faults >= 1
          /\ reg = "backup" /\ faults = 1 /\ ~erasing => Valid(flash["psi"])
          /\ op = "repair" /\ ~erasing => faults # 1
      BY <2>0 DEF IInv, SleepInv, WriteInv
    <3>3. op = "repair" /\ ~erasing => faults' >= 2 BY <3>1, <3>2
    <3> QED BY <2>0, <3>1, <3>2, <3>3, <1>u, GivenUpInv
  <2>2. CASE ~WriteFails
    <3>1. Programmed /\ sect' = sect + 1 /\ ~stuck'
          /\ UNCHANGED <<tree, pc, op, buf, image, reg, sts, histVars>>
      BY <2>2, <1>5b DEF Signal
    <3> QED BY <2>0, <3>1, <1>u, <1>t, ProgrammedInv DEF histVars
  <2> QED BY <2>1, <2>2
<1>6. CASE PowerOn BY <1>6, <1>u, QuietStepInv DEF PowerOn, histVars, jobVars
<1>7. CASE VerifyPsi
  <2>1. /\ pc = "verifyPsi" /\ pc' = IF Valid(flash["psi"]) THEN "retrieve" ELSE "verifyBackup"
        /\ UNCHANGED <<flash, tree, recent, faults, erasing>>
    BY <1>7 DEF VerifyPsi, histVars
  <2>2. QuietInv' BY <2>1 DEF IInv, QuietInv, CopiesAlike
  <2> QED BY <2>1, <2>2, <1>u, <1>q DEF IInv, WriteInv, NothingOlder
<1>8. CASE VerifyBackup
  <2>1. /\ pc = "verifyBackup" /\ UNCHANGED <<flash, tree, recent, faults, erasing>>
    BY <1>8 DEF VerifyBackup, histVars
  <2>2. CASE Valid(flash["backup"])
    <3>1. BeginWrite("repair", flash["backup"]) BY <1>8, <2>2 DEF VerifyBackup
    <3>2. /\ pc' = "write" /\ op' = "repair" /\ buf' = flash["backup"] /\ reg' = "psi"
          /\ sect' = 0 /\ sts' = "ok" /\ ~stuck'
      BY <3>1 DEF BeginWrite
    <3>3. \A s \in Sector : ~(s < 0) BY SectorAssumption DEF Sector
    <3>4. faults >= 1 \/ erasing BY <2>1, <2>2, <1>t DEF IInv, QuietInv, CopiesAlike, TypeOK
    <3>5. WriteInv' BY <3>2, <3>3, <3>4, <2>1, <2>2 DEF WriteInv
    <3> QED BY <3>2, <3>5, <2>1, <1>u DEF IInv, QuietInv, NothingOlder, SleepInv
  <2>3. CASE ~Valid(flash["backup"])
    <3>1. pc' = "default" BY <1>8, <2>3 DEF VerifyBackup
    <3>2. faults >= 2 \/ erasing BY <2>1, <2>3, <1>t DEF IInv, QuietInv, TypeOK
    <3>3. QuietInv' BY <3>1, <3>2, <2>1 DEF IInv, QuietInv, CopiesAlike
    <3> QED BY <3>1, <3>3, <2>1, <1>u, <1>q DEF IInv, WriteInv, NothingOlder
  <2> QED BY <2>2, <2>3
<1>9. CASE LoadDefault
  <2>1. Valid(TextOf(0)) BY TextOfValid, CellFacts
  <2>2. faults >= 2 \/ erasing BY <1>9 DEF LoadDefault, IInv, QuietInv
  <2> QED BY <1>9, <2>1, <2>2, <1>u, BeginWriteInv DEF LoadDefault
<1>10. CASE Retrieve
  <2>1. TreeInv' BY <1>10, LoadValid DEF Retrieve, IInv, TreeInv
  <2> QED BY <1>10, <2>1, QuietStepInv DEF Retrieve, histVars, jobVars
<1>11. CASE ReadFails
  <2>1. /\ UNCHANGED <<flash, recent, erasing>> /\ faults' = faults + 1
        /\ faults \in Nat /\ pc # "write" /\ pc' # "write"
    BY <1>11, <1>t DEF ReadFails, TypeOK
  <2>t. TreeInv' BY <1>11, LoadValid DEF ReadFails, IInv, TreeInv
  <2>2. faults' <= 1 /\ ~erasing => Valid(flash["psi"]) /\ Valid(flash["backup"])
    BY <2>1 DEF IInv, QuietInv, CopiesAlike
  <2>3. pc = "verifyBackup" /\ Valid(flash["backup"]) => faults >= 1
    BY <2>1 DEF IInv, QuietInv, CopiesAlike
  <2>4. pc' = "default" => faults' >= 2 \/ erasing
    BY <1>11, <2>1, <2>2 DEF ReadFails, IInv, QuietInv
  <2>5. pc' = "retrieve" => faults' >= 2
    BY <1>11, <2>1, <2>3 DEF ReadFails
  <2>6. QuietInv' BY <2>1, <2>2, <2>4, <2>5 DEF QuietInv
  <2> QED BY <2>1, <2>6, <2>t, <1>q DEF IInv, WriteInv, NothingOlder
<1>12. CASE Update
  <2>1. clock + 1 \in Piece BY <1>12, <1>t DEF Update, TypeOK, Version, Piece
  <2>2. TreeInv' BY <1>12, <2>1, TextOfValid, CellFacts DEF Update, TreeInv
  <2> QED BY <1>12, <2>2, QuietStepInv DEF Update, histVars, jobVars
<1>13. CASE ProfileStore
  <2>1. Valid(tree) BY <1>13 DEF ProfileStore, IInv, TreeInv
  <2> QED BY <1>13, <2>1, <1>u, BeginWriteInv DEF ProfileStore
<1>14. CASE WriteStream
  <2>1. clock + 1 \in Piece BY <1>14, <1>t DEF WriteStream, TypeOK, Version, Piece
  <2>2. Valid(TextOf(clock + 1)) BY <2>1, TextOfValid
  <2> QED BY <1>14, <2>2, <1>u, BeginWriteInv DEF WriteStream
<1>15. CASE ProfileErase BY <1>15, <1>u, BeginWriteInv DEF ProfileErase
<1>16. CASE ProfileRetrieve
  <2>1. TreeInv' BY <1>16, LoadValid DEF ProfileRetrieve, IInv, TreeInv
  <2> QED BY <1>16, <2>1, QuietStepInv DEF ProfileRetrieve, histVars, jobVars
<1>17. CASE PowerCut
  <2>1. /\ pc' = "off" /\ UNCHANGED <<flash, recent, erasing>> /\ tree' = EmptyTree
        /\ faults' = IF pc = "write" /\ ~stuck THEN faults + 1 ELSE faults
        /\ faults \in Nat
    BY <1>17, <1>t DEF PowerCut, TypeOK
  <2>2. CASE pc = "write"
    <3>1. faults = 0 => sts = "ok" BY <2>1, <2>2, <1>t DEF IInv, WriteInv, TypeOK
    <3>2. faults = 0 /\ ~erasing => Valid(flash["psi"]) \/ Valid(flash["backup"])
      <4>1. CASE reg = "psi" BY <2>2, <4>1 DEF IInv, WriteInv
      <4>2. CASE reg = "backup" BY <2>2, <3>1, <4>2, HoldsValid DEF IInv, WriteInv
      <4> QED BY <4>1, <4>2, <1>t DEF TypeOK, Region
    <3>3. stuck => faults >= 1 /\ (faults = 1 /\ ~erasing
                       => Valid(flash["psi"]) \/ Valid(flash["backup"]))
      BY <1>t DEF IInv, SleepInv, TypeOK, Region
    <3>4. QuietInv' BY <2>1, <2>2, <3>2, <3>3 DEF QuietInv
    <3> QED BY <2>1, <3>4, <1>e, <1>q DEF IInv, WriteInv, NothingOlder
  <2>3. CASE pc # "write"
    BY <2>1, <2>3, <1>e, <1>q DEF IInv, WriteInv, QuietInv, CopiesAlike, NothingOlder
  <2> QED BY <2>2, <2>3
<1>18. CASE UNCHANGED vars
  BY <1>18 DEF vars, jobVars, histVars, IInv, WriteInv, SleepInv, QuietInv, CopiesAlike, TreeInv,
               NothingOlder
<1> QED
  BY <1>1, <1>2, <1>3, <1>4, <1>5, <1>5a, <1>5b, <1>6, <1>7, <1>8, <1>9, <1>10, <1>11, <1>12, <1>13,
     <1>14, <1>15, <1>16, <1>17, <1>18 DEF Next, BootStep, WriteStep, ApiCall

\* IInv holds in every reachable state.
THEOREM IInvAlways == Spec => []IInv
BY IInvInit, IInvStep, PTL DEF Spec

\* One fault never costs the configuration, wherever in profileStore, in the
\* repair of init() or in a sector write it strikes, the writer that sleeps for ever
\* and the power cut that ends its sleep included.
THEOREM OneFaultSafe == Spec => []OneFaultSurvivable
<1>1. IInv => OneFaultSurvivable
  <2> SUFFICES ASSUME IInv, Exposure <= 1, ~erasing
               PROVE  Valid(flash["psi"]) \/ Valid(flash["backup"])
    BY DEF OneFaultSurvivable
  <2>1. CASE pc = "write" /\ ~stuck
    <3>1. faults = 0 BY <2>1 DEF Exposure, IInv, TypeOK
    <3>2. sts = "ok" BY <2>1, <3>1 DEF IInv, WriteInv, TypeOK
    <3>3. CASE reg = "psi" BY <2>1, <3>1, <3>3 DEF IInv, WriteInv
    <3>4. CASE reg = "backup" BY <2>1, <3>2, <3>4, HoldsValid DEF IInv, WriteInv
    <3> QED BY <3>3, <3>4 DEF IInv, TypeOK, Region
  <2>2. CASE pc = "write" /\ stuck
    <3>1. faults = 1 BY <2>2 DEF Exposure, IInv, SleepInv, TypeOK
    <3> QED BY <2>2, <3>1 DEF IInv, SleepInv, TypeOK, Region
  <2>3. CASE pc # "write" BY <2>3 DEF Exposure, IInv, QuietInv
  <2> QED BY <2>1, <2>2, <2>3
<1> QED BY <1>1, IInvAlways, PTL

\* init() reaches sysScratchPadClearAll and the default file only after two
\* faults or an intended erase.
THEOREM DefaultsSafe == Spec => []DefaultNeedsTwoFaults
<1>1. IInv => DefaultNeedsTwoFaults BY DEF IInv, QuietInv, DefaultNeedsTwoFaults
<1> QED BY <1>1, IInvAlways, PTL

\* As far as the last text that profileStore or writeStreamToFlash reported as written
\* and those tried since reach, the regions hold no piece of an older one, although
\* kerSysPersistentSet keeps what lies behind the text it is given.
THEOREM NoStaleText == Spec => []NothingOlder
<1>1. IInv => NothingOlder BY DEF IInv
<1> QED BY <1>1, IInvAlways, PTL

\* Without a fault since the last complete write, both regions are read alike whenever
\* no write is under way, whatever older texts left behind their end.
THEOREM CopiesAgree == Spec => []QuietCopiesAgree
<1>1. IInv => QuietCopiesAgree BY DEF IInv, QuietInv, CopiesAlike, QuietCopiesAgree
<1> QED BY <1>1, IInvAlways, PTL

\* profileRetrieve at the end of init() reads a valid document unless a second
\* fault hit the repair.
THEOREM BootReadSafe == Spec => []BootReadsValidCopy
<1>1. IInv => BootReadsValidCopy BY DEF IInv, QuietInv, BootReadsValidCopy
<1> QED BY <1>1, IInvAlways, PTL
=============================================================================
