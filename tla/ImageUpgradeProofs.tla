------------------------- MODULE ImageUpgradeProofs -------------------------
(***************************************************************************)
(* What an upgrade leaves behind, for every flash, every length of image   *)
(* and any number of upgrades, with power cuts and failing calls anywhere. *)
(***************************************************************************)
EXTENDS ImageUpgrade, TLAPS

Body   == {"body", "bodyw"}
Tags   == {"tag", "tagw", "tagr"}
Done   == {"nvram", "nvramw", "flag1"}
Places == {"idle", "flag3", "flag3w", "body", "bodyw", "tag", "tagw", "tagr", "nvram",
           "nvramw", "flag1", "flag1w", "reset", "boot", "dead"}
Flags  == {"1", "3", "lost"}
Lines  == {"latest", "previous", "lost"}

Buffer == [va : Flags, piece : Cell]

StoreType == flash \in [Sector -> Cell] /\ buf \in Buffer
ImageType ==
    /\ len \in [Image -> Nat \ {0, 1}] /\ small \in [Image -> BOOLEAN]
    /\ seq \in [Image -> Nat] /\ img \in Image
PlaceType ==
    /\ va \in Flags /\ boot \in Lines /\ bootline \in Lines
    /\ pc \in Places /\ pos \in Sector /\ ignored \in BOOLEAN
    /\ sleep \in {"no", "asleep", "woken"}

UpgradeType == StoreType /\ ImageType /\ PlaceType

\* The image under way fits, and the loop is inside it.
RangeInv ==
    /\ img >= 2
    /\ Upgrading => img > 2 /\ First + len[img] < NSect
    /\ pc \in Body => First < pos /\ pos < First + len[img]

\* Piece k of the image under way is in its place.
Placed(k) == flash[First + k] = Piece(img, k)

\* How much of the image is in the flash.  While the flag "1" is stored the piece in
\* the sector of VARIABLE is in the buffer.
PlacedInv ==
    /\ pc \in Body => \A k \in 1..(pos - First - 1) : Placed(k)
    /\ pc \in Tags => \A k \in 1..(len[img] - 1) : Placed(k)
    /\ pc \in Done => \A k \in 0..(len[img] - 1) : Placed(k)
    /\ pc = "flag1w" => \A k \in 0..(len[img] - 1) :
          IF First + k = VaSect THEN buf.piece = Piece(img, k) ELSE Placed(k)
    /\ pc = "reset" => Placed(0) /\ (ignored \/ \A k \in 0..(len[img] - 1) : Placed(k))

\* The only tag partition 2 can have is the one it had at first, the tag in
\* partition 1 is of no later image, and the new image has the larger number.
TagInv ==
    /\ HasTag(2) => Tag(2) = 2
    /\ HasTag(1) => Tag(1) <= img
    /\ pc \in Body \cup Tags \cup Done \cup {"flag1w", "reset"} /\ HasTag(2) =>
          seq[2] < seq[img]

\* The bootline in the NVRAM is the one that was read, and in the end "latest".
LineInv ==
    /\ pc = "idle" => boot # "lost"
    /\ pc \in {"flag3", "flag3w", "nvram"} \cup Body \cup Tags =>
          boot = bootline /\ boot # "lost"
    /\ pc \in {"flag1", "flag1w", "reset"} => boot = "latest" \/ ignored

\* The flag is "1" neither in the flash nor in the buffer while the image is in parts.
FlagInv ==
    /\ FlagTellsTorn
    /\ pc \in Body \cup Tags \cup Done => va # "1" \/ ignored
    /\ pc = "bodyw" /\ pos = VaSect => buf.va # "1" \/ ignored
    /\ pc = "flag3w" => buf.va = "3"
    /\ pc = "flag1w" => buf.va = "1"

UpgradeInv == UpgradeType /\ RangeInv /\ PlacedInv /\ TagInv /\ LineInv /\ FlagInv

-----------------------------------------------------------------------------
\* Where the sectors of the layout lie, and what a sector and the buffer may hold.
LEMMA Layout ==
    /\ First \in Sector /\ Half \in Sector /\ VaSect \in Sector /\ First + 1 \in Sector
    /\ 0 < First /\ First < Half /\ Half < VaSect /\ VaSect < NSect
    /\ {First, Half, VaSect, NSect} \subseteq Nat
BY LayoutAssumption DEF Sector, SpSect

\* What programming a piece, a tag or the flag leaves in a sector is a cell again.
LEMMA Cells ==
    /\ Blank \in Cell /\ Foreign \in Cell /\ NoBuf \in Buffer
    /\ \A i \in Image, k \in 0..NSect : Piece(i, k) \in Cell
    /\ \A i \in Image : Piece(i, 0) \in Cell /\ [Piece(i, 0) EXCEPT !.whole = FALSE] \in Cell
    /\ \A f \in Flags, c \in Cell : [va |-> f, piece |-> c] \in Buffer
    /\ \A b \in Buffer : b.va \in Flags /\ b.piece \in Cell
<1>1. 0 \in 0..NSect
    BY LayoutAssumption
<1> QED  BY <1>1 DEF Cell, Blank, Foreign, Piece, NoBuf, Buffer, Flags, Erased, Other

\* UpdateImageSequenceNumber passes every number there is.
LEMMA NextSequenceLarger ==
    ASSUME UpgradeType
    PROVE  /\ NextSequence \in Nat
           /\ HasTag(2) => seq[Tag(2)] < NextSequence
<1>1. HasTag(1) => seq[Tag(1)] \in Nat
    BY DEF UpgradeType, ImageType, HasTag, Tag
<1>2. HasTag(2) => seq[Tag(2)] \in Nat
    BY DEF UpgradeType, ImageType, HasTag, Tag
<1> QED  BY <1>1, <1>2 DEF NextSequence

\* The length of the image being written is one of Lens.
LEMMA LengthType ==
    ASSUME UpgradeType
    PROVE  img \in Nat /\ len[img] \in Nat /\ len[img] >= 2
<1>1. len[img] \in Nat \ {0, 1}
    BY DEF UpgradeType, ImageType
<1> QED  BY <1>1, ImageAssumption DEF UpgradeType, ImageType, Image

\* A piece of the image may be held by a sector.
LEMMA BodyPiece ==
    ASSUME UpgradeInv, pc \in Body
    PROVE  pos \in Sector /\ pos - First \in 1..NSect /\ Piece(img, pos - First) \in Cell
<1>1. pos \in Sector /\ pos - First \in 1..NSect /\ img \in Image
    BY Layout DEF UpgradeInv, UpgradeType, PlaceType, ImageType, RangeInv, Sector
<1> QED  BY <1>1, Cells

\* The device as it is when the upgrade starts.
LEMMA UpgradeInit == Init => UpgradeInv
<1> SUFFICES ASSUME Init PROVE UpgradeInv
    OBVIOUS
<1> USE LayoutAssumption, ImageAssumption, Layout
<1>1. StoreType
    <2>1. 1 \in Image /\ 2 \in Image /\ 0 \in 0..NSect /\ 1 \in 0..NSect
        BY DEF Image
    <2>2. \A s \in Sector :
              flash[s] \in {Piece(1, 0), Piece(1, 1), Piece(2, 0), Piece(2, 1), Foreign}
        BY DEF Init
    <2> QED  BY <2>1, <2>2, Cells DEF Init, StoreType
<1>2. ImageType
    BY DEF Init, ImageType, Image
<1>3. PlaceType
    BY DEF Init, PlaceType, Places, Flags, Lines
<1>4. RangeInv /\ PlacedInv /\ LineInv
    BY DEF Init, RangeInv, PlacedInv, LineInv, Upgrading, Body, Tags, Done
<1>5. TagInv
    BY DEF Init, TagInv, HasTag, Tag, At, Piece, Foreign, Other, Image, Body, Tags, Done
<1>6. Intact(1)
    <2>1. flash[First] = Piece(1, 0) /\ flash[First + 1] = Piece(1, 1) /\ len[1] = 2
        BY DEF Init, Image
    <2>2. Tag(1) = 1 /\ HasTag(1)
        BY <2>1 DEF Tag, HasTag, At, Piece, Image
    <2> QED  BY <2>1, <2>2 DEF Intact, At
<1>7. FlagInv
    BY <1>6 DEF Init, FlagInv, FlagTellsTorn, Body, Tags, Done
<1> QED  BY <1>1, <1>2, <1>3, <1>4, <1>5, <1>7 DEF UpgradeInv, UpgradeType

\* Every step leaves sectors, flag and bootline what they may be.
LEMMA StoreStep == UpgradeInv /\ [Next]_vars => StoreType'
<1> SUFFICES ASSUME UpgradeInv, [Next]_vars PROVE StoreType'
    OBVIOUS
<1> USE LayoutAssumption, ImageAssumption, Layout DEF UpgradeInv, UpgradeType,
       StoreType, ImageType, PlaceType, imgVars, Sector
<1>1. CASE FlagErase
    <2>1. flash[VaSect] \in Cell /\ {"1", "3"} \subseteq Flags
        BY DEF Flags
    <2> QED  BY <1>1, <2>1, Cells DEF FlagErase
<1>2. CASE SectorErase
    <2>1. Piece(img, pos - First) \in Cell
        BY <1>2, BodyPiece DEF SectorErase, Body
    <2> QED  BY <1>2, <2>1, Cells DEF SectorErase
<1>3. CASE SectorProgram
    <2>1. Piece(img, pos - First) \in Cell
        BY <1>3, BodyPiece DEF SectorProgram, Body
    <2> QED  BY <1>3, <2>1 DEF SectorProgram
<1>4. CASE \E l \in Lens, s \in BOOLEAN : Begin(l, s)
    BY <1>4, Cells DEF Begin
<1>5. CASE UNCHANGED vars
    BY <1>5, Cells DEF vars
<1>6. CASE FlagProgram
    BY <1>6, Cells DEF FlagProgram, AfterFlag
<1>7. CASE FlagFails
    BY <1>7, Cells DEF FlagFails, AfterFlag
<1>8. CASE SectorFails
    BY <1>8, Cells DEF SectorFails
<1>9. CASE TagErase
    BY <1>9, Cells DEF TagErase
<1>10. CASE TagHead
    BY <1>10, Cells DEF TagHead
<1>11. CASE TagRest
    BY <1>11, Cells DEF TagRest
<1>12. CASE TagFails
    BY <1>12, Cells DEF TagFails
<1>13. CASE NvramErase
    BY <1>13, Cells DEF NvramErase
<1>14. CASE NvramProgram
    BY <1>14, Cells DEF NvramProgram
<1>15. CASE NvramFails
    BY <1>15, Cells DEF NvramFails
<1>16. CASE SoftReset
    BY <1>16, Cells DEF SoftReset, Restart
<1>17. CASE Boot
    BY <1>17, Cells DEF Boot
<1>18. CASE PowerCut
    BY <1>18, Cells DEF PowerCut, Restart
<1>19. CASE VerifyFails
    BY <1>19 DEF VerifyFails
<1>20. CASE Woken
    BY <1>20, Cells DEF Woken
<1> QED  BY <1>1, <1>2, <1>3, <1>4, <1>5, <1>6, <1>7, <1>8, <1>9, <1>10, <1>11, <1>12,
       <1>13, <1>14, <1>15, <1>16, <1>17, <1>18, <1>19, <1>20 DEF Next, Step

\* Every step leaves the images, their lengths and their sequence numbers what they may be.
LEMMA ImageStep == UpgradeInv /\ [Next]_vars => ImageType'
<1> SUFFICES ASSUME UpgradeInv, [Next]_vars PROVE ImageType'
    OBVIOUS
<1> USE LayoutAssumption, ImageAssumption, Layout DEF UpgradeInv, UpgradeType,
       StoreType, ImageType, imgVars
<1>1. CASE FlagProgram
    BY <1>1, NextSequenceLarger DEF FlagProgram, AfterFlag
<1>2. CASE FlagFails
    BY <1>2, NextSequenceLarger DEF FlagFails, AfterFlag
<1>3. CASE \E l \in Lens, s \in BOOLEAN : Begin(l, s)
    <2>1. img + 1 \in Image
        BY <1>3 DEF Begin, Image
    <2> QED  BY <1>3, <2>1 DEF Begin
<1>4. CASE UNCHANGED vars
    BY <1>4 DEF vars
<1>5. CASE FlagErase
    BY <1>5 DEF FlagErase
<1>6. CASE SectorErase
    BY <1>6 DEF SectorErase, MaySet, Last
<1>7. CASE SectorProgram
    BY <1>7 DEF SectorProgram, Last
<1>8. CASE SectorFails
    BY <1>8 DEF SectorFails
<1>9. CASE TagErase
    BY <1>9 DEF TagErase
<1>10. CASE TagHead
    BY <1>10 DEF TagHead
<1>11. CASE TagRest
    BY <1>11 DEF TagRest
<1>12. CASE TagFails
    BY <1>12 DEF TagFails
<1>13. CASE NvramErase
    BY <1>13 DEF NvramErase
<1>14. CASE NvramProgram
    BY <1>14 DEF NvramProgram
<1>15. CASE NvramFails
    BY <1>15 DEF NvramFails
<1>16. CASE SoftReset
    BY <1>16 DEF SoftReset, Restart
<1>17. CASE Boot
    BY <1>17 DEF Boot
<1>18. CASE PowerCut
    BY <1>18 DEF PowerCut, Restart
<1>19. CASE VerifyFails
    BY <1>19 DEF VerifyFails
<1>20. CASE Woken
    BY <1>20 DEF Woken
<1> QED  BY <1>1, <1>2, <1>3, <1>4, <1>5, <1>6, <1>7, <1>8, <1>9, <1>10, <1>11, <1>12,
       <1>13, <1>14, <1>15, <1>16, <1>17, <1>18, <1>19, <1>20 DEF Next, Step

\* Every step leaves the progress of the upgrade within its sectors.
LEMMA PlaceStep == UpgradeInv /\ [Next]_vars => PlaceType'
<1> SUFFICES ASSUME UpgradeInv, [Next]_vars PROVE PlaceType'
    OBVIOUS
<1> USE LayoutAssumption, ImageAssumption, Layout DEF UpgradeInv, UpgradeType,
       StoreType, PlaceType, Places, Flags, Lines
<1>1. CASE SectorProgram
    <2>1. ~Last => pos + 1 \in Sector
        BY <1>1 DEF SectorProgram, Last, RangeInv, Body, ImageType, Upgrading, Sector
    <2>2. pos' \in Sector
        BY <1>1, <2>1 DEF SectorProgram
    <2>3. va' \in Flags
        BY <1>1, Cells DEF SectorProgram
    <2> QED  BY <1>1, <2>2, <2>3 DEF SectorProgram
<1>2. CASE \E l \in Lens, s \in BOOLEAN : Begin(l, s)
    BY <1>2, Cells DEF Begin
<1>3. CASE UNCHANGED vars
    BY <1>3, Cells DEF vars
<1>4. CASE FlagErase
    BY <1>4, Cells DEF FlagErase
<1>5. CASE FlagProgram
    BY <1>5, Cells DEF FlagProgram, AfterFlag
<1>6. CASE FlagFails
    BY <1>6, Cells DEF FlagFails, AfterFlag
<1>7. CASE SectorErase
    BY <1>7, Cells DEF SectorErase, MaySet, Last
<1>8. CASE SectorFails
    BY <1>8, Cells DEF SectorFails
<1>9. CASE TagErase
    BY <1>9, Cells DEF TagErase
<1>10. CASE TagHead
    BY <1>10, Cells DEF TagHead
<1>11. CASE TagRest
    BY <1>11, Cells DEF TagRest
<1>12. CASE TagFails
    BY <1>12, Cells DEF TagFails
<1>13. CASE NvramErase
    BY <1>13, Cells DEF NvramErase
<1>14. CASE NvramProgram
    BY <1>14, Cells DEF NvramProgram
<1>15. CASE NvramFails
    BY <1>15, Cells DEF NvramFails
<1>16. CASE SoftReset
    BY <1>16, Cells DEF SoftReset, Restart
<1>17. CASE Boot
    BY <1>17, Cells DEF Boot
<1>18. CASE PowerCut
    BY <1>18, Cells DEF PowerCut, Restart
<1>19. CASE VerifyFails
    BY <1>19, Cells DEF VerifyFails, OnVariable
<1>20. CASE Woken
    BY <1>20, Cells DEF Woken, OnVariable
<1> QED  BY <1>1, <1>2, <1>3, <1>4, <1>5, <1>6, <1>7, <1>8, <1>9, <1>10, <1>11, <1>12,
       <1>13, <1>14, <1>15, <1>16, <1>17, <1>18, <1>19, <1>20 DEF Next, Step

\* The upgrade writes inside the partition it chose.
LEMMA RangeStep == UpgradeInv /\ [Next]_vars => RangeInv'
<1> SUFFICES ASSUME UpgradeInv, [Next]_vars PROVE RangeInv'
    OBVIOUS
<1> USE LayoutAssumption, ImageAssumption, Layout DEF UpgradeInv, UpgradeType,
       ImageType, PlaceType, RangeInv, Upgrading, imgVars, Body
<1>1. CASE FlagProgram
    <2>1. len[img] \in Nat /\ len[img] >= 2 /\ img \in Nat
        BY LengthType
    <2> QED  BY <1>1, <2>1 DEF FlagProgram, AfterFlag
<1>2. CASE FlagFails
    <2>1. len[img] \in Nat /\ len[img] >= 2 /\ img \in Nat
        BY LengthType
    <2> QED  BY <1>2, <2>1 DEF FlagFails, AfterFlag
<1>3. CASE SectorProgram
    <2>1. len[img] \in Nat /\ pos \in Nat /\ img \in Nat
        BY DEF Image, Sector
    <2> QED  BY <1>3, <2>1 DEF SectorProgram, Last
<1>4. CASE \E l \in Lens, s \in BOOLEAN : Begin(l, s)
    BY <1>4 DEF Begin, Reserved, Image
<1>5. CASE UNCHANGED vars
    BY <1>5 DEF vars
<1>6. CASE FlagErase
    BY <1>6 DEF FlagErase
<1>7. CASE SectorErase
    BY <1>7 DEF SectorErase, MaySet, Last
<1>8. CASE SectorFails
    BY <1>8 DEF SectorFails
<1>9. CASE TagErase
    BY <1>9 DEF TagErase
<1>10. CASE TagHead
    BY <1>10 DEF TagHead
<1>11. CASE TagRest
    BY <1>11 DEF TagRest
<1>12. CASE TagFails
    BY <1>12 DEF TagFails
<1>13. CASE NvramErase
    BY <1>13 DEF NvramErase
<1>14. CASE NvramProgram
    BY <1>14 DEF NvramProgram
<1>15. CASE NvramFails
    BY <1>15 DEF NvramFails
<1>16. CASE SoftReset
    BY <1>16 DEF SoftReset, Restart
<1>17. CASE Boot
    BY <1>17 DEF Boot
<1>18. CASE PowerCut
    BY <1>18 DEF PowerCut, Restart
<1>19. CASE VerifyFails
    BY <1>19 DEF VerifyFails
<1>20. CASE Woken
    BY <1>20 DEF Woken
<1> QED  BY <1>1, <1>2, <1>3, <1>4, <1>5, <1>6, <1>7, <1>8, <1>9, <1>10, <1>11, <1>12,
       <1>13, <1>14, <1>15, <1>16, <1>17, <1>18, <1>19, <1>20 DEF Next, Step

\* Each piece written so far stays where it was put until the next upgrade.
LEMMA PlacedStep == UpgradeInv /\ [Next]_vars => PlacedInv'
<1> SUFFICES ASSUME UpgradeInv, [Next]_vars PROVE PlacedInv'
    OBVIOUS
<1> USE LayoutAssumption, ImageAssumption, Layout DEF UpgradeInv, UpgradeType,
       PlacedInv, Placed, imgVars, Body, Tags, Done
<1>1. CASE FlagErase
    <2>1. CASE pc = "flag3"
        BY <1>1, <2>1 DEF FlagErase
    <2>2. CASE pc = "flag1"
        <3> SUFFICES ASSUME NEW k \in 0..(len[img] - 1)
                     PROVE  IF First + k = VaSect THEN buf'.piece = Piece(img, k)
                                                  ELSE Placed(k)'
            BY <1>1, <2>2 DEF FlagErase
        <3>1. First + k \in Sector /\ flash[First + k] = Piece(img, k)
            BY <2>2 DEF RangeInv, Upgrading, ImageType, Sector
        <3> QED  BY <1>1, <2>2, <3>1 DEF FlagErase, StoreType
    <2> QED  BY <1>1, <2>1, <2>2 DEF FlagErase
<1>2. CASE FlagProgram
    <2>1. CASE pc = "flag3w"
        BY <1>2, <2>1 DEF FlagProgram, AfterFlag
    <2>2. CASE pc = "flag1w"
        <3>1. \A k \in 0..(len[img] - 1) : Placed(k)'
            <4> TAKE k \in 0..(len[img] - 1)
            <4>1. First + k \in Sector
                BY <2>2 DEF RangeInv, Upgrading, ImageType, Sector
            <4> QED  BY <1>2, <2>2, <4>1 DEF FlagProgram, StoreType
        <3>2. 0 \in 0..(len[img] - 1)
            BY DEF ImageType
        <3>3. len' = len /\ img' = img /\ pc' = "reset"
            BY <1>2, <2>2 DEF FlagProgram, AfterFlag
        <3> QED  BY <3>1, <3>2, <3>3
    <2> QED  BY <1>2, <2>1, <2>2 DEF FlagProgram
<1>3. CASE FlagFails
    <2>1. CASE pc \in {"flag3", "flag3w"}
        BY <1>3, <2>1 DEF FlagFails, AfterFlag
    <2>2. CASE pc \in {"flag1", "flag1w"}
        <3>1. 0 \in 0..(len[img] - 1) /\ First + 0 # VaSect
            BY DEF ImageType
        <3> QED  BY <1>3, <2>2, <3>1 DEF FlagFails, AfterFlag
    <2> QED  BY <1>3, <2>1, <2>2 DEF FlagFails
<1>4. CASE SectorErase
    <2> SUFFICES ASSUME NEW k \in 1..(pos - First - 1)
                 PROVE  Placed(k)'
        BY <1>4 DEF SectorErase
    <2>1. First + k # pos /\ flash[First + k] = Piece(img, k)
        BY <1>4, BodyPiece DEF SectorErase, Sector
    <2>2. First + k \in Sector
        BY <1>4, BodyPiece DEF SectorErase, Sector
    <2> QED  BY <1>4, <2>1, <2>2 DEF SectorErase, StoreType
<1>5. CASE SectorProgram
    <2>1. pos \in Sector /\ pos - First \in 1..NSect
        BY <1>5, BodyPiece DEF SectorProgram
    <2>2. \A k \in 1..(pos - First) : Placed(k)'
        <3> TAKE k \in 1..(pos - First)
        <3>1. First + k \in Sector /\ (First + k = pos \/ k \in 1..(pos - First - 1))
            BY <2>1 DEF Sector
        <3>2. CASE First + k = pos
            BY <1>5, <2>1, <3>2 DEF SectorProgram, StoreType, Sector
        <3>3. CASE First + k # pos
            BY <1>5, <3>1, <3>3 DEF SectorProgram, StoreType
        <3> QED  BY <3>2, <3>3
    <2>3. CASE Last
        BY <1>5, <2>1, <2>2, <2>3 DEF SectorProgram, Last, Sector, ImageType
    <2>4. CASE ~Last
        BY <1>5, <2>1, <2>2, <2>4 DEF SectorProgram, Sector
    <2> QED  BY <2>3, <2>4
<1>6. CASE TagErase
    <2> SUFFICES ASSUME NEW k \in 1..(len[img] - 1)
                 PROVE  Placed(k)'
        BY <1>6 DEF TagErase
    <2> QED  BY <1>6 DEF TagErase, StoreType
<1>7. CASE TagHead
    <2> SUFFICES ASSUME NEW k \in 1..(len[img] - 1)
                 PROVE  Placed(k)'
        BY <1>7 DEF TagHead
    <2> QED  BY <1>7 DEF TagHead, StoreType
<1>8. CASE TagRest
    <2>1. \A k \in 0..(len[img] - 1) : Placed(k)'
        <3> TAKE k \in 0..(len[img] - 1)
        <3>1. First + k \in Sector /\ (k = 0 \/ k \in 1..(len[img] - 1))
            BY <1>8 DEF TagRest, RangeInv, Upgrading, ImageType, Sector
        <3> QED  BY <1>8, <3>1 DEF TagRest, StoreType
    <2> QED  BY <1>8, <2>1 DEF TagRest
<1>9. CASE \E l \in Lens, s \in BOOLEAN : Begin(l, s)
    BY <1>9 DEF Begin
<1>10. CASE UNCHANGED vars
    BY <1>10 DEF vars
<1>11. CASE SectorFails
    BY <1>11 DEF SectorFails
<1>12. CASE TagFails
    BY <1>12 DEF TagFails
<1>13. CASE NvramErase
    BY <1>13 DEF NvramErase
<1>14. CASE NvramProgram
    BY <1>14 DEF NvramProgram
<1>15. CASE NvramFails
    BY <1>15 DEF NvramFails
<1>16. CASE SoftReset
    BY <1>16 DEF SoftReset, Restart
<1>17. CASE Boot
    BY <1>17 DEF Boot
<1>18. CASE PowerCut
    BY <1>18 DEF PowerCut, Restart
<1>19. CASE VerifyFails
    BY <1>19 DEF VerifyFails
<1>20. CASE Woken
    <2>1. CASE pc = "tagr"
        <3> SUFFICES ASSUME NEW k \in 1..(len[img] - 1)
                     PROVE  Placed(k)'
            BY <1>20, <2>1 DEF Woken
        <3> QED  BY <1>20, <2>1 DEF Woken, StoreType
    <2>2. CASE pc # "tagr"
        BY <1>20, <2>2 DEF Woken
    <2> QED  BY <2>1, <2>2
<1> QED  BY <1>1, <1>2, <1>3, <1>4, <1>5, <1>6, <1>7, <1>8, <1>9, <1>10, <1>11, <1>12,
       <1>13, <1>14, <1>15, <1>16, <1>17, <1>18, <1>19, <1>20 DEF Next, Step

\* The bootline names the partition of the upgrade from NvramProgram on.
LEMMA LineStep == UpgradeInv /\ [Next]_vars => LineInv'
<1> SUFFICES ASSUME UpgradeInv, [Next]_vars PROVE LineInv'
    OBVIOUS
<1> USE DEF UpgradeInv, UpgradeType, LineInv, PlaceType, imgVars, Upgrading, Body, Tags,
       Done
<1>1. CASE \E l \in Lens, s \in BOOLEAN : Begin(l, s)
    BY <1>1 DEF Begin
<1>2. CASE UNCHANGED vars
    BY <1>2 DEF vars
<1>3. CASE FlagErase
    BY <1>3 DEF FlagErase
<1>4. CASE FlagProgram
    BY <1>4 DEF FlagProgram, AfterFlag
<1>5. CASE FlagFails
    BY <1>5 DEF FlagFails, AfterFlag
<1>6. CASE SectorErase
    BY <1>6 DEF SectorErase, MaySet, Last
<1>7. CASE SectorProgram
    BY <1>7 DEF SectorProgram, Last
<1>8. CASE SectorFails
    BY <1>8 DEF SectorFails
<1>9. CASE TagErase
    BY <1>9 DEF TagErase
<1>10. CASE TagHead
    BY <1>10 DEF TagHead
<1>11. CASE TagRest
    BY <1>11 DEF TagRest
<1>12. CASE TagFails
    BY <1>12 DEF TagFails
<1>13. CASE NvramErase
    BY <1>13 DEF NvramErase
<1>14. CASE NvramProgram
    BY <1>14 DEF NvramProgram
<1>15. CASE NvramFails
    BY <1>15 DEF NvramFails
<1>16. CASE SoftReset
    BY <1>16 DEF SoftReset, Restart
<1>17. CASE Boot
    BY <1>17 DEF Boot
<1>18. CASE PowerCut
    BY <1>18 DEF PowerCut, Restart
<1>19. CASE VerifyFails
    BY <1>19 DEF VerifyFails
<1>20. CASE Woken
    BY <1>20 DEF Woken
<1> QED  BY <1>1, <1>2, <1>3, <1>4, <1>5, <1>6, <1>7, <1>8, <1>9, <1>10, <1>11, <1>12,
       <1>13, <1>14, <1>15, <1>16, <1>17, <1>18, <1>19, <1>20 DEF Next, Step

\* The tag is written after the pieces and is the newest one.
LEMMA TagStep == UpgradeInv /\ [Next]_vars => TagInv'
<1> SUFFICES ASSUME UpgradeInv, [Next]_vars PROVE TagInv'
    OBVIOUS
<1> USE LayoutAssumption, ImageAssumption, Layout DEF UpgradeInv, UpgradeType, TagInv,
       HasTag, Tag, At, imgVars, Body, Tags, Done
<1>1. CASE FlagErase
    <2>1. flash'[First] = flash[First] /\ flash'[Half] = flash[Half]
        BY <1>1 DEF FlagErase, StoreType
    <2> QED  BY <1>1, <2>1 DEF FlagErase
<1>2. CASE FlagProgram
    <2>1. flash'[First] = flash[First] /\ flash'[Half] = flash[Half]
        BY <1>2 DEF FlagProgram, StoreType
    <2>2. pc' \in {"body", "reset"} /\ pc \in {"flag3", "flag3w", "flag1", "flag1w"}
        BY <1>2 DEF FlagProgram, AfterFlag
    <2>3. CASE pc' = "body"
        <3>1. seq' = [seq EXCEPT ![img] = NextSequence]
            BY <1>2, <2>2, <2>3 DEF FlagProgram, AfterFlag
        <3>2. 2 \in Image /\ img # 2
            BY <2>2 DEF RangeInv, Upgrading, Image, ImageType
        <3>3. HasTag(2) => seq'[2] < seq'[img]
            BY <3>1, <3>2, NextSequenceLarger DEF ImageType
        <3> QED  BY <1>2, <2>1, <2>2, <3>3 DEF FlagProgram, AfterFlag
    <2>4. CASE pc' = "reset"
        BY <1>2, <2>1, <2>2, <2>4 DEF FlagProgram, AfterFlag
    <2> QED  BY <2>2, <2>3, <2>4
<1>3. CASE FlagFails
    <2>1. flash'[First] = flash[First] /\ flash'[Half] = flash[Half]
        BY <1>3 DEF FlagFails, StoreType
    <2>2. pc' \in {"body", "reset"} /\ pc \in {"flag3", "flag3w", "flag1", "flag1w"}
        BY <1>3 DEF FlagFails, AfterFlag
    <2>3. CASE pc' = "body"
        <3>1. seq' = [seq EXCEPT ![img] = NextSequence]
            BY <1>3, <2>2, <2>3 DEF FlagFails, AfterFlag
        <3>2. 2 \in Image /\ img # 2
            BY <2>2 DEF RangeInv, Upgrading, Image, ImageType
        <3>3. HasTag(2) => seq'[2] < seq'[img]
            BY <3>1, <3>2, NextSequenceLarger DEF ImageType
        <3> QED  BY <1>3, <2>1, <2>2, <3>3 DEF FlagFails, AfterFlag
    <2>4. CASE pc' = "reset"
        BY <1>3, <2>1, <2>2, <2>4 DEF FlagFails, AfterFlag
    <2> QED  BY <2>2, <2>3, <2>4
<1>4. CASE SectorErase
    <2>1. pos # First /\ flash'[First] = flash[First]
        BY <1>4, BodyPiece DEF SectorErase, StoreType
    <2>2. flash'[Half] = flash[Half] \/ flash'[Half] = Blank
        BY <1>4 DEF SectorErase, StoreType
    <2>3. Blank.id \notin Image
        BY DEF Blank, Piece, Image, Erased
    <2> QED  BY <1>4, <2>1, <2>2, <2>3 DEF SectorErase
<1>5. CASE SectorProgram
    <2>1. pos # First /\ flash'[First] = flash[First] /\ pos - First # 0
        BY <1>5, BodyPiece DEF SectorProgram, StoreType
    <2>2. flash'[Half] = flash[Half] \/ flash'[Half] = Piece(img, pos - First)
        BY <1>5 DEF SectorProgram, StoreType
    <2>3. Piece(img, pos - First).idx # 0
        BY <2>1 DEF Piece
    <2> QED  BY <1>5, <2>1, <2>2, <2>3 DEF SectorProgram
<1>6. CASE TagErase
    <2>1. flash'[Half] = flash[Half]
        BY <1>6 DEF TagErase, StoreType
    <2>2. flash'[First] = Blank
        BY <1>6 DEF TagErase, StoreType
    <2>3. Blank.id \notin Image
        BY LengthType DEF Blank, Piece, Image, Erased
    <2> QED  BY <1>6, <2>1, <2>2, <2>3 DEF TagErase
<1>7. CASE TagHead
    <2>1. flash'[Half] = flash[Half]
        BY <1>7 DEF TagHead, StoreType
    <2>2. flash'[First] = [Piece(img, 0) EXCEPT !.whole = FALSE]
        BY <1>7 DEF TagHead, StoreType
    <2>3. [Piece(img, 0) EXCEPT !.whole = FALSE].id = img /\ img <= img
        BY LengthType DEF Blank, Piece, Image, Erased
    <2> QED  BY <1>7, <2>1, <2>2, <2>3 DEF TagHead
<1>8. CASE TagRest
    <2>1. flash'[Half] = flash[Half]
        BY <1>8 DEF TagRest, StoreType
    <2>2. flash'[First] = Piece(img, 0)
        BY <1>8 DEF TagRest, StoreType
    <2>3. Piece(img, 0).id = img /\ img <= img
        BY LengthType DEF Blank, Piece, Image, Erased
    <2> QED  BY <1>8, <2>1, <2>2, <2>3 DEF TagRest
<1>9. CASE TagFails
    <2>1. flash'[Half] = flash[Half]
        BY <1>9 DEF TagFails, StoreType
    <2>2. flash'[First] = Blank
        BY <1>9 DEF TagFails, StoreType
    <2>3. Blank.id \notin Image
        BY LengthType DEF Blank, Piece, Image, Erased
    <2> QED  BY <1>9, <2>1, <2>2, <2>3 DEF TagFails
<1>10. CASE \E l \in Lens, s \in BOOLEAN : Begin(l, s)
    <2>1. img \in Nat /\ UNCHANGED flash /\ img' = img + 1 /\ pc' = "flag3"
        BY <1>10, LengthType DEF Begin
    <2>2. HasTag(1) => Tag(1) \in Nat
        BY DEF Image
    <2> QED  BY <2>1, <2>2
<1>11. CASE UNCHANGED vars
    BY <1>11 DEF vars
<1>12. CASE SectorFails
    BY <1>12 DEF SectorFails
<1>13. CASE NvramErase
    BY <1>13 DEF NvramErase
<1>14. CASE NvramProgram
    BY <1>14 DEF NvramProgram
<1>15. CASE NvramFails
    BY <1>15 DEF NvramFails
<1>16. CASE SoftReset
    BY <1>16 DEF SoftReset, Restart
<1>17. CASE Boot
    BY <1>17 DEF Boot
<1>18. CASE PowerCut
    BY <1>18 DEF PowerCut, Restart
<1>19. CASE VerifyFails
    BY <1>19 DEF VerifyFails
<1>20. CASE Woken
    <2>1. flash'[Half] = flash[Half]
        BY <1>20 DEF Woken, StoreType
    <2>2. flash'[First] = flash[First] \/ flash'[First] = Blank
        BY <1>20 DEF Woken, StoreType
    <2>3. Blank.id \notin Image
        BY LengthType DEF Blank, Piece, Image, Erased
    <2> QED  BY <1>20, <2>1, <2>2, <2>3 DEF Woken
<1> QED  BY <1>1, <1>2, <1>3, <1>4, <1>5, <1>6, <1>7, <1>8, <1>9, <1>10, <1>11, <1>12,
       <1>13, <1>14, <1>15, <1>16, <1>17, <1>18, <1>19, <1>20 DEF Next, Step

\* Partition 1 stays as complete as it is when neither its sectors nor the length of
\* its image change.
LEMMA IntactSame ==
    ASSUME flash' = flash, HasTag(1) => len'[Tag(1)] = len[Tag(1)]
    PROVE  Intact(1)' <=> Intact(1)
BY DEF Intact, HasTag, Tag, At

\* An image all of whose pieces are placed is intact.
LEMMA PlacedIntact ==
    ASSUME UpgradeType, \A k \in 0..(len[img] - 1) : Placed(k)
    PROVE  Intact(1) /\ Tag(1) = img /\ HasTag(1)
<1>1. flash[First] = Piece(img, 0)
    BY LengthType, Layout DEF Placed
<1>2. Tag(1) = img /\ HasTag(1)
    BY <1>1 DEF Tag, HasTag, At, Piece, UpgradeType, ImageType
<1> QED  BY <1>2 DEF Intact, Placed, At

\* The flag "1" is written again only after the last piece of partition 1.
LEMMA FlagStep == UpgradeInv /\ [Next]_vars => FlagInv'
<1> SUFFICES ASSUME UpgradeInv, [Next]_vars PROVE FlagInv'
    OBVIOUS
<1> USE LayoutAssumption, ImageAssumption, Layout DEF UpgradeInv, UpgradeType, FlagInv,
       FlagTellsTorn, imgVars, Body, Tags, Done
<1>1. CASE FlagProgram
    <2>1. CASE pc = "flag3w"
        BY <1>1, <2>1 DEF FlagProgram, AfterFlag
    <2>2. CASE pc = "flag1w"
        <3>2. \A k \in 0..(len[img] - 1) : Placed(k)'
            <4> TAKE k \in 0..(len[img] - 1)
            <4>1. First + k \in Sector
                BY <2>2 DEF RangeInv, Upgrading, ImageType, Sector
            <4> QED  BY <1>1, <2>2, <4>1 DEF FlagProgram, StoreType, PlacedInv, Placed
        <3>3. len' = len /\ img' = img
            BY <1>1 DEF FlagProgram
        <3>4. (Tag(1) = img /\ HasTag(1))'
            <4>1. flash'[First + 0] = Piece(img, 0)
                BY <3>2, <3>3, LengthType DEF Placed
            <4> QED  BY <3>3, <4>1 DEF Tag, HasTag, At, Piece, ImageType
        <3>5. Intact(1)'
            BY <3>2, <3>3, <3>4 DEF Intact, Placed, At
        <3> QED  BY <1>1, <2>2, <3>5 DEF FlagProgram, AfterFlag
    <2> QED  BY <1>1, <2>1, <2>2 DEF FlagProgram
<1>2. CASE FlagFails
    BY <1>2 DEF FlagFails, AfterFlag
<1>3. CASE SoftReset
    BY <1>3, IntactSame DEF SoftReset, Restart
<1>4. CASE Boot
    BY <1>4, IntactSame DEF Boot
<1>5. CASE PowerCut
    BY <1>5, IntactSame DEF PowerCut, Restart
<1>6. CASE \E l \in Lens, s \in BOOLEAN : Begin(l, s)
    <2>1. HasTag(1) => Tag(1) # img + 1 /\ Tag(1) \in Image
        BY LengthType DEF TagInv, HasTag, Tag, Image
    <2>2. HasTag(1) => len'[Tag(1)] = len[Tag(1)]
        BY <1>6, <2>1 DEF Begin, ImageType
    <2> QED  BY <1>6, <2>2, IntactSame DEF Begin
<1>7. CASE UNCHANGED vars
    BY <1>7, IntactSame DEF vars
<1>8. CASE FlagErase
    BY <1>8 DEF FlagErase
<1>9. CASE SectorErase
    BY <1>9 DEF SectorErase, MaySet, Last
<1>10. CASE SectorProgram
    BY <1>10 DEF SectorProgram, Last
<1>11. CASE SectorFails
    BY <1>11 DEF SectorFails
<1>12. CASE TagErase
    BY <1>12 DEF TagErase
<1>13. CASE TagHead
    BY <1>13 DEF TagHead
<1>14. CASE TagRest
    BY <1>14 DEF TagRest
<1>15. CASE TagFails
    BY <1>15 DEF TagFails
<1>16. CASE NvramErase
    BY <1>16 DEF NvramErase
<1>17. CASE NvramProgram
    BY <1>17 DEF NvramProgram
<1>18. CASE NvramFails
    BY <1>18 DEF NvramFails
<1>19. CASE VerifyFails
    <2>1. Intact(1)' <=> Intact(1)
        BY <1>19, IntactSame DEF VerifyFails
    <2> QED  BY <1>19, <2>1 DEF VerifyFails, OnVariable
<1>20. CASE Woken
    <2>1. CASE pc = "tagr"
        BY <1>20, <2>1 DEF Woken, OnVariable
    <2>2. CASE pc # "tagr"
        <3>1. Intact(1)' <=> Intact(1)
            BY <1>20, <2>2, IntactSame DEF Woken
        <3> QED  BY <1>20, <2>2, <3>1 DEF Woken, OnVariable
    <2> QED  BY <2>1, <2>2
<1> QED  BY <1>1, <1>2, <1>3, <1>4, <1>5, <1>6, <1>7, <1>8, <1>9, <1>10, <1>11, <1>12,
       <1>13, <1>14, <1>15, <1>16, <1>17, <1>18, <1>19, <1>20 DEF Next, Step

\* The invariant is inductive.
LEMMA UpgradeStep == UpgradeInv /\ [Next]_vars => UpgradeInv'
BY StoreStep, ImageStep, PlaceStep, RangeStep, PlacedStep, TagStep, LineStep, FlagStep
   DEF UpgradeInv, UpgradeType

\* The invariant holds in every state of the upgrade.
LEMMA UpgradeInductive == Spec => []UpgradeInv
BY UpgradeInit, UpgradeStep, PTL DEF Spec

-----------------------------------------------------------------------------
\* An upgrade that ends with the reset of board_ioctl, no result being ignored, has
\* left a complete image that getBootImageTag chooses: for every layout, images of
\* any length, any number of upgrades cut off before, and both bootlines.
THEOREM ResetBootsNewImage == Spec => []UpgradeBoots
<1>1. UpgradeInv => UpgradeBoots
    <2> SUFFICES ASSUME UpgradeInv, pc = "reset", ~ignored
                 PROVE  BootPartition = 1 /\ Tag(1) = img /\ Intact(1)
        BY DEF UpgradeBoots
    <2>1. Intact(1) /\ Tag(1) = img /\ HasTag(1)
        BY PlacedIntact DEF UpgradeInv, PlacedInv
    <2>2. boot = "latest"
        BY DEF UpgradeInv, LineInv
    <2>3. HasTag(2) => seq[Tag(2)] < seq[Tag(1)]
        BY <2>1 DEF UpgradeInv, TagInv
    <2>4. HasTag(2) => seq[Tag(2)] \in Nat /\ seq[Tag(1)] \in Nat
        BY <2>1 DEF HasTag, Tag, UpgradeInv, UpgradeType, ImageType
    <2> QED  BY <2>1, <2>2, <2>3, <2>4 DEF BootPartition
<1> QED  BY <1>1, UpgradeInductive, PTL

\* The flag "1" in VARIABLE vouches for a complete image in partition 1 through every
\* power cut and every failure flashFsKernelImage notices.
THEOREM FlagVouches == Spec => []FlagTellsTorn
<1>1. UpgradeInv => FlagTellsTorn
    BY DEF UpgradeInv, FlagInv
<1> QED  BY <1>1, UpgradeInductive, PTL

\* kerSysBcmImageSet and kerSysVariableSet touch no sector but the image's own and
\* VARIABLE's, whatever the length of the image and wherever partition 2 and the
\* scratch pad lie.
THEOREM OthersSpared == Spec => ElsewhereKept
<1>1. UpgradeInv /\ [Next]_vars =>
          [\A s \in Sector \ {VaSect} :
              flash'[s] # flash[s] => s \in First..(First + len[img] - 1)]_vars
    <2> SUFFICES ASSUME UpgradeInv, Next, NEW s \in Sector \ {VaSect}, flash'[s] # flash[s]
                 PROVE  s \in First..(First + len[img] - 1)
        OBVIOUS
    <2>1. flash \in [Sector -> Cell]
        BY DEF UpgradeInv, UpgradeType, StoreType
    <2>2. \/ SectorErase \/ SectorProgram
          \/ TagErase \/ TagHead \/ TagRest \/ TagFails \/ Woken
        BY <2>1 DEF Next, Step, VerifyFails, FlagErase, FlagProgram, FlagFails, SectorFails, NvramErase,
           NvramProgram, NvramFails, SoftReset, PowerCut, Restart, Boot, Begin
    <2>3. CASE SectorErase \/ SectorProgram
        <3>1. s = pos
            BY <2>1, <2>3 DEF SectorErase, SectorProgram
        <3> QED  BY <2>3, <3>1, Layout, LengthType DEF SectorErase, SectorProgram,
                    UpgradeInv, RangeInv, Body, Sector
    <2>4. CASE TagErase \/ TagHead \/ TagRest \/ TagFails \/ Woken
        <3>1. s = First
            BY <2>1, <2>4 DEF TagErase, TagHead, TagRest, TagFails, Woken
        <3> QED  BY <3>1, Layout, LengthType DEF UpgradeInv
    <2> QED  BY <2>2, <2>3, <2>4
<1> QED  BY <1>1, UpgradeInductive, PTL DEF Spec, ElsewhereKept
=============================================================================
