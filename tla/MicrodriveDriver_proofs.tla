----------------------- MODULE MicrodriveDriver_proofs -----------------------
(***************************************************************************)
(* Proofs about the Microdrive controller alone, with any processor and    *)
(* any user (Spec), and then about the driver of the ROM with it           *)
(* (DriverSpec), for every layout of the tape, every number of drives and  *)
(* every set of cartridges.                                                *)
(***************************************************************************)
EXTENDS MicrodriveDriver, SequenceTheorems, TLAPS

----------------------------------------------------------------------------
(* Lemmas about the operators.                                             *)

\* The image under the head is an image: of one of the drives.
LEMMA ImageUnderHeadType ==
    ASSUME TypeOK, ImageUnderHead # NoImage
    PROVE  /\ activeMicrodrive \in Drives
           /\ ImageUnderHead = microdrives[activeMicrodrive]
           /\ ImageUnderHead \in Image
BY ControllerAssumption DEF TypeOK, ImageUnderHead, Drives

\* The sector that follows is in the file, and on the tape under the head.
LEMMA NextSectorOnTape ==
    ASSUME TypeOK
    PROVE  /\ NextSector \in Sectors
           /\ ImageUnderHead # NoImage => NextSector < ImageUnderHead.physicalSectorCount
<1> DEFINE n == IF ImageUnderHead = NoImage THEN SectorCount
                ELSE ImageUnderHead.physicalSectorCount
<1>1. n \in 1 .. SectorCount
  <2>1. CASE ImageUnderHead = NoImage
    BY <2>1, LayoutAssumption
  <2>2. CASE ImageUnderHead # NoImage
    BY <2>2, ImageUnderHeadType DEF Image
  <2> QED BY <2>1, <2>2
<1>2. (sector + 1) % n \in 0 .. n - 1
  BY <1>1, LayoutAssumption DEF TypeOK, StreamTypes, Sectors
<1>3. NextSector = (sector + 1) % n
  BY DEF NextSector
<1> QED BY <1>1, <1>2, <1>3, LayoutAssumption DEF Sectors

\* Writing a byte and saving make images of images.
LEMMA ImageOperatorTypes ==
    ASSUME NEW image \in Image, NEW s \in Sectors
    PROVE  WritePhysicalByte(image, s) \in Image /\ MarkClean(image) \in Image
<1>1. WritePhysicalByte(image, s) \in Image
  BY DEF WritePhysicalByte, Image
<1>2. MarkClean(image) \in Image
  BY DEF MarkClean, Image
<1> QED BY <1>1, <1>2

LEMMA NewImagesAreImages == NewImages \subseteq Image
<1> SUFFICES ASSUME NEW image \in NewImages PROVE image \in Image
  OBVIOUS
<1>1. PICK c \in 1 .. SectorCount, s \in Sectors \cup {NoSplice}, p \in BOOLEAN :
         image = NewImage(c, s, p)
  BY DEF NewImages
<1>2. FALSE \in BOOLEAN /\ {} \in SUBSET Sectors
  OBVIOUS
<1> QED BY <1>1, <1>2, Zenon DEF NewImage, Image

----------------------------------------------------------------------------
(* Type correctness.                                                       *)

LEMMA ResetStreamTypes ==
    ASSUME ResetMicrodriveStream
    PROVE  /\ StreamTypes'
           /\ writing' \in BOOLEAN
           /\ advanceSectorPending' \in BOOLEAN
<1>1. StreamTypes'
  BY LayoutAssumption, ControllerAssumption DEF ResetMicrodriveStream, StreamTypes, Sectors
<1>2. writing' \in BOOLEAN /\ advanceSectorPending' \in BOOLEAN
  BY DEF ResetMicrodriveStream
<1> QED BY <1>1, <1>2

\* Inserting an image, or taking one out, keeps the types.
LEMMA MountTypes ==
    ASSUME TypeOK, NEW slot \in Drives, NEW image \in Image \cup {NoImage},
           MountMicrodrive(slot, image)
    PROVE  TypeOK'
<1>1. (microdrives \in [Drives -> Image \cup {NoImage}])'
  BY DEF TypeOK, MountMicrodrive
<1>2. /\ StreamTypes'
      /\ writing' \in BOOLEAN
      /\ advanceSectorPending' \in BOOLEAN
  <2>1. CASE ResetMicrodriveStream
    BY <2>1, ResetStreamTypes
  <2>2. CASE UNCHANGED tape
    BY <2>2 DEF TypeOK, StreamTypes, tape, position
  <2> QED BY <2>1, <2>2 DEF MountMicrodrive
<1> QED BY <1>1, <1>2 DEF TypeOK, MountMicrodrive

LEMMA PollTypes ==
    ASSUME TypeOK, ReadSharedStatus
    PROVE  TypeOK'
<1>1. CASE PollGap
  <2>1. StreamTypes'
    BY <1>1, NextSectorOnTape, LayoutAssumption, ControllerAssumption
       DEF PollGap, TypeOK, StreamTypes, HeaderStart, RecordStart
  <2>2. advanceSectorPending' \in BOOLEAN
    BY <1>1 DEF PollGap, TypeOK
  <2> QED BY <2>1, <2>2 DEF TypeOK, ReadSharedStatus
<1>2. CASE PollReady
  <2>1. StreamTypes'
    BY <1>2, ControllerAssumption DEF PollReady, TypeOK, StreamTypes
  <2>2. advanceSectorPending' \in BOOLEAN
    BY <1>2 DEF PollReady, TypeOK
  <2> QED BY <2>1, <2>2 DEF TypeOK, ReadSharedStatus
<1>3. CASE PollIdle
  BY <1>3 DEF TypeOK, StreamTypes, ReadSharedStatus, PollIdle, position
<1> QED BY <1>1, <1>2, <1>3 DEF ReadSharedStatus

LEMMA ControlTypes ==
    ASSUME TypeOK, NEW control \in ControlValues, WriteMicrodriveControl(control)
    PROVE  TypeOK'
<1>1. microdriveControl' \in -1 .. 15
  BY ControllerAssumption DEF WriteMicrodriveControl
<1>2. activeMicrodrive' \in 0 .. DriveCount
  BY ControllerAssumption
     DEF WriteMicrodriveControl, ClockChain, SelectMicrodrive, NextInChain, MoveTape, TypeOK
<1>3. /\ StreamTypes'
      /\ writing' \in BOOLEAN
      /\ advanceSectorPending' \in BOOLEAN
  <2>1. CASE ClockChain(control)
    BY <2>1, ResetStreamTypes DEF ClockChain, SelectMicrodrive
  <2>2. CASE MoveTape(control)
    <3>1. StreamTypes'
      BY <2>2, NextSectorOnTape, ControllerAssumption DEF MoveTape, TypeOK, StreamTypes
    <3>2. writing' \in BOOLEAN /\ advanceSectorPending' \in BOOLEAN
      BY <2>2 DEF MoveTape, WritingAfter, TypeOK
    <3> QED BY <3>1, <3>2
  <2> QED BY <2>1, <2>2 DEF WriteMicrodriveControl
<1> QED BY <1>1, <1>2, <1>3 DEF TypeOK, WriteMicrodriveControl

LEMMA InitTypes == Init => TypeOK
<1> SUFFICES ASSUME Init PROVE TypeOK
  OBVIOUS
<1>1. microdrives \in [Drives -> Image \cup {NoImage}]
  BY DEF Init
<1>2. StreamTypes
  BY LayoutAssumption, ControllerAssumption DEF Init, StreamIsReset, StreamTypes, Sectors
<1>3. activeMicrodrive \in 0 .. DriveCount /\ microdriveControl \in -1 .. 15
  BY ControllerAssumption DEF Init
<1>4. microdriveMode \in BOOLEAN /\ writing \in BOOLEAN /\ advanceSectorPending \in BOOLEAN
  BY DEF Init, StreamIsReset
<1> QED BY <1>1, <1>2, <1>3, <1>4 DEF TypeOK

LEMMA NextTypes == TypeOK /\ [Next]_vars => TypeOK'
<1> SUFFICES ASSUME TypeOK, [Next]_vars PROVE TypeOK'
  OBVIOUS
<1>1. ASSUME NEW mode \in BOOLEAN, WriteTransmitControl(mode) PROVE TypeOK'
  BY <1>1 DEF WriteTransmitControl, TypeOK, StreamTypes, tape, position
<1>2. ASSUME NEW control \in ControlValues, WriteMicrodriveControl(control) PROVE TypeOK'
  BY <1>2, ControlTypes
<1>3. CASE ReadSharedStatus
  BY <1>3, PollTypes
<1>4. CASE ReadMicrodriveData
  <2>1. dataOffset' \in Nat /\ physicalOffset' \in Nat
    BY <1>4 DEF ReadMicrodriveData, TypeOK, StreamTypes
  <2> QED BY <1>4, <2>1 DEF ReadMicrodriveData, TypeOK, StreamTypes
<1>5. CASE WriteMicrodriveData
  <2>1. physicalOffset' \in Nat
    BY <1>5 DEF WriteMicrodriveData, TypeOK, StreamTypes
  <2>2. (microdrives \in [Drives -> Image \cup {NoImage}])'
    <3>1. CASE UNCHANGED microdrives
      BY <3>1 DEF TypeOK
    <3>2. CASE /\ ImageUnderHead # NoImage
               /\ microdrives' = [microdrives EXCEPT
                                    ![activeMicrodrive] = WritePhysicalByte(@, sector)]
      <4>1. WritePhysicalByte(microdrives[activeMicrodrive], sector) \in Image
        BY <3>2, ImageUnderHeadType, ImageOperatorTypes DEF TypeOK, StreamTypes
      <4> QED BY <3>2, <4>1 DEF TypeOK
    <3> QED BY <1>5, <3>1, <3>2 DEF WriteMicrodriveData
  <2> QED BY <1>5, <2>1, <2>2 DEF WriteMicrodriveData, TypeOK, StreamTypes
<1>6. ASSUME NEW slot \in Drives, NEW image \in Cartridges, MountMicrodrive(slot, image)
      PROVE  TypeOK'
  BY <1>6, MountTypes, NewImagesAreImages, ControllerAssumption
<1>7. ASSUME NEW slot \in Drives, UnmountMicrodrive(slot) PROVE TypeOK'
  BY <1>7, MountTypes DEF UnmountMicrodrive
<1>8. ASSUME NEW slot \in Drives, SaveMicrodrive(slot) PROVE TypeOK'
  <2>1. MarkClean(microdrives[slot]) \in Image
    BY <1>8, ImageOperatorTypes, LayoutAssumption DEF SaveMicrodrive, TypeOK, StreamTypes
  <2>2. (microdrives \in [Drives -> Image \cup {NoImage}])'
    BY <1>8, <2>1 DEF SaveMicrodrive, TypeOK
  <2> QED BY <1>8, <2>2 DEF SaveMicrodrive, TypeOK, StreamTypes, tape, position
<1>9. CASE Reset
  <2>1. activeMicrodrive' \in 0 .. DriveCount /\ microdriveControl' \in -1 .. 15
    BY <1>9, ControllerAssumption DEF Reset
  <2> QED BY <1>9, <2>1, ResetStreamTypes DEF Reset, TypeOK
<1>10. CASE UNCHANGED vars
  BY <1>10 DEF vars, tape, position, TypeOK, StreamTypes
<1> QED
  BY <1>1, <1>2, <1>3, <1>4, <1>5, <1>6, <1>7, <1>8, <1>9, <1>10 DEF Next, Processor, User

\* The state of the controller is always of the types TypeOK gives it.
THEOREM TypeCorrect == Spec => []TypeOK
BY InitTypes, NextTypes, PTL DEF Spec

----------------------------------------------------------------------------
(* The counters.                                                           *)

LEMMA CountersStep == TypeOK /\ CountersBounded /\ [Next]_vars => CountersBounded'
<1> SUFFICES ASSUME TypeOK, CountersBounded, [Next]_vars PROVE CountersBounded'
  OBVIOUS
<1> USE LayoutAssumption, ControllerAssumption
        DEF TypeOK, StreamTypes, CountersBounded, InGap, RegionSize, ReadyPollLimit, SectorSize
<1>1. CASE ResetMicrodriveStream
  BY <1>1 DEF ResetMicrodriveStream
<1>2. CASE UNCHANGED position
  BY <1>2 DEF position
<1>3. CASE PollGap
  BY <1>3 DEF PollGap, HeaderStart, RecordStart
<1>4. CASE PollReady
  BY <1>4 DEF PollReady
<1>5. CASE ReadMicrodriveData
  BY <1>5 DEF ReadMicrodriveData, ByteAvailable
<1>6. CASE WriteMicrodriveData
  BY <1>6 DEF WriteMicrodriveData
<1>7. ASSUME NEW control \in ControlValues, MoveTape(control) PROVE CountersBounded'
  BY <1>7 DEF MoveTape, SkipPll
<1> QED
  BY <1>1, <1>2, <1>3, <1>4, <1>5, <1>6, <1>7
     DEF Next, Processor, User, vars, tape, WriteTransmitControl, WriteMicrodriveControl,
         ClockChain, SelectMicrodrive, ReadSharedStatus, PollIdle, MountMicrodrive,
         UnmountMicrodrive, SaveMicrodrive, Reset

LEMMA InitCounters == Init => CountersBounded
BY LayoutAssumption, ControllerAssumption
   DEF Init, StreamIsReset, CountersBounded, InGap, RegionSize, SectorSize

\* The counters and the offsets stay within their bounds: no access to the
\* image is made outside its sector, whatever the processor reads and writes.
LEMMA CountersCorrect == Spec => []CountersBounded
BY TypeCorrect, InitCounters, CountersStep, PTL DEF Spec

----------------------------------------------------------------------------
(* A sector is left at the start of the gap.                               *)

LEMMA PendingStep ==
    TypeOK /\ CountersBounded /\ PendingAtGapStart /\ [Next]_vars => PendingAtGapStart'
<1> SUFFICES ASSUME TypeOK, CountersBounded, PendingAtGapStart, [Next]_vars
             PROVE  PendingAtGapStart'
  OBVIOUS
<1> USE DEF TypeOK, StreamTypes, PendingAtGapStart, InGap
<1>1. CASE ResetMicrodriveStream
  BY <1>1 DEF ResetMicrodriveStream
<1>2. CASE UNCHANGED position
  BY <1>2 DEF position
<1>3. CASE PollGap
  BY <1>3 DEF PollGap, LeavesSector
<1>4. CASE PollReady
  BY <1>4 DEF PollReady
<1>5. CASE ReadMicrodriveData \/ WriteMicrodriveData
  BY <1>5 DEF ReadMicrodriveData, WriteMicrodriveData
<1>6. ASSUME NEW control \in ControlValues, MoveTape(control) PROVE PendingAtGapStart'
  BY <1>6 DEF MoveTape
<1> QED
  BY <1>1, <1>2, <1>3, <1>4, <1>5, <1>6
     DEF Next, Processor, User, vars, tape, WriteTransmitControl, WriteMicrodriveControl,
         ClockChain, SelectMicrodrive, ReadSharedStatus, PollIdle, MountMicrodrive,
         UnmountMicrodrive, SaveMicrodrive, Reset

LEMMA InitPending == Init => PendingAtGapStart
BY DEF Init, StreamIsReset, PendingAtGapStart

\* The sector that has passed is left at the first poll of the gap after it.
LEMMA PendingCorrect == Spec => []PendingAtGapStart
BY TypeCorrect, CountersCorrect, InitPending, PendingStep, PTL DEF Spec

----------------------------------------------------------------------------
(* What stands under the head, and how an action can change it.            *)

\* Inserting or taking out a cartridge resets the stream or leaves both the
\* tape and the image under the head as they were.
LEMMA MountUnderHead ==
    ASSUME TypeOK, NEW slot \in Drives, NEW image, MountMicrodrive(slot, image)
    PROVE  \/ ResetMicrodriveStream
           \/ UNCHANGED tape /\ ImageUnderHead' = ImageUnderHead
<1>1. CASE activeMicrodrive = slot
  BY <1>1 DEF MountMicrodrive
<1>2. CASE activeMicrodrive # slot
  BY <1>2 DEF MountMicrodrive, ImageUnderHead, TypeOK
<1> QED BY <1>1, <1>2

\* The other actions keep the image under the head an image of that length,
\* or reset the stream.
TapeKept ==
    /\ ImageUnderHead' = NoImage <=> ImageUnderHead = NoImage
    /\ ImageUnderHead # NoImage =>
          ImageUnderHead'.physicalSectorCount = ImageUnderHead.physicalSectorCount

LEMMA OperatorsKeepCount ==
    ASSUME NEW image \in Image, NEW s
    PROVE  /\ WritePhysicalByte(image, s).physicalSectorCount = image.physicalSectorCount
           /\ MarkClean(image).physicalSectorCount = image.physicalSectorCount
BY DEF WritePhysicalByte, MarkClean, Image

LEMMA SaveKeepsTape ==
    ASSUME TypeOK, NEW slot \in Drives, SaveMicrodrive(slot)
    PROVE  TapeKept /\ UNCHANGED tape
<1>1. UNCHANGED <<tape, activeMicrodrive>>
  BY DEF SaveMicrodrive
<1>2. CASE activeMicrodrive # slot
  BY <1>1, <1>2 DEF SaveMicrodrive, TapeKept, ImageUnderHead, TypeOK
<1>3. CASE activeMicrodrive = slot
  <2>1. ImageUnderHead = microdrives[slot] /\ ImageUnderHead # NoImage
    BY <1>3, ControllerAssumption DEF SaveMicrodrive, ImageUnderHead, Drives
  <2>2. ImageUnderHead' = MarkClean(ImageUnderHead)
    BY <1>1, <1>3, <2>1, ControllerAssumption DEF SaveMicrodrive, ImageUnderHead, TypeOK, Drives
  <2>3. ImageUnderHead' \in Image
    BY <2>1, <2>2, ImageUnderHeadType, ImageOperatorTypes, LayoutAssumption DEF TypeOK, StreamTypes
  <2> QED BY <2>1, <2>2, <2>3, <1>1, ImageUnderHeadType, OperatorsKeepCount, NoImageAssumption
          DEF TapeKept
<1> QED BY <1>1, <1>2, <1>3

LEMMA WriteKeepsTape ==
    ASSUME TypeOK, WriteMicrodriveData
    PROVE  /\ TapeKept
           /\ UNCHANGED <<phase, gapPolls, readyPolls, streamRegion, dataOffset,
                          sector, advanceSectorPending>>
           /\ ImageUnderHead = NoImage => UNCHANGED physicalOffset
<1>1. CASE UNCHANGED <<microdrives, physicalOffset>>
  BY <1>1 DEF WriteMicrodriveData, TapeKept, ImageUnderHead
<1>2. CASE /\ ImageUnderHead # NoImage
           /\ microdrives' = [microdrives EXCEPT
                                ![activeMicrodrive] = WritePhysicalByte(@, sector)]
  <2>1. ImageUnderHead' = WritePhysicalByte(ImageUnderHead, sector)
    BY <1>2, ImageUnderHeadType, ControllerAssumption
       DEF WriteMicrodriveData, ImageUnderHead, TypeOK, Drives
  <2>2. ImageUnderHead' \in Image
    BY <1>2, <2>1, ImageUnderHeadType, ImageOperatorTypes DEF TypeOK, StreamTypes
  <2> QED BY <1>2, <2>1, <2>2, ImageUnderHeadType, OperatorsKeepCount, NoImageAssumption
          DEF TapeKept, WriteMicrodriveData
<1> QED BY <1>1, <1>2 DEF WriteMicrodriveData

\* What a step can do to the tape: reset the stream, or move a tape that
\* stays in its drive in one of the ways the code moves it.
LEMMA StepKinds ==
    ASSUME TypeOK, [Next]_vars
    PROVE  \/ ResetMicrodriveStream
           \/ /\ TapeKept
              /\ \/ UNCHANGED position
                 \/ PollGap
                 \/ PollReady
                 \/ ReadMicrodriveData
                 \/ WriteMicrodriveData
                 \/ \E control \in ControlValues : MoveTape(control)
<1>1. ASSUME UNCHANGED <<microdrives, activeMicrodrive>> PROVE TapeKept
  BY <1>1 DEF TapeKept, ImageUnderHead
<1>2. CASE \E mode \in BOOLEAN : WriteTransmitControl(mode)
  BY <1>1, <1>2 DEF WriteTransmitControl, tape
<1>3. ASSUME NEW control \in ControlValues, WriteMicrodriveControl(control)
      PROVE  ResetMicrodriveStream \/ (TapeKept /\ MoveTape(control))
  BY <1>1, <1>3 DEF WriteMicrodriveControl, ClockChain, SelectMicrodrive, MoveTape
<1>4. CASE ReadSharedStatus
  BY <1>1, <1>4 DEF ReadSharedStatus, PollIdle
<1>5. CASE ReadMicrodriveData
  BY <1>1, <1>5 DEF ReadMicrodriveData
<1>6. CASE WriteMicrodriveData
  BY <1>6, WriteKeepsTape
<1>7. ASSUME NEW slot \in Drives, NEW image, MountMicrodrive(slot, image)
      PROVE  ResetMicrodriveStream \/ (TapeKept /\ UNCHANGED position)
  BY <1>7, MountUnderHead DEF TapeKept, tape
<1>8. CASE \E slot \in Drives : SaveMicrodrive(slot)
  BY <1>8, SaveKeepsTape DEF tape
<1>9. CASE Reset
  BY <1>9 DEF Reset
<1>10. CASE UNCHANGED vars
  BY <1>1, <1>10 DEF vars, tape
<1> QED
  BY <1>2, <1>3, <1>4, <1>5, <1>6, <1>7, <1>8, <1>9, <1>10
     DEF Next, Processor, User, UnmountMicrodrive

----------------------------------------------------------------------------
(* A drive without a tape, and the end of the tape.                        *)

LEMMA MotionStep ==
    TypeOK /\ NoMotionWithoutTape /\ [Next]_vars => NoMotionWithoutTape'
<1> SUFFICES ASSUME TypeOK, NoMotionWithoutTape, [Next]_vars PROVE NoMotionWithoutTape'
  OBVIOUS
<1>1. CASE ResetMicrodriveStream
  BY <1>1 DEF ResetMicrodriveStream, NoMotionWithoutTape, StreamIsReset
<1>2. CASE TapeKept /\ UNCHANGED position
  BY <1>2 DEF TapeKept, position, NoMotionWithoutTape, StreamIsReset
<1>3. CASE TapeKept /\ (PollGap \/ PollReady)
  BY <1>3 DEF TapeKept, PollGap, PollReady, Sensing, NoMotionWithoutTape
<1>4. CASE TapeKept /\ ReadMicrodriveData
  BY <1>4 DEF TapeKept, ReadMicrodriveData, ByteAvailable, NoMotionWithoutTape, StreamIsReset
<1>5. CASE TapeKept /\ WriteMicrodriveData
  BY <1>5, WriteKeepsTape DEF TapeKept, NoMotionWithoutTape, StreamIsReset
<1>6. ASSUME NEW control \in ControlValues, TapeKept, MoveTape(control)
      PROVE  NoMotionWithoutTape'
  <2>1. StreamIsReset => ~SkipPll(control) /\ ~EndsSector(control)
    BY ControllerAssumption DEF StreamIsReset, SkipPll, EndsSector
  <2> QED BY <1>6, <2>1 DEF TapeKept, MoveTape, NoMotionWithoutTape, StreamIsReset
<1> QED BY <1>1, <1>2, <1>3, <1>4, <1>5, <1>6, StepKinds

LEMMA InitMotion == Init => NoMotionWithoutTape
BY DEF Init, NoMotionWithoutTape

\* A drive without a tape moves nothing: the next cartridge starts anew.
LEMMA MotionCorrect == Spec => []NoMotionWithoutTape
BY TypeCorrect, InitMotion, MotionStep, PTL DEF Spec

LEMMA HeadStep == TypeOK /\ HeadOnTape /\ [Next]_vars => HeadOnTape'
<1> SUFFICES ASSUME TypeOK, HeadOnTape, [Next]_vars PROVE HeadOnTape'
  OBVIOUS
<1>0. TypeOK'
  BY NextTypes
<1>1. CASE ResetMicrodriveStream
  <2>1. ImageUnderHead' # NoImage => ImageUnderHead' \in Image
    BY <1>0, ControllerAssumption DEF TypeOK, ImageUnderHead, Drives
  <2> QED BY <1>1, <2>1 DEF ResetMicrodriveStream, HeadOnTape, Image
<1>2. CASE TapeKept /\ UNCHANGED sector
  BY <1>2 DEF TapeKept, HeadOnTape
<1>3. CASE TapeKept /\ sector' = NextSector
  BY <1>3, NextSectorOnTape DEF TapeKept, HeadOnTape
<1>4. TapeKept => UNCHANGED sector \/ sector' = NextSector \/ ResetMicrodriveStream
  BY StepKinds DEF position, PollGap, PollReady, ReadMicrodriveData, WriteMicrodriveData,
                   MoveTape
<1> QED BY <1>1, <1>2, <1>3, <1>4, StepKinds

LEMMA InitHead == Init => HeadOnTape
BY DEF Init, HeadOnTape, ImageUnderHead

\* The head never leaves the physical path of the cartridge under it.
LEMMA HeadCorrect == Spec => []HeadOnTape
BY TypeCorrect, InitHead, HeadStep, PTL DEF Spec

\* The stream is sound whatever the processor and the user do.
THEOREM StreamCorrect == Spec => []StreamIsSound
<1>1. CountersBounded /\ PendingAtGapStart /\ NoMotionWithoutTape /\ HeadOnTape => StreamIsSound
  BY DEF StreamIsSound
<1> QED BY <1>1, CountersCorrect, PendingCorrect, MotionCorrect, HeadCorrect, PTL

----------------------------------------------------------------------------
(* The media.                                                              *)

\* What MediaIntegrity asks of one image.
Intact(image) ==
    /\ image.writeProtected => ~image.dirty
    /\ image.modified # {} => image.dirty
    /\ image.modified \subseteq (0 .. image.physicalSectorCount - 1)
                                  \ {image.spliceSector}

LEMMA MediaIntegrityIntact ==
    MediaIntegrity <=> \A slot \in Drives :
                         microdrives[slot] # NoImage => Intact(microdrives[slot])
BY DEF MediaIntegrity, Intact

LEMMA NewImagesIntact == \A image \in NewImages : Intact(image)
<1> SUFFICES ASSUME NEW image \in NewImages PROVE Intact(image)
  OBVIOUS
<1>1. PICK c \in 1 .. SectorCount, s \in Sectors \cup {NoSplice}, p \in BOOLEAN :
         image = NewImage(c, s, p)
  BY DEF NewImages
<1> QED BY <1>1 DEF NewImage, Intact

LEMMA OperatorsKeepIntact ==
    ASSUME NEW image \in Image, Intact(image),
           NEW s \in Sectors, s < image.physicalSectorCount
    PROVE  Intact(WritePhysicalByte(image, s)) /\ Intact(MarkClean(image))
<1>1. Intact(WritePhysicalByte(image, s))
  <2>1. CASE image.writeProtected
    BY <2>1 DEF WritePhysicalByte
  <2>2. CASE ~image.writeProtected
    BY <2>2, LayoutAssumption DEF WritePhysicalByte, Intact, Image, Sectors
  <2> QED BY <2>1, <2>2
<1>2. Intact(MarkClean(image))
  BY DEF MarkClean, Intact, Image
<1> QED BY <1>1, <1>2

LEMMA MediaStep ==
    TypeOK /\ HeadOnTape /\ MediaIntegrity /\ [Next]_vars => MediaIntegrity'
<1> SUFFICES ASSUME TypeOK, HeadOnTape, MediaIntegrity, [Next]_vars,
                    NEW slot \in Drives, microdrives'[slot] # NoImage
             PROVE  Intact(microdrives'[slot])
  BY DEF MediaIntegrity, Intact
<1>0. microdrives[slot] # NoImage => Intact(microdrives[slot])
  BY MediaIntegrityIntact
<1>1. CASE microdrives'[slot] = microdrives[slot]
  BY <1>0, <1>1
<1>2. CASE WriteMicrodriveData
  <2>1. CASE UNCHANGED microdrives
    BY <1>1, <2>1
  <2>2. CASE /\ ImageUnderHead # NoImage
             /\ microdrives' = [microdrives EXCEPT
                                  ![activeMicrodrive] = WritePhysicalByte(@, sector)]
    <3>1. CASE slot = activeMicrodrive
      <4>1. /\ microdrives'[slot] = WritePhysicalByte(microdrives[slot], sector)
            /\ microdrives[slot] \in Image
            /\ sector \in Sectors
            /\ sector < microdrives[slot].physicalSectorCount
        BY <2>2, <3>1, ImageUnderHeadType DEF TypeOK, StreamTypes, HeadOnTape
      <4> QED BY <1>0, <4>1, OperatorsKeepIntact, NoImageAssumption
    <3>2. CASE slot # activeMicrodrive
      BY <1>1, <2>2, <3>2 DEF TypeOK
    <3> QED BY <3>1, <3>2
  <2> QED BY <1>2, <2>1, <2>2 DEF WriteMicrodriveData
<1>3. ASSUME NEW d \in Drives, NEW image \in Cartridges \cup {NoImage},
             MountMicrodrive(d, image)
      PROVE  Intact(microdrives'[slot])
  <2>1. CASE d = slot
    BY <1>3, <2>1, NewImagesIntact, ControllerAssumption DEF MountMicrodrive, TypeOK
  <2>2. CASE d # slot
    BY <1>1, <1>3, <2>2 DEF MountMicrodrive, TypeOK
  <2> QED BY <2>1, <2>2
<1>4. ASSUME NEW d \in Drives, SaveMicrodrive(d)
      PROVE  Intact(microdrives'[slot])
  <2>1. CASE d = slot
    <3>1. /\ microdrives[slot] \in Image
          /\ microdrives'[slot] = MarkClean(microdrives[slot])
      BY <1>4, <2>1 DEF SaveMicrodrive, TypeOK
    <3>2. Intact(MarkClean(microdrives[slot]))
      BY <3>1, LayoutAssumption DEF Intact, MarkClean, Image
    <3> QED BY <3>1, <3>2
  <2>2. CASE d # slot
    BY <1>1, <1>4, <2>2 DEF SaveMicrodrive, TypeOK
  <2> QED BY <2>1, <2>2
<1> QED
  BY <1>1, <1>2, <1>3, <1>4
     DEF Next, Processor, User, vars, WriteTransmitControl, WriteMicrodriveControl,
         ReadSharedStatus, ReadMicrodriveData, UnmountMicrodrive, Reset

LEMMA InitMedia == Init => MediaIntegrity
BY DEF Init, MediaIntegrity

\* Protected cartridges keep their bytes, unsaved bytes are known to be
\* unsaved, and nothing is recorded off the physical path or on its splice.
THEOREM MediaCorrect == Spec => []MediaIntegrity
BY TypeCorrect, HeadCorrect, InitMedia, MediaStep, PTL DEF Spec

----------------------------------------------------------------------------
(* The controller implements Tape.                                         *)

AbsLength == IF ImageUnderHead = NoImage THEN 0 ELSE ImageUnderHead.physicalSectorCount
AbsSector == IF advanceSectorPending THEN NextSector ELSE sector
AbsBlock  == IF phase \in {"header-gap", "header"} THEN "header" ELSE "record"

LEMMA InitImplements == Init => TapeUnderHead!Init
BY DEF Init, StreamIsReset, ImageUnderHead, TapeUnderHead!Init, TapeUnderHead!AtStart

LEMMA StepImplements ==
    TypeOK /\ TypeOK' /\ CountersBounded /\ PendingAtGapStart /\ NoMotionWithoutTape
      /\ [Next]_vars => [TapeUnderHead!Next]_(TapeUnderHead!vars)
<1> SUFFICES ASSUME TypeOK, TypeOK', CountersBounded, PendingAtGapStart,
                    NoMotionWithoutTape, [Next]_vars
             PROVE  TapeUnderHead!Next \/ UNCHANGED TapeUnderHead!vars
  OBVIOUS
<1>1. CASE ResetMicrodriveStream
  <2>1. AbsLength' \in 0 .. SectorCount
    <3>1. ImageUnderHead' # NoImage => ImageUnderHead' \in Image
      BY ControllerAssumption DEF TypeOK, ImageUnderHead, Drives
    <3> QED BY <3>1, LayoutAssumption DEF AbsLength, Image
  <2> QED BY <1>1, <2>1 DEF ResetMicrodriveStream, AbsLength, TapeUnderHead!Next,
                            TapeUnderHead!Rewind
<1>2. ASSUME TapeKept PROVE UNCHANGED AbsLength
  BY <1>2 DEF TapeKept, AbsLength
<1>3. ImageUnderHead # NoImage => NextSector = (sector + 1) % AbsLength /\ AbsLength > 0
  BY ImageUnderHeadType DEF NextSector, AbsLength, Image
<1>4. ASSUME TapeKept, UNCHANGED sector PROVE UNCHANGED NextSector
  BY <1>4 DEF TapeKept, NextSector
<1>5. ASSUME UNCHANGED <<AbsLength, AbsSector, AbsBlock>> PROVE UNCHANGED TapeUnderHead!vars
  BY <1>5 DEF TapeUnderHead!vars, AbsLength, AbsSector, AbsBlock
<1>6. CASE TapeKept /\ UNCHANGED <<phase, sector, advanceSectorPending>>
  BY <1>2, <1>4, <1>5, <1>6 DEF AbsSector, AbsBlock
<1>7. CASE TapeKept /\ PollGap
  <2>1. advanceSectorPending => LeavesSector
    BY DEF PendingAtGapStart, LeavesSector
  <2>2. UNCHANGED AbsSector
    BY <1>4, <1>7, <2>1 DEF PollGap, AbsSector, LeavesSector
  <2>3. UNCHANGED AbsBlock
    BY <1>7 DEF PollGap, AbsBlock, InGap
  <2> QED BY <1>2, <1>5, <1>7, <2>2, <2>3
<1>8. CASE TapeKept /\ PollReady
  <2>1. /\ ImageUnderHead # NoImage
        /\ ~advanceSectorPending
        /\ phase \in {"header", "record"}
        /\ UNCHANGED sector
    BY <1>8 DEF PollReady, Sensing, InGap, PendingAtGapStart, TypeOK, StreamTypes
  <2>2. CASE UNCHANGED phase
    BY <1>6, <1>8, <2>1, <2>2 DEF PollReady
  <2>3. CASE phase = "header" /\ phase' = "record-gap"
    <3>1. AbsSector' = AbsSector /\ AbsBlock = "header" /\ AbsBlock' = "record"
      BY <1>8, <2>1, <2>3 DEF PollReady, AbsSector, AbsBlock
    <3> QED BY <1>2, <1>3, <1>8, <2>1, <3>1
            DEF TapeUnderHead!Next, TapeUnderHead!Pass, AbsLength, AbsSector, AbsBlock
  <2>4. CASE phase = "record" /\ phase' = "header-gap"
    <3>1. AbsSector' = NextSector /\ AbsSector = sector
      BY <1>4, <1>8, <2>1, <2>4 DEF PollReady, AbsSector
    <3>2. AbsBlock = "record" /\ AbsBlock' = "header"
      BY <2>4 DEF AbsBlock
    <3> QED BY <1>2, <1>3, <1>8, <2>1, <3>1, <3>2
            DEF TapeUnderHead!Next, TapeUnderHead!Pass, TapeUnderHead!NextSector,
                AbsLength, AbsSector, AbsBlock
  <2> QED BY <1>8, <2>1, <2>2, <2>3, <2>4 DEF PollReady
<1>9. ASSUME NEW control \in ControlValues, TapeKept, MoveTape(control)
      PROVE  TapeUnderHead!Next \/ UNCHANGED TapeUnderHead!vars
  <2>1. CASE ~EndsSector(control)
    BY <1>6, <1>9, <2>1 DEF MoveTape
  <2>2. CASE EndsSector(control)
    <3>1. ImageUnderHead # NoImage
      BY <2>2, ControllerAssumption DEF NoMotionWithoutTape, StreamIsReset, EndsSector
    <3>2. /\ sector' = NextSector
          /\ advanceSectorPending' = FALSE
          /\ UNCHANGED AbsBlock
      BY <1>9, <2>2 DEF MoveTape, AbsBlock
    <3>3. CASE advanceSectorPending
      BY <1>2, <1>5, <1>9, <3>2, <3>3 DEF AbsSector
    <3>4. CASE ~advanceSectorPending
      BY <1>2, <1>3, <1>9, <3>1, <3>2, <3>4
         DEF TapeUnderHead!Next, TapeUnderHead!Skip, TapeUnderHead!NextSector,
             AbsLength, AbsSector, AbsBlock
    <3> QED BY <3>3, <3>4
  <2> QED BY <2>1, <2>2
<1>10. CASE TapeKept /\ (UNCHANGED position \/ ReadMicrodriveData \/ WriteMicrodriveData)
  BY <1>6, <1>10 DEF position, ReadMicrodriveData, WriteMicrodriveData
<1> QED
  BY <1>1, <1>7, <1>8, <1>9, <1>10, StepKinds

\* Whatever the processor and the user do, the controller turns the tape one
\* block after the other, as Tape specifies.
THEOREM ImplementsTape == Spec => TurnsTape
BY TypeCorrect, CountersCorrect, PendingCorrect, MotionCorrect, InitImplements,
   StepImplements, PTL DEF Spec, TurnsTape, TapeUnderHead!Spec

----------------------------------------------------------------------------
(* The driver: the invariant.                                              *)

\* The drive so many edges further in the chain.
Further(slot, n) == IF slot + n <= DriveCount THEN slot + n ELSE 0

\* While the edges are clocked in, and while they are clocked out.
Selecting ==
    pc = "select" =>
        \E k \in 0 .. wanted - 1 :
            /\ activeMicrodrive = k
            /\ \/ pulses = 2 * k
               \/ pulses = 2 * k + 1 /\ microdriveControl = (IF k = 0 THEN 3 ELSE 2)

Stopping ==
    pc = "stop" =>
        \E k \in 1 .. DriveCount :
            /\ activeMicrodrive = Further(wanted, k - 1)
            /\ \/ pulses = 2 * k /\ k > 1
               \/ pulses = 2 * k + 1 /\ microdriveControl = 2

ChainIsClocked == WantedDriveRuns /\ Selecting /\ Stopping

\* The start of a region of the sector.
Start(region) == IF region = "header" THEN HeaderStart ELSE RecordStart

Reading  == {"take", "poll", "pll", "pll again", "header"}
NoBlanks == \A i \in 1 .. Len(block) : block[i] # Blank

\* The bytes the head has passed when the driver has taken n of the block.
Passed(region, n) ==
    IF region = "record" /\ n >= BlockHeaderSize THEN n + PllPreambleSize ELSE n

\* Where the driver is in the block, and how many bytes have gone past the head.
AtBytes ==
    \/ /\ pc \in {"take", "poll"}
       /\ Len(block) < (IF streamRegion = "header" THEN HeaderSize
                                                   ELSE RecordSize - PllPreambleSize)
       /\ dataOffset = Passed(streamRegion, Len(block))
    \/ /\ pc \in {"pll", "pll again"}
       /\ streamRegion = "record"
       /\ Len(block) = BlockHeaderSize
       /\ \/ dataOffset = Len(block) /\ (pc = "pll again" => microdriveControl = 2)
          \/ dataOffset = Len(block) + PllPreambleSize /\ pc = "pll again"
    \/ /\ pc = "header"
       /\ streamRegion = "header"
       /\ Len(block) = HeaderSize
       /\ dataOffset = HeaderSize

\* The driver follows the head through a block.
Following ==
    /\ ImageUnderHead # NoImage
    /\ streamRegion \in {"header", "record"}
    /\ physicalOffset = Start(streamRegion) + dataOffset
    /\ AtBytes
    /\ NoBlanks
    /\ block # <<>> => /\ block[1] = <<streamRegion, sector, 0>>
                       /\ sector # ImageUnderHead.spliceSector

\* It does, or the cartridge was taken away under it.
InBlock ==
    /\ pc \in Reading => Following \/ (swapped /\ StreamIsReset)
    /\ pc = "take" => NoBlanks
    /\ pc \notin Reading \cup {"ready"} => block = <<>>

\* A block that begins begins with its first byte.
BeforeBlock ==
    pc = "gap" /\ ~InGap =>
        /\ streamRegion = phase
        /\ dataOffset = 0
        /\ physicalOffset = Start(phase)

\* A record is being written behind the header that was read.
Recording ==
    job = "record" /\ ~swapped =>
        /\ ImageUnderHead # NoImage
        /\ sector = target
        /\ left <= RecordBytes
        /\ physicalOffset = HeaderStart + HeaderSize + (RecordBytes - left)
        /\ pc = "write" => writing

Covered(image, n) ==
    ~image.writeProtected =>
        {s \in 0 .. image.physicalSectorCount - 1 : s < n} \ {image.spliceSector}
            \subseteq image.modified

\* The sectors behind the head are written, and so are the bytes of this one.
Formatting ==
    job = "format" /\ ~swapped /\ ImageUnderHead # NoImage =>
        /\ sector = formatted % ImageUnderHead.physicalSectorCount
        /\ left <= SectorBytes
        /\ physicalOffset = SectorBytes - left
        /\ pc = "write" => writing
        /\ Covered(ImageUnderHead, formatted)
        /\ ~ImageUnderHead.writeProtected /\ left < SectorBytes =>
              sector \in ImageUnderHead.modified \cup {ImageUnderHead.spliceSector}

Writing == Recording /\ Formatting

Byte == ({"header", "record"} \X Sectors \X Nat) \cup {Blank}

DriverTypes ==
    /\ pc \in {"off", "select", "selected", "stop", "seek", "gap", "ready", "erase", "write",
               "written"} \cup Reading
    /\ wanted \in Drives
    /\ pulses \in Nat
    /\ block \in Seq(Byte)
    /\ job \in {"none", "record", "format"}
    /\ left \in Nat
    /\ formatted \in Nat
    /\ swapped \in BOOLEAN

\* What else the place of the driver tells.
Places ==
    /\ pc # "off" => microdriveMode
    /\ pc = "selected" => StreamIsReset
    /\ job # "none" => pc \in {"erase", "write"}

IInv ==
    /\ TypeOK
    /\ DriverTypes
    /\ ChainIsClocked
    /\ Places
    /\ BeforeBlock
    /\ InBlock
    /\ BlockIsWhole
    /\ Writing

----------------------------------------------------------------------------
(* The driver is one of the processors of the controller.                  *)

LEMMA EdgeIsNibble == \A n \in Nat : Edge(n) \in {0, 1, 2, 3}
BY DEF Edge

LEMMA StepIsController ==
    ASSUME DriverTypes, [DriverStep]_all
    PROVE  [Next]_vars
<1>1. ASSUME NEW c \in {0, 1, 2, 3, 10, 14}, WriteMicrodriveControl(c)
      PROVE  Next
  BY <1>1, DriverAssumption DEF Next, Processor
<1>2. CASE UNCHANGED all
  BY <1>2 DEF all
<1>3. CASE Chain
  <2>1. CASE \E slot \in Drives : StartDrive(slot)
    BY <2>1 DEF StartDrive, Next, Processor
  <2>2. CASE SelectPulse
    BY <2>2, <1>1, EdgeIsNibble DEF SelectPulse, DriverTypes
  <2> QED BY <1>3, <2>1, <2>2 DEF Chain
<1>4. CASE Read
  <2>1. CASE ReadSharedStatus \/ ReadMicrodriveData
    BY <2>1 DEF Next, Processor
  <2>2. CASE SkipPreamble
    BY <2>2, <1>1 DEF SkipPreamble
  <2> QED BY <1>4, <2>1, <2>2 DEF Read, SeekGap, WaitReady, TakeByte, PollByte
<1>5. CASE StopPulse
  <2>1. PICK n \in Nat : WriteMicrodriveControl(Edge(n))
    BY <1>5 DEF StopPulse, DriverTypes
  <2> QED BY <2>1, <1>1, EdgeIsNibble
<1>6. CASE GiveUp
  BY <1>6 DEF GiveUp
<1>7. CASE Write
  <2>1. CASE WriteByte
    BY <2>1 DEF WriteByte, Next, Processor
  <2>2. CASE WriteRecord \/ Format \/ StartWriting \/ FinishSector \/ StopWriting
    BY <2>2, <1>1 DEF WriteRecord, Format, StartWriting, FinishSector, StopWriting
  <2> QED BY <1>7, <2>1, <2>2 DEF Write
<1>8. CASE Restart \/ \E slot \in Drives : Swap(slot)
  BY <1>8 DEF Restart, Swap, Next, User
<1> QED
  BY <1>2, <1>3, <1>4, <1>5, <1>6, <1>7, <1>8 DEF DriverStep, Work

\* The nibbles that leave the chain alone.
LEMMA ControlMoves ==
    ASSUME NEW c \in {2, 3, 10, 14}, WriteMicrodriveControl(c)
    PROVE  /\ MoveTape(c)
           /\ microdriveControl' = c
           /\ UNCHANGED <<microdrives, microdriveMode, activeMicrodrive, phase, gapPolls,
                          readyPolls, streamRegion, ImageUnderHead>>
BY DEF WriteMicrodriveControl, ClockChain, FirstDrive, NextDrive, MoveTape, ImageUnderHead

----------------------------------------------------------------------------
(* What is out of the question where.                                      *)

LEMMA NoBlockKeeps ==
    ASSUME pc' \notin Reading \cup {"gap"}, block' = <<>>
    PROVE  BeforeBlock' /\ InBlock' /\ BlockIsWhole'
<1>1. BeforeBlock'
  BY DEF BeforeBlock
<1>2. InBlock'
  BY DEF Reading, InBlock
<1>3. Len(block)' = 0
  BY Len(<<>>) = 0
<1>4. BlockIsWhole'
  BY <1>3 DEF BlockIsWhole
<1> QED
  BY <1>1, <1>2, <1>4

LEMMA NoJobKeeps == ASSUME job' = "none" PROVE Writing'
BY DEF Writing, Recording, Formatting

LEMMA SelectedKeeps ==
    ASSUME pc' \notin {"off", "select", "stop"}, activeMicrodrive' = wanted'
    PROVE  ChainIsClocked'
BY DEF ChainIsClocked, WantedDriveRuns, Selecting, Stopping

----------------------------------------------------------------------------
(* The chain.                                                              *)

LEMMA StartDriveKeeps ==
    ASSUME IInv, TypeOK', NEW slot \in Drives, StartDrive(slot)
    PROVE  IInv'
<1>1. /\ pc = "off" /\ pc' = "select" /\ wanted' = slot /\ pulses' = 0
      /\ UNCHANGED <<block, job, target, left, formatted, swapped, activeMicrodrive>>
      /\ microdriveMode' = TRUE
  BY DEF StartDrive, WriteTransmitControl
<1>2. block = <<>> /\ job = "none" /\ activeMicrodrive = 0
  BY <1>1 DEF IInv, InBlock, Reading, Places, ChainIsClocked, WantedDriveRuns
<1>3. DriverTypes'
  BY <1>1 DEF IInv, DriverTypes
<1>4. ChainIsClocked'
  <2>1. 0 \in 0 .. slot - 1 /\ 2 * 0 = 0
    BY ControllerAssumption DEF Drives
  <2>2. Selecting'
    BY <1>1, <1>2, <2>1 DEF Selecting
  <2> QED BY <1>1, <2>2 DEF ChainIsClocked, WantedDriveRuns, Stopping
<1>5. Places'
  BY <1>1, <1>2 DEF Places
<1>6. BeforeBlock' /\ InBlock' /\ BlockIsWhole' /\ Writing'
  BY <1>1, <1>2, NoBlockKeeps, NoJobKeeps DEF Reading
<1> QED
  BY <1>3, <1>4, <1>5, <1>6 DEF IInv

LEMMA SelectPulseKeeps == ASSUME IInv, TypeOK', SelectPulse PROVE IInv'
<1>1. /\ pc = "select" /\ pulses' = pulses + 1
      /\ WriteMicrodriveControl(Edge(pulses))
      /\ microdriveControl' = Edge(pulses)
      /\ UNCHANGED <<wanted, block, job, target, left, formatted, microdriveMode>>
      /\ pulses' = 2 * wanted => pc' = "selected" /\ swapped' = FALSE
      /\ pulses' # 2 * wanted => UNCHANGED <<pc, swapped>>
  BY DEF SelectPulse, WriteMicrodriveControl
<1>2. block = <<>> /\ job = "none" /\ microdriveMode
  BY <1>1 DEF IInv, InBlock, Reading, Places
<1>3. wanted \in 1 .. DriveCount /\ DriveCount \in Nat /\ pulses \in Nat
  BY ControllerAssumption DEF IInv, DriverTypes, Drives
<1>4. PICK k \in 0 .. wanted - 1 :
            /\ activeMicrodrive = k
            /\ \/ pulses = 2 * k
               \/ pulses = 2 * k + 1 /\ microdriveControl = (IF k = 0 THEN 3 ELSE 2)
  BY <1>1 DEF IInv, ChainIsClocked, Selecting
<1>5. DriverTypes'
  <2>1. swapped' \in BOOLEAN /\ pc' \in {"select", "selected"}
    BY <1>1 DEF IInv, DriverTypes
  <2>2. pulses' \in Nat
    BY <1>1, <1>3
  <2> QED BY <1>1, <2>1, <2>2 DEF IInv, DriverTypes
<1>6. CASE pulses = 2 * k
  <2>1. Edge(pulses) = (IF k = 0 THEN 3 ELSE 2)
    BY <1>4, <1>6 DEF Edge
  <2>2. activeMicrodrive' = k
    BY <1>1, <1>4, <2>1, ControlMoves
  <2>3. pulses' = 2 * k + 1 /\ pulses' # 2 * wanted
    BY <1>1, <1>3, <1>4, <1>6
  <2>4. pc' = "select"
    BY <1>1, <2>3
  <2>5. ChainIsClocked'
    BY <1>1, <1>4, <2>1, <2>2, <2>3, <2>4
       DEF ChainIsClocked, WantedDriveRuns, Selecting, Stopping
  <2>6. Places'
    BY <1>1, <1>2, <2>4 DEF Places
  <2>7. BeforeBlock' /\ InBlock' /\ BlockIsWhole' /\ Writing'
    BY <1>1, <1>2, <2>4, NoBlockKeeps, NoJobKeeps DEF Reading
  <2> QED BY <1>5, <2>5, <2>6, <2>7 DEF IInv
<1>7. CASE pulses = 2 * k + 1
  <2>1. Edge(pulses) = (IF k = 0 THEN 1 ELSE 0)
    BY <1>4, <1>7 DEF Edge
  <2>2. microdriveControl = (IF k = 0 THEN 3 ELSE 2)
    BY <1>3, <1>4, <1>7
  <2>3. ClockChain(Edge(pulses))
    BY <1>1, <2>1, <2>2 DEF WriteMicrodriveControl, MoveTape, FirstDrive, NextDrive
  <2>4. activeMicrodrive' = k + 1 /\ ResetMicrodriveStream
    <3>1. CASE k = 0
      BY <2>1, <2>2, <2>3, <3>1 DEF ClockChain, FirstDrive, NextDrive, SelectMicrodrive
    <3>2. CASE k # 0
      <4>1. NextInChain = k + 1
        BY <1>3, <1>4, <3>2 DEF NextInChain
      <4> QED BY <2>1, <2>2, <2>3, <3>2, <4>1
              DEF ClockChain, FirstDrive, NextDrive, SelectMicrodrive
    <3> QED BY <3>1, <3>2
  <2>5. pulses' = 2 * (k + 1)
    BY <1>1, <1>4, <1>7
  <2>6. CASE k + 1 = wanted
    <3>1. pc' = "selected"
      BY <1>1, <2>5, <2>6
    <3>2. Places'
      BY <1>1, <1>2, <2>4, <3>1 DEF Places, ResetMicrodriveStream, StreamIsReset
    <3>3. ChainIsClocked'
      BY <1>1, <2>4, <2>6, <3>1, SelectedKeeps
    <3>4. BeforeBlock' /\ InBlock' /\ BlockIsWhole' /\ Writing'
      BY <1>1, <1>2, <3>1, NoBlockKeeps, NoJobKeeps DEF Reading
    <3> QED BY <1>5, <3>2, <3>3, <3>4 DEF IInv
  <2>7. CASE k + 1 # wanted
    <3>1. pc' = "select"
      BY <1>1, <1>3, <1>4, <2>5, <2>7
    <3>2. k + 1 \in 0 .. wanted - 1
      BY <1>3, <1>4, <2>7
    <3>3. Selecting'
      BY <1>1, <2>4, <2>5, <3>2 DEF Selecting
    <3>4. ChainIsClocked' /\ Places'
      BY <1>1, <1>2, <3>1, <3>3 DEF ChainIsClocked, WantedDriveRuns, Stopping, Places
    <3>5. BeforeBlock' /\ InBlock' /\ BlockIsWhole' /\ Writing'
      BY <1>1, <1>2, <3>1, NoBlockKeeps, NoJobKeeps DEF Reading
    <3> QED BY <1>5, <3>4, <3>5 DEF IInv
  <2> QED BY <2>6, <2>7
<1> QED
  BY <1>4, <1>6, <1>7

LEMMA StopPulseKeeps == ASSUME IInv, TypeOK', StopPulse PROVE IInv'
<1> DEFINE n == IF pc = "stop" THEN pulses ELSE 2
<1>1. /\ pc \in {"selected", "ready", "stop"}
      /\ WriteMicrodriveControl(Edge(n)) /\ microdriveControl' = Edge(n)
      /\ pulses' = n + 1
      /\ pc' = IF pulses' = 2 * DriveCount + 2 THEN "off" ELSE "stop"
      /\ block' = <<>>
      /\ UNCHANGED <<wanted, job, target, left, formatted, swapped, microdriveMode>>
  BY DEF StopPulse, WriteMicrodriveControl
<1> HIDE DEF n
<1>2. wanted \in 1 .. DriveCount /\ DriveCount \in Nat \ {0} /\ pulses \in Nat
  BY ControllerAssumption DEF IInv, DriverTypes, Drives
<1>3. job = "none" /\ microdriveMode
  BY <1>1 DEF IInv, Places
<1>4. \E k \in 1 .. DriveCount :
         /\ activeMicrodrive = Further(wanted, k - 1)
         /\ \/ n = 2 * k
            \/ n = 2 * k + 1 /\ microdriveControl = 2
  <2>1. CASE pc = "stop"
    BY <2>1 DEF IInv, ChainIsClocked, Stopping, n
  <2>2. CASE pc # "stop"
    <3>1. activeMicrodrive = wanted /\ n = 2 * 1
      BY <1>1, <2>2 DEF IInv, ChainIsClocked, WantedDriveRuns, n
    <3>2. Further(wanted, 1 - 1) = wanted /\ 1 \in 1 .. DriveCount
      BY <1>2 DEF Further
    <3> QED BY <3>1, <3>2
  <2> QED BY <2>1, <2>2
<1>5. PICK k \in 1 .. DriveCount :
         /\ activeMicrodrive = Further(wanted, k - 1)
         /\ \/ n = 2 * k
            \/ n = 2 * k + 1 /\ microdriveControl = 2
  BY <1>4
<1>6. DriverTypes'
  <2>1. pulses' \in Nat
    BY <1>1, <1>5
  <2>2. block' \in Seq(Byte)
    BY <1>1
  <2> QED BY <1>1, <2>1, <2>2 DEF IInv, DriverTypes
<1>7. Places' /\ BeforeBlock' /\ InBlock' /\ BlockIsWhole' /\ Writing'
  <2>1. pc' \in {"off", "stop"}
    BY <1>1
  <2>2. BeforeBlock' /\ InBlock' /\ BlockIsWhole' /\ Writing'
    BY <1>1, <1>3, <2>1, NoBlockKeeps, NoJobKeeps DEF Reading
  <2> QED BY <1>1, <1>3, <2>1, <2>2 DEF Places
<1>8. ChainIsClocked'
  <2>1. CASE n = 2 * k
    <3>1. Edge(n) = 2
      BY <1>5, <2>1 DEF Edge
    <3>2. activeMicrodrive' = activeMicrodrive
      BY <1>1, <3>1, ControlMoves
    <3>3. pulses' = 2 * k + 1 /\ pc' = "stop"
      BY <1>1, <1>2, <1>5, <2>1
    <3> QED BY <1>1, <1>5, <3>1, <3>2, <3>3
            DEF ChainIsClocked, WantedDriveRuns, Selecting, Stopping
  <2>2. CASE n = 2 * k + 1 /\ microdriveControl = 2
    <3>1. Edge(n) = 0
      BY <1>5, <2>2 DEF Edge
    <3>2. activeMicrodrive' = NextInChain
      BY <1>1, <2>2, <3>1 DEF WriteMicrodriveControl, ClockChain, MoveTape, FirstDrive,
                              NextDrive, SelectMicrodrive
    <3>3. NextInChain = Further(wanted, k)
      BY <1>2, <1>5 DEF NextInChain, Further
    <3>4. pulses' = 2 * (k + 1)
      BY <1>1, <1>5, <2>2
    <3>5. CASE k = DriveCount
      <4>1. pc' = "off" /\ Further(wanted, k) = 0
        BY <1>1, <1>2, <3>4, <3>5 DEF Further
      <4> QED BY <3>2, <3>3, <4>1 DEF ChainIsClocked, WantedDriveRuns, Selecting, Stopping
    <3>6. CASE k # DriveCount
      <4>1. pc' = "stop"
        BY <1>1, <1>2, <1>5, <3>4, <3>6
      <4>2. k + 1 \in 1 .. DriveCount /\ k + 1 > 1 /\ (k + 1) - 1 = k
        BY <1>2, <1>5, <3>6
      <4>3. Stopping'
        BY <1>1, <3>2, <3>3, <3>4, <4>2 DEF Stopping, Further
      <4> QED BY <4>1, <4>3 DEF ChainIsClocked, WantedDriveRuns, Selecting
    <3> QED BY <3>5, <3>6
  <2> QED BY <1>5, <2>1, <2>2
<1> QED
  BY <1>6, <1>7, <1>8 DEF IInv

----------------------------------------------------------------------------
(* The user.                                                               *)

LEMMA RestartKeeps == ASSUME IInv, TypeOK', Restart PROVE IInv'
<1>1. /\ pc' = "off" /\ wanted' = 1 /\ pulses' = 0 /\ block' = <<>> /\ job' = "none"
      /\ left' = 0 /\ formatted' = 0 /\ swapped' = FALSE /\ activeMicrodrive' = 0
  BY DEF Restart, Reset
<1>2. DriverTypes'
  <2>1. 1 \in Drives /\ <<>> \in Seq(Byte)
    BY ControllerAssumption DEF Drives
  <2> QED BY <1>1, <2>1 DEF DriverTypes
<1>3. ChainIsClocked' /\ Places'
  BY <1>1 DEF ChainIsClocked, WantedDriveRuns, Selecting, Stopping, Places
<1>4. BeforeBlock' /\ InBlock' /\ BlockIsWhole' /\ Writing'
  BY <1>1, NoBlockKeeps, NoJobKeeps DEF Reading
<1> QED
  BY <1>2, <1>3, <1>4 DEF IInv

\* A cartridge that is changed in another drive does not matter; in this one the
\* tape starts anew, and the driver knows.
LEMMA SwapKeeps ==
    ASSUME IInv, TypeOK', NEW slot \in Drives, Swap(slot)
    PROVE  IInv'
<1>1. UNCHANGED <<pc, wanted, pulses, block, job, target, left, formatted, microdriveMode,
                  activeMicrodrive, microdriveControl>>
  BY DEF Swap, MountMicrodrive, UnmountMicrodrive
<1>2. swapped' = (swapped \/ slot = activeMicrodrive)
  BY DEF Swap
<1>3. PICK image : MountMicrodrive(slot, image)
  BY DEF Swap, UnmountMicrodrive
<1>4. DriverTypes' /\ ChainIsClocked'
  <2>1. swapped' \in BOOLEAN
    BY <1>2
  <2> QED BY <1>1, <2>1 DEF IInv, DriverTypes, ChainIsClocked, WantedDriveRuns, Selecting,
                            Stopping
<1>5. CASE slot = activeMicrodrive
  <2>1. swapped' = TRUE /\ StreamIsReset'
    BY <1>2, <1>3, <1>5 DEF MountMicrodrive, ResetMicrodriveStream, StreamIsReset
  <2>2. phase' = "header-gap"
    BY <2>1 DEF StreamIsReset
  <2>3. Places' /\ BeforeBlock' /\ Writing'
    BY <1>1, <2>1, <2>2 DEF IInv, Places, BeforeBlock, InGap, Writing, Recording, Formatting
  <2>4. InBlock'
    BY <1>1, <2>1 DEF IInv, InBlock, NoBlanks
  <2>5. BlockIsWhole'
    BY <1>1, <2>1 DEF IInv, BlockIsWhole, KindOf
  <2> QED BY <1>4, <2>3, <2>4, <2>5 DEF IInv
<1>6. CASE slot # activeMicrodrive
  <2>1. UNCHANGED <<tape, swapped>>
    BY <1>2, <1>3, <1>6 DEF MountMicrodrive, IInv, DriverTypes
  <2>2. ImageUnderHead' = ImageUnderHead
    <3>1. activeMicrodrive # 0 => microdrives'[activeMicrodrive] = microdrives[activeMicrodrive]
      BY <1>3, <1>6, ControllerAssumption DEF MountMicrodrive, IInv, TypeOK, Drives
    <3> QED BY <1>1, <3>1 DEF ImageUnderHead
  <2>3. UNCHANGED <<phase, streamRegion, dataOffset, physicalOffset, sector, writing,
                    gapPolls, readyPolls, advanceSectorPending>>
    BY <2>1 DEF tape, position
  <2>4. Places' /\ BeforeBlock'
    BY <1>1, <2>3 DEF IInv, Places, StreamIsReset, BeforeBlock, InGap, Start
  <2>5. BlockIsWhole'
    BY <1>1, <2>1 DEF IInv, BlockIsWhole, KindOf
  <2>6. InBlock'
    BY <1>1, <2>1, <2>2, <2>3
       DEF IInv, InBlock, Following, AtBytes, NoBlanks, StreamIsReset, Start
  <2>7. Writing'
    BY <1>1, <2>1, <2>2, <2>3 DEF IInv, Writing, Recording, Formatting, Covered
  <2> QED BY <1>4, <2>4, <2>5, <2>6, <2>7 DEF IInv
<1> QED
  BY <1>5, <1>6

----------------------------------------------------------------------------
(* Reading.                                                                *)

LEMMA PollKeeps ==
    ASSUME ReadSharedStatus
    PROVE  UNCHANGED <<microdrives, microdriveMode, activeMicrodrive, microdriveControl,
                       writing, ImageUnderHead>>
BY DEF ReadSharedStatus, ImageUnderHead

\* A block that a poll of the gap begins begins with its first byte.
LEMMA GapEnds ==
    ASSUME TypeOK, ReadSharedStatus, InGap, ~InGap'
    PROVE  /\ streamRegion' = phase'
           /\ dataOffset' = 0
           /\ physicalOffset' = Start(phase')
<1>1. PollGap
  BY DEF ReadSharedStatus, PollReady, PollIdle, InGap, position
<1>2. gapPolls + 1 > GapPolls
  BY <1>1 DEF PollGap, InGap
<1>3. /\ phase' = IF phase = "header-gap" THEN "header" ELSE "record"
      /\ streamRegion' = phase' /\ dataOffset' = 0
      /\ physicalOffset' = IF phase = "header-gap" THEN HeaderStart ELSE RecordStart
  BY <1>1, <1>2 DEF PollGap
<1> QED
  BY <1>3 DEF Start

\* A poll that finds a byte ready moves neither the head nor the sector.
LEMMA ReadyPolls ==
    ASSUME ReadSharedStatus, SharedStatus.ready
    PROVE  /\ ImageUnderHead # NoImage /\ ~InGap
           /\ UNCHANGED <<streamRegion, dataOffset, physicalOffset, sector>>
<1>1. Sensing /\ ~InGap
  BY DEF SharedStatus
<1>2. PollReady
  BY <1>1 DEF ReadSharedStatus, PollGap, PollIdle
<1> QED
  BY <1>1, <1>2 DEF Sensing, PollReady

LEMMA SeekGapKeeps == ASSUME IInv, TypeOK', SeekGap PROVE IInv'
<1>1. /\ pc \in {"selected", "ready", "seek", "header"} /\ ReadSharedStatus
      /\ pc' = IF SharedStatus.gap THEN "gap" ELSE "seek"
      /\ block' = <<>> /\ swapped' = FALSE
      /\ UNCHANGED <<wanted, pulses, job, target, left, formatted>>
  BY DEF SeekGap
<1>2. pc' \in {"gap", "seek"}
  BY <1>1
<1>3. microdriveMode /\ job = "none" /\ activeMicrodrive = wanted
  BY <1>1 DEF IInv, Places, ChainIsClocked, WantedDriveRuns
<1>4. UNCHANGED <<microdriveMode, activeMicrodrive>>
  BY <1>1, PollKeeps
<1>5. DriverTypes'
  <2>1. block' \in Seq(Byte)
    BY <1>1
  <2>2. swapped' \in BOOLEAN
    BY <1>1
  <2> QED BY <1>1, <1>2, <2>1, <2>2 DEF IInv, DriverTypes
<1>6. ChainIsClocked' /\ Places' /\ Writing'
  BY <1>1, <1>2, <1>3, <1>4, SelectedKeeps, NoJobKeeps DEF Places
<1>7. InBlock' /\ BlockIsWhole'
  <2>1. Len(block)' = 0
    BY <1>1, Len(<<>>) = 0
  <2>2. BlockIsWhole'
    BY <2>1 DEF BlockIsWhole
  <2> QED BY <1>1, <1>2, <2>2 DEF InBlock, Reading
<1>8. BeforeBlock'
  <2> SUFFICES ASSUME pc' = "gap", ~InGap'
               PROVE  streamRegion' = phase' /\ dataOffset' = 0 /\ physicalOffset' = Start(phase')
    BY DEF BeforeBlock, Start
  <2>1. SharedStatus.gap
    BY <1>1, Zenon
  <2>2. InGap
    BY <1>3, <2>1 DEF SharedStatus
  <2> QED BY <1>1, <2>2, GapEnds DEF IInv
<1> QED
  BY <1>5, <1>6, <1>7, <1>8 DEF IInv

LEMMA WaitReadyKeeps == ASSUME IInv, TypeOK', WaitReady PROVE IInv'
<1>1. /\ pc = "gap" /\ ReadSharedStatus
      /\ pc' = IF SharedStatus.ready THEN "take" ELSE "gap"
      /\ UNCHANGED <<wanted, pulses, block, job, target, left, formatted, swapped>>
  BY DEF WaitReady
<1>2. pc' \in {"gap", "take"}
  BY <1>1
<1>3. microdriveMode /\ job = "none" /\ activeMicrodrive = wanted /\ block = <<>>
  BY <1>1 DEF IInv, Places, ChainIsClocked, WantedDriveRuns, InBlock, Reading
<1>4. UNCHANGED <<microdriveMode, activeMicrodrive, ImageUnderHead>>
  BY <1>1, PollKeeps
<1>5. DriverTypes'
  BY <1>1, <1>2 DEF IInv, DriverTypes, Reading
<1>6. ChainIsClocked' /\ Places' /\ Writing'
  BY <1>1, <1>2, <1>3, <1>4, SelectedKeeps, NoJobKeeps DEF Places
<1>7. BlockIsWhole' /\ Len(block) = 0 /\ NoBlanks'
  <2>1. Len(block) = 0 /\ Len(block)' = 0
    BY <1>1, <1>3, Len(<<>>) = 0
  <2> QED BY <2>1 DEF BlockIsWhole, NoBlanks
<1>8. CASE SharedStatus.ready
  <2>1. pc' = "take"
    BY <1>1, <1>8
  <2>2. /\ ImageUnderHead # NoImage /\ ~InGap
        /\ UNCHANGED <<streamRegion, dataOffset, physicalOffset, sector>>
    BY <1>1, <1>8, ReadyPolls
  <2>3. /\ streamRegion = phase /\ dataOffset = 0 /\ physicalOffset = Start(phase)
        /\ phase \in {"header", "record"}
    BY <1>1, <2>2 DEF IInv, BeforeBlock, TypeOK, StreamTypes, InGap
  <2>4. AtBytes'
    <3>1. /\ HeaderSize \in Nat \ {0} /\ RecordSize - PllPreambleSize > 0
          /\ BlockHeaderSize > 0
      BY LayoutAssumption, ControllerAssumption, DriverAssumption
    <3>2. Passed(streamRegion, 0) = 0
      BY <3>1, ControllerAssumption DEF Passed
    <3> QED BY <1>1, <1>7, <2>1, <2>2, <2>3, <3>1, <3>2 DEF AtBytes, Passed
  <2>5. Following'
    <3>1. physicalOffset' = Start(streamRegion') + dataOffset'
      BY <2>2, <2>3, LayoutAssumption DEF Start, HeaderStart, RecordStart
    <3> QED BY <1>1, <1>3, <1>4, <1>7, <2>2, <2>3, <2>4, <3>1 DEF Following, Start
  <2>6. InBlock' /\ BeforeBlock'
    BY <1>7, <2>1, <2>5 DEF InBlock, BeforeBlock, Reading
  <2> QED BY <1>5, <1>6, <1>7, <2>6 DEF IInv
<1>9. CASE ~SharedStatus.ready
  <2>1. pc' = "gap"
    BY <1>1, <1>9
  <2>2. InBlock'
    BY <1>1, <1>3, <2>1 DEF InBlock, Reading
  <2>3. BeforeBlock'
    <3>1. CASE InGap
      BY <1>1, <2>1, <3>1, GapEnds DEF IInv, BeforeBlock, Start
    <3>2. CASE ~InGap
      <4>1. ~Sensing
        BY <1>9, <3>2 DEF SharedStatus
      <4>2. UNCHANGED position
        BY <1>1, <4>1 DEF ReadSharedStatus, PollGap, PollReady, PollIdle
      <4> QED BY <1>1, <2>1, <3>2, <4>2 DEF IInv, BeforeBlock, position, InGap, Start
    <3> QED BY <3>1, <3>2
  <2> QED BY <1>5, <1>6, <1>7, <2>2, <2>3 DEF IInv
<1> QED
  BY <1>8, <1>9

\* A byte joins the block.
LEMMA TakenByte ==
    ASSUME NEW s \in Seq(Byte), NEW b \in Byte
    PROVE  /\ Append(s, b) \in Seq(Byte)
           /\ Len(Append(s, b)) = Len(s) + 1
           /\ \A i \in 1 .. Len(s) : Append(s, b)[i] = s[i]
           /\ Append(s, b)[Len(s) + 1] = b
           /\ Len(s) \in Nat
           /\ s = <<>> <=> Len(s) = 0
BY AppendProperties, LenProperties, EmptySeq

LEMMA TakeByteKeeps == ASSUME IInv, TypeOK', TakeByte PROVE IInv'
<1>1. /\ pc = "take" /\ ReadMicrodriveData
      /\ block' = Append(block, ByteUnderHead)
      /\ pc' = AfterBytes(block')
      /\ UNCHANGED <<wanted, pulses, job, target, left, formatted, swapped>>
      /\ UNCHANGED <<microdrives, microdriveMode, activeMicrodrive, microdriveControl,
                     phase, gapPolls, readyPolls, streamRegion, writing, sector,
                     advanceSectorPending, ImageUnderHead>>
  BY DEF TakeByte, ReadMicrodriveData, ImageUnderHead
<1>2. /\ microdriveMode /\ job = "none" /\ activeMicrodrive = wanted
      /\ NoBlanks /\ (Following \/ (swapped /\ StreamIsReset))
  BY <1>1 DEF IInv, Places, ChainIsClocked, WantedDriveRuns, InBlock, Reading
<1>3. pc' \in {"poll", "header", "pll", "ready"}
  BY <1>1 DEF AfterBytes
<1>4. ChainIsClocked' /\ Places' /\ Writing' /\ BeforeBlock'
  BY <1>1, <1>2, <1>3, SelectedKeeps, NoJobKeeps DEF Places, BeforeBlock
<1>5. block \in Seq(Byte) /\ Len(block) \in Nat
  BY LenProperties DEF IInv, DriverTypes
<1>6. CASE swapped /\ StreamIsReset
  <2>1. ~ByteAvailable /\ ByteUnderHead = Blank
    BY <1>6, LayoutAssumption DEF StreamIsReset, ByteAvailable, RegionSize, ByteUnderHead
  <2>2. UNCHANGED <<dataOffset, physicalOffset>>
    BY <1>1, <2>1 DEF ReadMicrodriveData
  <2>3. swapped' /\ StreamIsReset'
    BY <1>1, <1>6, <2>2 DEF StreamIsReset
  <2>4. Blank \in Byte
    BY DEF Byte
  <2>5. /\ block' \in Seq(Byte) /\ Len(block') = Len(block) + 1
        /\ \A i \in 1 .. Len(block) : block'[i] = block[i]
        /\ block'[Len(block) + 1] = Blank
    BY <1>1, <1>5, <2>1, <2>4, TakenByte
  <2>6. DriverTypes'
    BY <1>1, <1>3, <2>5 DEF IInv, DriverTypes, Reading
  <2>7. InBlock'
    BY <1>3, <2>3 DEF InBlock, Reading
  <2>8. BlockIsWhole'
    <3> SUFFICES ASSUME NEW i \in 1 .. Len(block')
                 PROVE  IF block'[i] = Blank
                          THEN i = Len(block') /\ (i = 1 \/ swapped')
                          ELSE LET skipped == IF KindOf(block') = "record" /\ i > BlockHeaderSize
                                                THEN PllPreambleSize ELSE 0
                               IN  block'[i] = <<KindOf(block'), block'[1][2], i - 1 + skipped>>
      BY DEF BlockIsWhole, KindOf
    <3>1. CASE i = Len(block')
      BY <1>5, <2>3, <2>5, <3>1
    <3>2. CASE i # Len(block')
      <4>1. i \in 1 .. Len(block) /\ 1 \in 1 .. Len(block)
        BY <1>5, <2>5, <3>2
      <4>2. block'[i] = block[i] /\ block'[1] = block[1] /\ block[i] # Blank
        BY <1>2, <2>5, <4>1 DEF NoBlanks
      <4>3. KindOf(block') = KindOf(block)
        BY <4>2 DEF KindOf
      <4> QED BY <4>1, <4>2, <4>3 DEF IInv, BlockIsWhole
    <3> QED BY <3>1, <3>2
  <2> QED BY <1>4, <2>6, <2>7, <2>8 DEF IInv
<1>7. CASE Following
  <2> DEFINE n == Len(block)
             onSplice == sector = ImageUnderHead.spliceSector
  <2>1. /\ ImageUnderHead # NoImage
        /\ streamRegion \in {"header", "record"}
        /\ physicalOffset = Start(streamRegion) + dataOffset
        /\ n < (IF streamRegion = "header" THEN HeaderSize ELSE RecordSize - PllPreambleSize)
        /\ dataOffset = Passed(streamRegion, n)
        /\ n # 0 => block[1] = <<streamRegion, sector, 0>> /\ ~onSplice
    BY <1>1, <1>5, <1>7, EmptySeq DEF Following, AtBytes
  <2> HIDE DEF n, onSplice
  <2>2. /\ HeaderSize \in Nat \ {0} /\ RecordSize \in Nat /\ PllPreambleSize \in Nat
        /\ BlockHeaderSize \in Nat \ {0} /\ BlockHeaderSize + PllPreambleSize < RecordSize
    BY LayoutAssumption, ControllerAssumption, DriverAssumption
  <2>3. n \in Nat
    BY <1>5 DEF n
  <2>4. ByteAvailable
    <3>1. dataOffset < RegionSize
      BY <2>1, <2>2, <2>3 DEF RegionSize, Passed
    <3> QED BY <1>2, <2>1, <3>1 DEF ByteAvailable
  <2>5. /\ dataOffset' = dataOffset + 1 /\ physicalOffset' = physicalOffset + 1
    BY <1>1, <2>4 DEF ReadMicrodriveData
  <2>6. ByteUnderHead = IF onSplice THEN Blank ELSE <<streamRegion, sector, dataOffset>>
    BY <2>4 DEF ByteUnderHead, onSplice
  <2>7. ByteUnderHead \in Byte
    <3>1. sector \in Sectors /\ dataOffset \in Nat
      BY DEF IInv, TypeOK, StreamTypes
    <3> QED BY <2>1, <2>6, <3>1 DEF Byte
  <2>8. /\ block' \in Seq(Byte) /\ Len(block') = n + 1
        /\ \A i \in 1 .. n : block'[i] = block[i]
        /\ block'[n + 1] = ByteUnderHead
    BY <1>1, <1>5, <2>7, TakenByte DEF n
  <2>9. DriverTypes'
    BY <1>1, <1>3, <2>8 DEF IInv, DriverTypes, Reading
  <2>10. CASE onSplice
    <3>1. n = 0 /\ block'[1] = Blank /\ Len(block') = 1
      BY <2>1, <2>3, <2>6, <2>8, <2>10
    <3>2. KindOf(block') = "none"
      BY <3>1 DEF KindOf
    <3>3. pc' = "ready"
      BY <1>1, <3>2 DEF AfterBytes
    <3>4. BlockIsWhole' /\ InBlock'
      BY <3>1, <3>3 DEF BlockIsWhole, InBlock, Reading
    <3> QED BY <1>4, <2>9, <3>4 DEF IInv
  <2>11. CASE ~onSplice
    <3>1. block'[1] = <<streamRegion, sector, 0>> /\ block'[n + 1] = <<streamRegion, sector, dataOffset>>
      <4>1. CASE n = 0
        <5>1. dataOffset = 0
          BY <2>1, <2>2, <4>1 DEF Passed
        <5> QED BY <2>6, <2>8, <2>11, <4>1, <5>1
      <4>2. CASE n # 0
        BY <2>1, <2>3, <2>6, <2>8, <2>11, <4>2
      <4> QED BY <4>1, <4>2
    <3>2. \A i \in 1 .. n + 1 : block'[i] # Blank
      <4> SUFFICES ASSUME NEW i \in 1 .. n + 1 PROVE block'[i] # Blank
        OBVIOUS
      <4>1. CASE i = n + 1
        <5>1. <<streamRegion, sector, dataOffset>> # <<>>
          OBVIOUS
        <5> QED BY <3>1, <4>1, <5>1 DEF Blank
      <4>2. CASE i # n + 1
        <5>1. i \in 1 .. n
          BY <2>3, <4>2
        <5> QED BY <1>2, <2>8, <5>1 DEF NoBlanks, n
      <4> QED BY <4>1, <4>2
    <3>3. NoBlanks'
      BY <2>8, <3>2 DEF NoBlanks, Blank
    <3>4. KindOf(block') = streamRegion
      BY <3>1 DEF KindOf, Blank
    <3>5. BlockIsWhole'
      <4> SUFFICES ASSUME NEW i \in 1 .. n + 1
                   PROVE  LET skipped == IF KindOf(block') = "record" /\ i > BlockHeaderSize
                                           THEN PllPreambleSize ELSE 0
                          IN  block'[i] = <<KindOf(block'), block'[1][2], i - 1 + skipped>>
        BY <2>8, <3>2 DEF BlockIsWhole, KindOf, Blank
      <4>1. CASE i = n + 1
        <5>1. dataOffset = IF streamRegion = "record" /\ i > BlockHeaderSize
                             THEN n + PllPreambleSize ELSE n
          BY <2>1, <2>2, <2>3, <4>1 DEF Passed
        <5>2. dataOffset = (i - 1) + (IF streamRegion = "record" /\ i > BlockHeaderSize
                                        THEN PllPreambleSize ELSE 0)
          BY <2>2, <2>3, <4>1, <5>1
        <5> QED BY <3>1, <3>4, <4>1, <5>2
      <4>2. CASE i # n + 1
        <5>1. i \in 1 .. n /\ 1 \in 1 .. n /\ n # 0
          BY <2>3, <4>2
        <5>2. block'[i] = block[i] /\ block'[1] = block[1] /\ block[i] # Blank
          BY <1>2, <2>8, <5>1 DEF NoBlanks, n
        <5>3. KindOf(block) = streamRegion
          BY <2>1, <5>1 DEF KindOf, Blank
        <5> QED BY <3>4, <5>1, <5>2, <5>3 DEF IInv, BlockIsWhole, n
      <4> QED BY <4>1, <4>2
    <3>6. physicalOffset' = Start(streamRegion') + dataOffset'
      <4>1. Start(streamRegion) \in Nat /\ dataOffset \in Nat
        BY LayoutAssumption DEF Start, HeaderStart, RecordStart, IInv, TypeOK, StreamTypes
      <4> QED BY <1>1, <2>1, <2>5, <4>1 DEF Start
    <3>7. CASE pc' = "ready"
      BY <1>4, <2>9, <3>5, <3>7 DEF IInv, InBlock, Reading
    <3>8. CASE pc' # "ready"
      <4>1. AtBytes'
        <5>1. CASE streamRegion = "header"
          <6>1. pc' = IF n + 1 < HeaderSize THEN "poll" ELSE "header"
            BY <1>1, <2>8, <3>4, <5>1 DEF AfterBytes
          <6>2. dataOffset' = n + 1
            BY <2>1, <2>5, <5>1 DEF Passed
          <6>3. n + 1 = HeaderSize \/ n + 1 < HeaderSize
            BY <2>1, <2>2, <2>3, <5>1
          <6>4. CASE n + 1 < HeaderSize
            BY <1>1, <2>8, <5>1, <6>1, <6>2, <6>4 DEF AtBytes, Passed
          <6>5. CASE n + 1 = HeaderSize
            BY <1>1, <2>2, <2>8, <5>1, <6>1, <6>2, <6>5 DEF AtBytes
          <6> QED BY <6>3, <6>4, <6>5
        <5>2. CASE streamRegion = "record"
          <6>1. pc' = IF n + 1 = BlockHeaderSize THEN "pll" ELSE "poll"
            BY <1>1, <2>8, <3>4, <3>8, <5>2 DEF AfterBytes
          <6>2. CASE n + 1 = BlockHeaderSize
            <7>1. dataOffset' = n + 1
              BY <2>1, <2>2, <2>3, <2>5, <5>2, <6>2 DEF Passed
            <7> QED BY <1>1, <2>8, <5>2, <6>1, <6>2, <7>1 DEF AtBytes
          <6>3. CASE n + 1 # BlockHeaderSize
            <7>1. dataOffset' = Passed("record", n + 1)
              BY <2>1, <2>2, <2>3, <2>5, <5>2, <6>3 DEF Passed
            <7>2. n + 1 < RecordSize - PllPreambleSize
              BY <1>1, <2>8, <3>4, <3>8, <5>2, <6>3 DEF AfterBytes
            <7> QED BY <1>1, <2>8, <5>2, <6>1, <6>3, <7>1, <7>2 DEF AtBytes, Passed
          <6> QED BY <6>2, <6>3
        <5> QED BY <2>1, <5>1, <5>2
      <4>2. Following'
        BY <1>1, <2>1, <2>11, <3>1, <3>3, <3>6, <4>1 DEF Following, onSplice, Start
      <4>3. InBlock'
        BY <1>3, <4>2 DEF InBlock, Reading
      <4> QED BY <1>4, <2>9, <3>5, <4>3 DEF IInv
    <3> QED BY <3>7, <3>8
  <2> QED BY <2>10, <2>11
<1> QED
  BY <1>2, <1>6, <1>7

\* Where the block is left, it is left empty.
LEMMA BlockLeft ==
    ASSUME IInv, pc' = "ready", block' = <<>>, job = "none", job' = job, microdriveMode,
           UNCHANGED <<wanted, pulses, left, formatted, swapped, microdriveMode,
                       activeMicrodrive>>,
           activeMicrodrive = wanted, TypeOK'
    PROVE  IInv'
<1>1. DriverTypes'
  <2>1. block' \in Seq(Byte)
    OBVIOUS
  <2> QED BY <2>1 DEF IInv, DriverTypes
<1>2. ChainIsClocked' /\ Writing' /\ Places'
  BY SelectedKeeps, NoJobKeeps DEF Places
<1>3. BeforeBlock' /\ InBlock' /\ BlockIsWhole'
  BY NoBlockKeeps DEF Reading
<1> QED
  BY <1>1, <1>2, <1>3 DEF IInv

LEMMA PollByteKeeps == ASSUME IInv, TypeOK', PollByte PROVE IInv'
<1>1. /\ pc = "poll" /\ ReadSharedStatus
      /\ IF SharedStatus.ready THEN pc' = "take" /\ block' = block
                               ELSE pc' = "ready" /\ block' = <<>>
      /\ UNCHANGED <<wanted, pulses, job, target, left, formatted, swapped>>
      /\ UNCHANGED <<microdriveMode, activeMicrodrive, ImageUnderHead, microdriveControl>>
  BY PollKeeps DEF PollByte
<1>2. /\ microdriveMode /\ job = "none" /\ activeMicrodrive = wanted
      /\ Following \/ (swapped /\ StreamIsReset)
  BY <1>1 DEF IInv, Places, ChainIsClocked, WantedDriveRuns, InBlock, Reading
<1>3. CASE SharedStatus.ready
  <2>1. pc' = "take" /\ block' = block
    BY <1>1, <1>3
  <2>2. ~InGap /\ UNCHANGED <<streamRegion, dataOffset, physicalOffset, sector>>
    BY <1>1, <1>3, ReadyPolls
  <2>3. Following
    BY <1>2, <2>2 DEF StreamIsReset, InGap
  <2>4. AtBytes'
    BY <1>1, <2>1, <2>2, <2>3 DEF Following, AtBytes
  <2>5. Following' /\ NoBlanks'
    BY <1>1, <2>1, <2>2, <2>3, <2>4 DEF Following, NoBlanks, Start
  <2>6. InBlock' /\ BeforeBlock' /\ BlockIsWhole'
    BY <1>1, <2>1, <2>5 DEF IInv, InBlock, BeforeBlock, BlockIsWhole, KindOf, Reading
  <2>7. DriverTypes' /\ ChainIsClocked' /\ Writing' /\ Places'
    BY <1>1, <1>2, <2>1, SelectedKeeps, NoJobKeeps DEF IInv, DriverTypes, Places, Reading
  <2> QED BY <2>6, <2>7 DEF IInv
<1>4. CASE ~SharedStatus.ready
  <2>1. pc' = "ready" /\ block' = <<>>
    BY <1>1, <1>4
  <2> QED BY <1>1, <1>2, <2>1, BlockLeft
<1> QED
  BY <1>3, <1>4

LEMMA GiveUpKeeps == ASSUME IInv, TypeOK', GiveUp PROVE IInv'
<1>1. /\ pc \in {"seek", "gap", "poll"} /\ pc' = "ready" /\ block' = <<>>
      /\ UNCHANGED <<wanted, pulses, job, target, left, formatted, swapped>>
      /\ UNCHANGED <<microdriveMode, activeMicrodrive>>
  BY DEF GiveUp, vars
<1>2. microdriveMode /\ job = "none" /\ activeMicrodrive = wanted
  BY <1>1 DEF IInv, Places, ChainIsClocked, WantedDriveRuns
<1> QED
  BY <1>1, <1>2, BlockLeft

LEMMA SkipPreambleKeeps == ASSUME IInv, TypeOK', SkipPreamble PROVE IInv'
<1>1. /\ pc \in {"pll", "pll again"} /\ WriteMicrodriveControl(2)
      /\ pc' = IF pc = "pll" THEN "pll again" ELSE "poll"
      /\ UNCHANGED <<wanted, pulses, block, job, target, left, formatted, swapped>>
  BY DEF SkipPreamble
<1>2. /\ MoveTape(2) /\ microdriveControl' = 2
      /\ UNCHANGED <<microdriveMode, activeMicrodrive, phase, gapPolls, readyPolls, streamRegion,
                     ImageUnderHead>>
  BY <1>1, ControlMoves
<1>3. /\ dataOffset' = IF SkipPll(2) THEN dataOffset + PllPreambleSize ELSE dataOffset
      /\ physicalOffset' = IF SkipPll(2) THEN physicalOffset + PllPreambleSize
                                         ELSE physicalOffset
      /\ UNCHANGED <<sector, advanceSectorPending>>
  BY <1>2 DEF MoveTape, EndsSector
<1>4. /\ microdriveMode /\ job = "none" /\ activeMicrodrive = wanted
      /\ Following \/ (swapped /\ StreamIsReset)
  BY <1>1 DEF IInv, Places, ChainIsClocked, WantedDriveRuns, InBlock, Reading
<1>5. pc' \in {"poll", "pll again"}
  BY <1>1
<1>6. DriverTypes' /\ ChainIsClocked' /\ Writing' /\ Places'
  BY <1>1, <1>2, <1>4, <1>5, SelectedKeeps, NoJobKeeps DEF IInv, DriverTypes, Places, Reading
<1>7. BeforeBlock' /\ BlockIsWhole'
  BY <1>1, <1>5 DEF IInv, BeforeBlock, BlockIsWhole, KindOf
<1>8. CASE swapped /\ StreamIsReset
  <2>1. ~SkipPll(2)
    BY <1>8 DEF SkipPll, StreamIsReset
  <2>2. swapped' /\ StreamIsReset'
    BY <1>1, <1>2, <1>3, <1>8, <2>1 DEF StreamIsReset
  <2>3. InBlock'
    BY <1>5, <2>2 DEF InBlock, Reading
  <2> QED BY <1>6, <1>7, <2>3 DEF IInv
<1>9. CASE Following
  <2> DEFINE n == Len(block)
  <2>1. /\ streamRegion = "record" /\ n = BlockHeaderSize
        /\ physicalOffset = Start(streamRegion) + dataOffset
        /\ \/ dataOffset = n /\ (pc = "pll again" => microdriveControl = 2)
           \/ dataOffset = n + PllPreambleSize /\ pc = "pll again"
    BY <1>1, <1>9 DEF Following, AtBytes
  <2> HIDE DEF n
  <2>2. /\ BlockHeaderSize \in Nat /\ PllPreambleSize \in Nat /\ RecordSize \in Nat
        /\ BlockHeaderSize + PllPreambleSize < RecordSize
    BY LayoutAssumption, ControllerAssumption, DriverAssumption
  <2>3. \/ pc' = "poll" /\ dataOffset' = n + PllPreambleSize
        \/ pc' = "pll again" /\ (dataOffset' = n \/ dataOffset' = n + PllPreambleSize)
    BY <1>1, <1>3, <2>1, <2>2 DEF SkipPll
  <2>4. AtBytes'
    <3>1. Len(block') = n
      BY <1>1 DEF n
    <3>2. n < RecordSize - PllPreambleSize
      <4>1. n = BlockHeaderSize
        BY <2>1
      <4> QED BY <2>2, <4>1
    <3>3. CASE pc' = "poll"
      <4>1. Passed("record", n) = n + PllPreambleSize
        <5>1. n = BlockHeaderSize
          BY <2>1
        <5> QED BY <2>2, <5>1 DEF Passed
      <4>2. dataOffset' = n + PllPreambleSize /\ streamRegion' = "record"
        BY <1>2, <2>1, <2>3, <3>3
      <4> QED BY <3>1, <3>2, <3>3, <4>1, <4>2 DEF AtBytes, Passed
    <3>4. CASE pc' = "pll again"
      BY <1>2, <2>1, <2>3, <3>1, <3>4 DEF AtBytes
    <3> QED BY <1>5, <3>3, <3>4
  <2>5. physicalOffset' = Start(streamRegion') + dataOffset'
    <3>1. Start(streamRegion) \in Nat /\ dataOffset \in Nat
      BY LayoutAssumption DEF Start, HeaderStart, RecordStart, IInv, TypeOK, StreamTypes
    <3>2. Start(streamRegion') = Start(streamRegion)
      BY <1>2
    <3>3. physicalOffset = Start(streamRegion) + dataOffset
      BY <2>1
    <3>4. CASE SkipPll(2)
      BY <1>3, <2>2, <3>1, <3>2, <3>3, <3>4
    <3>5. CASE ~SkipPll(2)
      BY <1>3, <3>2, <3>3, <3>5
    <3> QED BY <3>4, <3>5
  <2>6. Following'
    BY <1>1, <1>2, <1>3, <1>9, <2>4, <2>5 DEF Following, NoBlanks, Start
  <2>7. InBlock'
    BY <1>5, <2>6 DEF InBlock, Reading
  <2> QED BY <1>6, <1>7, <2>7 DEF IInv
<1> QED
  BY <1>4, <1>8, <1>9

----------------------------------------------------------------------------
(* Writing.                                                                *)

LEMMA LayoutSums ==
    /\ HeaderStart \in Nat /\ HeaderSize \in Nat \ {0} /\ RecordBytes \in Nat
    /\ SectorBytes \in Nat \ {0} /\ SectorSize \in Nat /\ SectorBytes <= SectorSize
    /\ HeaderStart + HeaderSize + RecordBytes = SectorBytes
    /\ EraseThreshold \in Nat /\ HeaderStart + HeaderSize <= EraseThreshold
    /\ EraseThreshold < SectorBytes
BY LayoutAssumption, ControllerAssumption, DriverAssumption
   DEF HeaderStart, RecordStart, RecordBytes, SectorBytes, SectorSize

\* While it writes, the driver has the motor of its drive and no block.
LEMMA WritingKeeps ==
    ASSUME IInv, TypeOK', pc \notin {"off", "select", "stop"},
           pc' \in {"erase", "write", "written"}, block' = <<>>,
           UNCHANGED <<wanted, pulses, swapped, microdriveMode, activeMicrodrive>>,
           job' \in {"none", "record", "format"}, left' \in Nat, formatted' \in Nat,
           job' # "none" => pc' \in {"erase", "write"}
    PROVE  Writing' => IInv'
<1>1. microdriveMode /\ activeMicrodrive = wanted
  BY DEF IInv, Places, ChainIsClocked, WantedDriveRuns
<1>2. DriverTypes'
  <2>1. block' \in Seq(Byte)
    OBVIOUS
  <2> QED BY <2>1 DEF IInv, DriverTypes
<1>3. ChainIsClocked' /\ Places'
  BY <1>1, SelectedKeeps DEF Places
<1>4. BeforeBlock' /\ InBlock' /\ BlockIsWhole'
  BY NoBlockKeeps DEF Reading
<1> QED
  BY <1>2, <1>3, <1>4 DEF IInv

LEMMA WriteRecordKeeps == ASSUME IInv, TypeOK', WriteRecord PROVE IInv'
<1>1. /\ pc = "header" /\ WriteMicrodriveControl(10) /\ pc' = "erase" /\ job' = "record"
      /\ target' = block[1][2] /\ left' = RecordBytes /\ block' = <<>>
      /\ UNCHANGED <<wanted, pulses, formatted, swapped>>
  BY DEF WriteRecord
<1>2. /\ MoveTape(10)
      /\ UNCHANGED <<microdriveMode, activeMicrodrive, ImageUnderHead>>
  BY <1>1, ControlMoves
<1>3. Recording'
  <2> SUFFICES ASSUME ~swapped
               PROVE  /\ ImageUnderHead' # NoImage
                      /\ sector' = target'
                      /\ left' <= RecordBytes
                      /\ physicalOffset' = HeaderStart + HeaderSize + (RecordBytes - left')
    BY <1>1 DEF Recording, HeaderStart, RecordBytes
  <2>1. Following
    BY <1>1 DEF IInv, InBlock, Reading
  <2>2. /\ streamRegion = "header" /\ Len(block) = HeaderSize /\ dataOffset = HeaderSize
        /\ physicalOffset = Start(streamRegion) + dataOffset
        /\ ImageUnderHead # NoImage
    BY <1>1, <2>1 DEF Following, AtBytes
  <2>3. block # <<>>
    <3>1. Len(block) # 0
      BY <2>2, LayoutSums
    <3> QED BY <3>1, Len(<<>>) = 0
  <2>4. target' = sector
    BY <1>1, <2>1, <2>3 DEF Following
  <2>5. physicalOffset = HeaderStart + HeaderSize
    BY <2>2 DEF Start
  <2>6. ~EndsSector(10) /\ ~SkipPll(10)
    BY <2>5, LayoutSums DEF EndsSector, SkipPll
  <2>7. UNCHANGED <<sector, physicalOffset>>
    BY <1>2, <2>6 DEF MoveTape
  <2> QED BY <1>1, <1>2, <2>2, <2>4, <2>5, <2>7, LayoutSums
<1>4. Writing'
  BY <1>1, <1>3 DEF Writing, Formatting
<1>5. formatted' \in Nat /\ left' \in Nat
  BY <1>1, LayoutSums DEF IInv, DriverTypes
<1> QED
  BY <1>1, <1>2, <1>4, <1>5, WritingKeeps

LEMMA FormatKeeps == ASSUME IInv, TypeOK', Format PROVE IInv'
<1>1. /\ pc = "selected" /\ WriteMicrodriveControl(10) /\ pc' = "erase" /\ job' = "format"
      /\ left' = SectorBytes /\ formatted' = 0
      /\ UNCHANGED <<wanted, pulses, block, target, swapped>>
  BY DEF Format
<1>2. /\ MoveTape(10)
      /\ UNCHANGED <<microdriveMode, activeMicrodrive, ImageUnderHead>>
  BY <1>1, ControlMoves
<1>3. block = <<>> /\ physicalOffset = 0 /\ sector = 0
  BY <1>1 DEF IInv, InBlock, Reading, Places, StreamIsReset
<1>4. UNCHANGED <<sector, physicalOffset>>
  <2>1. ~EndsSector(10) /\ ~SkipPll(10)
    BY <1>3, LayoutSums DEF EndsSector, SkipPll
  <2> QED BY <1>2, <2>1 DEF MoveTape
<1>5. Formatting'
  <2> SUFFICES ASSUME ImageUnderHead # NoImage
               PROVE  /\ sector' = formatted' % ImageUnderHead'.physicalSectorCount
                      /\ left' <= SectorBytes
                      /\ physicalOffset' = SectorBytes - left'
                      /\ Covered(ImageUnderHead', formatted')
                      /\ ~(left' < SectorBytes)
    BY <1>1, <1>2 DEF Formatting, SectorBytes, RecordStart, Covered
  <2>1. ImageUnderHead \in Image
    BY ImageUnderHeadType DEF IInv
  <2>2. ImageUnderHead.physicalSectorCount \in Nat \ {0}
    BY <2>1, LayoutAssumption DEF Image
  <2>3. 0 % ImageUnderHead.physicalSectorCount = 0
    BY <2>2
  <2>4. Covered(ImageUnderHead, 0)
    BY <2>2 DEF Covered
  <2> QED BY <1>1, <1>2, <1>3, <1>4, <2>3, <2>4, LayoutSums
<1>6. Writing'
  BY <1>1, <1>5 DEF Writing, Recording
<1>7. formatted' \in Nat /\ left' \in Nat
  BY <1>1, LayoutSums
<1> QED
  BY <1>1, <1>2, <1>3, <1>6, <1>7, WritingKeeps

LEMMA StartWritingKeeps == ASSUME IInv, TypeOK', StartWriting PROVE IInv'
<1>1. /\ pc = "erase" /\ WriteMicrodriveControl(14) /\ pc' = "write"
      /\ UNCHANGED <<wanted, pulses, block, job, target, left, formatted, swapped>>
  BY DEF StartWriting
<1>2. /\ MoveTape(14)
      /\ UNCHANGED <<microdriveMode, activeMicrodrive, ImageUnderHead>>
  BY <1>1, ControlMoves
<1>3. writing' = TRUE /\ UNCHANGED <<sector, physicalOffset>>
  BY <1>2 DEF MoveTape, WritingAfter, SkipPll, EndsSector
<1>4. block = <<>>
  BY <1>1 DEF IInv, InBlock, Reading
<1>5. Writing'
  BY <1>1, <1>2, <1>3 DEF IInv, Writing, Recording, Formatting, Covered
<1>6. /\ job' \in {"none", "record", "format"} /\ left' \in Nat /\ formatted' \in Nat
  BY <1>1 DEF IInv, DriverTypes
<1> QED
  BY <1>1, <1>2, <1>4, <1>5, <1>6, WritingKeeps

LEMMA StopWritingKeeps == ASSUME IInv, TypeOK', StopWriting PROVE IInv'
<1>1. /\ pc = "written" /\ WriteMicrodriveControl(2) /\ pc' = "ready"
      /\ UNCHANGED <<wanted, pulses, block, job, target, left, formatted, swapped>>
  BY DEF StopWriting
<1>2. UNCHANGED <<microdriveMode, activeMicrodrive>>
  BY <1>1, ControlMoves
<1>3. /\ block = <<>> /\ job = "none" /\ microdriveMode /\ activeMicrodrive = wanted
  BY <1>1 DEF IInv, InBlock, Reading, Places, ChainIsClocked, WantedDriveRuns
<1> QED
  BY <1>1, <1>2, <1>3, BlockLeft

\* The byte goes to the cartridge under the head.
LEMMA ByteGoesDown ==
    ASSUME TypeOK, WriteMicrodriveData, microdriveMode, writing, ImageUnderHead # NoImage,
           physicalOffset < SectorSize
    PROVE  /\ ImageUnderHead' = WritePhysicalByte(ImageUnderHead, sector)
           /\ ImageUnderHead \in Image /\ sector \in Sectors
           /\ physicalOffset' = physicalOffset + 1
           /\ UNCHANGED <<microdriveMode, activeMicrodrive, writing, sector>>
<1>1. /\ activeMicrodrive \in Drives
      /\ ImageUnderHead = microdrives[activeMicrodrive]
      /\ ImageUnderHead \in Image
  BY ImageUnderHeadType
<1>2. /\ microdrives' = [microdrives EXCEPT
                           ![activeMicrodrive] = WritePhysicalByte(@, sector)]
      /\ physicalOffset' = physicalOffset + 1
      /\ UNCHANGED <<microdriveMode, activeMicrodrive, writing, sector>>
  BY DEF WriteMicrodriveData
<1>3. microdrives'[activeMicrodrive] = WritePhysicalByte(microdrives[activeMicrodrive], sector)
  BY <1>1, <1>2 DEF TypeOK
<1>4. activeMicrodrive # 0
  BY <1>1, ControllerAssumption DEF Drives
<1>5. sector \in Sectors
  BY DEF TypeOK, StreamTypes
<1> QED
  BY <1>1, <1>2, <1>3, <1>4, <1>5 DEF ImageUnderHead

LEMMA WriteByteKeeps == ASSUME IInv, TypeOK', WriteByte PROVE IInv'
<1>1. /\ pc = "write" /\ left > 0 /\ WriteMicrodriveData /\ left' = left - 1
      /\ UNCHANGED <<pc, wanted, pulses, block, job, target, formatted, swapped>>
  BY DEF WriteByte
<1>2. UNCHANGED <<microdriveMode, activeMicrodrive>>
  BY <1>1 DEF WriteMicrodriveData
<1>3. microdriveMode /\ block = <<>> /\ left \in Nat /\ TypeOK /\ physicalOffset \in Nat
  BY <1>1 DEF IInv, Places, InBlock, Reading, DriverTypes, TypeOK, StreamTypes
<1>4. ImageUnderHead' = NoImage <=> ImageUnderHead = NoImage
  BY <1>1, <1>3, WriteKeepsTape DEF TapeKept
<1>5. left' \in Nat /\ left' < left
  BY <1>1, <1>3
<1>6. Recording'
  <2> SUFFICES ASSUME job = "record", ~swapped
               PROVE  /\ ImageUnderHead' # NoImage
                      /\ sector' = target
                      /\ left' <= RecordBytes
                      /\ physicalOffset' = HeaderStart + HeaderSize + (RecordBytes - left')
                      /\ writing'
    BY <1>1 DEF Recording, RecordBytes, HeaderStart
  <2>1. /\ ImageUnderHead # NoImage /\ sector = target /\ left <= RecordBytes
        /\ physicalOffset = HeaderStart + HeaderSize + (RecordBytes - left)
        /\ writing
    BY <1>1 DEF IInv, Writing, Recording
  <2>2. physicalOffset < SectorSize
    BY <1>1, <1>3, <2>1, LayoutSums
  <2>3. physicalOffset' = physicalOffset + 1 /\ UNCHANGED <<writing, sector>>
    BY <1>1, <1>3, <2>1, <2>2, ByteGoesDown
  <2>4. physicalOffset' = HeaderStart + HeaderSize + (RecordBytes - left')
    BY <1>1, <1>3, <2>1, <2>3, LayoutSums
  <2>5. left' <= RecordBytes
    BY <1>3, <1>5, <2>1, LayoutSums
  <2> QED BY <1>4, <2>1, <2>3, <2>4, <2>5
<1>7. Formatting'
  <2> SUFFICES ASSUME job = "format", ~swapped, ImageUnderHead' # NoImage
               PROVE  /\ sector' = formatted % ImageUnderHead'.physicalSectorCount
                      /\ left' <= SectorBytes
                      /\ physicalOffset' = SectorBytes - left'
                      /\ writing'
                      /\ Covered(ImageUnderHead', formatted)
                      /\ ~ImageUnderHead'.writeProtected =>
                            sector' \in ImageUnderHead'.modified
                                           \cup {ImageUnderHead'.spliceSector}
    BY <1>1 DEF Formatting, SectorBytes, RecordStart, Covered
  <2> DEFINE image == ImageUnderHead
  <2>1. /\ image # NoImage
        /\ sector = formatted % image.physicalSectorCount
        /\ left <= SectorBytes /\ physicalOffset = SectorBytes - left
        /\ writing
        /\ Covered(image, formatted)
    BY <1>1, <1>4 DEF IInv, Writing, Formatting
  <2>2. physicalOffset < SectorSize
    BY <1>1, <1>3, <2>1, LayoutSums
  <2>3. /\ ImageUnderHead' = WritePhysicalByte(image, sector)
        /\ image \in Image /\ sector \in Sectors
        /\ physicalOffset' = physicalOffset + 1
        /\ UNCHANGED <<writing, sector>>
    BY <1>1, <1>3, <2>1, <2>2, ByteGoesDown
  <2> HIDE DEF image
  <2>4. /\ ImageUnderHead'.physicalSectorCount = image.physicalSectorCount
        /\ ImageUnderHead'.spliceSector = image.spliceSector
        /\ ImageUnderHead'.writeProtected = image.writeProtected
        /\ image.modified \subseteq ImageUnderHead'.modified
        /\ ~image.writeProtected =>
              sector \in ImageUnderHead'.modified \cup {image.spliceSector}
    BY <2>3 DEF WritePhysicalByte, Image
  <2>5. physicalOffset' = SectorBytes - left' /\ left' <= SectorBytes
    BY <1>1, <1>3, <1>5, <2>1, <2>3, LayoutSums
  <2>6. Covered(ImageUnderHead', formatted)
    BY <2>1, <2>4 DEF Covered
  <2> QED BY <2>1, <2>3, <2>4, <2>5, <2>6
<1>8. /\ job' \in {"none", "record", "format"} /\ formatted' \in Nat
  BY <1>1 DEF IInv, DriverTypes
<1> QED
  BY <1>1, <1>2, <1>3, <1>5, <1>6, <1>7, <1>8, WritingKeeps DEF Writing

\* The sector after the n-th of a loop is the n+1-st.
LEMMA NextOfLoop ==
    ASSUME NEW n \in Nat, NEW length \in Nat \ {0}
    PROVE  ((n % length) + 1) % length = (n + 1) % length
<1> DEFINE q == n \div length
           r == n % length
<1>1. q \in Nat /\ r \in 0 .. length - 1 /\ n = length * q + r
  OBVIOUS
<1> HIDE DEF q, r
<1>2. CASE r + 1 < length
  <2>1. n + 1 = length * q + (r + 1) /\ r + 1 \in 0 .. length - 1
    BY <1>1, <1>2
  <2>2. (n + 1) % length = r + 1
    BY <2>1, <1>1
  <2>3. (r + 1) % length = r + 1
    BY <2>1
  <2> QED BY <2>2, <2>3 DEF r
<1>3. CASE r + 1 = length
  <2>1. n + 1 = length * (q + 1) + 0
    BY <1>1, <1>3
  <2>2. (n + 1) % length = 0
    BY <2>1, <1>1
  <2>3. (r + 1) % length = 0
    BY <1>3
  <2> QED BY <2>2, <2>3 DEF r
<1> QED
  BY <1>1, <1>2, <1>3

LEMMA FinishSectorKeeps == ASSUME IInv, TypeOK', FinishSector PROVE IInv'
<1>1. /\ pc = "write" /\ left = 0 /\ WriteMicrodriveControl(10)
      /\ formatted' = (IF job = "format" THEN formatted + 1 ELSE formatted)
      /\ IF job = "format" /\ formatted' < SectorCount
           THEN pc' = "erase" /\ left' = SectorBytes /\ job' = job
           ELSE pc' = "written" /\ left' = 0 /\ job' = "none"
      /\ UNCHANGED <<wanted, pulses, block, target, swapped>>
  BY DEF FinishSector
<1>2. /\ MoveTape(10)
      /\ UNCHANGED <<microdriveMode, activeMicrodrive, ImageUnderHead>>
  BY <1>1, ControlMoves
<1>3. block = <<>> /\ formatted \in Nat
  BY <1>1 DEF IInv, InBlock, Reading, DriverTypes
<1>4. Writing'
  <2>1. CASE job = "format" /\ formatted' < SectorCount
    <3>1. job' = "format" /\ pc' = "erase" /\ left' = SectorBytes /\ formatted' = formatted + 1
      BY <1>1, <2>1
    <3>2. Formatting'
      <4> SUFFICES ASSUME ~swapped, ImageUnderHead # NoImage
                   PROVE  /\ sector' = formatted' % ImageUnderHead.physicalSectorCount
                          /\ left' <= SectorBytes
                          /\ physicalOffset' = SectorBytes - left'
                          /\ Covered(ImageUnderHead, formatted')
                          /\ ~(left' < SectorBytes)
        BY <1>1, <1>2, <3>1 DEF Formatting, SectorBytes, RecordStart, Covered
      <4> DEFINE image  == ImageUnderHead
                 length == ImageUnderHead.physicalSectorCount
      <4>1. /\ sector = formatted % length /\ physicalOffset = SectorBytes - left
            /\ Covered(image, formatted)
            /\ ~image.writeProtected /\ left < SectorBytes =>
                  sector \in image.modified \cup {image.spliceSector}
        BY <2>1 DEF IInv, Writing, Formatting
      <4>2. length \in Nat \ {0}
        BY ImageUnderHeadType, LayoutAssumption DEF IInv, Image
      <4>3. EndsSector(10) /\ ~SkipPll(10)
        BY <1>1, <4>1, LayoutSums DEF EndsSector, SkipPll
      <4>4. sector' = NextSector /\ physicalOffset' = 0
        BY <1>2, <4>3 DEF MoveTape
      <4>5. sector' = (formatted + 1) % length
        BY <1>3, <4>1, <4>2, <4>4, NextOfLoop DEF NextSector
      <4>6. Covered(image, formatted + 1)
        <5> HIDE DEF image, length
        <5> SUFFICES ASSUME ~image.writeProtected,
                            NEW s \in 0 .. image.physicalSectorCount - 1, s < formatted + 1,
                            s # image.spliceSector
                     PROVE  s \in image.modified
          BY DEF Covered
        <5>1. CASE s < formatted
          BY <4>1, <5>1 DEF Covered
        <5>2. CASE s = formatted
          <6>1. length = image.physicalSectorCount
            BY DEF image, length
          <6>2. formatted % length = formatted
            BY <1>3, <4>2, <5>2, <6>1
          <6> QED BY <1>1, <4>1, <5>2, <6>2, LayoutSums
        <5> QED BY <1>3, <4>2, <5>1, <5>2 DEF image, length
      <4> QED BY <3>1, <4>4, <4>5, <4>6, LayoutSums
    <3> QED BY <3>1, <3>2 DEF Writing, Recording
  <2>2. CASE ~(job = "format" /\ formatted' < SectorCount)
    BY <1>1, <2>2, NoJobKeeps
  <2> QED BY <2>1, <2>2
<1>5. /\ pc' \in {"erase", "written"} /\ job' \in {"none", "format"}
      /\ job' # "none" => pc' = "erase"
      /\ left' \in Nat /\ formatted' \in Nat
  BY <1>1, <1>3, LayoutSums
<1> QED
  BY <1>1, <1>2, <1>3, <1>4, <1>5, WritingKeeps

----------------------------------------------------------------------------
(* The theorems.                                                           *)

LEMMA DriverInitially == DriverInit => IInv
<1> SUFFICES ASSUME DriverInit PROVE IInv
  OBVIOUS
<1>1. /\ pc = "off" /\ wanted = 1 /\ pulses = 0 /\ block = <<>> /\ job = "none"
      /\ left = 0 /\ formatted = 0 /\ swapped = FALSE
  BY DEF DriverInit, DriverOff
<1>2. activeMicrodrive = 0
  BY DEF DriverInit, Init, CartridgesInserted
<1>3. TypeOK
  <2>1. CASE Init
    BY <2>1, InitTypes
  <2>2. CASE CartridgesInserted
    <3>1. microdrives \in [Drives -> Image \cup {NoImage}]
      BY <2>2, NewImagesAreImages, ControllerAssumption DEF CartridgesInserted
    <3>2. StreamTypes
      BY <2>2, LayoutAssumption, ControllerAssumption
         DEF CartridgesInserted, StreamIsReset, StreamTypes, Sectors
    <3>3. activeMicrodrive \in 0 .. DriveCount /\ microdriveControl \in -1 .. 15
      BY <2>2, ControllerAssumption DEF CartridgesInserted
    <3>4. microdriveMode = FALSE /\ writing = FALSE /\ advanceSectorPending = FALSE
      BY <2>2 DEF CartridgesInserted, StreamIsReset
    <3>5. /\ microdriveMode \in BOOLEAN /\ writing \in BOOLEAN
          /\ advanceSectorPending \in BOOLEAN
      BY <3>4
    <3> QED BY <3>1, <3>2, <3>3, <3>5 DEF TypeOK
  <2> QED BY <2>1, <2>2 DEF DriverInit
<1>4. DriverTypes
  <2>1. 1 \in Drives
    BY ControllerAssumption DEF Drives
  <2>2. block \in Seq(Byte)
    BY <1>1
  <2> QED BY <1>1, <2>1, <2>2 DEF DriverTypes
<1>5. ChainIsClocked /\ Places
  BY <1>1, <1>2 DEF ChainIsClocked, WantedDriveRuns, Selecting, Stopping, Places
<1>6. BeforeBlock /\ InBlock
  BY <1>1 DEF BeforeBlock, InBlock, Reading
<1>7. BlockIsWhole
  <2>1. Len(block) = 0
    BY <1>1, Len(<<>>) = 0
  <2> QED BY <2>1 DEF BlockIsWhole
<1>8. Writing
  BY <1>1 DEF Writing, Recording, Formatting
<1> QED
  BY <1>3, <1>4, <1>5, <1>6, <1>7, <1>8 DEF IInv

LEMMA DriverInductive == IInv /\ [DriverStep]_all => IInv'
<1> SUFFICES ASSUME IInv, [DriverStep]_all PROVE IInv'
  OBVIOUS
<1>1. TypeOK'
  BY StepIsController, NextTypes DEF IInv
<1>2. CASE UNCHANGED all
  <2>1. UNCHANGED <<pc, wanted, pulses, block, job, target, left, formatted, swapped>>
    BY <1>2 DEF all, driver
  <2>2. UNCHANGED <<microdrives, microdriveMode, activeMicrodrive, microdriveControl, writing,
                    phase, gapPolls, readyPolls, streamRegion, dataOffset, physicalOffset,
                    sector, advanceSectorPending>>
    BY <1>2 DEF all, vars, tape, position
  <2>3. ImageUnderHead' = ImageUnderHead
    BY <2>2 DEF ImageUnderHead
  <2>4. DriverTypes' /\ ChainIsClocked' /\ Places'
    BY <2>1, <2>2 DEF IInv, DriverTypes, ChainIsClocked, WantedDriveRuns, Selecting, Stopping,
                      Places, StreamIsReset
  <2>5. BeforeBlock' /\ BlockIsWhole'
    BY <2>1, <2>2 DEF IInv, BeforeBlock, BlockIsWhole, KindOf, InGap, Start
  <2>6. InBlock'
    BY <2>1, <2>2, <2>3 DEF IInv, InBlock, Following, AtBytes, NoBlanks, StreamIsReset, Start
  <2>7. Writing'
    BY <2>1, <2>2, <2>3 DEF IInv, Writing, Recording, Formatting, Covered
  <2> QED BY <1>1, <2>4, <2>5, <2>6, <2>7 DEF IInv
<1>3. CASE Chain
  BY <1>1, <1>3, StartDriveKeeps, SelectPulseKeeps DEF Chain
<1>4. CASE Read
  BY <1>1, <1>4, SeekGapKeeps, WaitReadyKeeps, TakeByteKeeps, PollByteKeeps, SkipPreambleKeeps
     DEF Read
<1>5. CASE Work
  <2>1. CASE StopPulse \/ GiveUp \/ Restart
    BY <1>1, <2>1, StopPulseKeeps, GiveUpKeeps, RestartKeeps
  <2>2. CASE Write
    BY <1>1, <2>2, WriteRecordKeeps, FormatKeeps, StartWritingKeeps, WriteByteKeeps,
       FinishSectorKeeps, StopWritingKeeps DEF Write
  <2>3. CASE \E slot \in Drives : Swap(slot)
    BY <1>1, <2>3, SwapKeeps
  <2> QED BY <1>5, <2>1, <2>2, <2>3 DEF Work
<1> QED
  BY <1>2, <1>3, <1>4, <1>5 DEF DriverStep

\* The driver knows where the head is.
THEOREM InvariantHolds == DriverSpec => []IInv
BY DriverInitially, DriverInductive, PTL DEF DriverSpec

\* The drive that was wanted runs once its edges are clocked in, and none does once
\* they are clocked out, for chains of any length.
THEOREM DriveCorrect == DriverSpec => []WantedDriveRuns
<1>1. IInv => WantedDriveRuns
  BY DEF IInv, ChainIsClocked
<1> QED
  BY <1>1, InvariantHolds, PTL

\* No block is torn: the bytes taken are those of one header or one record, each once
\* and in order, for any layout of the sector.
THEOREM BlockCorrect == DriverSpec => []BlockIsWhole
<1>1. IInv => BlockIsWhole
  BY DEF IInv
<1> QED
  BY <1>1, InvariantHolds, PTL

\* A record lands on the old record of the sector whose header was read.
THEOREM RecordCorrect == DriverSpec => []RecordInPlace
<1>1. IInv => RecordInPlace
  <2> SUFFICES ASSUME IInv, pc = "write", job = "record", ~swapped
               PROVE  /\ activeMicrodrive # 0 /\ ImageUnderHead # NoImage
                      /\ sector = target
                      /\ physicalOffset = HeaderStart + HeaderSize + (RecordBytes - left)
    BY DEF RecordInPlace
  <2>1. activeMicrodrive # 0
    BY ControllerAssumption DEF IInv, ChainIsClocked, WantedDriveRuns, DriverTypes, Drives
  <2> QED BY <2>1 DEF IInv, Writing, Recording
<1> QED
  BY <1>1, InvariantHolds, PTL

\* FORMAT leaves no sector out and begins none elsewhere than at its first byte, for
\* tapes of any length.
THEOREM FormatCorrect == DriverSpec => []FormatCoversTape
<1>1. IInv => FormatCoversTape
  BY DEF IInv, Writing, Formatting, FormatCoversTape, Covered
<1> QED
  BY <1>1, InvariantHolds, PTL
==============================================================================
