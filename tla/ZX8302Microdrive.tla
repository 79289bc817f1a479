-------------------------- MODULE ZX8302Microdrive --------------------------
(***************************************************************************)
(* The Microdrive controller inside the ZX8302 (devices/zx8302.js): the    *)
(* drive chain, the tape as it runs under the head, and the registers      *)
(* through which the processor sees it.                                    *)
(*                                                                         *)
(* The processor is the environment: any register may be read or written   *)
(* with any value at any time.  So are the pages of the user interface     *)
(* that insert, eject and save cartridges, which run between instructions. *)
(***************************************************************************)
EXTENDS MicrodriveImage, Integers

CONSTANTS
    DriveCount,           \* length of the drive chain: 8
    GapPolls,             \* status polls that one gap lasts: 24
    BlockHeaderSize,      \* record bytes read before the PLL is skipped: 4
    PllPreambleSize,      \* record bytes that are skipped then: 8
    EraseThreshold,       \* physical offset past which control 0x0a ends a sector: 0x40
    ControlValues,        \* the control nibbles the processor writes, of 0..15
    Cartridges            \* the images the user has at hand

ASSUME ControllerAssumption ==
    /\ DriveCount \in Nat \ {0}
    /\ GapPolls \in Nat
    /\ BlockHeaderSize \in Nat
    /\ PllPreambleSize \in Nat
    /\ BlockHeaderSize + PllPreambleSize <= RecordSize
    /\ EraseThreshold \in Nat
    /\ ControlValues \subseteq 0 .. 15
    /\ Cartridges \subseteq NewImages
    /\ \A image \in Cartridges : ConstructorAccepts(image)

Drives == 1 .. DriveCount

VARIABLES
    microdrives,          \* what each slot holds
    microdriveMode,       \* (transmitControl & 0x18) = 0x10
    activeMicrodrive,     \* the drive whose motor runs, 0 for none
    microdriveControl,    \* the last control nibble, -1 after a reset
    phase,                \* what passes under the head
    gapPolls, readyPolls, \* status polls spent in a gap, in a header or record
    streamRegion,         \* what the data register delivers, "none" at first
    dataOffset,           \* next byte of the region
    physicalOffset,       \* next byte of the sector
    writing,
    sector,               \* the sector under the head
    advanceSectorPending  \* the record has passed, its sector not yet left

position == <<phase, gapPolls, readyPolls, streamRegion, dataOffset,
              physicalOffset, sector, advanceSectorPending>>
tape     == <<position, writing>>
vars     == <<microdrives, microdriveMode, activeMicrodrive, microdriveControl, tape>>

----------------------------------------------------------------------------
\* The tape stands at the start of its first gap.
StreamIsReset ==
    /\ phase = "header-gap"
    /\ gapPolls = 0
    /\ readyPolls = 0
    /\ streamRegion = "none"
    /\ dataOffset = 0
    /\ physicalOffset = 0
    /\ sector = 0
    /\ advanceSectorPending = FALSE

ResetMicrodriveStream ==
    /\ phase' = "header-gap"
    /\ gapPolls' = 0
    /\ readyPolls' = 0
    /\ streamRegion' = "none"
    /\ dataOffset' = 0
    /\ physicalOffset' = 0
    /\ writing' = FALSE
    /\ sector' = 0
    /\ advanceSectorPending' = FALSE

Init ==
    /\ microdrives = [slot \in Drives |-> NoImage]
    /\ microdriveMode = FALSE
    /\ activeMicrodrive = 0
    /\ microdriveControl = -1
    /\ writing = FALSE
    /\ StreamIsReset

\* The cartridge in the running drive, if any.
ImageUnderHead ==
    IF activeMicrodrive = 0 THEN NoImage ELSE microdrives[activeMicrodrive]

\* Mutant: every tape is taken to have all the sectors of the file.
NextSector_Mut == (sector + 1) % SectorCount

\* advanceMicrodriveSector()
NextSector ==
    (sector + 1) % (IF ImageUnderHead = NoImage THEN SectorCount
                    ELSE ImageUnderHead.physicalSectorCount)

----------------------------------------------------------------------------
\* reset(): the cartridges stay in their slots.
Reset ==
    /\ ResetMicrodriveStream
    /\ microdriveMode' = FALSE
    /\ activeMicrodrive' = 0
    /\ microdriveControl' = -1
    /\ UNCHANGED microdrives

\* Mutant: the stream survives the change of cartridge.
MountMicrodrive_Mut(slot, image) ==
    /\ microdrives' = [microdrives EXCEPT ![slot] = image]
    /\ UNCHANGED <<tape, microdriveMode, activeMicrodrive, microdriveControl>>

\* mountMicrodrive(): a cartridge put in the running drive starts anew.
MountMicrodrive(slot, image) ==
    /\ microdrives' = [microdrives EXCEPT ![slot] = image]
    /\ IF activeMicrodrive = slot THEN ResetMicrodriveStream ELSE UNCHANGED tape
    /\ UNCHANGED <<microdriveMode, activeMicrodrive, microdriveControl>>

UnmountMicrodrive(slot) == MountMicrodrive(slot, NoImage)

\* The user saves the cartridge of a slot; a protected one has nothing to save.
SaveMicrodrive(slot) ==
    /\ microdrives[slot] # NoImage
    /\ ~microdrives[slot].writeProtected
    /\ microdrives' = [microdrives EXCEPT ![slot] = MarkClean(@)]
    /\ UNCHANGED <<microdriveMode, activeMicrodrive, microdriveControl, tape>>

\* A write to the transmit control register.
WriteTransmitControl(mode) ==
    /\ microdriveMode' = mode
    /\ UNCHANGED <<microdrives, activeMicrodrive, microdriveControl, tape>>

----------------------------------------------------------------------------
(* The status register.  A read of it is also what moves the tape.         *)

InGap == phase \in {"header-gap", "record-gap"}

\* The head sees the tape: the other reads of the register return constants.
Sensing ==
    /\ microdriveMode
    /\ ImageUnderHead # NoImage
    /\ ~writing

\* What the next read returns: the GAP bit, which idles high outside the
\* Microdrive mode, and the read-ready bit.
SharedStatus ==
    [ gap   |-> ~microdriveMode \/ (Sensing /\ InGap /\ gapPolls = 0),
      ready |-> Sensing /\ ~InGap ]

\* The first poll of the gap after a record leaves the sector.
LeavesSector == phase = "header-gap" /\ gapPolls = 0 /\ advanceSectorPending

PollGap ==
    /\ Sensing
    /\ InGap
    /\ IF LeavesSector
         THEN sector' = NextSector /\ advanceSectorPending' = FALSE
         ELSE UNCHANGED <<sector, advanceSectorPending>>
    /\ IF gapPolls + 1 > GapPolls
         THEN /\ phase' = IF phase = "header-gap" THEN "header" ELSE "record"
              /\ gapPolls' = 0
              /\ readyPolls' = 0
              /\ streamRegion' = phase'
              /\ dataOffset' = 0
              /\ physicalOffset' = IF phase = "header-gap" THEN HeaderStart
                                                           ELSE RecordStart
         ELSE /\ gapPolls' = gapPolls + 1
              /\ UNCHANGED <<phase, readyPolls, streamRegion, dataOffset, physicalOffset>>

\* Mutant: a record passes as quickly as a header.
ReadyPollLimit_Mut == HeaderSize

ReadyPollLimit == IF phase = "header" THEN HeaderSize ELSE RecordSize

PollReady ==
    /\ Sensing
    /\ ~InGap
    /\ IF readyPolls + 1 >= ReadyPollLimit
         THEN /\ phase' = IF phase = "header" THEN "record-gap" ELSE "header-gap"
              /\ advanceSectorPending' = (phase = "record" \/ advanceSectorPending)
              /\ readyPolls' = 0
              /\ gapPolls' = 0
         ELSE /\ readyPolls' = readyPolls + 1
              /\ UNCHANGED <<phase, advanceSectorPending, gapPolls>>
    /\ UNCHANGED <<streamRegion, dataOffset, physicalOffset, sector>>

PollIdle == ~Sensing /\ UNCHANGED position

ReadSharedStatus ==
    /\ PollGap \/ PollReady \/ PollIdle
    /\ UNCHANGED <<microdrives, microdriveMode, activeMicrodrive, microdriveControl, writing>>

----------------------------------------------------------------------------
(* The data registers.                                                     *)

RegionSize ==
    IF streamRegion = "header" THEN HeaderSize
    ELSE IF streamRegion = "record" THEN RecordSize
    ELSE 0

\* A read finds a byte of the region under the head.
ByteAvailable ==
    /\ microdriveMode
    /\ ImageUnderHead # NoImage
    /\ dataOffset < RegionSize

ReadMicrodriveData ==
    /\ IF ByteAvailable
         THEN /\ dataOffset' = dataOffset + 1
              /\ physicalOffset' = physicalOffset + 1
         ELSE UNCHANGED <<dataOffset, physicalOffset>>
    /\ UNCHANGED <<microdrives, microdriveMode, activeMicrodrive, microdriveControl,
                   phase, gapPolls, readyPolls, streamRegion, writing, sector,
                   advanceSectorPending>>

\* The tape moves on whether or not the cartridge takes the byte.
WriteMicrodriveData ==
    /\ IF /\ microdriveMode
          /\ writing
          /\ ImageUnderHead # NoImage
          /\ physicalOffset < SectorSize
         THEN /\ microdrives' = [microdrives EXCEPT
                                   ![activeMicrodrive] = WritePhysicalByte(@, sector)]
              /\ physicalOffset' = physicalOffset + 1
         ELSE UNCHANGED <<microdrives, physicalOffset>>
    /\ UNCHANGED <<microdriveMode, activeMicrodrive, microdriveControl, phase, gapPolls,
                   readyPolls, streamRegion, dataOffset, writing, sector,
                   advanceSectorPending>>

----------------------------------------------------------------------------
(* The control register: it shifts the motor along the drive chain, skips  *)
(* the preamble inside a record and switches between reading and writing.  *)

SelectMicrodrive(slot) ==
    /\ activeMicrodrive' = slot
    /\ ResetMicrodriveStream

\* Mutants: the edge that leaves the last drive selects one that does not
\* exist, or the first one again.
NextInChain_Mut == IF activeMicrodrive > 0 THEN activeMicrodrive + 1 ELSE 0
NextInChain_Mut2 == IF activeMicrodrive > 0 THEN (activeMicrodrive % DriveCount) + 1 ELSE 0

NextInChain == IF activeMicrodrive \in 1 .. DriveCount - 1 THEN activeMicrodrive + 1 ELSE 0

FirstDrive(control) == microdriveControl = 3 /\ control = 1
NextDrive(control)  == microdriveControl = 2 /\ control = 0

\* Mutant: the preamble is skipped from anywhere after the block header.
SkipPll_Mut(control) ==
    /\ microdriveControl = 2
    /\ control = 2
    /\ streamRegion = "record"
    /\ dataOffset >= BlockHeaderSize

\* Past the block header of a record, 2 after 2 skips the preamble that follows.
SkipPll(control) ==
    /\ microdriveControl = 2
    /\ control = 2
    /\ streamRegion = "record"
    /\ dataOffset = BlockHeaderSize

\* Mutant: the threshold is forgotten.
EndsSector_Mut(control) == control = 10

\* Control 0x0a past the threshold ends the sector being written.
EndsSector(control) == control = 10 /\ physicalOffset > EraseThreshold

\* A clock edge of the drive chain: the stream is reset, and so is whatever
\* the new nibble would have done to it.
ClockChain(control) ==
    \/ FirstDrive(control) /\ SelectMicrodrive(1)
    \/ NextDrive(control) /\ SelectMicrodrive(NextInChain)

WritingAfter(control) ==
    CASE control = 14          -> TRUE
      [] control \in {0, 2, 10} -> FALSE
      [] OTHER                 -> writing

MoveTape(control) ==
    /\ ~FirstDrive(control)
    /\ ~NextDrive(control)
    /\ writing' = WritingAfter(control)
    /\ dataOffset' = IF SkipPll(control) THEN dataOffset + PllPreambleSize ELSE dataOffset
    /\ physicalOffset' = IF SkipPll(control) THEN physicalOffset + PllPreambleSize
                         ELSE IF EndsSector(control) THEN 0 ELSE physicalOffset
    /\ IF EndsSector(control)
         THEN sector' = NextSector /\ advanceSectorPending' = FALSE
         ELSE UNCHANGED <<sector, advanceSectorPending>>
    /\ UNCHANGED <<activeMicrodrive, phase, gapPolls, readyPolls, streamRegion>>

WriteMicrodriveControl(control) ==
    /\ ClockChain(control) \/ MoveTape(control)
    /\ microdriveControl' = control
    /\ UNCHANGED <<microdrives, microdriveMode>>

----------------------------------------------------------------------------
Processor ==
    \/ \E mode \in BOOLEAN : WriteTransmitControl(mode)
    \/ \E control \in ControlValues : WriteMicrodriveControl(control)
    \/ ReadSharedStatus
    \/ ReadMicrodriveData
    \/ WriteMicrodriveData

User ==
    \/ \E slot \in Drives, image \in Cartridges : MountMicrodrive(slot, image)
    \/ \E slot \in Drives : UnmountMicrodrive(slot) \/ SaveMicrodrive(slot)
    \/ Reset

Next == Processor \/ User

Spec == Init /\ [][Next]_vars
----------------------------------------------------------------------------
StreamTypes ==
    /\ phase \in {"header-gap", "header", "record-gap", "record"}
    /\ gapPolls \in 0 .. GapPolls
    /\ readyPolls \in Nat
    /\ streamRegion \in {"none", "header", "record"}
    /\ dataOffset \in Nat
    /\ physicalOffset \in Nat
    /\ sector \in Sectors

TypeOK ==
    /\ microdrives \in [Drives -> Image \cup {NoImage}]
    /\ microdriveMode \in BOOLEAN
    /\ activeMicrodrive \in 0 .. DriveCount
    /\ microdriveControl \in -1 .. 15
    /\ StreamTypes
    /\ writing \in BOOLEAN
    /\ advanceSectorPending \in BOOLEAN

\* How far the counters go, whatever the processor does: polls are counted
\* only where they are waited for, the data registers stop at the end of their
\* region, and the head, which reads and writes both move, is never more than
\* one region past the end of the sector.
CountersBounded ==
    /\ ~InGap => gapPolls = 0
    /\ InGap => readyPolls = 0
    /\ ~InGap => readyPolls < ReadyPollLimit
    /\ dataOffset <= RegionSize
    /\ physicalOffset <= SectorSize + dataOffset

\* A sector that has passed and not been left is left at the very next poll
\* of the gap: nothing else of the gap can happen first.
PendingAtGapStart ==
    advanceSectorPending => phase = "header-gap" /\ gapPolls = 0

\* The head never leaves the tape: it stands on a sector of the physical path
\* of the cartridge in the running drive, whatever was ejected, inserted or
\* selected while the tape ran.  readHeaderByte, readRecordByte and
\* writePhysicalByte rely on it (they throw outside the image, and would read
\* sectors the tape does not have inside it).
HeadOnTape ==
    ImageUnderHead # NoImage => sector < ImageUnderHead.physicalSectorCount

\* A tape that nobody turns does not move: with no motor running, or none
\* over a cartridge, the stream is as resetMicrodriveStream left it, so the
\* next cartridge starts at its first gap and never in the middle of a record
\* of the one before.
NoMotionWithoutTape ==
    ImageUnderHead = NoImage => StreamIsReset

\* The stream is sound: counters, pending advance, motion and head agree with each
\* other, whatever registers are written, read and polled in whatever order and
\* whatever cartridges come and go.
StreamIsSound == CountersBounded /\ PendingAtGapStart /\ NoMotionWithoutTape /\ HeadOnTape

\* What the user interface believes of the media: a write-protected cartridge
\* keeps its bytes and never asks to be saved; one that holds bytes the user
\* has not saved is marked dirty, which the confirmations before ejecting it
\* rest on; no byte is recorded on the splice, nor on a sector the physical
\* path lacks, however the head came to be where it wrote.
MediaIntegrity ==
    \A slot \in Drives : microdrives[slot] # NoImage =>
        LET image == microdrives[slot] IN
        /\ image.writeProtected => ~image.dirty
        /\ image.modified # {} => image.dirty
        /\ image.modified \subseteq (0 .. image.physicalSectorCount - 1)
                                      \ {image.spliceSector}

\* The controller, driven by any processor and any user, turns the tape as
\* Tape says: blocks in the order of the tape and none of them twice, one
\* sector further at the end of a write (also when the end of a record has
\* just asked for the next sector: it is not left twice), and a tape that
\* starts anew with every change of drive or cartridge.  The sector that is
\* to be left at the next poll counts as left.
TapeUnderHead == INSTANCE Tape WITH
    MaxLength <- SectorCount,
    length    <- IF ImageUnderHead = NoImage THEN 0 ELSE ImageUnderHead.physicalSectorCount,
    sector    <- IF advanceSectorPending THEN NextSector ELSE sector,
    block     <- IF phase \in {"header-gap", "header"} THEN "header" ELSE "record"

TurnsTape == TapeUnderHead!Spec
============================================================================
