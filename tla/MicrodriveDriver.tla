-------------------------- MODULE MicrodriveDriver --------------------------
(***************************************************************************)
(* The controller and the driver in the ROM that uses it.  The driver is   *)
(* not part of this repository: it is modelled from the register sequences *)
(* of tests/zx8302.test.js (selectMicrodrive, finishGap, readReadyBytes,   *)
(* the written record) and from the comments in writeMicrodriveControl.    *)
(*                                                                         *)
(* It selects a drive by clocking the chain, waits for a gap, takes one    *)
(* byte for every poll that finds one ready, skips the preamble inside a   *)
(* record, writes the record of the sector whose header it has just read,  *)
(* and formats a tape by writing sector after sector.  Meanwhile the user  *)
(* swaps cartridges and resets the machine.                                *)
(***************************************************************************)
EXTENDS ZX8302Microdrive, Sequences

VARIABLES
    pc,          \* where the driver is
    wanted,      \* the drive it selects
    pulses,      \* edges clocked into the chain
    block,       \* the bytes taken from the block under way
    job,         \* what it writes: "none", "record" or "format"
    target,      \* the sector of the header it has read
    left,        \* bytes still to write
    formatted,   \* sectors written by FORMAT
    swapped,     \* the cartridge was changed since the block or job began
    onlyReads    \* a driver that only reads, and is left alone by the user

driver == <<pc, wanted, pulses, block, job, target, left, formatted, swapped>>
all    == <<vars, driver, onlyReads>>

DriverOff ==
    /\ pc = "off"
    /\ wanted = 1
    /\ pulses = 0
    /\ block = <<>>
    /\ job = "none"
    /\ target = 0
    /\ left = 0
    /\ formatted = 0
    /\ swapped = FALSE

\* The user has filled the drives of a driver that only reads.
CartridgesInserted ==
    /\ microdrives \in [Drives -> Cartridges]
    /\ microdriveMode = FALSE
    /\ activeMicrodrive = 0
    /\ microdriveControl = -1
    /\ writing = FALSE
    /\ StreamIsReset

DriverInit ==
    /\ DriverOff
    /\ \/ Init /\ onlyReads = FALSE
       \/ CartridgesInserted /\ onlyReads = TRUE

----------------------------------------------------------------------------
(* The drive chain.                                                        *)

\* The nibble of the n-th edge: 3 then 1 for the first drive, 2 then 0 for
\* each drive after it, and for stopping the motor.
Edge(n) == IF n = 0 THEN 3 ELSE IF n = 1 THEN 1 ELSE IF n % 2 = 0 THEN 2 ELSE 0

StartDrive(slot) ==
    /\ pc = "off"
    /\ WriteTransmitControl(TRUE)
    /\ pc' = "select"
    /\ wanted' = slot
    /\ pulses' = 0
    /\ UNCHANGED <<block, job, target, left, formatted, swapped>>

SelectPulse ==
    /\ pc = "select"
    /\ WriteMicrodriveControl(Edge(pulses))
    /\ pulses' = pulses + 1
    /\ IF pulses' = 2 * wanted
         THEN pc' = "selected" /\ swapped' = FALSE
         ELSE UNCHANGED <<pc, swapped>>
    /\ UNCHANGED <<wanted, block, job, target, left, formatted>>

StopPulse ==
    /\ pc \in {"selected", "ready", "stop"}
    /\ LET n == IF pc = "stop" THEN pulses ELSE 2 IN
       /\ WriteMicrodriveControl(Edge(n))
       /\ pulses' = n + 1
       /\ pc' = IF pulses' = 2 * DriveCount + 2 THEN "off" ELSE "stop"
    /\ block' = <<>>
    /\ UNCHANGED <<wanted, job, target, left, formatted, swapped>>

----------------------------------------------------------------------------
(* Reading.                                                                *)

SeekGap ==
    /\ pc \in {"selected", "ready", "seek", "header"}
    /\ ReadSharedStatus
    /\ pc' = IF SharedStatus.gap THEN "gap" ELSE "seek"
    /\ block' = <<>>
    /\ swapped' = FALSE
    /\ UNCHANGED <<wanted, pulses, job, target, left, formatted>>

WaitReady ==
    /\ pc = "gap"
    /\ ReadSharedStatus
    /\ pc' = IF SharedStatus.ready THEN "take" ELSE "gap"
    /\ UNCHANGED <<wanted, pulses, block, job, target, left, formatted, swapped>>

\* The byte the data register gives: a zero when it has none to give, or when
\* the head is on the splice.
Blank == <<>>
ByteUnderHead ==
    IF ByteAvailable /\ sector # ImageUnderHead.spliceSector
      THEN <<streamRegion, sector, dataOffset>>
      ELSE Blank

\* The first byte of a block tells the driver a header from a record.
KindOf(b) == IF b[1] = Blank THEN "none" ELSE b[1][1]

\* What follows when the driver has taken the bytes of b.
AfterBytes(b) ==
    CASE KindOf(b) = "header" -> IF Len(b) < HeaderSize THEN "poll" ELSE "header"
      [] KindOf(b) = "record" -> IF Len(b) = BlockHeaderSize THEN "pll"
                                 ELSE IF Len(b) < RecordSize - PllPreambleSize THEN "poll"
                                 ELSE "ready"
      [] OTHER                -> "ready"

TakeByte ==
    /\ pc = "take"
    /\ ReadMicrodriveData
    /\ block' = Append(block, ByteUnderHead)
    /\ pc' = AfterBytes(block')
    /\ UNCHANGED <<wanted, pulses, job, target, left, formatted, swapped>>

\* One poll per byte; a poll that finds no byte ready ends the block.
PollByte ==
    /\ pc = "poll"
    /\ ReadSharedStatus
    /\ IF SharedStatus.ready
         THEN pc' = "take" /\ block' = block
         ELSE pc' = "ready" /\ block' = <<>>
    /\ UNCHANGED <<wanted, pulses, job, target, left, formatted, swapped>>

\* The block header is followed by a preamble, skipped by writing 2 twice.
SkipPreamble ==
    /\ pc \in {"pll", "pll again"}
    /\ WriteMicrodriveControl(2)
    /\ pc' = IF pc = "pll" THEN "pll again" ELSE "poll"
    /\ UNCHANGED <<wanted, pulses, block, job, target, left, formatted, swapped>>

\* The driver waits for so long and no longer.
GiveUp ==
    /\ pc \in {"seek", "gap", "poll"}
    /\ pc' = "ready"
    /\ block' = <<>>
    /\ UNCHANGED <<vars, wanted, pulses, job, target, left, formatted, swapped>>

----------------------------------------------------------------------------
(* Writing.                                                                *)

RecordBytes == DataPreambleSize + RecordSize
SectorBytes == RecordStart + RecordSize

\* The nibbles the driver writes; the preamble lies inside the record; a header
\* that was read is not past the threshold of control 0x0a, a sector written is.
ASSUME DriverAssumption ==
    /\ {0, 1, 2, 3, 10, 14} \subseteq ControlValues
    /\ 0 < BlockHeaderSize
    /\ BlockHeaderSize + PllPreambleSize < RecordSize
    /\ HeaderStart + HeaderSize <= EraseThreshold
    /\ EraseThreshold < SectorBytes

\* The header that has just been read is followed by a new record.
WriteRecord ==
    /\ pc = "header"
    /\ \A i \in 1 .. Len(block) : block[i] # Blank
    /\ WriteMicrodriveControl(10)
    /\ pc' = "erase"
    /\ job' = "record"
    /\ target' = block[1][2]
    /\ left' = RecordBytes
    /\ block' = <<>>
    /\ UNCHANGED <<wanted, pulses, formatted, swapped>>

\* FORMAT writes all the sectors anew, from the start of the tape.
Format ==
    /\ pc = "selected"
    /\ WriteMicrodriveControl(10)
    /\ pc' = "erase"
    /\ job' = "format"
    /\ left' = SectorBytes
    /\ formatted' = 0
    /\ UNCHANGED <<wanted, pulses, block, target, swapped>>

StartWriting ==
    /\ pc = "erase"
    /\ WriteMicrodriveControl(14)
    /\ pc' = "write"
    /\ UNCHANGED <<wanted, pulses, block, job, target, left, formatted, swapped>>

WriteByte ==
    /\ pc = "write"
    /\ left > 0
    /\ WriteMicrodriveData
    /\ left' = left - 1
    /\ UNCHANGED <<pc, wanted, pulses, block, job, target, formatted, swapped>>

FinishSector ==
    /\ pc = "write"
    /\ left = 0
    /\ WriteMicrodriveControl(10)
    /\ formatted' = IF job = "format" THEN formatted + 1 ELSE formatted
    /\ IF job = "format" /\ formatted' < SectorCount
         THEN pc' = "erase" /\ left' = SectorBytes /\ job' = job
         ELSE pc' = "written" /\ left' = 0 /\ job' = "none"
    /\ UNCHANGED <<wanted, pulses, block, target, swapped>>

StopWriting ==
    /\ pc = "written"
    /\ WriteMicrodriveControl(2)
    /\ pc' = "ready"
    /\ UNCHANGED <<wanted, pulses, block, job, target, left, formatted, swapped>>

----------------------------------------------------------------------------
Read   == SeekGap \/ WaitReady \/ TakeByte \/ PollByte \/ SkipPreamble
Write  == WriteRecord \/ Format \/ StartWriting \/ WriteByte \/ FinishSector \/ StopWriting
Chain  == (\E slot \in Drives : StartDrive(slot)) \/ SelectPulse

\* The user changes a cartridge under the driver.
Swap(slot) ==
    /\ \/ \E image \in Cartridges : MountMicrodrive(slot, image)
       \/ UnmountMicrodrive(slot)
    /\ swapped' = (swapped \/ slot = activeMicrodrive)
    /\ UNCHANGED <<pc, wanted, pulses, block, job, target, left, formatted>>

Restart ==
    /\ Reset
    /\ pc' = "off"
    /\ wanted' = 1
    /\ pulses' = 0
    /\ block' = <<>>
    /\ job' = "none"
    /\ target' = 0
    /\ left' = 0
    /\ formatted' = 0
    /\ swapped' = FALSE

Work == ~onlyReads /\ (StopPulse \/ GiveUp \/ Write \/ (\E slot \in Drives : Swap(slot)) \/ Restart)

DriverStep == (Chain \/ Read \/ Work) /\ UNCHANGED onlyReads

\* The processor runs a driver that only reads for as long as the emulator runs.
DriverSpec == DriverInit /\ [][DriverStep]_all /\ WF_all(onlyReads /\ DriverStep)
----------------------------------------------------------------------------
\* The chain: a driver that has clocked the edges for a drive has the motor of
\* that drive, and one that has clocked them all out has none.
WantedDriveRuns ==
    /\ pc \notin {"off", "select", "stop"} => activeMicrodrive = wanted
    /\ pc = "off" => activeMicrodrive = 0

\* No torn block: the bytes taken for one block are those of one header or one
\* record, of one sector, each once and in order, with the preamble left out.
\* When the cartridge is changed in the middle, at most the byte waited for is
\* lost (it reads as zero) and the driver sees at the next poll that the block
\* is over.
BlockIsWhole ==
    \A i \in 1 .. Len(block) :
        IF block[i] = Blank
          THEN i = Len(block) /\ (i = 1 \/ swapped)
          ELSE LET skipped == IF KindOf(block) = "record" /\ i > BlockHeaderSize
                                THEN PllPreambleSize ELSE 0
               IN  block[i] = <<KindOf(block), block[1][2], i - 1 + skipped>>

\* A record is written where it belongs: in the sector whose header was read,
\* from the byte after the header, so that its preamble and its bytes land on
\* the preamble and the bytes of the old record and the header survives.
RecordInPlace ==
    pc = "write" /\ job = "record" /\ ~swapped =>
        /\ activeMicrodrive # 0 /\ ImageUnderHead # NoImage
        /\ sector = target
        /\ physicalOffset = HeaderStart + HeaderSize + (RecordBytes - left)

\* FORMAT writes every sector of the tape once before it comes back to the
\* first, each from its first byte, and leaves only the splice as it was.
FormatCoversTape ==
    job = "format" /\ ~swapped /\ ImageUnderHead # NoImage =>
        /\ sector = formatted % ImageUnderHead.physicalSectorCount
        /\ pc = "write" => physicalOffset = SectorBytes - left
        /\ ~ImageUnderHead.writeProtected =>
              {s \in 0 .. ImageUnderHead.physicalSectorCount - 1 : s < formatted}
                  \ {ImageUnderHead.spliceSector} \subseteq ImageUnderHead.modified

\* A driver that keeps reading comes to the whole header and to the whole
\* record of every sector, but for the splice: none is passed over for good.
EverySectorComesRound ==
    \A s \in Sectors :
        LET onTape == /\ onlyReads /\ pc # "off"
                      /\ s < microdrives[wanted].physicalSectorCount
                      /\ s # microdrives[wanted].spliceSector
            headerRead == pc = "header" /\ block[1] = <<"header", s, 0>>
            recordRead == /\ pc = "ready"
                          /\ Len(block) = RecordSize - PllPreambleSize
                          /\ block[1] = <<"record", s, 0>>
        IN  (onTape ~> headerRead) /\ (onTape ~> recordRead)
============================================================================
