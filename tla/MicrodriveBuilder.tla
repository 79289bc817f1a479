------------------------- MODULE MicrodriveBuilder -------------------------
(***************************************************************************)
(* buildMicrodriveImage() (microdrive-builder.js): the directory and the   *)
(* files of a package are laid out block by block over the sectors of a    *)
(* cartridge.  A cell is as many bytes as a header takes, and a block is   *)
(* DataSize cells; the checksums, the preambles and the name of the medium *)
(* are left out.                                                           *)
(***************************************************************************)
EXTENDS SequencesExt, Refusals

CONSTANTS
    SectorCount,    \* sectors of a cartridge: 255
    DataSize,       \* cells of a block: 512 / 64
    LastBit,        \* 0x80: marks the last block of a file
    FreeSector,     \* 0xfd, in the map and in the records
    DamagedSector,  \* 0xff
    MapFile,        \* 0xf8
    MaxFiles,       \* 127
    LowerCase,      \* the lower case of each part of a name
    Foreign         \* the parts of names that are not ASCII

VARIABLES
    phase,          \* how far an import is (see PackageImport)
    error,          \* why it was refused
    files,          \* sequence of [name, bytes, metadata]
    fileNumber, block, sector,  \* the indices of the loops
    fileNumbers, recordFileNumbers, blocks, data,
    image

indices == <<fileNumber, block, sector>>
tables  == <<fileNumbers, recordFileNumbers, blocks, data>>

LastSector == SectorCount - 1
Sectors    == 0 .. LastSector

Zero    == <<"zero">>
Pattern == [cell \in 1 .. DataSize |-> <<"pattern">>]   \* alternatingPattern()

Lower(name) == [i \in DOMAIN name |-> LowerCase[name[i]]]

\* buildQlFileHeader(): the length counts the header.
Header(file) == <<"header", file.name, Len(file.bytes) + 1, file.metadata>>

Directory(theFiles) ==
    <<<<"length", Len(theFiles) + 1>>>> \o [n \in DOMAIN theFiles |-> Header(theFiles[n])]

\* Unit 0 is the directory, unit n is file n under its header.
Unit(theFiles, n) ==
    IF n = 0 THEN Directory(theFiles) ELSE <<Header(theFiles[n])>> \o theFiles[n].bytes

BlockCount(unit) == (Len(unit) + DataSize - 1) \div DataSize

\* The blocks of the units up to each of them.
BlocksUpTo(theFiles) ==
    LET upTo[n \in 0 .. Len(theFiles)] ==
            BlockCount(Unit(theFiles, n)) + (IF n = 0 THEN 0 ELSE upTo[n - 1])
    IN  upTo

\* Mutant: the directory is not counted.
RequiredSectors_Mut == BlocksUpTo(files)[Len(files)] - BlockCount(Directory(files))

RequiredSectors == BlocksUpTo(files)[Len(files)]

\* Block b of a unit, filled with zeros.
Payload(unit, b) ==
    [cell \in 1 .. DataSize |->
        IF b * DataSize + cell <= Len(unit) THEN unit[b * DataSize + cell] ELSE Zero]

\* qlNameBytes() of a name that is cut already: the QL has no sign for other parts.
Representable(name) == \A i \in DOMAIN name : name[i] \notin Foreign

DuplicateName ==
    \E m, n \in DOMAIN files : m < n /\ Lower(files[m].name) = Lower(files[n].name)

BuilderInit ==
    /\ fileNumber = 0 /\ block = 0 /\ sector = 1
    /\ fileNumbers = [s \in Sectors |-> IF s = 0 THEN MapFile
                                        ELSE IF s = LastSector THEN DamagedSector
                                        ELSE FreeSector]
    /\ recordFileNumbers = [s \in Sectors |-> IF s = 0 THEN LastBit
                                              ELSE IF s = LastSector THEN DamagedSector
                                              ELSE FreeSector]
    /\ blocks = [s \in Sectors |-> 0]
    /\ data = [s \in Sectors |-> Pattern]
    /\ image = <<>>

\* The checks before anything is laid out; one loop makes both checks of a name.
StartBuilding(mediumName) ==
    /\ phase = "build"
    /\ error' = FirstRefusal(<<
           <<files = <<>>, "no files">>,
           <<Len(files) > MaxFiles, "too many files">>,
           <<~Representable(mediumName), "medium name">>,
           <<DuplicateName \/ \E n \in DOMAIN files : ~Representable(files[n].name), "name">>,
           <<RequiredSectors > SectorCount - 2, "capacity">> >>)
    /\ phase' = IF error' = "none" THEN "allocate" ELSE "failed"
    /\ UNCHANGED <<files, indices, tables, image>>

\* Mutant: only a file of one block gets its mark.
RecordMark_Mut(isLast) == IF isLast /\ block = 0 THEN LastBit ELSE 0

\* A file number is below LastBit, so the bit can be added.
RecordMark(isLast) == IF isLast THEN LastBit ELSE 0

\* One round of the inner loop.
AllocateBlock ==
    LET unit   == Unit(files, fileNumber)
        isLast == block = BlockCount(unit) - 1
    IN  /\ phase = "allocate" /\ fileNumber <= Len(files)
        /\ fileNumbers' = [fileNumbers EXCEPT ![sector] = fileNumber]
        /\ recordFileNumbers' =
               [recordFileNumbers EXCEPT ![sector] = fileNumber + RecordMark(isLast)]
        /\ blocks' = [blocks EXCEPT ![sector] = block]
        /\ data' = [data EXCEPT ![sector] = Payload(unit, block)]
        /\ sector' = sector + 1
        /\ IF isLast THEN fileNumber' = fileNumber + 1 /\ block' = 0
                     ELSE fileNumber' = fileNumber     /\ block' = block + 1
        /\ UNCHANGED <<phase, error, files, image>>

AllocationMap ==
    <<"map", [s \in Sectors |-> <<fileNumbers[s], blocks[s]>>], sector - 1>>

\* writeSector(): the header of the sector, the record and its block.
Sector(s, blockData) ==
    [sector |-> s, file |-> recordFileNumbers[s], block |-> blocks[s], data |-> blockData]

\* The map takes sector 0, and every sector goes to the tape.
WriteImage ==
    /\ phase = "allocate" /\ fileNumber > Len(files)
    /\ image' = [s \in Sectors |-> Sector(s, IF s = 0 THEN AllocationMap ELSE data[s])]
    /\ phase' = "done"
    /\ UNCHANGED <<error, files, indices, tables>>

BuilderNext(mediumName) == StartBuilding(mediumName) \/ AllocateBlock \/ WriteImage
----------------------------------------------------------------------------
\* No sector is given out twice, neither the map nor the bad sector is given out,
\* and the files lie one after the other in the order of their blocks, while the
\* loops run over the sectors that were counted before.
AllocationIsSound ==
    /\ sector \in 1 .. LastSector
    /\ \A s \in Sectors : fileNumbers[s] = FreeSector <=> s \in sector .. LastSector - 1
    /\ \A s, t \in 1 .. sector - 1 : s < t =>
           \/ fileNumbers[s] < fileNumbers[t]
           \/ fileNumbers[s] = fileNumbers[t] /\ blocks[s] < blocks[t]
    /\ fileNumbers[0] = MapFile /\ fileNumbers[LastSector] = DamagedSector

\* A record tells by itself whether it is free and whether it ends its file, as
\* long as the numbers of the files stay below that of a free record: from file
\* 0xfd - 0x80 = 125 on, the mark of a last block is that of a free or a damaged
\* sector.
RecordsTellTheirFile ==
    (phase = "done" /\ Len(files) < FreeSector - LastBit) =>
        \A s \in Sectors \ {0, LastSector} :
            /\ image[s].file = FreeSector <=> s >= sector
            /\ s < sector =>
                 /\ image[s].file % LastBit = fileNumbers[s]
                 /\ image[s].file >= LastBit
                        <=> image[s].block = BlockCount(Unit(files, fileNumbers[s])) - 1
=============================================================================
