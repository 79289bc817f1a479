-------------------------- MODULE MicrodriveImage --------------------------
(***************************************************************************)
(* A QLAY cartridge image (devices/microdrive.js) as a value.              *)
(*                                                                         *)
(* The bytes themselves are abstracted to what can be said of them: which  *)
(* sectors hold bytes that differ from the copy last handed to the user    *)
(* ("modified").  Positions on the tape are kept exactly: a sector is      *)
(* preamble, header, preamble, record and a tail of filling bytes.         *)
(***************************************************************************)
EXTENDS Naturals

CONSTANTS
    SectorCount,          \* sectors in the file: 255
    HeaderPreambleSize,   \* 12
    HeaderSize,           \* 16
    DataPreambleSize,     \* 12
    RecordSize,           \* 612
    TailSize,             \* filling bytes after the record: 34
    NoImage               \* the null of an empty slot

SectorSize == HeaderPreambleSize + HeaderSize + DataPreambleSize
                + RecordSize + TailSize

\* Physical offset of the first header byte and of the first record byte.
HeaderStart == HeaderPreambleSize
RecordStart == HeaderPreambleSize + HeaderSize + DataPreambleSize

Sectors == 0 .. SectorCount - 1

\* spliceSector = null is modelled by a value no sector has.
NoSplice == SectorCount

ASSUME LayoutAssumption ==
    /\ SectorCount \in Nat \ {0}
    /\ HeaderPreambleSize \in Nat
    /\ HeaderSize \in Nat \ {0}
    /\ DataPreambleSize \in Nat
    /\ RecordSize \in Nat \ {0}
    /\ TailSize \in Nat

Image == [ physicalSectorCount : 1 .. SectorCount,
           spliceSector        : Sectors \cup {NoSplice},
           writeProtected      : BOOLEAN,
           dirty               : BOOLEAN,
           modified            : SUBSET Sectors ]

ASSUME NoImageAssumption == NoImage \notin Image

\* The images the constructor accepts: the splice lies on the physical path.
NewImage(count, splice, protected) ==
    [ physicalSectorCount |-> count, spliceSector |-> splice,
      writeProtected |-> protected, dirty |-> FALSE, modified |-> {} ]

NewImages ==
    { NewImage(c, s, p) : c \in 1 .. SectorCount,
                          s \in Sectors \cup {NoSplice}, p \in BOOLEAN }

ConstructorAccepts(image) ==
    image.spliceSector = NoSplice \/ image.spliceSector < image.physicalSectorCount

\* Mutant: the splice takes bytes.
WritePhysicalByte_Mut(image, sector) ==
    IF image.writeProtected THEN image
    ELSE [image EXCEPT !.dirty = TRUE, !.modified = @ \cup {sector}]

\* A byte written under the head.  The splice takes no byte but still dirties
\* the cartridge; a protected cartridge refuses the byte.
WritePhysicalByte(image, sector) ==
    IF image.writeProtected THEN image
    ELSE [image EXCEPT
            !.dirty    = TRUE,
            !.modified = IF sector = image.spliceSector THEN @ ELSE @ \cup {sector}]

\* The user has saved the bytes: what was modified is now in the saved copy.
MarkClean(image) == [image EXCEPT !.dirty = FALSE, !.modified = {}]
============================================================================
