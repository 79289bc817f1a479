----------------------------- MODULE QlPackage -----------------------------
(***************************************************************************)
(* importQlPackage() (ql-package.js): the entries of an archive become the *)
(* files of a cartridge.  A path is a sequence of parts, separators        *)
(* included; the configuration, the field of the archive and the inline    *)
(* header are records where the program parses text and bytes, and a byte  *)
(* that matters to BOOT is a reference to a device.                        *)
(***************************************************************************)
EXTENDS MicrodriveBuilder

CONSTANTS
    NameLength,             \* parts of a name of the QL: 36 characters
    MediumLength,           \* parts of the name of a medium: 10 characters
    DeviceNames,            \* names of devices of three letters
    MaxEntries, MaxUncompressedSize,
    Archives, Microdrives   \* what is imported, and for which drive

ASSUME QlPackageAssumption ==
    /\ {SectorCount, DataSize} \subseteq Nat \ {0} /\ SectorCount > 2
    /\ {LastBit, FreeSector, DamagedSector, MapFile, MaxFiles} \subseteq Nat
    /\ MaxFiles < LastBit /\ LastBit < FreeSector /\ FreeSector < DamagedSector
    /\ MapFile # FreeSector /\ MaxFiles < MapFile
    /\ {NameLength, MediumLength, MaxEntries, MaxUncompressedSize} \subseteq Nat

\* Some sequence, whatever it holds.
IsList(s) == Len(s) \in Nat /\ s = [i \in 1 .. Len(s) |-> s[i]]

\* Entries or files, each with its content.
HoldsLists(s) == IsList(s) /\ \A i \in 1 .. Len(s) : IsList(s[i].bytes)

ASSUME ArchivesAssumption == \A archived \in Archives : HoldsLists(archived.entries)

VARIABLES archive, next, totalSize, metadata, entries, microdrive

Archive == INSTANCE ZipReader

zip  == <<archive, next, totalSize, metadata, entries>>
disc == <<files, indices, tables, image>>
vars == <<phase, error, zip, disc, microdrive>>

None == <<>>

IsConfig(entry) == entry.path # <<>> /\ LowerCase[Last(entry.path)] = ".qcf"

\* parseConfig(): the first configuration counts.
Config ==
    LET configs == SelectSeq(entries, IsConfig)
    IN  IF configs = <<>> THEN [root |-> <<>>, device |-> "flp"] ELSE Head(configs).config

\* pakdir1 without the slashes around it.
ConfiguredRoot ==
    LET inner == {i \in DOMAIN Config.root : Config.root[i] # "/"}
    IN  IF inner = {} THEN <<>> ELSE SubSeq(Config.root, Min(inner), Max(inner))

RootPrefix == IF ConfiguredRoot = <<>> THEN <<>> ELSE Lower(ConfiguredRoot) \o <<"/">>

Accessible(entry) == ~IsConfig(entry) /\ IsPrefix(RootPrefix, Lower(entry.path))

PackageFiles ==
    LET kept[n \in 0 .. Len(entries)] ==
            IF n = 0 THEN <<>>
            ELSE IF Accessible(entries[n]) THEN Append(kept[n - 1], entries[n])
            ELSE kept[n - 1]
    IN  kept[Len(entries)]

\* The QL knows no folders: separators and points become underlines.
QlName(path) ==
    LET name == [i \in DOMAIN path |-> IF path[i] \in {"/", "."} THEN "_" ELSE path[i]]
    IN  SubSeq(name, 1, Min({Len(name), NameLength}))

\* Mutant: the references of every file are rewritten.
IsBoot_Mut(name) == TRUE

IsBoot(name) == Lower(name) = <<"boot">>

\* rewriteBootDevice(): the references to unit 1 of the device of the package.
RewriteBootDevice(bytes, sourceDevice) ==
    IF sourceDevice \notin DeviceNames \/ (sourceDevice = "mdv" /\ microdrive = 1)
    THEN bytes
    ELSE [i \in DOMAIN bytes |->
            IF bytes[i][1] = "device" /\ LowerCase[bytes[i][2]] = sourceDevice /\ bytes[i][3] = 1
            THEN <<"device", "mdv", microdrive>>
            ELSE bytes[i]]

\* The inline header knows no dates and overrides the rest of the field.
Metadata(extra, inline) ==
    LET archived == IF extra = None THEN [program |-> 0, dates |-> 0] ELSE extra
    IN  IF inline = None THEN archived ELSE [archived EXCEPT !.program = inline.program]

\* removeInlineHeader() finds a header that cannot be one.
BadInline(entry) == entry.inline # None /\ ~entry.inline.valid

Converted(entry) ==
    LET relative == IF RootPrefix = <<>> THEN entry.path
                    ELSE SubSeq(entry.path, Len(ConfiguredRoot) + 2, Len(entry.path))
        name     == QlName(relative)
    IN  [name     |-> name,
         bytes    |-> IF IsBoot(name)
                      THEN RewriteBootDevice(entry.bytes, LowerCase[Config.device])
                      ELSE entry.bytes,
         metadata |-> Metadata(entry.extra, entry.inline)]

\* Between the archive and the image.
ConvertFiles ==
    /\ phase = "package"
    /\ Archive!Proceed(FirstRefusal(<<
           <<PackageFiles = <<>>, "nothing for the QL">>,
           <<\E i \in DOMAIN PackageFiles : BadInline(PackageFiles[i]), "inline header">> >>),
         "build")
    /\ files' = IF error' = "none"
                THEN [i \in DOMAIN PackageFiles |-> Converted(PackageFiles[i])] ELSE files
    /\ UNCHANGED <<zip, indices, tables, image, microdrive>>

\* The cartridge is named after the file of the package, without its extension.
BaseName ==
    LET packageName == archive.name
        extended    == packageName # <<>> /\ LowerCase[Last(packageName)] \in {".qlpak", ".zip"}
        base        == IF extended THEN Front(packageName) ELSE packageName
    IN  IF base = <<>> THEN <<"qlpackage">> ELSE base

MediumName == SubSeq(BaseName, 1, Min({Len(BaseName), MediumLength}))

CheckDrive ==
    /\ phase = "start"
    /\ Archive!Proceed(IF microdrive \in 1 .. 8 THEN "none" ELSE "drive", "end")
    /\ UNCHANGED <<zip, disc, microdrive>>

Init ==
    /\ archive \in Archives /\ microdrive \in Microdrives
    /\ phase = "start" /\ error = "none"
    /\ Archive!ZipInit
    /\ files = <<>>
    /\ BuilderInit

Next ==
    \/ CheckDrive
    \/ Archive!ZipNext /\ UNCHANGED <<disc, microdrive>>
    \/ ConvertFiles
    \/ BuilderNext(MediumName) /\ UNCHANGED <<zip, microdrive>>

Spec == Init /\ [][Next]_vars
----------------------------------------------------------------------------
(* A cartridge, read back from its image alone: the map in sector 0 leads  *)
(* to the directory, and the directory tells the length of each file.      *)

Map == image[0].data[2]
BlocksOf(n) == Cardinality({s \in Sectors : Map[s][1] = n})
SectorOf(n, b) == CHOOSE s \in Sectors : Map[s] = <<n, b>>
Cells(n) == FlattenSeq([b \in 1 .. BlocksOf(n) |-> image[SectorOf(n, b - 1)].data])

FileRead(n) ==
    LET header == Cells(0)[n + 1]
    IN  [name |-> header[2], metadata |-> header[4], bytes |-> SubSeq(Cells(n), 2, header[3])]

CartridgeRead == {FileRead(n) : n \in 1 .. Cells(0)[1][2] - 1}

Result == [status |-> CASE phase = "done"   -> "converted"
                        [] phase = "failed" -> "refused"
                        [] OTHER            -> "pending",
           files  |-> IF phase = "done" THEN CartridgeRead ELSE {}]

Promise == INSTANCE Conversion WITH result <- Result

\* The whole import, from the end of the archive to the last sector, does what
\* Conversion promises: what is read back from the image is the package, each
\* file under its name of the QL, unchanged but for the references of BOOT to the
\* device of the package; and only an archive is refused that is faulty, that does not
\* fit on a cartridge, or that has a name the QL cannot write.
PackageIsKept == Promise!Spec
=============================================================================
