----------------------------- MODULE ZipReader -----------------------------
(***************************************************************************)
(* readZipArchive() (zip.js): the directory at the end of an archive is    *)
(* read whole before the first entry is unpacked, then the entries are     *)
(* unpacked one by one, each awaited.  The fields of the format are flags  *)
(* here, each for the outcome of the checks the code makes of them.        *)
(***************************************************************************)
EXTENDS Sequences, Refusals

CONSTANTS
    MaxEntries,             \* 512
    MaxUncompressedSize     \* 16 MiB, here in cells

VARIABLES
    phase, error,
    archive,        \* [found, volumes, truncated, entries], as it is in the file
    next,           \* the entry that is read next
    totalSize,
    metadata,       \* what the central directory says
    entries         \* what is unpacked

\* A step of the import that may throw.
Proceed(refusal, to) ==
    /\ error' = refusal
    /\ phase' = IF refusal = "none" THEN to ELSE "failed"

ZipInit ==
    /\ next = 1 /\ totalSize = 0
    /\ metadata = <<>> /\ entries = <<>>

\* findEndOfCentralDirectory() and the checks of what it says.
ReadEnd ==
    /\ phase = "end"
    /\ Proceed(FirstRefusal(<<
           <<~archive.found, "no directory">>,
           <<archive.volumes, "volumes">>,
           <<Len(archive.entries) > MaxEntries, "too many entries">>,
           <<archive.truncated, "truncated directory">> >>), "central")
    /\ UNCHANGED <<archive, next, totalSize, metadata, entries>>

\* decodeName() and normalisePath() refuse the name.
UnsafeName(entry) == entry.fault \in {"charset", "unsafe path"}

\* The checks of an entry of the central directory, in their order.
CentralRefusal(entry, total) ==
    FirstRefusal(<<
        <<entry.fault \in {"central", "encrypted", "zip64", "truncated entry"}, entry.fault>>,
        <<total > MaxUncompressedSize, "too large">>,
        <<UnsafeName(entry), entry.fault>> >>)

ReadCentralEntry ==
    /\ phase = "central" /\ next <= Len(archive.entries)
    /\ LET entry == archive.entries[next]
       IN  /\ totalSize' = totalSize + entry.size
           /\ Proceed(CentralRefusal(entry, totalSize'), "central")
           /\ metadata' = IF error' = "none" THEN Append(metadata, entry) ELSE metadata
    /\ next' = next + 1
    /\ UNCHANGED <<archive, entries>>

EndCentral ==
    /\ phase = "central" /\ next > Len(archive.entries)
    /\ next' = 1
    /\ Proceed("none", "unpack")
    /\ UNCHANGED <<archive, totalSize, metadata, entries>>

\* parseQdosExtra() reads the field of the central directory before that of the
\* entry itself.
FirstExtra(entry) == IF entry.extra # <<>> THEN entry.extra ELSE entry.localExtra

\* unpackEntry(): its header, its extent, the method, the inflation, the checksum.
UnpackRefusal(entry) == entry.fault

IsFolder(entry) == entry.path # <<>> /\ entry.path[Len(entry.path)] = "/"

UnpackEntry ==
    /\ phase = "unpack" /\ next <= Len(metadata)
    /\ LET entry == metadata[next]
       IN  /\ Proceed(IF IsFolder(entry) THEN "none" ELSE UnpackRefusal(entry), "unpack")
           /\ entries' = IF IsFolder(entry) \/ error' # "none" THEN entries
                         ELSE Append(entries,
                                [path |-> entry.path, bytes |-> entry.bytes,
                                 inline |-> entry.inline, config |-> entry.config,
                                 extra |-> FirstExtra(entry)])
    /\ next' = next + 1
    /\ UNCHANGED <<archive, totalSize, metadata>>

EndUnpacking ==
    /\ phase = "unpack" /\ next > Len(metadata)
    /\ Proceed("none", "package")
    /\ UNCHANGED <<archive, next, totalSize, metadata, entries>>

ZipNext == ReadEnd \/ ReadCentralEntry \/ EndCentral \/ UnpackEntry \/ EndUnpacking
=============================================================================
