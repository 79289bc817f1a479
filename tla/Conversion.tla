----------------------------- MODULE Conversion -----------------------------
(***************************************************************************)
(* What importing a package promises, whatever its steps: an archive that  *)
(* is sound, and that a cartridge and the QL can hold and name, becomes a  *)
(* cartridge from which every file of the package is read back; any other  *)
(* is refused, with nothing to mount.                                      *)
(***************************************************************************)
EXTENDS Integers, FiniteSetsExt, SequencesExt

CONSTANTS
    Archives, Microdrives,
    SectorCount, DataSize, MaxFiles, MaxEntries, MaxUncompressedSize, NameLength, MediumLength,
    LowerCase, Foreign, DeviceNames

VARIABLES archive, microdrive, result

Pending == [status |-> "pending", files |-> {}]
Refused == [status |-> "refused", files |-> {}]

Entry(i)   == archive.entries[i]
Indices    == DOMAIN archive.entries
Folders    == {i \in Indices : Last(Entry(i).path) = "/"}
Configs    == {i \in Indices : LowerCase[Last(Entry(i).path)] = ".qcf"}
Same(a, b) == Len(a) = Len(b) /\ \A k \in DOMAIN a : LowerCase[a[k]] = LowerCase[b[k]]

Root   == IF Configs = {} THEN <<>>
          ELSE SelectSeq(Entry(Min(Configs)).config.root, LAMBDA part : part # "/")
Device == IF Configs = {} THEN "flp" ELSE LowerCase[Entry(Min(Configs)).config.device]

\* Where the name of a file begins: behind the folder of the package.
Offset == IF Root = <<>> THEN 0 ELSE Len(Root) + 1

Wanted == {i \in Indices \ (Folders \cup Configs) :
              Root = <<>> \/ (/\ Len(Entry(i).path) > Len(Root)
                              /\ Same(SubSeq(Entry(i).path, 1, Len(Root)), Root)
                              /\ Entry(i).path[Offset] = "/")}

Name(i) ==
    [k \in 1 .. Min({NameLength, Len(Entry(i).path) - Offset}) |->
        LET part == Entry(i).path[k + Offset] IN IF part \in {"/", "."} THEN "_" ELSE part]

Blocks(cells) == Max({k \in 0 .. cells : (k - 1) * DataSize < cells})

\* A name of which the QL would have to write what it cannot: the file of the package
\* gives the cartridge its name, and its extension is never foreign.
Unwritable ==
    \/ \E k \in 1 .. Min({MediumLength, Len(archive.name)}) : archive.name[k] \in Foreign
    \/ \E i \in Wanted : \E k \in DOMAIN Name(i) : Name(i)[k] \in Foreign

\* Something is wrong with the archive, its files, their names or their number.
Objection ==
    \/ microdrive \notin 1 .. 8
    \/ ~archive.found \/ archive.volumes \/ archive.truncated
    \/ Cardinality(Indices) > MaxEntries
    \/ MapThenSumSet(LAMBDA i : Entry(i).size, Indices) > MaxUncompressedSize
    \/ \E i \in Indices : Entry(i).fault # "none"
    \/ Wanted = {} \/ Cardinality(Wanted) > MaxFiles
    \/ \E i \in Wanted : Entry(i).inline # <<>> /\ ~Entry(i).inline.valid
    \/ Unwritable \/ \E i, j \in Wanted : i # j /\ Same(Name(i), Name(j))
    \/ Blocks(Cardinality(Wanted) + 1)
         + MapThenSumSet(LAMBDA i : Blocks(Len(Entry(i).bytes) + 1), Wanted) > SectorCount - 2

\* A reference that has to follow the package to its new drive.
Moves(i, k) ==
    /\ Same(Name(i), <<"boot">>) /\ Device \in DeviceNames
    /\ Entry(i).bytes[k][1] = "device"
    /\ LowerCase[Entry(i).bytes[k][2]] = Device /\ Entry(i).bytes[k][3] = 1

\* The field that describes a program, the first there is.
Field(i) == IF Entry(i).extra # <<>> THEN Entry(i).extra
            ELSE IF Entry(i).localExtra # <<>> THEN Entry(i).localExtra
            ELSE [program |-> 0, dates |-> 0]

Keeps(i, file) ==
    /\ file.name = Name(i)
    /\ DOMAIN file.bytes = DOMAIN Entry(i).bytes
    /\ \A k \in DOMAIN file.bytes :
           IF Moves(i, k) /\ (Device # "mdv" \/ microdrive # 1)
           THEN file.bytes[k] = <<"device", "mdv", microdrive>>
           ELSE file.bytes[k] = Entry(i).bytes[k]
    /\ file.metadata = [Field(i) EXCEPT !.program =
                            IF Entry(i).inline = <<>> THEN @ ELSE Entry(i).inline.program]

Init == archive \in Archives /\ microdrive \in Microdrives /\ result = Pending

Next ==
    /\ result = Pending
    /\ \/ Objection /\ result' = Refused
       \/ ~Objection /\ result'.status = "converted"
          /\ Cardinality(result'.files) = Cardinality(Wanted)
          /\ \A i \in Wanted : \E file \in result'.files : Keeps(i, file)
    /\ UNCHANGED <<archive, microdrive>>

Spec == Init /\ [][Next]_<<archive, microdrive, result>>
=============================================================================
