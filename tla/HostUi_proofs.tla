---------------------------- MODULE HostUi_proofs ----------------------------
(***************************************************************************)
(* Proofs about the page, for any number of drives and of files, and any   *)
(* number of cartridges inserted.                                          *)
(***************************************************************************)
EXTENDS HostUi, FiniteSetTheorems, TLAPS

USE HostUiAssumption

----------------------------------------------------------------------------
(* The inductive invariant.                                                *)

\* One mount is under way at most, the library is busy with it, and a number is left
\* for its cartridge.
OneMount ==
    mounting # {} => /\ softwareBusy
                     /\ inserted < MountBound
                     /\ \E m : mounting = {m}

\* What the mount under way is going to replace, the user agreed to lose when it was
\* started.
Agreed ==
    \A m \in mounting : Mounted(m.slot) => microdrives[m.slot].serial \in released

IInv == RackShowsCartridges /\ OneMount /\ Agreed

----------------------------------------------------------------------------
(* Lemmas about cartridges and the rack.                                   *)

CartridgeOrNone == Cartridge \cup {NoCartridge}

LEMMA CartridgeType ==
    ASSUME NEW cartridge \in CartridgeOrNone
    PROVE  /\ cartridge.serial \in 0 .. MountBound
           /\ cartridge.writeProtected \in BOOLEAN /\ cartridge.dirty \in BOOLEAN
           /\ cartridge # NoCartridge => cartridge.serial \in 1 .. MountBound
           /\ cartridge.dirty => cartridge # NoCartridge
<1>1. CASE cartridge \in Cartridge
  <2>1. /\ cartridge.serial \in 1 .. MountBound
        /\ cartridge.writeProtected \in BOOLEAN /\ cartridge.dirty \in BOOLEAN
    BY <1>1 DEF Cartridge
  <2>2. cartridge.dirty => cartridge # NoCartridge
    BY DEF NoCartridge
  <2>3. cartridge.serial \in 0 .. MountBound
    BY <2>1
  <2> QED BY <2>1, <2>2, <2>3
<1>2. CASE cartridge = NoCartridge
  BY <1>2 DEF NoCartridge
<1> QED BY <1>1, <1>2 DEF CartridgeOrNone

LEMMA DrivesType ==
    ASSUME TypeOK
    PROVE  /\ microdrives \in [Slots -> CartridgeOrNone]
           /\ \A slot \in Slots : microdrives[slot] \in CartridgeOrNone
BY DEF TypeOK, CartridgeOrNone

\* The mark on a cartridge that is there.
LEMMA MarkedType ==
    ASSUME NEW cartridge \in Cartridge, NEW value \in BOOLEAN
    PROVE  /\ [cartridge EXCEPT !.dirty = value] \in Cartridge
           /\ [cartridge EXCEPT !.dirty = value].serial = cartridge.serial
           /\ [cartridge EXCEPT !.dirty = value].writeProtected = cartridge.writeProtected
           /\ [cartridge EXCEPT !.dirty = value] # NoCartridge
BY DEF Cartridge, NoCartridge

LEMMA LabelType ==
    ASSUME NEW cartridge \in CartridgeOrNone
    PROVE  Label(cartridge) \in Labels
<1>1. NoCartridge.writeProtected = FALSE
  BY DEF NoCartridge
<1> QED BY <1>1, Zenon DEF Label, Labels

\* A rack that was just drawn shows the drives (renderMicrodriveRack()).
LEMMA DrawnShows ==
    ASSUME microdrives' \in [Slots -> CartridgeOrNone], rack' = Drawn'
    PROVE  /\ rack' \in [Slots -> Buttons]
           /\ \A slot \in Slots :
                /\ rack'[slot].serial = microdrives'[slot].serial
                /\ rack'[slot].label = Label(microdrives'[slot])
                /\ rack'[slot].save <=> microdrives'[slot] # NoCartridge
                                        /\ ~microdrives'[slot].writeProtected
                /\ rack'[slot].eject <=> microdrives'[slot] # NoCartridge /\ ~softwareBusy'
<1> DEFINE Unit(slot) ==
             [serial |-> microdrives'[slot].serial,
              label  |-> Label(microdrives'[slot]),
              mount  |-> selected' # NoFile /\ ~softwareBusy',
              boot   |-> slot = 1 /\ selected' # NoFile /\ ~softwareBusy' /\ rom' # "none",
              save   |-> microdrives'[slot] # NoCartridge /\ ~microdrives'[slot].writeProtected,
              eject  |-> microdrives'[slot] # NoCartridge /\ ~softwareBusy']
<1>1. rack' = [slot \in Slots |-> Unit(slot)]
  BY DEF Drawn, Mounted
<1>2. \A slot \in Slots : Unit(slot) \in Buttons
  <2> SUFFICES ASSUME NEW slot \in Slots PROVE Unit(slot) \in Buttons
    OBVIOUS
  <2>1. microdrives'[slot].serial \in 0 .. MountBound /\ Label(microdrives'[slot]) \in Labels
    BY CartridgeType, LabelType
  <2> QED BY <2>1 DEF Buttons
<1>3. \A slot \in Slots :
        /\ Unit(slot).serial = microdrives'[slot].serial
        /\ Unit(slot).label = Label(microdrives'[slot])
        /\ Unit(slot).save <=> microdrives'[slot] # NoCartridge
                               /\ ~microdrives'[slot].writeProtected
        /\ Unit(slot).eject <=> microdrives'[slot] # NoCartridge /\ ~softwareBusy'
  OBVIOUS
<1> HIDE DEF Unit
<1> QED BY <1>1, <1>2, <1>3

\* What an action that draws the rack owes to RackShowsCartridges.
LEMMA DrawsRack ==
    ASSUME /\ softwareFiles' \subseteq Files
           /\ selected' \in softwareFiles' \cup {NoFile}
           /\ softwareBusy' \in BOOLEAN
           /\ mounting' \subseteq [slot : Slots, file : Imports, boot : BOOLEAN]
           /\ microdrives' \in [Slots -> CartridgeOrNone]
           /\ rom' \in {"none", "bundled", "chosen"}
           /\ fetching' \in BOOLEAN
           /\ choosing' \in 0 .. RomBound
           /\ running' \in BOOLEAN
           /\ inserted' \in 0 .. MountBound
           /\ released' \subseteq 1 .. MountBound
           /\ warned' \subseteq 1 .. MountBound
           /\ rack' = Drawn'
    PROVE  RackShowsCartridges'
<1>1. /\ rack' \in [Slots -> Buttons]
      /\ \A slot \in Slots :
           /\ rack'[slot].serial = microdrives'[slot].serial
           /\ rack'[slot].label = Label(microdrives'[slot])
           /\ rack'[slot].save <=> microdrives'[slot] # NoCartridge
                                   /\ ~microdrives'[slot].writeProtected
           /\ rack'[slot].eject <=> microdrives'[slot] # NoCartridge /\ ~softwareBusy'
  BY DrawnShows
<1>2. TypeOK'
  BY <1>1 DEF TypeOK, CartridgeOrNone
<1> QED BY <1>1, <1>2 DEF RackShowsCartridges, Mounted

LEMMA Initially == Init => IInv
<1> SUFFICES ASSUME Init PROVE IInv
  OBVIOUS
<1>1. \A slot \in Slots : microdrives[slot] = NoCartridge
  BY DEF Init
<1>2. microdrives \in [Slots -> Cartridge \cup {NoCartridge}]
  BY DEF Init
<1>3. rack = [slot \in Slots |-> [serial |-> 0, label |-> "empty", mount |-> FALSE, boot |-> FALSE,
                                  save |-> FALSE, eject |-> FALSE]]
  <2>1. /\ selected # NoFile <=> FALSE
        /\ \A slot \in Slots : microdrives[slot].serial = 0 /\ ~Mounted(slot)
                               /\ Label(microdrives[slot]) = "empty"
    BY <1>1 DEF Init, NoCartridge, Mounted, Label
  <2> QED BY <2>1 DEF Init, Drawn
<1>4. rack \in [Slots -> Buttons]
  BY <1>3 DEF Buttons, Labels
<1>5. TypeOK
  <2>1. /\ MountBound \in Nat /\ RomBound \in Nat
        /\ choosing = 0 /\ inserted = 0
    BY DEF Init
  <2>2. choosing \in 0 .. RomBound /\ inserted \in 0 .. MountBound
    BY <2>1
  <2>3. /\ softwareFiles \subseteq Files
        /\ selected \in softwareFiles \cup {NoFile}
        /\ softwareBusy \in BOOLEAN
        /\ mounting \subseteq [slot : Slots, file : Imports, boot : BOOLEAN]
        /\ rom \in {"none", "bundled", "chosen"}
        /\ fetching \in BOOLEAN
        /\ running \in BOOLEAN
        /\ released \subseteq 1 .. MountBound
        /\ warned \subseteq 1 .. MountBound
    BY DEF Init
  <2> QED BY <1>2, <1>4, <2>2, <2>3 DEF TypeOK
<1>6. RackShowsCartridges
  BY <1>1, <1>3, <1>5 DEF RackShowsCartridges, Mounted, NoCartridge, Label
<1>7. OneMount /\ Agreed
  BY DEF Init, OneMount, Agreed
<1> QED BY <1>6, <1>7 DEF IInv

----------------------------------------------------------------------------
(* Each action keeps the invariant.                                        *)

\* The library, the ROM and the run control leave the drives alone.
LEMMA OthersKeep ==
    ASSUME IInv,
           \/ AddSoftwareFiles \/ CreateVirginMicrodrive \/ SelectFile
           \/ ChooseRom \/ RunButton \/ ResetMachine
           \/ DefaultRomArrives \/ DefaultRomFails \/ ChosenRomArrives \/ ChosenRomFails
    PROVE  IInv'
<1>1. TypeOK
  BY DEF IInv, RackShowsCartridges
<1>2. /\ UNCHANGED <<softwareBusy, mounting, microdrives, inserted, released, warned>>
      /\ rack' = rack \/ rack' = Drawn'
  BY DEF AddSoftwareFiles, CreateVirginMicrodrive, SelectFile, ChooseRom, RunButton,
         ResetMachine, DefaultRomArrives, DefaultRomFails, ChosenRomArrives, ChosenRomFails,
         media, consent
<1>3. softwareFiles' \subseteq Files /\ selected' \in softwareFiles' \cup {NoFile}
  <2>1. CASE UNCHANGED library
    BY <1>1, <2>1 DEF TypeOK, library
  <2>2. CASE AddSoftwareFiles
    BY <1>1, <2>2 DEF AddSoftwareFiles, TypeOK, Files, Reselected
  <2>3. CASE CreateVirginMicrodrive
    BY <1>1, <2>3 DEF CreateVirginMicrodrive, TypeOK, Files
  <2>4. CASE SelectFile
    BY <1>1, <2>4 DEF SelectFile, TypeOK
  <2> QED BY <2>1, <2>2, <2>3, <2>4 DEF ChooseRom, RunButton, ResetMachine,
             DefaultRomArrives, DefaultRomFails, ChosenRomArrives, ChosenRomFails
<1>4. /\ rom' \in {"none", "bundled", "chosen"} /\ fetching' \in BOOLEAN
      /\ running' \in BOOLEAN
  BY <1>1 DEF TypeOK, AddSoftwareFiles, CreateVirginMicrodrive, SelectFile, ChooseRom,
         RunButton, ResetMachine, DefaultRomArrives, DefaultRomFails, ChosenRomArrives,
         ChosenRomFails, InstallRom, roms
<1>5. choosing' \in 0 .. RomBound
  <2>1. choosing \in 0 .. RomBound
    BY <1>1 DEF TypeOK
  <2>2. CASE UNCHANGED choosing
    BY <2>1, <2>2
  <2>3. CASE ChooseRom
    BY <2>1, <2>3 DEF ChooseRom
  <2>4. CASE ChosenRomArrives \/ ChosenRomFails
    BY <2>1, <2>4 DEF ChosenRomArrives, ChosenRomFails
  <2> QED BY <2>2, <2>3, <2>4 DEF AddSoftwareFiles, CreateVirginMicrodrive, SelectFile,
             RunButton, ResetMachine, DefaultRomArrives, DefaultRomFails, roms
<1>6. RackShowsCartridges'
  <2>1. CASE rack' = Drawn'
    BY <1>1, <1>2, <1>3, <1>4, <1>5, <2>1, DrawsRack DEF TypeOK, CartridgeOrNone
  <2>2. CASE rack' = rack
    <3>1. TypeOK'
      BY <1>1, <1>2, <1>3, <1>4, <1>5, <2>2 DEF TypeOK
    <3> QED BY <1>2, <2>2, <3>1 DEF IInv, RackShowsCartridges, Mounted
  <2> QED BY <1>2, <2>1, <2>2
<1>7. OneMount' /\ Agreed'
  BY <1>2 DEF IInv, OneMount, Agreed, Mounted
<1> QED BY <1>6, <1>7 DEF IInv

\* What the user agrees to lose is what the drive holds.
LEMMA AgreesTypes ==
    ASSUME NEW cartridges \in SUBSET Cartridge, Agrees(cartridges)
    PROVE  released' \subseteq 1 .. MountBound /\ warned' \subseteq 1 .. MountBound
BY DEF Agrees, Cartridge

\* A drive with a new cartridge in it.
LEMMA InsertTypes ==
    ASSUME TypeOK, NEW slot \in Slots, NEW writeProtected \in BOOLEAN, Insert(slot, writeProtected),
           inserted < MountBound
    PROVE  microdrives' \in [Slots -> CartridgeOrNone] /\ inserted' \in 0 .. MountBound
<1> DEFINE cartridge == [serial |-> inserted + 1, writeProtected |-> writeProtected,
                         dirty |-> FALSE]
<1>1. inserted + 1 \in 1 .. MountBound /\ inserted' \in 0 .. MountBound
  BY DEF TypeOK, Insert
<1>2. cartridge \in CartridgeOrNone
  BY <1>1 DEF CartridgeOrNone, Cartridge
<1>3. microdrives' = [microdrives EXCEPT ![slot] = cartridge]
  BY DEF Insert
<1> HIDE DEF cartridge
<1> QED BY <1>1, <1>2, <1>3, DrivesType

\* A click that may mount finds no mount under way.
LEMMA MayMountFacts ==
    ASSUME IInv, NEW slot \in Slots, NEW boot \in BOOLEAN, MayMount(slot, boot)
    PROVE  /\ mounting = {} /\ ~softwareBusy /\ inserted < MountBound
           /\ {microdrives[slot]} \ {NoCartridge} \in SUBSET Cartridge
<1>1. TypeOK
  BY DEF IInv, RackShowsCartridges
<1>2. ~softwareBusy /\ Cardinality(mounting) + inserted < MountBound
  BY DEF MayMount
<1>3. mounting = {}
  BY <1>2 DEF IInv, OneMount
<1>4. inserted < MountBound
  BY <1>1, <1>2, <1>3, FS_EmptySet DEF TypeOK
<1>5. {microdrives[slot]} \ {NoCartridge} \in SUBSET Cartridge
  BY <1>1, DrivesType DEF CartridgeOrNone
<1> QED BY <1>2, <1>3, <1>4, <1>5

LEMMA StartMountingKeeps ==
    ASSUME IInv, NEW slot \in Slots, NEW boot \in BOOLEAN, StartMounting(slot, boot)
    PROVE  IInv'
<1> DEFINE mount == [slot |-> slot, file |-> selected, boot |-> boot]
<1>1. /\ MayMount(slot, boot) /\ selected # NoFile /\ selected # Virgin
      /\ Agrees({microdrives[slot]} \ {NoCartridge})
      /\ softwareBusy' = TRUE
      /\ mounting' = mounting \cup {mount}
      /\ UNCHANGED <<softwareFiles, selected, microdrives, inserted, rom, fetching, choosing,
                     running>>
      /\ rack' = Drawn'
  BY DEF StartMounting, MayMount, BusyDuringMount, library, roms
<1>2. TypeOK
  BY DEF IInv, RackShowsCartridges
<1>3. mounting = {} /\ inserted < MountBound
  BY <1>1, MayMountFacts
<1>4. mounting' = {mount}
  BY <1>1, <1>3
<1>5. mount \in [slot : Slots, file : Imports, boot : BOOLEAN]
  BY <1>1, <1>2 DEF TypeOK, Files
<1>6. released' \subseteq 1 .. MountBound /\ warned' \subseteq 1 .. MountBound
  BY <1>1, MayMountFacts, AgreesTypes
<1>7. RackShowsCartridges'
  BY <1>1, <1>2, <1>4, <1>5, <1>6, DrivesType, DrawsRack DEF TypeOK
<1>8. OneMount'
  BY <1>1, <1>3, <1>4 DEF OneMount
<1>9. Agreed'
  <2>1. Mounted(slot) => microdrives[slot].serial \in released'
    BY <1>1 DEF Agrees, Mounted
  <2>2. mount.slot = slot
    OBVIOUS
  <2> QED BY <1>1, <1>4, <2>1, <2>2 DEF Agreed, Mounted
<1> QED BY <1>7, <1>8, <1>9 DEF IInv

LEMMA MountVirginKeeps ==
    ASSUME IInv, NEW slot \in Slots, NEW boot \in BOOLEAN, MountVirgin(slot, boot)
    PROVE  IInv'
<1>1. /\ MayMount(slot, boot)
      /\ Agrees({microdrives[slot]} \ {NoCartridge})
      /\ Insert(slot, FALSE)
      /\ UNCHANGED <<softwareFiles, selected, softwareBusy, mounting, rom, fetching, choosing>>
      /\ running' \in {running, rom # "none"}
      /\ rack' = Drawn'
  BY DEF MountVirgin, Starts, library, roms
<1>2. TypeOK
  BY DEF IInv, RackShowsCartridges
<1>3. mounting = {} /\ inserted < MountBound
  BY <1>1, MayMountFacts
<1>4. microdrives' \in [Slots -> CartridgeOrNone] /\ inserted' \in 0 .. MountBound
  BY <1>1, <1>2, <1>3, InsertTypes
<1>5. released' \subseteq 1 .. MountBound /\ warned' \subseteq 1 .. MountBound
  BY <1>1, MayMountFacts, AgreesTypes
<1>6. running' \in BOOLEAN
  BY <1>1, <1>2 DEF TypeOK
<1>7. RackShowsCartridges'
  BY <1>1, <1>2, <1>4, <1>5, <1>6, DrawsRack DEF TypeOK
<1>8. OneMount' /\ Agreed'
  BY <1>1, <1>3 DEF OneMount, Agreed
<1> QED BY <1>7, <1>8 DEF IInv

\* The one mount that is under way ends.
LEMMA MountEndsKeeps ==
    ASSUME IInv, NEW m \in mounting, FinishMounting(m) \/ FailMounting(m)
    PROVE  IInv'
<1>1. TypeOK
  BY DEF IInv, RackShowsCartridges
<1>2. mounting = {m} /\ inserted < MountBound
  BY DEF IInv, OneMount
<1>3. m.slot \in Slots /\ m.boot \in BOOLEAN
  BY <1>1 DEF TypeOK
<1>4. mounting' = {} /\ softwareBusy' = FALSE /\ rack' = Drawn'
      /\ UNCHANGED <<softwareFiles, selected, rom, fetching, choosing>>
  BY <1>2 DEF FinishMounting, FailMounting, BusyAfterFailure, library, roms
<1>5. running' \in BOOLEAN
  BY <1>1, <1>3 DEF FinishMounting, FailMounting, Starts, TypeOK
<1>6. released' \subseteq 1 .. MountBound /\ warned' \subseteq 1 .. MountBound
  <2>1. CASE FinishMounting(m)
    BY <1>1, <2>1 DEF FinishMounting, consent, TypeOK
  <2>2. CASE FailMounting(m)
    BY <2>2, AgreesTypes DEF FailMounting
  <2> QED BY <2>1, <2>2
<1>7. microdrives' \in [Slots -> CartridgeOrNone] /\ inserted' \in 0 .. MountBound
  <2>1. CASE FinishMounting(m)
    BY <1>1, <1>2, <1>3, <2>1, InsertTypes DEF FinishMounting
  <2>2. CASE FailMounting(m)
    BY <1>1, <2>2, DrivesType DEF FailMounting, TypeOK
  <2> QED BY <2>1, <2>2
<1>8. RackShowsCartridges'
  BY <1>1, <1>4, <1>5, <1>6, <1>7, DrawsRack DEF TypeOK
<1>9. OneMount' /\ Agreed'
  BY <1>4 DEF OneMount, Agreed
<1> QED BY <1>8, <1>9 DEF IInv

\* Only an idle page ejects, so no mount has asked about the cartridge.
LEMMA EjectKeeps ==
    ASSUME IInv, NEW slot \in Slots, EjectMicrodrive(slot)
    PROVE  IInv'
<1>1. TypeOK
  BY DEF IInv, RackShowsCartridges
<1>2. rack[slot].eject
  BY DEF EjectMicrodrive
<1>3. Mounted(slot) /\ ~softwareBusy
  BY <1>2 DEF IInv, RackShowsCartridges
<1>4. /\ Agrees({c \in {microdrives[slot]} : c.dirty})
      /\ microdrives' = [microdrives EXCEPT ![slot] = NoCartridge]
      /\ UNCHANGED <<softwareFiles, selected, softwareBusy, mounting, inserted, rom, fetching,
                     choosing, running>>
      /\ rack' = Drawn'
  BY DEF EjectMicrodrive, DrawAfterEject, library, roms
<1>5. mounting = {}
  BY <1>3 DEF IInv, OneMount
<1>6. released' \subseteq 1 .. MountBound /\ warned' \subseteq 1 .. MountBound
  <2>1. {c \in {microdrives[slot]} : c.dirty} \in SUBSET Cartridge
    BY <1>1, <1>3, DrivesType DEF Mounted, CartridgeOrNone
  <2> QED BY <1>4, <2>1, AgreesTypes
<1>7. microdrives' \in [Slots -> CartridgeOrNone]
  BY <1>1, <1>4, DrivesType DEF CartridgeOrNone
<1>8. RackShowsCartridges'
  BY <1>1, <1>4, <1>6, <1>7, DrawsRack DEF TypeOK
<1>9. OneMount' /\ Agreed'
  BY <1>4, <1>5 DEF OneMount, Agreed
<1> QED BY <1>8, <1>9 DEF IInv

\* A mark on a cartridge does not change which cartridge it is.
LEMMA MarkKeepsDrives ==
    ASSUME TypeOK, NEW slot \in Slots, Mounted(slot), NEW value \in BOOLEAN,
           microdrives' = [microdrives EXCEPT ![slot].dirty = value]
    PROVE  /\ microdrives' \in [Slots -> CartridgeOrNone]
           /\ \A other \in Slots :
                /\ microdrives'[other].serial = microdrives[other].serial
                /\ microdrives'[other].writeProtected = microdrives[other].writeProtected
                /\ Mounted(other)' <=> Mounted(other)
<1> DEFINE marked == [microdrives[slot] EXCEPT !.dirty = value]
<1>1. microdrives[slot] \in Cartridge
  BY DrivesType DEF Mounted, CartridgeOrNone
<1>2. /\ marked \in Cartridge /\ marked # NoCartridge
      /\ marked.serial = microdrives[slot].serial
      /\ marked.writeProtected = microdrives[slot].writeProtected
  BY <1>1, MarkedType
<1>3. microdrives' = [microdrives EXCEPT ![slot] = marked]
  OBVIOUS
<1> HIDE DEF marked
<1>4. microdrives' \in [Slots -> CartridgeOrNone]
  BY <1>2, <1>3, DrivesType DEF CartridgeOrNone
<1>5. ASSUME NEW other \in Slots
      PROVE  /\ microdrives'[other].serial = microdrives[other].serial
             /\ microdrives'[other].writeProtected = microdrives[other].writeProtected
             /\ Mounted(other)' <=> Mounted(other)
  <2>1. CASE other = slot
    <3>1. microdrives'[other] = marked
      BY <1>3, <2>1, DrivesType
    <3> QED BY <1>2, <2>1, <3>1 DEF Mounted
  <2>2. CASE other # slot
    BY <1>3, <2>2, DrivesType DEF Mounted
  <2> QED BY <2>1, <2>2
<1> QED BY <1>4, <1>5

LEMMA MarksKeep ==
    ASSUME IInv, NEW slot \in Slots, SaveMicrodrive(slot) \/ MachineWrites(slot)
    PROVE  IInv'
<1>1. TypeOK
  BY DEF IInv, RackShowsCartridges
<1>2. /\ Mounted(slot)
      /\ \E value \in BOOLEAN : microdrives' = [microdrives EXCEPT ![slot].dirty = value]
      /\ UNCHANGED <<softwareFiles, selected, softwareBusy, mounting, inserted, released, warned,
                     rom, fetching, choosing, running>>
      /\ \/ rack' = Drawn'
         \/ rack' = rack /\ ~microdrives[slot].writeProtected
                         /\ microdrives' = [microdrives EXCEPT ![slot].dirty = TRUE]
  BY DEF SaveMicrodrive, MachineWrites, consent, library, roms
<1>3. /\ microdrives' \in [Slots -> CartridgeOrNone]
      /\ \A other \in Slots :
           /\ microdrives'[other].serial = microdrives[other].serial
           /\ microdrives'[other].writeProtected = microdrives[other].writeProtected
           /\ Mounted(other)' <=> Mounted(other)
  BY <1>1, <1>2, MarkKeepsDrives
<1>4. RackShowsCartridges'
  <2>1. CASE rack' = Drawn'
    BY <1>1, <1>2, <1>3, <2>1, DrawsRack DEF TypeOK
  <2>2. CASE /\ rack' = rack /\ ~microdrives[slot].writeProtected
             /\ microdrives' = [microdrives EXCEPT ![slot].dirty = TRUE]
    <3>1. TypeOK'
      BY <1>1, <1>2, <1>3, <2>2 DEF TypeOK, CartridgeOrNone
    <3>2. \A other \in Slots :
            /\ rack'[other].serial = microdrives'[other].serial
            /\ rack'[other].save <=> Mounted(other)' /\ ~microdrives'[other].writeProtected
            /\ rack'[other].eject <=> Mounted(other)' /\ ~softwareBusy'
      BY <1>2, <1>3, <2>2 DEF IInv, RackShowsCartridges
    <3>3. ASSUME NEW other \in Slots
          PROVE  \/ rack'[other].label = Label(microdrives'[other])
                 \/ rack'[other].label = "writable" /\ Label(microdrives'[other]) = "changed"
      <4>1. \/ rack[other].label = Label(microdrives[other])
            \/ rack[other].label = "writable" /\ Label(microdrives[other]) = "changed"
        BY DEF IInv, RackShowsCartridges
      <4>2. CASE other = slot
        <5>1. Label(microdrives[slot]) \in {"changed", "writable"}
          BY <1>2, <2>2 DEF Label, Mounted
        <5>2. microdrives'[slot].dirty
          BY <1>1, <2>2, DrivesType DEF Mounted, CartridgeOrNone, Cartridge, NoCartridge
        <5>3. Label(microdrives'[slot]) = "changed"
          BY <1>2, <1>3, <2>2, <5>2 DEF Label, Mounted
        <5> QED BY <2>2, <4>1, <4>2, <5>1, <5>3
      <4>3. CASE other # slot
        <5>1. microdrives'[other] = microdrives[other]
          BY <1>1, <2>2, <4>3, DrivesType
        <5> QED BY <2>2, <4>1, <5>1
      <4> QED BY <4>2, <4>3
    <3> QED BY <3>1, <3>2, <3>3 DEF RackShowsCartridges
  <2> QED BY <1>2, <2>1, <2>2
<1>5. OneMount'
  BY <1>2 DEF IInv, OneMount
<1>6. Agreed'
  <2>1. \A m \in mounting : m.slot \in Slots
    BY <1>1 DEF TypeOK
  <2> QED BY <1>2, <1>3, <2>1 DEF IInv, Agreed
<1> QED BY <1>4, <1>5, <1>6 DEF IInv

LEMMA Inductive == IInv /\ [Next]_vars => IInv'
<1> SUFFICES ASSUME IInv, [Next]_vars PROVE IInv'
  OBVIOUS
<1>1. CASE \/ AddSoftwareFiles \/ CreateVirginMicrodrive \/ SelectFile
           \/ ChooseRom \/ RunButton \/ ResetMachine
           \/ DefaultRomArrives \/ DefaultRomFails \/ ChosenRomArrives \/ ChosenRomFails
  BY <1>1, OthersKeep
<1>2. CASE \E slot \in Slots, boot \in BOOLEAN : StartMounting(slot, boot) \/ MountVirgin(slot, boot)
  BY <1>2, StartMountingKeeps, MountVirginKeeps
<1>3. CASE \E m \in mounting : FinishMounting(m) \/ FailMounting(m)
  BY <1>3, MountEndsKeeps
<1>4. CASE \E slot \in Slots : EjectMicrodrive(slot)
  BY <1>4, EjectKeeps
<1>5. CASE \E slot \in Slots : SaveMicrodrive(slot) \/ MachineWrites(slot)
  BY <1>5, MarksKeep
<1>6. CASE UNCHANGED vars
  BY <1>6 DEF vars, library, media, consent, roms, IInv, RackShowsCartridges, TypeOK, Mounted, OneMount,
              Agreed
<1> QED
  BY <1>1, <1>2, <1>3, <1>4, <1>5, <1>6 DEF Next, UserActs, MountEnds

THEOREM InvariantHolds == Spec => []IInv
BY Initially, Inductive, PTL DEF Spec

----------------------------------------------------------------------------
(* What follows.                                                           *)

\* Every unit of the rack shows its cartridge and offers what can be done with it, at
\* all times, and its label is right or lags behind the machine in the one way that is
\* named (the calls of renderMicrodriveRack() in main.js).
THEOREM RackCorrect == Spec => []RackShowsCartridges
<1>1. IInv => RackShowsCartridges
  BY DEF IInv
<1> QED BY <1>1, InvariantHolds, PTL

\* What a step takes out of a drive with changes on it, the user agreed to lose in that
\* operation.
LEMMA StepReleases ==
    ASSUME IInv, [Next]_vars, NEW slot \in Slots,
           LosesChanges(slot)
    PROVE  microdrives[slot].serial \in released'
<1>1. TypeOK
  BY DEF IInv, RackShowsCartridges
<1>2. Mounted(slot)
  BY <1>1, DrivesType, CartridgeType DEF Mounted, LosesChanges
<1>3. ~UNCHANGED microdrives /\ microdrives'[slot] # microdrives[slot]
  BY DEF LosesChanges
<1>4. CASE \E m \in mounting : FinishMounting(m)
  <2>1. PICK m \in mounting : FinishMounting(m)
    BY <1>4
  <2>2. m.slot = slot
    BY <1>1, <1>3, <2>1, DrivesType DEF FinishMounting, Insert, TypeOK
  <2> QED BY <1>2, <2>1, <2>2 DEF IInv, Agreed, FinishMounting, consent
<1>8. CASE \E other \in Slots, boot \in BOOLEAN : MountVirgin(other, boot)
  <2>1. PICK other \in Slots, boot \in BOOLEAN : MountVirgin(other, boot)
    BY <1>8
  <2>2. other = slot
    BY <1>1, <1>3, <2>1, DrivesType DEF MountVirgin, Insert, TypeOK
  <2> QED BY <1>2, <2>1, <2>2 DEF MountVirgin, Agrees, Mounted
<1>5. CASE \E other \in Slots : EjectMicrodrive(other)
  <2>1. PICK other \in Slots : EjectMicrodrive(other)
    BY <1>5
  <2>2. other = slot
    BY <1>1, <1>3, <2>1, DrivesType DEF EjectMicrodrive
  <2> QED BY <2>1, <2>2 DEF EjectMicrodrive, Agrees, LosesChanges
<1>6. CASE \E other \in Slots : SaveMicrodrive(other) \/ MachineWrites(other)
  <2>1. PICK other \in Slots : SaveMicrodrive(other) \/ MachineWrites(other)
    BY <1>6
  <2>2. /\ Mounted(other)
        /\ \E value \in BOOLEAN : microdrives' = [microdrives EXCEPT ![other].dirty = value]
    BY <2>1 DEF SaveMicrodrive, MachineWrites
  <2> QED BY <1>1, <2>2, MarkKeepsDrives DEF LosesChanges
<1>7. CASE UNCHANGED microdrives
  BY <1>3, <1>7
<1> QED
  BY <1>4, <1>5, <1>6, <1>7, <1>8
  DEF Next, UserActs, MountEnds, AddSoftwareFiles, CreateVirginMicrodrive, SelectFile,
      StartMounting, FailMounting, ChooseRom, RunButton, ResetMachine, DefaultRomArrives,
      DefaultRomFails, ChosenRomArrives, ChosenRomFails, media, vars

\* Changes that were not saved go only with a cartridge the user agreed to lose in the
\* very operation that takes it out, for any interleaving of clicks, files and writes
\* (the questions of mountSoftware() and ejectMicrodrive() in main.js).  That the question
\* tells of the changes is not proved, and not so: see LossIsSignalled.
THEOREM ReleaseCorrect == Spec => LostIsReleased
<1>1. IInv /\ [Next]_vars =>
        [\A slot \in Slots : LosesChanges(slot) => microdrives[slot].serial \in released']_vars
  BY StepReleases
<1> QED BY <1>1, InvariantHolds, PTL DEF Spec, LostIsReleased
=============================================================================
