------------------------------- MODULE HostUi -------------------------------
(***************************************************************************)
(* The page of the emulator (main.js) as the user sees it: the library of  *)
(* software, the rack of drives and the ROM.  Mounting awaits the bytes of *)
(* a file and their conversion, and the ROMs are awaited too, while the    *)
(* user goes on clicking and the machine goes on writing.  A button is     *)
(* what it was when the rack was drawn last: the clicks are guarded by the *)
(* rack, not by the state behind it.                                       *)
(***************************************************************************)
EXTENDS Naturals, FiniteSets

CONSTANTS
    Slots,          \* the drives: 1 .. 8
    Imports,        \* files the user has: images and packages
    Virgin,         \* the virgin cartridge the page makes
    NoFile,         \* nothing is selected
    MountBound,     \* bounds of the model on the cartridges inserted,
    RomBound        \* and on the ROMs of the user that are awaited at once

ASSUME HostUiAssumption ==
    /\ 1 \in Slots
    /\ Virgin \notin Imports /\ NoFile \notin Imports /\ Virgin # NoFile
    /\ {MountBound, RomBound} \subseteq Nat

Files == Imports \cup {Virgin}

\* A cartridge; the serial numbers tell the cartridges inserted apart.
Cartridge   == [serial : 1 .. MountBound, writeProtected : BOOLEAN, dirty : BOOLEAN]
NoCartridge == [serial |-> 0, writeProtected |-> FALSE, dirty |-> FALSE]

VARIABLES
    softwareFiles, selected,    \* the library
    softwareBusy,
    mounting,           \* the calls of mountSoftware() that await their bytes
    microdrives,
    rack,               \* the rack as it was drawn last
    rom,                \* where the ROM installed comes from
    fetching,           \* the bundled ROM is awaited
    choosing,           \* ROMs of the user that are awaited
    running,
    inserted,           \* cartridges inserted so far (history)
    released,           \* what the user agreed to lose in the operation that was
                        \* started last (history)
    warned              \* of it, what the question said to have changes (history)

library == <<softwareFiles, selected>>
consent == <<released, warned>>
media   == <<mounting, microdrives, inserted, consent>>
roms    == <<rom, fetching, choosing>>
vars    == <<library, softwareBusy, media, rack, roms, running>>

Mounted(slot) == microdrives[slot] # NoCartridge

\* What the rack says of a cartridge.
Label(cartridge) ==
    CASE cartridge = NoCartridge  -> "empty"
      [] cartridge.writeProtected -> "protected"
      [] OTHER                    -> IF cartridge.dirty THEN "changed" ELSE "writable"

\* renderMicrodriveRack(); an action that draws the rack does so at its end.
Drawn ==
    [slot \in Slots |->
        [serial |-> microdrives[slot].serial,
         label  |-> Label(microdrives[slot]),
         mount  |-> selected # NoFile /\ ~softwareBusy,
         boot   |-> slot = 1 /\ selected # NoFile /\ ~softwareBusy /\ rom # "none",
         save   |-> Mounted(slot) /\ ~microdrives[slot].writeProtected,
         eject  |-> Mounted(slot) /\ ~softwareBusy]]

Init ==
    /\ softwareFiles = {}
    /\ selected = NoFile
    /\ softwareBusy = FALSE
    /\ mounting = {}
    /\ microdrives = [slot \in Slots |-> NoCartridge]
    /\ rack = Drawn
    /\ rom = "none"
    /\ fetching = TRUE
    /\ choosing = 0
    /\ running = FALSE
    /\ inserted = 0
    /\ released = {}
    /\ warned = {}
----------------------------------------------------------------------------
(* The library.                                                            *)

\* A file of the list stays selected; otherwise the first is, if there is one.
Reselected(files) ==
    IF selected \in files THEN {selected}
    ELSE IF files = {} THEN {NoFile} ELSE files

\* addSoftwareFiles(), from the folder with replace, from files without.
AddSoftwareFiles ==
    /\ \E added \in SUBSET Imports, replace \in BOOLEAN :
           softwareFiles' = added \cup IF replace THEN {} ELSE softwareFiles
    /\ selected' \in Reselected(softwareFiles')
    /\ UNCHANGED <<softwareBusy, media, roms, running>>
    /\ rack' = Drawn'

CreateVirginMicrodrive ==
    /\ softwareFiles' = softwareFiles \cup {Virgin}
    /\ selected' = Virgin
    /\ UNCHANGED <<softwareBusy, media, roms, running>>
    /\ rack' = Drawn'

SelectFile ==
    /\ selected' \in softwareFiles
    /\ UNCHANGED <<softwareFiles, softwareBusy, media, roms, running>>
    /\ rack' = Drawn'
----------------------------------------------------------------------------
(* The rack.                                                               *)

\* Mutant: the page goes on as if nothing were being mounted.
BusyDuringMount_Mut == FALSE

BusyDuringMount == TRUE

\* The user is asked about the cartridges, and agrees; the question tells which of them
\* have changes now.
Agrees(cartridges) ==
    /\ released' = {cartridge.serial : cartridge \in cartridges}
    /\ warned' = {cartridge.serial : cartridge \in {c \in cartridges : c.dirty}}

\* What the click on the rack and mountSoftware() ask before anything is done.
MayMount(slot, boot) ==
    /\ IF boot THEN rack[slot].boot ELSE rack[slot].mount
    /\ selected # NoFile
    /\ ~softwareBusy
    /\ Cardinality(mounting) + inserted < MountBound

\* mountMicrodrive(): the cartridge replaces whatever the drive holds.
Insert(slot, writeProtected) ==
    /\ inserted' = inserted + 1
    /\ microdrives' =
         [microdrives EXCEPT ![slot] =
             [serial |-> inserted + 1, writeProtected |-> writeProtected, dirty |-> FALSE]]

\* startExecution() and stop(), for what they do here.
Starts == running' = (rom # "none")

\* mountSoftware() up to its first await, for a file of the user.  For a drive that
\* holds a cartridge the user is asked; without an agreement nothing happens.
StartMounting(slot, boot) ==
    /\ MayMount(slot, boot)
    /\ selected # Virgin
    /\ Agrees({microdrives[slot]} \ {NoCartridge})
    /\ softwareBusy' = BusyDuringMount
    /\ mounting' = mounting \cup {[slot |-> slot, file |-> selected, boot |-> boot]}
    /\ UNCHANGED <<library, microdrives, inserted, roms, running>>
    /\ rack' = Drawn'

\* The bytes are there.
FinishMounting(m) ==
    /\ mounting' = mounting \ {m}
    /\ Insert(m.slot, TRUE)
    /\ softwareBusy' = FALSE
    /\ IF m.boot THEN Starts ELSE UNCHANGED running
    /\ UNCHANGED <<library, consent, roms>>
    /\ rack' = Drawn'

\* The bytes of a virgin cartridge are there at once: its await ends before the browser
\* does anything else.
MountVirgin(slot, boot) ==
    /\ MayMount(slot, boot)
    /\ selected = Virgin
    /\ Agrees({microdrives[slot]} \ {NoCartridge})
    /\ Insert(slot, FALSE)
    /\ IF boot THEN Starts ELSE UNCHANGED running
    /\ UNCHANGED <<library, softwareBusy, mounting, roms>>
    /\ rack' = Drawn'

\* Mutant: the page stays busy until a mount succeeds.
BusyAfterFailure_Mut == softwareBusy

\* finally
BusyAfterFailure == FALSE

\* The file cannot be read, or is no cartridge and no package that fits on one: the
\* cartridge in the drive stays, and the agreement to lose it is of no more use.
FailMounting(m) ==
    /\ mounting' = mounting \ {m}
    /\ softwareBusy' = BusyAfterFailure
    /\ Agrees({})
    /\ UNCHANGED <<library, microdrives, inserted, roms, running>>
    /\ rack' = Drawn'

\* Mutant: the rack is not drawn again.
DrawAfterEject_Mut == rack' = rack

DrawAfterEject == rack' = Drawn'

\* ejectMicrodrive(); only a cartridge with changes is asked about.
EjectMicrodrive(slot) ==
    /\ rack[slot].eject
    /\ Agrees({c \in {microdrives[slot]} : c.dirty})
    /\ microdrives' = [microdrives EXCEPT ![slot] = NoCartridge]
    /\ UNCHANGED <<library, softwareBusy, mounting, inserted, roms, running>>
    /\ DrawAfterEject

\* saveMicrodrive(): the image is downloaded and marked clean, in one task.
SaveMicrodrive(slot) ==
    /\ rack[slot].save
    /\ Mounted(slot)
    /\ ~microdrives[slot].writeProtected
    /\ microdrives' = [microdrives EXCEPT ![slot].dirty = FALSE]
    /\ UNCHANGED <<library, softwareBusy, mounting, inserted, consent, roms, running>>
    /\ rack' = Drawn'

\* The machine writes on a cartridge while it runs or in a single step, and the rack is
\* not drawn.
MachineWrites(slot) ==
    /\ rom # "none"
    /\ Mounted(slot)
    /\ ~microdrives[slot].writeProtected
    /\ microdrives' = [microdrives EXCEPT ![slot].dirty = TRUE]
    /\ UNCHANGED <<library, softwareBusy, mounting, inserted, consent, rack, roms, running>>
----------------------------------------------------------------------------
(* The ROM, and the machine.                                               *)

\* installRom(): the machine is reset, and stands.
InstallRom(origin) ==
    /\ rom' = origin
    /\ running' = FALSE

\* loadDefaultRom(), from Init on.
DefaultRomArrives ==
    /\ fetching
    /\ fetching' = FALSE
    /\ InstallRom("bundled")
    /\ UNCHANGED <<library, softwareBusy, media, choosing>>
    /\ rack' = Drawn'

DefaultRomFails ==
    /\ fetching
    /\ fetching' = FALSE
    /\ UNCHANGED <<library, softwareBusy, media, rack, rom, choosing, running>>

ChooseRom ==
    /\ choosing < RomBound
    /\ choosing' = choosing + 1
    /\ UNCHANGED <<library, softwareBusy, media, rack, rom, fetching, running>>

ChosenRomArrives ==
    /\ choosing > 0
    /\ choosing' = choosing - 1
    /\ InstallRom("chosen")
    /\ UNCHANGED <<library, softwareBusy, media, fetching>>
    /\ rack' = Drawn'

\* It has not the size of a ROM: the machine is stopped.
ChosenRomFails ==
    /\ choosing > 0
    /\ choosing' = choosing - 1
    /\ running' = FALSE
    /\ UNCHANGED <<library, softwareBusy, media, rom, fetching>>
    /\ rack' = Drawn'

\* The run button, which needs a ROM; a machine that stops by itself does the same.
RunButton ==
    /\ rom # "none"
    /\ running' = ~running
    /\ UNCHANGED <<library, softwareBusy, media, roms>>
    /\ rack' = Drawn'

\* The reset button: the cartridges stay in.
ResetMachine ==
    /\ rom # "none"
    /\ running' = FALSE
    /\ UNCHANGED <<library, softwareBusy, media, roms>>
    /\ rack' = Drawn'

UserActs ==
    \/ AddSoftwareFiles \/ CreateVirginMicrodrive \/ SelectFile
    \/ \E slot \in Slots, boot \in BOOLEAN : StartMounting(slot, boot) \/ MountVirgin(slot, boot)
    \/ \E slot \in Slots : EjectMicrodrive(slot) \/ SaveMicrodrive(slot)
    \/ ChooseRom \/ RunButton \/ ResetMachine

MountEnds == \E m \in mounting : FinishMounting(m) \/ FailMounting(m)

Next ==
    \/ UserActs
    \/ MountEnds
    \/ \E slot \in Slots : MachineWrites(slot)
    \/ DefaultRomArrives \/ DefaultRomFails \/ ChosenRomArrives \/ ChosenRomFails

\* A promise of the browser is settled at last.
Spec == Init /\ [][Next]_vars /\ WF_vars(MountEnds)
----------------------------------------------------------------------------
Labels  == {"empty", "protected", "changed", "writable"}
Buttons == [serial : 0 .. MountBound, label : Labels, mount : BOOLEAN, boot : BOOLEAN,
            save : BOOLEAN, eject : BOOLEAN]

\* Every variable has its type, and what is selected is in the list.
TypeOK ==
    /\ softwareFiles \subseteq Files
    /\ selected \in softwareFiles \cup {NoFile}
    /\ softwareBusy \in BOOLEAN
    /\ mounting \subseteq [slot : Slots, file : Imports, boot : BOOLEAN]
    /\ microdrives \in [Slots -> Cartridge \cup {NoCartridge}]
    /\ rack \in [Slots -> Buttons]
    /\ rom \in {"none", "bundled", "chosen"}
    /\ fetching \in BOOLEAN
    /\ choosing \in 0 .. RomBound
    /\ running \in BOOLEAN
    /\ inserted \in 0 .. MountBound
    /\ released \subseteq 1 .. MountBound
    /\ warned \subseteq 1 .. MountBound

\* Each unit of the rack presents the cartridge that is in it and offers what can be
\* done with it, whatever happened since the library was opened: README promises it of
\* the rack and of the picture of the computer.  Its label lags in one way only: a
\* cartridge the machine wrote on may still be called writable and not changed, for
\* writing draws nothing; none is called changed that has no changes to be saved.
RackShowsCartridges ==
    /\ TypeOK
    /\ \A slot \in Slots :
          /\ rack[slot].serial = microdrives[slot].serial
          /\ \/ rack[slot].label = Label(microdrives[slot])
             \/ rack[slot].label = "writable" /\ Label(microdrives[slot]) = "changed"
          /\ rack[slot].save <=> Mounted(slot) /\ ~microdrives[slot].writeProtected
          /\ rack[slot].eject <=> Mounted(slot) /\ ~softwareBusy

\* The drive has changes that are not saved, and the step takes its cartridge out.
LosesChanges(slot) ==
    microdrives[slot].dirty /\ microdrives'[slot].serial # microdrives[slot].serial

\* Changes that were not saved go only with a cartridge the user agreed to lose in the
\* operation that takes it out, and not in one that failed or was meant for another
\* cartridge; although other clicks and the machine came between the question and the
\* replacement (mountSoftware() and ejectMicrodrive()).  The question may have been put
\* before the changes were made: see LossIsSignalled.
LostIsReleased ==
    [][\A slot \in Slots : LosesChanges(slot) => microdrives[slot].serial \in released']_vars

\* What README.md says of a changed cartridge that is replaced, and docs/ARCHITECTURE.md
\* of its changes: that they are signalled, by its label in the rack or at least by the
\* question, before they are lost.
LossIsSignalled ==
    [][\A slot \in Slots :
           LosesChanges(slot) => \/ rack[slot].label = "changed"
                                 \/ microdrives[slot].serial \in warned']_vars

\* The rack does not stay locked: a mount that was started comes to its end,
\* also when the file cannot be read.
RackIsFreed == softwareBusy ~> ~softwareBusy
=============================================================================
