------------------------------ MODULE Machine ------------------------------
(***************************************************************************)
(* Time and interrupts: the loop of the page that runs the processor in    *)
(* animation frames (main.js), the ticks and the interrupt register of the *)
(* ZX8302 (devices/zx8302.js, through core/bus.js), and what decides in the *)
(* processor whether an interrupt is taken (core/mc68008.js).              *)
(*                                                                         *)
(* A frame is one task of the browser: the user's clicks come between      *)
(* frames.  How many instructions a frame holds depends on the time that   *)
(* has passed, so it may end after any of them.  The program is arbitrary. *)
(***************************************************************************)
EXTENDS Integers

CONSTANTS
    FrameCycles,    \* cycles between two frame interrupts: 150000
    GapCycles,      \* cycles between two GAP interrupts: 37500
    Costs,          \* cycles of an instruction or of an exception
    MachineMasks,   \* values the program gives to the interrupt mask
    DriveCount,     \* Microdrives: 8
    DriveControls,  \* control nibbles the program writes, of 0 .. 15
    RequestBound    \* bound of the model on the animation frames requested

InterruptLevel == 2

ASSUME MachineAssumption ==
    /\ {FrameCycles, GapCycles, DriveCount, RequestBound} \subseteq Nat \ {0}
    /\ Costs \subseteq 1 .. FrameCycles \cap 1 .. GapCycles
    /\ {InterruptLevel, 7} \subseteq MachineMasks
    /\ MachineMasks \subseteq 0 .. 7
    /\ DriveControls \subseteq 0 .. 15

Sources == {"frame", "gap"}

VARIABLES
    running,            \* the page runs frames
    inFrame,            \* runFrame() is being executed
    requests,           \* animation frames requested and not yet called
    mask, stopped, interruptLevel,              \* of the processor
    pendingInterrupts, gapMask,                 \* of the ZX8302
    frameCycleAccumulator, gapCycleAccumulator,
    activeMicrodrive,   \* the drive whose motor runs, 0 for none
    microdriveControl,  \* the last control nibble, -1 after a reset
    mounted,            \* the drives that hold a cartridge
    failed              \* the last instruction threw (history)

page   == <<running, inFrame, requests>>
cpu    == <<mask, stopped, interruptLevel>>
device == <<pendingInterrupts, gapMask, frameCycleAccumulator, gapCycleAccumulator,
            activeMicrodrive, microdriveControl>>
vars   == <<page, cpu, device, mounted, failed>>

Init ==
    /\ running = FALSE
    /\ inFrame = FALSE
    /\ requests = 0
    /\ mask = 7
    /\ stopped = FALSE
    /\ interruptLevel = 0
    /\ pendingInterrupts = {}
    /\ gapMask = FALSE
    /\ frameCycleAccumulator = 0
    /\ gapCycleAccumulator = 0
    /\ activeMicrodrive = 0
    /\ microdriveControl = -1
    /\ mounted = {}
    /\ failed = FALSE
----------------------------------------------------------------------------
(* The ZX8302.  An instruction writes registers first, and tick() follows;  *)
(* d is the state between the two.                                         *)

Device ==
    [pending |-> pendingInterrupts, gapMask |-> gapMask, frame |-> frameCycleAccumulator,
     gap |-> gapCycleAccumulator, active |-> activeMicrodrive, control |-> microdriveControl]

DeviceReset ==
    [pending |-> {}, gapMask |-> FALSE, frame |-> 0, gap |-> 0, active |-> 0, control |-> -1]

\* selectMicrodrive() starts the tape again, also of a drive that runs already.
SelectMicrodrive(d, slot) == [d EXCEPT !.active = slot, !.gap = 0]

\* The control register shifts the motor along the drives.
WriteMicrodriveControl(d, control) ==
    [ CASE d.control = 3 /\ control = 1 -> SelectMicrodrive(d, 1)
        [] d.control = 2 /\ control = 0 ->
              SelectMicrodrive(d, IF d.active \in 1 .. DriveCount - 1 THEN d.active + 1 ELSE 0)
        [] OTHER -> d
      EXCEPT !.control = control ]

\* The interrupt register: it sets the mask and acknowledges sources; without
\* any cartridge the GAP line is high and asks for service again at once.
WriteInterruptRegister(d, acknowledged, enable) ==
    [d EXCEPT !.gapMask = enable,
              !.pending = (@ \ acknowledged)
                          \cup IF enable /\ mounted = {} THEN {"gap"} ELSE {}]

\* Mutant: the interrupt is raised and the counter goes on.
FrameRemainder_Mut(cycles) == cycles

FrameRemainder(cycles) == cycles % FrameCycles

\* Mutant: the gap counter starts again at every instruction.
GapCounted_Mut(d, cycles) == cycles

GapCounted(d, cycles) == d.gap + cycles

Raised(d, cycles) ==
    (IF d.frame + cycles >= FrameCycles THEN {"frame"} ELSE {})
    \cup (IF d.active > 0 /\ d.gapMask /\ GapCounted(d, cycles) >= GapCycles THEN {"gap"} ELSE {})

\* tick()
Tick(d, cycles) ==
    [d EXCEPT !.pending = @ \cup Raised(d, cycles),
              !.frame = FrameRemainder(@ + cycles),
              !.gap = IF d.active > 0 THEN GapCounted(d, cycles) % GapCycles ELSE 0]

SetDevice(d) ==
    /\ pendingInterrupts' = d.pending
    /\ gapMask' = d.gapMask
    /\ frameCycleAccumulator' = d.frame
    /\ gapCycleAccumulator' = d.gap
    /\ activeMicrodrive' = d.active
    /\ microdriveControl' = d.control

\* get interruptLevel, of the ZX8302 and of the bus.
LevelOf(d) == IF d.pending # {} THEN InterruptLevel ELSE 0
----------------------------------------------------------------------------
(* One step of the processor with the tick that follows it.                *)

\* Mutant: the level is set before the tick.
SetInterruptLevel_Mut(d) == interruptLevel' = LevelOf(Device)

SetInterruptLevel(d) == interruptLevel' = LevelOf(d)

TickAfter(d, cycles) ==
    /\ SetDevice(Tick(d, cycles))
    /\ SetInterruptLevel(Tick(d, cycles))
    /\ failed' = FALSE

InterruptTaken == interruptLevel > mask

AcceptInterrupt ==
    /\ InterruptTaken
    /\ mask' = interruptLevel
    /\ stopped' = FALSE
    /\ \E cycles \in Costs : TickAfter(Device, cycles)

\* What an instruction may leave in the ZX8302: a word or a long word writes both
\* registers, and RESET resets the devices.
DriveWrites == {Device} \cup {WriteMicrodriveControl(Device, control) : control \in DriveControls}

RegisterWrites(d) ==
    {d} \cup {WriteInterruptRegister(d, acknowledged, enable) :
                 acknowledged \in SUBSET Sources, enable \in BOOLEAN}

Writes == {DeviceReset} \cup UNION {RegisterWrites(d) : d \in DriveWrites}

\* What one instruction does besides: those that give the status register a value,
\* STOP among them, write nothing.
Executes(d) ==
    \/ UNCHANGED <<mask, stopped>>
    \/ d = Device /\ mask' \in MachineMasks /\ stopped' \in BOOLEAN

Instruction ==
    /\ ~InterruptTaken
    /\ ~stopped
    /\ \E d \in Writes, cycles \in Costs : Executes(d) /\ TickAfter(d, cycles)

\* A stopped processor spends no cycles.
Idle ==
    /\ ~InterruptTaken
    /\ stopped
    /\ TickAfter(Device, 0)
    /\ UNCHANGED <<mask, stopped>>

CpuStep == AcceptInterrupt \/ Instruction \/ Idle

\* step() throws for an address that is not aligned, and neither the tick nor
\* the level follows.  When only the stacking of a trace exception fails, the
\* instruction itself has been executed.
StepThrows ==
    /\ InterruptTaken \/ ~stopped
    /\ IF InterruptTaken
         THEN UNCHANGED <<device, mask, stopped>>
         ELSE \E d \in Writes : Executes(d) /\ SetDevice(d)
    /\ failed' = TRUE
    /\ UNCHANGED interruptLevel
----------------------------------------------------------------------------
(* The page.                                                               *)

\* Mutant: the frame that is requested is not cancelled.
Cancelled_Mut == requests

\* cancelAnimationFrame() cancels the frame that was requested last.
Cancelled == IF requests > 0 THEN requests - 1 ELSE 0

\* stop(); outside a frame it cancels the next one.
StopLoop ==
    /\ running' = FALSE
    /\ requests' = IF inFrame THEN requests ELSE Cancelled

\* requestAnimationFrame() calls runFrame(); a frame called after a stop does
\* nothing.
BeginFrame ==
    /\ ~inFrame
    /\ requests > 0
    /\ requests' = requests - 1
    /\ inFrame' = running
    /\ UNCHANGED <<running, cpu, device, mounted, failed>>

\* An iteration of the loop; the machine is stopped when the processor is.
FrameStep ==
    /\ inFrame
    /\ running
    /\ CpuStep
    /\ IF ~InterruptTaken /\ stopped THEN StopLoop ELSE UNCHANGED <<running, requests>>
    /\ UNCHANGED <<inFrame, mounted>>

\* The catch of runFrame(): the machine is stopped, with an error message.
FrameError ==
    /\ inFrame
    /\ running
    /\ StepThrows
    /\ StopLoop
    /\ UNCHANGED <<inFrame, mounted>>

\* The cycles of the frame are used up, or the machine was stopped.
EndFrame ==
    /\ inFrame
    /\ inFrame' = FALSE
    /\ requests < RequestBound
    /\ requests' = IF running THEN requests + 1 ELSE requests
    /\ UNCHANGED <<running, cpu, device, mounted, failed>>

RunButton ==
    /\ ~inFrame
    /\ IF running
         THEN StopLoop
         ELSE /\ requests < RequestBound
              /\ running' = TRUE
              /\ requests' = requests + 1
    /\ UNCHANGED <<inFrame, cpu, device, mounted, failed>>

\* Disabled while the machine runs.
StepButton ==
    /\ ~inFrame
    /\ ~running
    /\ CpuStep
    /\ UNCHANGED <<page, mounted>>

StepError ==
    /\ ~inFrame
    /\ ~running
    /\ StepThrows
    /\ StopLoop
    /\ UNCHANGED <<inFrame, mounted>>

\* cpu.reset()
CpuReset ==
    /\ mask' = 7
    /\ stopped' = FALSE
    /\ interruptLevel' = 0
    /\ failed' = FALSE

\* resetMachine(), also when a ROM is installed.
ResetMachine ==
    /\ ~inFrame
    /\ StopLoop
    /\ CpuReset
    /\ SetDevice(DeviceReset)
    /\ UNCHANGED <<inFrame, mounted>>

\* mountSoftware() with boot: the cartridge is in, the machine is reset and started.
MountAndBoot(slot) ==
    /\ ~inFrame
    /\ running' = TRUE
    /\ requests' = Cancelled + 1
    /\ requests' <= RequestBound
    /\ mounted' = mounted \cup {slot}
    /\ CpuReset
    /\ SetDevice(DeviceReset)
    /\ UNCHANGED inFrame

\* A cartridge put into the drive that runs, or taken out of it, starts the tape again.
SwapCartridge(slot) ==
    SetDevice(IF activeMicrodrive = slot THEN SelectMicrodrive(Device, slot) ELSE Device)

Mount(slot) ==
    /\ ~inFrame
    /\ mounted' = mounted \cup {slot}
    /\ SwapCartridge(slot)
    /\ UNCHANGED <<page, cpu, failed>>

\* The drive keeps its motor.
Eject(slot) ==
    /\ ~inFrame
    /\ mounted' = mounted \ {slot}
    /\ SwapCartridge(slot)
    /\ UNCHANGED <<page, cpu, failed>>

Next ==
    \/ BeginFrame \/ FrameStep \/ FrameError \/ EndFrame
    \/ RunButton \/ StepButton \/ StepError \/ ResetMachine
    \/ \E slot \in 1 .. DriveCount : MountAndBoot(slot) \/ Mount(slot) \/ Eject(slot)

\* The browser calls the frames that are requested, and a frame comes to its
\* end after some instruction.
Spec ==
    /\ Init
    /\ [][Next]_vars
    /\ WF_vars(BeginFrame)
    /\ SF_vars(FrameStep)
    /\ WF_vars(EndFrame)
----------------------------------------------------------------------------
FlagTypes ==
    /\ running \in BOOLEAN /\ inFrame \in BOOLEAN
    /\ stopped \in BOOLEAN /\ gapMask \in BOOLEAN /\ failed \in BOOLEAN

CounterTypes ==
    /\ requests \in 0 .. RequestBound
    /\ mask \in MachineMasks
    /\ interruptLevel \in {0, InterruptLevel}
    /\ frameCycleAccumulator \in 0 .. FrameCycles - 1
    /\ gapCycleAccumulator \in 0 .. GapCycles - 1
    /\ activeMicrodrive \in 0 .. DriveCount
    /\ microdriveControl \in DriveControls \cup {-1}

\* Every variable has its type; the two counters stay within their periods.
TypeOK ==
    /\ FlagTypes
    /\ CounterTypes
    /\ pendingInterrupts \subseteq Sources
    /\ mounted \subseteq 1 .. DriveCount

\* One loop drives the machine: however quickly the user pauses, resets, boots
\* and runs again, no second chain of animation frames is left behind that
\* would run the machine at twice its speed, and none is missing.
OneLoop == IF inFrame THEN requests = 0 ELSE requests = IF running THEN 1 ELSE 0

\* Between two instructions the processor knows what the devices ask for, also
\* after a single step, a reset of the machine and a RESET instruction: it takes
\* no interrupt that was acknowledged and misses none.  Only an instruction that
\* throws leaves an older level.
LevelIsFresh == failed \/ interruptLevel = LevelOf(Device)

\* A step after which the tape runs from its beginning: a drive is selected, again or
\* for the first time, or the cartridge of the drive that runs is swapped.
TapeStartsAgain ==
    \/ <<microdriveControl, microdriveControl'>> \in {<<3, 1>>, <<2, 0>>}
    \/ Mount(activeMicrodrive) \/ Eject(activeMicrodrive)

\* A driver that waits for a gap with the drive running is told of one, whatever other
\* interrupts are taken and acknowledged meanwhile and however the time is cut into
\* frames; unless the tape is started again for ever, by a program that goes on
\* selecting or a user who goes on swapping: each start sets the counter of tick() back.
GapIsSignalled ==
    \/ []<><<TapeStartsAgain>>_vars
    \/ (running /\ gapMask /\ activeMicrodrive > 0)
          ~> ("gap" \in pendingInterrupts \/ ~running \/ ~gapMask \/ activeMicrodrive = 0)
=============================================================================
