---------------------------- MODULE Computer_proofs ----------------------------
(***************************************************************************)
(* Proofs about what the page runs and what it shows: about time and       *)
(* interrupts, for every period of the frame and of the gap, every cost of *)
(* an instruction and every program; and about the picture, for every size *)
(* of the screen and of the memory, every place of them and every write.   *)
(***************************************************************************)
EXTENDS Computer, SequenceTheorems, FiniteSetTheorems, NaturalsInduction,
        WellFoundedInduction, TLAPS

----------------------------------------------------------------------------
(* The states of the ZX8302 between an instruction and its tick.           *)

DeviceStates ==
    [pending : SUBSET Sources, gapMask : BOOLEAN, frame : 0 .. FrameCycles - 1,
     gap : 0 .. GapCycles - 1, active : 0 .. DriveCount, control : DriveControls \cup {-1}]

LEMMA DeviceIsState == ASSUME TypeOK PROVE Device \in DeviceStates
BY Zenon DEF TypeOK, FlagTypes, CounterTypes, Device, DeviceStates

LEMMA ResetIsState == DeviceReset \in DeviceStates
<1>1. 0 \in 0 .. FrameCycles - 1 /\ 0 \in 0 .. GapCycles - 1
  BY MachineAssumption
<1>2. {} \in SUBSET Sources /\ FALSE \in BOOLEAN /\ -1 \in DriveControls \cup {-1}
  OBVIOUS
<1>3. 0 \in 0 .. DriveCount
  BY MachineAssumption
<1> QED BY <1>1, <1>2, <1>3, Zenon DEF DeviceReset, DeviceStates

\* A drive that is selected keeps the device in form.
LEMMA SelectKeepsState ==
    ASSUME NEW d \in DeviceStates, NEW slot \in 0 .. DriveCount
    PROVE  SelectMicrodrive(d, slot) \in DeviceStates
<1>1. 0 \in 0 .. GapCycles - 1
  BY MachineAssumption
<1>2. SelectMicrodrive(d, slot) = [[d EXCEPT !.active = slot] EXCEPT !.gap = 0]
  BY Zenon DEF SelectMicrodrive, DeviceStates
<1> QED BY <1>1, <1>2, Zenon DEF DeviceStates

\* So does the control register.
LEMMA ControlKeepsState ==
    ASSUME NEW d \in DeviceStates, NEW control \in DriveControls
    PROVE  WriteMicrodriveControl(d, control) \in DeviceStates
<1> DEFINE next == IF d.active \in 1 .. DriveCount - 1 THEN d.active + 1 ELSE 0
           moved == CASE d.control = 3 /\ control = 1 -> SelectMicrodrive(d, 1)
                      [] d.control = 2 /\ control = 0 -> SelectMicrodrive(d, next)
                      [] OTHER -> d
<1>1. 1 \in 0 .. DriveCount /\ next \in 0 .. DriveCount
  BY MachineAssumption
<1> HIDE DEF next
<1>2. SelectMicrodrive(d, 1) \in DeviceStates /\ SelectMicrodrive(d, next) \in DeviceStates
  BY <1>1, SelectKeepsState, Zenon
<1>3. d.control = 3 /\ control = 1 => ~(d.control = 2 /\ control = 0)
  OBVIOUS
<1>4. moved \in DeviceStates
  BY <1>2, <1>3
<1>5. WriteMicrodriveControl(d, control) = [moved EXCEPT !.control = control]
  BY Zenon DEF WriteMicrodriveControl, next
<1> HIDE DEF moved
<1> QED BY <1>4, <1>5, Zenon DEF DeviceStates

\* The interrupt register keeps the device in form.
LEMMA RegisterKeepsState ==
    ASSUME NEW d \in DeviceStates, NEW acknowledged, NEW enable \in BOOLEAN
    PROVE  WriteInterruptRegister(d, acknowledged, enable) \in DeviceStates
<1> DEFINE w == WriteInterruptRegister(d, acknowledged, enable)
<1> DEFINE p == (d.pending \ acknowledged) \cup IF enable /\ mounted = {} THEN {"gap"} ELSE {}
<1>1. p \in SUBSET Sources
  BY DEF DeviceStates, Sources
<1>2. w = [[d EXCEPT !.gapMask = enable] EXCEPT !.pending = p]
  BY DEF WriteInterruptRegister, DeviceStates
<1> QED BY <1>1, <1>2, Zenon DEF DeviceStates

\* Whatever an instruction writes, the device stays in form.
LEMMA WritesAreStates ==
    ASSUME TypeOK
    PROVE  Writes \subseteq DeviceStates
<1> SUFFICES ASSUME NEW d \in Writes PROVE d \in DeviceStates
  OBVIOUS
<1>2. CASE d = DeviceReset
  BY <1>2, ResetIsState
<1>3. ASSUME NEW e \in DriveWrites PROVE e \in DeviceStates
  <2>1. CASE e = Device
    BY <2>1, DeviceIsState
  <2>2. CASE e # Device
    <3>1. PICK control \in DriveControls : e = WriteMicrodriveControl(Device, control)
      BY <2>2 DEF DriveWrites
    <3> QED BY <3>1, DeviceIsState, ControlKeepsState, Zenon
  <2> QED BY <2>1, <2>2
<1>4. ASSUME NEW e \in DriveWrites, d \in RegisterWrites(e) PROVE d \in DeviceStates
  <2>1. CASE d = e
    BY <1>3, <2>1
  <2>2. CASE d # e
    <3>1. PICK acknowledged \in SUBSET Sources, enable \in BOOLEAN :
            d = WriteInterruptRegister(e, acknowledged, enable)
      BY <1>4, <2>2 DEF RegisterWrites
    <3> QED BY <1>3, <3>1, RegisterKeepsState, Zenon
  <2> QED BY <2>1, <2>2
<1> QED BY <1>2, <1>4 DEF Writes

\* And whatever the instruction does to the processor.
LEMMA ExecutesTypes ==
    ASSUME TypeOK, NEW d, Executes(d)
    PROVE  mask' \in MachineMasks /\ stopped' \in BOOLEAN
BY Zenon DEF TypeOK, FlagTypes, CounterTypes, Executes

\* So it does with the tick.
LEMMA TickKeepsState ==
    ASSUME NEW d \in DeviceStates, NEW cycles \in Nat
    PROVE  Tick(d, cycles) \in DeviceStates
<1> DEFINE frame == FrameRemainder(d.frame + cycles)
           gap == IF d.active > 0 THEN GapCounted(d, cycles) % GapCycles ELSE 0
           pending == d.pending \cup Raised(d, cycles)
<1>1. frame \in 0 .. FrameCycles - 1
  BY MachineAssumption DEF DeviceStates, FrameRemainder
<1>2. gap \in 0 .. GapCycles - 1
  BY MachineAssumption DEF DeviceStates, GapCounted
<1>3. pending \in SUBSET Sources
  BY DEF DeviceStates, Raised, Sources
<1>4. Tick(d, cycles) = [[[d EXCEPT !.pending = pending] EXCEPT !.frame = frame] EXCEPT !.gap = gap]
  BY Zenon DEF Tick, DeviceStates
<1> HIDE DEF frame, gap, pending
<1> QED BY <1>1, <1>2, <1>3, <1>4, Zenon DEF DeviceStates
\* What a step of the processor leaves: the device in form, a level that belongs
\* to it.
LEMMA TickAfterTypes ==
    ASSUME NEW d \in DeviceStates, NEW cycles \in Nat, TickAfter(d, cycles)
    PROVE  /\ gapMask' \in BOOLEAN /\ failed' \in BOOLEAN
           /\ activeMicrodrive' \in 0 .. DriveCount
           /\ microdriveControl' \in DriveControls \cup {-1}
           /\ frameCycleAccumulator' \in 0 .. FrameCycles - 1
           /\ gapCycleAccumulator' \in 0 .. GapCycles - 1
           /\ pendingInterrupts' \subseteq Sources
           /\ interruptLevel' \in {0, InterruptLevel}
           /\ interruptLevel' = LevelOf(Device)'
<1> DEFINE t == Tick(d, cycles)
<1>1. t \in DeviceStates
  BY TickKeepsState
<1> HIDE DEF t
<1>2. SetDevice(t) /\ interruptLevel' = LevelOf(t) /\ failed' = FALSE
  BY DEF TickAfter, SetInterruptLevel, t
<1>3. /\ gapMask' \in BOOLEAN /\ failed' \in BOOLEAN
      /\ activeMicrodrive' \in 0 .. DriveCount
      /\ microdriveControl' \in DriveControls \cup {-1}
  BY <1>1, <1>2, Zenon DEF SetDevice, DeviceStates
<1>4. /\ frameCycleAccumulator' \in 0 .. FrameCycles - 1
      /\ gapCycleAccumulator' \in 0 .. GapCycles - 1
      /\ pendingInterrupts' \subseteq Sources
  BY <1>1, <1>2 DEF SetDevice, DeviceStates
<1>5. LevelOf(Device)' = IF pendingInterrupts' # {} THEN InterruptLevel ELSE 0
  BY DEF LevelOf, Device
<1>6. pendingInterrupts' = t.pending
  BY <1>2 DEF SetDevice
<1>7. interruptLevel' = IF t.pending # {} THEN InterruptLevel ELSE 0
  BY <1>2 DEF LevelOf
<1> QED BY <1>3, <1>4, <1>5, <1>6, <1>7

\* What an instruction that throws leaves.
LEMMA SetDeviceTypes ==
    ASSUME NEW d \in DeviceStates, SetDevice(d)
    PROVE  /\ gapMask' \in BOOLEAN
           /\ activeMicrodrive' \in 0 .. DriveCount
           /\ microdriveControl' \in DriveControls \cup {-1}
           /\ frameCycleAccumulator' \in 0 .. FrameCycles - 1
           /\ gapCycleAccumulator' \in 0 .. GapCycles - 1
           /\ pendingInterrupts' \subseteq Sources
<1>1. /\ gapMask' \in BOOLEAN
      /\ activeMicrodrive' \in 0 .. DriveCount
      /\ microdriveControl' \in DriveControls \cup {-1}
  BY Zenon DEF SetDevice, DeviceStates
<1>2. /\ frameCycleAccumulator' \in 0 .. FrameCycles - 1
      /\ gapCycleAccumulator' \in 0 .. GapCycles - 1
      /\ pendingInterrupts' \subseteq Sources
  BY DEF SetDevice, DeviceStates
<1> QED BY <1>1, <1>2

----------------------------------------------------------------------------
(* The types and the level are proved together, one half of the state at a *)
(* time: what the processor and the devices do, and what the page does.    *)

MachineTypes ==
    /\ stopped \in BOOLEAN /\ gapMask \in BOOLEAN /\ failed \in BOOLEAN
    /\ activeMicrodrive \in 0 .. DriveCount
    /\ microdriveControl \in DriveControls \cup {-1}
    /\ mask \in MachineMasks
    /\ interruptLevel \in {0, InterruptLevel}
    /\ frameCycleAccumulator \in 0 .. FrameCycles - 1
    /\ gapCycleAccumulator \in 0 .. GapCycles - 1
    /\ pendingInterrupts \subseteq Sources

PageTypes ==
    /\ running \in BOOLEAN /\ inFrame \in BOOLEAN
    /\ requests \in 0 .. RequestBound

LEMMA TypesAreHalves ==
    TypeOK <=> MachineTypes /\ PageTypes /\ mounted \subseteq 1 .. DriveCount
BY Zenon DEF TypeOK, FlagTypes, CounterTypes, MachineTypes, PageTypes

\* A step of the processor, with its tick.
LEMMA CpuStepKeeps ==
    ASSUME TypeOK, CpuStep
    PROVE  MachineTypes' /\ LevelIsFresh'
<1>1. CASE AcceptInterrupt
  <2>1. PICK cycles \in Costs : TickAfter(Device, cycles)
    BY <1>1 DEF AcceptInterrupt
  <2>2. cycles \in Nat
    BY MachineAssumption
  <2>3. mask' \in MachineMasks
    <3>1. interruptLevel > mask /\ mask' = interruptLevel
      BY <1>1 DEF AcceptInterrupt, InterruptTaken
    <3>2. interruptLevel \in {0, 2} /\ mask \in 0 .. 7
      BY MachineAssumption DEF TypeOK, CounterTypes, InterruptLevel
    <3>3. interruptLevel = 2
      BY <3>1, <3>2
    <3> QED BY <3>1, <3>3, MachineAssumption DEF InterruptLevel
  <2>4. stopped' \in BOOLEAN
    BY <1>1 DEF AcceptInterrupt
  <2> QED BY <2>1, <2>2, <2>3, <2>4, DeviceIsState, TickAfterTypes, Zenon
        DEF MachineTypes, LevelIsFresh
<1>2. CASE Instruction
  <2>1. PICK d \in Writes, cycles \in Costs : Executes(d) /\ TickAfter(d, cycles)
    BY <1>2 DEF Instruction
  <2>2. cycles \in Nat /\ d \in DeviceStates
    BY MachineAssumption, WritesAreStates
  <2>3. mask' \in MachineMasks /\ stopped' \in BOOLEAN
    BY <2>1, ExecutesTypes
  <2> QED BY <2>1, <2>2, <2>3, TickAfterTypes, Zenon DEF MachineTypes, LevelIsFresh
<1>3. CASE Idle
  <2>1. TickAfter(Device, 0) /\ mask' = mask /\ stopped' = stopped
    BY <1>3 DEF Idle
  <2>2. mask' \in MachineMasks /\ stopped' \in BOOLEAN
    BY <2>1, Zenon DEF TypeOK, FlagTypes, CounterTypes
  <2>3. 0 \in Nat
    OBVIOUS
  <2> QED BY <2>1, <2>2, <2>3, DeviceIsState, TickAfterTypes, Zenon DEF MachineTypes, LevelIsFresh
<1> QED BY <1>1, <1>2, <1>3 DEF CpuStep

\* An instruction that throws.
LEMMA StepThrowsKeeps ==
    ASSUME TypeOK, StepThrows
    PROVE  MachineTypes' /\ LevelIsFresh'
<1>1. failed' = TRUE /\ interruptLevel' = interruptLevel
  BY DEF StepThrows
<1>2. CASE InterruptTaken
  <2>1. UNCHANGED <<device, mask, stopped>>
    BY <1>2 DEF StepThrows
  <2> QED BY <1>1, <2>1, Zenon DEF device, TypeOK, FlagTypes, CounterTypes, MachineTypes, LevelIsFresh
<1>3. CASE ~InterruptTaken
  <2>1. PICK d \in Writes : Executes(d) /\ SetDevice(d)
    BY <1>3 DEF StepThrows
  <2>2. mask' \in MachineMasks /\ stopped' \in BOOLEAN
    BY <2>1, ExecutesTypes
  <2>3. d \in DeviceStates
    BY WritesAreStates
  <2> QED BY <1>1, <2>1, <2>2, <2>3, SetDeviceTypes, Zenon
        DEF TypeOK, CounterTypes, MachineTypes, LevelIsFresh
<1> QED BY <1>2, <1>3

\* A reset of the processor and of the devices.
LEMMA ResetKeeps ==
    ASSUME CpuReset, SetDevice(DeviceReset)
    PROVE  MachineTypes' /\ LevelIsFresh'
<1>1. mask' \in MachineMasks /\ stopped' \in BOOLEAN /\ interruptLevel' = 0 /\ failed' \in BOOLEAN
  BY MachineAssumption DEF CpuReset
<1>2. pendingInterrupts' = {}
  BY DEF SetDevice, DeviceReset
<1>3. LevelOf(Device)' = 0
  BY <1>2 DEF LevelOf, Device
<1>4. interruptLevel' \in {0, InterruptLevel}
  BY <1>1
<1> QED BY <1>1, <1>3, <1>4, ResetIsState, SetDeviceTypes, Zenon DEF MachineTypes, LevelIsFresh

\* Nothing of the processor or of the devices changes.
LEMMA UnchangedKeeps ==
    ASSUME TypeOK, LevelIsFresh, UNCHANGED <<cpu, device, failed>>
    PROVE  MachineTypes' /\ LevelIsFresh'
<1>1. LevelOf(Device)' = LevelOf(Device)
  BY DEF LevelOf, Device, device
<1> QED BY <1>1, Zenon DEF cpu, device, TypeOK, FlagTypes, CounterTypes, MachineTypes, LevelIsFresh

\* A cartridge that is swapped, in the drive that runs or in another.
LEMMA SwapKeeps ==
    ASSUME TypeOK, LevelIsFresh, NEW slot \in 1 .. DriveCount, SwapCartridge(slot),
           UNCHANGED <<cpu, failed>>
    PROVE  MachineTypes' /\ LevelIsFresh'
<1> DEFINE d == IF activeMicrodrive = slot THEN SelectMicrodrive(Device, slot) ELSE Device
<1>1. d \in DeviceStates
  <2>1. slot \in 0 .. DriveCount
    BY MachineAssumption
  <2> QED BY <2>1, DeviceIsState, SelectKeepsState, Zenon
<1>2. d.pending = pendingInterrupts
  BY DEF SelectMicrodrive, Device
<1>3. SetDevice(d)
  BY DEF SwapCartridge
<1> HIDE DEF d
<1>4. pendingInterrupts' = pendingInterrupts
  BY <1>2, <1>3 DEF SetDevice
<1>5. LevelOf(Device)' = LevelOf(Device)
  BY <1>4 DEF LevelOf, Device
<1> QED BY <1>1, <1>3, <1>5, SetDeviceTypes, Zenon
      DEF cpu, TypeOK, FlagTypes, CounterTypes, MachineTypes, LevelIsFresh

----------------------------------------------------------------------------
(* The page: its types, and the one loop.                                  *)

\* stop() leaves no frame requested, inside a frame and outside.
LEMMA StopKeeps ==
    ASSUME TypeOK, OneLoop, StopLoop, UNCHANGED inFrame
    PROVE  running' = FALSE /\ requests' = 0
BY DEF TypeOK, CounterTypes, FlagTypes, OneLoop, StopLoop, Cancelled

LEMMA StoppedPage ==
    ASSUME PageTypes, running' = FALSE, requests' = 0, inFrame' = inFrame
    PROVE  PageTypes' /\ OneLoop'
<1>1. requests' \in 0 .. RequestBound
  BY MachineAssumption
<1>2. PageTypes'
  BY <1>1, Zenon DEF PageTypes
<1>3. OneLoop'
  BY DEF OneLoop
<1> QED BY <1>2, <1>3

LEMMA StartedPage ==
    ASSUME PageTypes, ~inFrame, running' = TRUE, requests' = 1, inFrame' = inFrame
    PROVE  PageTypes' /\ OneLoop'
<1>1. requests' \in 0 .. RequestBound
  BY MachineAssumption
<1>2. PageTypes'
  BY <1>1, Zenon DEF PageTypes
<1>3. OneLoop'
  BY DEF OneLoop
<1> QED BY <1>2, <1>3

\* The inductive invariant: none of the three parts needs to be strengthened, but
\* the loop and the level are kept only by states of the right types.
IInv == TypeOK /\ OneLoop /\ LevelIsFresh

LEMMA InitInv == Init => IInv
<1> SUFFICES ASSUME Init PROVE IInv
  OBVIOUS
<1>1. FlagTypes
  BY Zenon DEF Init, FlagTypes
<1>2. CounterTypes
  BY MachineAssumption DEF Init, CounterTypes
<1>3. pendingInterrupts = {} /\ mounted = {} /\ interruptLevel = 0 /\ requests = 0 /\ ~inFrame /\ ~running
  BY DEF Init
<1> QED BY <1>1, <1>2, <1>3 DEF IInv, TypeOK, OneLoop, LevelIsFresh, LevelOf, Device

\* Every action keeps the invariant.
LEMMA NextInv == IInv /\ [Next]_vars => IInv'
<1> SUFFICES ASSUME IInv, [Next]_vars PROVE IInv'
  OBVIOUS
<1>t. TypeOK /\ OneLoop /\ LevelIsFresh
  BY DEF IInv
<1>p. PageTypes /\ mounted \subseteq 1 .. DriveCount
  BY <1>t, TypesAreHalves
<1>0. SUFFICES MachineTypes' /\ LevelIsFresh' /\ PageTypes' /\ OneLoop' /\ mounted' \subseteq 1 .. DriveCount
  BY TypesAreHalves, Zenon DEF IInv, TypeOK, FlagTypes, CounterTypes, MachineTypes, PageTypes
<1>1. CASE BeginFrame
  <2>1. MachineTypes' /\ LevelIsFresh' /\ mounted' \subseteq 1 .. DriveCount
    BY <1>1, <1>t, <1>p, UnchangedKeeps DEF BeginFrame
  <2>2. running' \in BOOLEAN /\ inFrame' \in BOOLEAN
    BY <1>1, <1>p, Zenon DEF BeginFrame, PageTypes
  <2>3. requests' \in 0 .. RequestBound /\ OneLoop'
    BY <1>1, <1>t, <1>p, MachineAssumption DEF BeginFrame, PageTypes, OneLoop
  <2> QED BY <2>1, <2>2, <2>3 DEF PageTypes
<1>2. CASE FrameStep
  <2>1. MachineTypes' /\ LevelIsFresh'
    BY <1>2, <1>t, CpuStepKeeps DEF FrameStep
  <2>2. inFrame' = inFrame /\ mounted' = mounted /\ inFrame
    BY <1>2 DEF FrameStep
  <2>3. CASE ~InterruptTaken /\ stopped
    <3>1. running' = FALSE /\ requests' = 0
      BY <1>2, <1>t, <2>2, <2>3, StopKeeps DEF FrameStep
    <3> QED BY <1>p, <2>1, <2>2, <3>1, StoppedPage, Zenon DEF PageTypes
  <2>4. CASE ~(~InterruptTaken /\ stopped)
    <3>1. running' = running /\ requests' = requests
      BY <1>2, <2>4 DEF FrameStep
    <3> QED BY <1>t, <1>p, <2>1, <2>2, <3>1, Zenon DEF PageTypes, OneLoop
  <2> QED BY <2>3, <2>4
<1>3. CASE FrameError
  <2>1. MachineTypes' /\ LevelIsFresh'
    BY <1>3, <1>t, StepThrowsKeeps DEF FrameError
  <2>2. inFrame' = inFrame /\ mounted' = mounted
    BY <1>3 DEF FrameError
  <2>3. running' = FALSE /\ requests' = 0
    BY <1>3, <1>t, StopKeeps DEF FrameError
  <2> QED BY <1>p, <2>1, <2>2, <2>3, StoppedPage, Zenon
<1>4. CASE EndFrame
  <2>1. MachineTypes' /\ LevelIsFresh' /\ mounted' \subseteq 1 .. DriveCount
    BY <1>4, <1>t, <1>p, UnchangedKeeps DEF EndFrame
  <2>2. running' \in BOOLEAN /\ inFrame' \in BOOLEAN
    BY <1>4, <1>p, Zenon DEF EndFrame, PageTypes
  <2>3. requests' \in 0 .. RequestBound /\ OneLoop'
    BY <1>4, <1>t, <1>p, MachineAssumption DEF EndFrame, PageTypes, OneLoop
  <2> QED BY <2>1, <2>2, <2>3 DEF PageTypes
<1>5. CASE RunButton
  <2>1. MachineTypes' /\ LevelIsFresh' /\ mounted' \subseteq 1 .. DriveCount
    BY <1>5, <1>t, <1>p, UnchangedKeeps DEF RunButton
  <2>2. ~inFrame /\ inFrame' = inFrame
    BY <1>5 DEF RunButton
  <2>3. CASE running
    <3>1. running' = FALSE /\ requests' = 0
      BY <1>5, <1>t, <2>2, <2>3, StopKeeps DEF RunButton
    <3> QED BY <1>p, <2>1, <2>2, <3>1, StoppedPage, Zenon
  <2>4. CASE ~running
    <3>1. running' = TRUE /\ requests' = 1
      BY <1>5, <1>t, <2>2, <2>4 DEF RunButton, OneLoop
    <3> QED BY <1>p, <2>1, <2>2, <3>1, StartedPage, Zenon
  <2> QED BY <2>3, <2>4
<1>6. CASE StepButton
  <2>1. MachineTypes' /\ LevelIsFresh'
    BY <1>6, <1>t, CpuStepKeeps DEF StepButton
  <2> QED BY <1>6, <1>t, <1>p, <2>1, Zenon DEF StepButton, page, PageTypes, OneLoop
<1>7. CASE StepError
  <2>1. MachineTypes' /\ LevelIsFresh'
    BY <1>7, <1>t, StepThrowsKeeps DEF StepError
  <2>2. inFrame' = inFrame /\ mounted' = mounted
    BY <1>7 DEF StepError
  <2>3. running' = FALSE /\ requests' = 0
    BY <1>7, <1>t, StopKeeps DEF StepError
  <2> QED BY <1>p, <2>1, <2>2, <2>3, StoppedPage, Zenon
<1>8. CASE ResetMachine
  <2>1. MachineTypes' /\ LevelIsFresh'
    BY <1>8, ResetKeeps DEF ResetMachine
  <2>2. inFrame' = inFrame /\ mounted' = mounted
    BY <1>8 DEF ResetMachine
  <2>3. running' = FALSE /\ requests' = 0
    BY <1>8, <1>t, StopKeeps DEF ResetMachine
  <2> QED BY <1>p, <2>1, <2>2, <2>3, StoppedPage, Zenon
<1>9. ASSUME NEW slot \in 1 .. DriveCount, MountAndBoot(slot)
      PROVE  MachineTypes' /\ LevelIsFresh' /\ PageTypes' /\ OneLoop' /\ mounted' \subseteq 1 .. DriveCount
  <2>1. MachineTypes' /\ LevelIsFresh'
    BY <1>9, ResetKeeps DEF MountAndBoot
  <2>2. ~inFrame /\ inFrame' = inFrame /\ running' = TRUE /\ mounted' = mounted \cup {slot}
    BY <1>9 DEF MountAndBoot
  <2>3. requests' = 1
    BY <1>9, <1>t, <1>p DEF MountAndBoot, OneLoop, Cancelled, PageTypes
  <2>4. mounted' \subseteq 1 .. DriveCount
    BY <1>p, <2>2, Zenon
  <2> QED BY <1>p, <2>1, <2>2, <2>3, <2>4, StartedPage, Zenon
<1>10. ASSUME NEW slot \in 1 .. DriveCount, Mount(slot)
       PROVE  MachineTypes' /\ LevelIsFresh' /\ PageTypes' /\ OneLoop' /\ mounted' \subseteq 1 .. DriveCount
  <2>1. MachineTypes' /\ LevelIsFresh'
    BY <1>10, <1>t, SwapKeeps DEF Mount
  <2>2. mounted' \subseteq 1 .. DriveCount
    BY <1>10, <1>p, Zenon DEF Mount
  <2> QED BY <1>10, <1>t, <1>p, <2>1, <2>2, Zenon DEF Mount, page, PageTypes, OneLoop
<1>11. ASSUME NEW slot \in 1 .. DriveCount, Eject(slot)
       PROVE  MachineTypes' /\ LevelIsFresh' /\ PageTypes' /\ OneLoop' /\ mounted' \subseteq 1 .. DriveCount
  <2>1. MachineTypes' /\ LevelIsFresh'
    BY <1>11, <1>t, SwapKeeps DEF Eject
  <2>2. mounted' \subseteq 1 .. DriveCount
    BY <1>11, <1>p, Zenon DEF Eject
  <2> QED BY <1>11, <1>t, <1>p, <2>1, <2>2, Zenon DEF Eject, page, PageTypes, OneLoop
<1>12. CASE UNCHANGED vars
  <2>1. MachineTypes' /\ LevelIsFresh'
    BY <1>12, <1>t, UnchangedKeeps DEF vars
  <2> QED BY <1>12, <1>t, <1>p, <2>1, Zenon DEF vars, page, PageTypes, OneLoop
<1> QED BY <1>1, <1>2, <1>3, <1>4, <1>5, <1>6, <1>7, <1>8, <1>9, <1>10, <1>11, <1>12 DEF Next

THEOREM InductiveInvariant == Spec => []IInv
BY InitInv, NextInv, PTL DEF Spec

\* The loop of the computer is that of the machine.
LEMMA ComputerIsMachine == ComputerSpec => Spec
<1>1. ComputerInit => Init
  BY DEF ComputerInit
<1>2. [ComputerNext]_<<unit, vars, picture>> => [Next]_vars
  <2> SUFFICES ASSUME [ComputerNext]_<<unit, vars, picture>> PROVE [Next]_vars
    OBVIOUS
  <2> QED BY Zenon DEF ComputerNext
<1> QED
  BY <1>1, <1>2, PTL DEF ComputerSpec, Spec

----------------------------------------------------------------------------
\* Every variable keeps its type: the counters stay within their periods for
\* every cost of an instruction up to a period (tick of the ZX8302).
THEOREM TypeCorrect == ComputerSpec => []TypeOK
<1>1. IInv => TypeOK
  BY DEF IInv
<1> QED BY <1>1, InductiveInvariant, ComputerIsMachine, PTL

\* One chain of animation frames drives the machine, in any order of the clicks
\* and of the frames (stop, startExecution and runFrame of the page).
THEOREM LoopCorrect == ComputerSpec => []OneLoop
<1>1. IInv => OneLoop
  BY DEF IInv
<1> QED BY <1>1, InductiveInvariant, ComputerIsMachine, PTL

\* The processor knows the level the devices ask for between two instructions,
\* for every program (runFrame, the step button and the two resets).
THEOREM LevelCorrect == ComputerSpec => []LevelIsFresh
<1>1. IInv => LevelIsFresh
  BY DEF IInv
<1> QED BY <1>1, InductiveInvariant, ComputerIsMachine, PTL

----------------------------------------------------------------------------
(* The memory and the register, as the program left them.                  *)

\* The memory has what was written last, or what it had in the beginning; and the
\* register has the bits selected last, or none.
MemoryIsKept ==
    /\ before \in Images
    /\ ram = [cell \in Z!Cells |-> Z!Stored(cell)]
    /\ displayControl = {bit \in {Blank, Mode8, Bank} : Z!Selected(bit)}

\* The inductive invariant.
PictureInv == unit \in {"loop", "picture"} /\ (unit = "picture" => MemoryIsKept)

\* The constants, as numbers.
LEMMA PictureTypes ==
    /\ AddressCount \in Nat \ {0} /\ WordsPerLine \in Nat \ {0} /\ Lines \in Nat \ {0}
    /\ ByteBits \in Nat \ {0} /\ ByteBits % 2 = 0
    /\ RomSize \in Nat /\ RamStart \in Nat /\ RomSize <= RamStart
    /\ Banks[1] \in Nat /\ Banks[2] \in Nat /\ Addresses \subseteq Nat
    /\ McStat \in 0 .. AddressCount - 1
BY PictureAssumption

\* What the memory has in it.
LEMMA CellFacts ==
    ASSUME MemoryIsKept, NEW cell \in Z!Cells
    PROVE  /\ cell \in 0 .. AddressCount - RamStart - 1
           /\ RamStart + cell # McStat
<1>1. /\ DOMAIN before \subseteq 0 .. AddressCount - RamStart - 1
      /\ McStat - RamStart \notin DOMAIN before
  BY PictureAssumption DEF MemoryIsKept
<1>2. cell \in DOMAIN before
  BY Zenon DEF Z!Cells
<1>3. cell \in 0 .. AddressCount - RamStart - 1
  BY <1>1, <1>2
<1>4. RamStart + cell # McStat
  <2>1. SUFFICES ASSUME RamStart + cell = McStat PROVE FALSE
    OBVIOUS
  <2>2. McStat - RamStart = cell
    BY <1>3, <2>1, PictureTypes
  <2> QED BY <1>1, <1>2, <2>2, Zenon
<1> QED
  BY <1>3, <1>4

\* A cell is read where it is written.
LEMMA CellRead ==
    ASSUME MemoryIsKept, NEW cell \in Z!Cells
    PROVE  Z!Read8(RamStart + cell) = Z!Stored(cell)
<1> DEFINE n == Z!Normalized(RamStart + cell)
<1>1. n = RamStart + cell
  BY CellFacts, PictureTypes DEF Z!Normalized
<1>2. n >= RomSize /\ n - RamStart = cell /\ ~(n < RomSize)
  BY <1>1, CellFacts, PictureTypes
<1>3. Z!Read8(RamStart + cell) = ram[n - RamStart]
  BY <1>2 DEF Z!Read8
<1>4. ram[cell] = Z!Stored(cell)
  BY DEF MemoryIsKept
<1> HIDE DEF n
<1> QED BY <1>2, <1>3, <1>4

\* What is read back.
LEMMA ReadBack ==
    ASSUME MemoryIsKept, NEW address \in Addresses
    PROVE  LET a == Z!Normalized(address)
           IN  Z!Read8(address) = IF a < RomSize THEN Z!RomByte(a)
                                  ELSE IF a - RamStart \in Z!Cells THEN Z!Stored(a - RamStart)
                                  ELSE Z!AllOnes
<1> DEFINE a == Z!Normalized(address)
<1>1. a \in Nat
  BY PictureTypes DEF Z!Normalized
<1>2. CASE a < RomSize
  BY <1>1, <1>2, PictureTypes DEF Z!Read8
<1>3. CASE ~(a < RomSize) /\ a - RamStart \in Z!Cells
  <2>1. a >= RomSize
    BY <1>1, <1>3, PictureTypes
  <2>2. Z!Read8(address) = ram[a - RamStart]
    BY <1>3, <2>1 DEF Z!Read8
  <2>3. ram[a - RamStart] = Z!Stored(a - RamStart)
    BY <1>3 DEF MemoryIsKept
  <2> HIDE DEF a
  <2> QED BY <1>3, <2>2, <2>3 DEF a
<1>4. CASE ~(a < RomSize) /\ a - RamStart \notin Z!Cells
  BY <1>4 DEF Z!Read8
<1> QED
  BY <1>2, <1>3, <1>4

----------------------------------------------------------------------------
(* Every step keeps it.                                                    *)

\* Nothing is written in the beginning.
LEMMA PictureStarts == Z!PictureInit => MemoryIsKept
<1> SUFFICES ASSUME Z!PictureInit PROVE MemoryIsKept
  OBVIOUS
<1>1. before \in Images /\ ram = before /\ displayControl = {} /\ written = << >>
  BY DEF Z!PictureInit
<1>2. DOMAIN written = {}
  BY <1>1
<1>3. \A cell \in Z!Cells : Z!Stored(cell) = before[cell]
  BY <1>2, Zenon DEF Z!Stored
<1>4. \A bit : ~Z!Selected(bit)
  BY <1>2, Zenon DEF Z!Selected
<1>5. before = [cell \in DOMAIN before |-> before[cell]]
  <2>1. before \in [DOMAIN before -> Nat]
    BY <1>1, PictureAssumption
  <2> QED BY <2>1, Zenon
<1> QED
  BY <1>1, <1>3, <1>4, <1>5 DEF MemoryIsKept, Z!Cells

\* A write reaches the cell or the register it names, by any mirror, and no other.
LEMMA WriteKeeps ==
    ASSUME MemoryIsKept, NEW address \in Addresses, NEW byte \in Bytes, Z!Write8(address, byte)
    PROVE  MemoryIsKept'
<1> DEFINE n == Z!Normalized(address)
<1>1. /\ displayControl' = IF n = McStat
                              THEN {bit \in {Blank, Mode8, Bank} : Z!HasBit(byte, bit)}
                            ELSE displayControl
      /\ ram' = IF n - RamStart \in Z!Cells THEN [ram EXCEPT ![n - RamStart] = byte] ELSE ram
      /\ written' = [a \in DOMAIN written \cup {n} |-> IF a = n THEN byte ELSE written[a]]
      /\ before' = before
  BY Zenon DEF Z!Write8
<1>2. n \in Nat
  BY PictureTypes DEF Z!Normalized
<1> HIDE DEF n
<1>3. \A a : /\ (a \in DOMAIN written)' <=> a = n \/ a \in DOMAIN written
             /\ a = n => written'[a] = byte
             /\ a # n /\ a \in DOMAIN written => written'[a] = written[a]
  BY <1>1, Zenon
<1>4. Z!Cells' = Z!Cells
  BY <1>1, Zenon DEF Z!Cells
<1>5. \A cell \in Z!Cells :
        Z!Stored(cell)' = IF RamStart + cell = n THEN byte ELSE Z!Stored(cell)
  <2> SUFFICES ASSUME NEW cell \in Z!Cells
               PROVE  Z!Stored(cell)' = IF RamStart + cell = n THEN byte ELSE Z!Stored(cell)
    OBVIOUS
  <2> DEFINE a == RamStart + cell
  <2> HIDE DEF a
  <2>1. Z!Stored(cell)' = IF a \in DOMAIN written' THEN written'[a] ELSE before[cell]
    BY <1>1, Zenon DEF Z!Stored, a
  <2>2. Z!Stored(cell) = IF a \in DOMAIN written THEN written[a] ELSE before[cell]
    BY Zenon DEF Z!Stored, a
  <2>3. Z!Stored(cell)' = IF a = n THEN byte ELSE Z!Stored(cell)
    BY <1>3, <2>1, <2>2, Zenon
  <2> QED BY <2>3, Zenon DEF a
<1>6. ram' = [cell \in Z!Cells |-> Z!Stored(cell)']
  <2>1. ram = [cell \in Z!Cells |-> Z!Stored(cell)]
    BY Zenon DEF MemoryIsKept
  <2>2. CASE n - RamStart \in Z!Cells
    <3>1. \A cell \in Z!Cells : RamStart + cell = n <=> cell = n - RamStart
      BY <1>2, CellFacts, PictureTypes
    <3> DEFINE c == n - RamStart
    <3>2. ram' = [ram EXCEPT ![c] = byte]
      BY <1>1, <2>2, Zenon
    <3> HIDE DEF c
    <3>3. ram' = [cell \in Z!Cells |-> IF cell = c THEN byte ELSE Z!Stored(cell)]
      BY <2>1, <3>2, Zenon
    <3>4. \A cell \in Z!Cells : Z!Stored(cell)' = IF cell = c THEN byte ELSE Z!Stored(cell)
      BY <1>5, <3>1, Zenon DEF c
    <3> QED BY <3>3, <3>4, Zenon
  <2>3. CASE n - RamStart \notin Z!Cells
    <3>1. \A cell \in Z!Cells : RamStart + cell # n
      <4> SUFFICES ASSUME NEW cell \in Z!Cells, RamStart + cell = n PROVE FALSE
        OBVIOUS
      <4>1. n - RamStart = cell
        BY CellFacts, PictureTypes
      <4> QED BY <2>3, <4>1, Zenon
    <3>2. \A cell \in Z!Cells : Z!Stored(cell)' = Z!Stored(cell)
      BY <1>5, <3>1, Zenon
    <3>3. ram' = ram
      BY <1>1, <2>3, Zenon
    <3> QED BY <2>1, <3>2, <3>3, Zenon
  <2> QED BY <2>2, <2>3, Zenon
<1>7. displayControl' = {bit \in {Blank, Mode8, Bank} : Z!Selected(bit)'}
  <2>1. CASE n = McStat
    <3>1. \A bit : Z!Selected(bit)' <=> Z!HasBit(byte, bit)
      BY <1>3, <2>1, Zenon DEF Z!Selected, Z!HasBit
    <3> QED BY <1>1, <2>1, <3>1, Zenon
  <2>2. CASE n # McStat
    <3>1. \A bit : Z!Selected(bit)' <=> Z!Selected(bit)
      BY <1>3, <2>2, Zenon DEF Z!Selected, Z!HasBit
    <3>2. displayControl = {bit \in {Blank, Mode8, Bank} : Z!Selected(bit)}
      BY Zenon DEF MemoryIsKept
    <3> QED BY <1>1, <2>2, <3>1, <3>2, Zenon
  <2> QED BY <2>1, <2>2, Zenon
<1>8. before' \in Images
  BY <1>1, Zenon DEF MemoryIsKept
<1> QED
  BY <1>4, <1>6, <1>7, <1>8, Zenon DEF MemoryIsKept

\* A reset clears the register and leaves the memory.
LEMMA ResetKeepsMemory ==
    ASSUME MemoryIsKept, Z!ResetDevices
    PROVE  MemoryIsKept'
<1>1. /\ displayControl' = {} /\ ram' = ram /\ before' = before
      /\ written' = [a \in DOMAIN written \ {McStat} |-> written[a]]
  BY Zenon DEF Z!ResetDevices
<1>2. \A a : /\ (a \in DOMAIN written)' <=> a # McStat /\ a \in DOMAIN written
             /\ a # McStat /\ a \in DOMAIN written => written'[a] = written[a]
  BY <1>1, Zenon
<1>3. Z!Cells' = Z!Cells
  BY <1>1, Zenon DEF Z!Cells
<1>4. \A cell \in Z!Cells : Z!Stored(cell)' = Z!Stored(cell)
  BY <1>1, <1>2, CellFacts, Zenon DEF Z!Stored
<1>5. \A bit : ~Z!Selected(bit)'
  BY <1>2, Zenon DEF Z!Selected
<1>6. ram' = [cell \in Z!Cells |-> Z!Stored(cell)']
  BY <1>1, <1>4, Zenon DEF MemoryIsKept
<1>7. displayControl' = {bit \in {Blank, Mode8, Bank} : Z!Selected(bit)'}
  BY <1>1, <1>5, Zenon
<1> QED
  BY <1>1, <1>3, <1>6, <1>7, Zenon DEF MemoryIsKept

\* So the invariant holds after every step.
LEMMA PictureStep ==
    PictureInv /\ [ComputerNext]_<<unit, vars, picture>> => PictureInv'
<1> SUFFICES ASSUME PictureInv, [ComputerNext]_<<unit, vars, picture>> PROVE PictureInv'
  OBVIOUS
<1>1. CASE UNCHANGED <<unit, vars, picture>>
  <2>1. unit' = unit /\ picture' = picture
    BY <1>1
  <2>2. MemoryIsKept' <=> MemoryIsKept
    BY <2>1 DEF MemoryIsKept, picture, Z!Cells, Z!Stored, Z!Selected
  <2> QED BY <2>1, <2>2, Zenon DEF PictureInv
<1>2. CASE unit = "loop" /\ Next /\ UNCHANGED picture /\ UNCHANGED unit
  <2>1. unit' = "loop"
    BY <1>2
  <2>2. "loop" # "picture"
    OBVIOUS
  <2> QED BY <2>1, <2>2 DEF PictureInv
<1>3. CASE unit = "picture" /\ Z!PictureNext /\ UNCHANGED unit
  <2>1. MemoryIsKept
    BY <1>3, Zenon DEF PictureInv
  <2>2. MemoryIsKept'
    BY <1>3, <2>1, WriteKeeps, ResetKeepsMemory, Zenon DEF Z!PictureNext
  <2> QED BY <1>3, <2>2, Zenon DEF PictureInv
<1> QED BY <1>1, <1>2, <1>3, Zenon DEF ComputerNext

----------------------------------------------------------------------------
(* The bits of a screen.                                                   *)

\* A quotient and a remainder put together and taken apart again.
LEMMA PutTogetherAgain ==
    ASSUME NEW b \in Nat \ {0}, NEW q \in Int, NEW r \in 0 .. b - 1
    PROVE  (q * b + r) \div b = q /\ (q * b + r) % b = r
<1>1. (q * b + r) \div b = q
  OBVIOUS
<1>2. (q * b + r) % b = r
  OBVIOUS
<1> QED
  BY <1>1, <1>2

\* Of the cells of a word, the number of the first.
CellOf(y, w) == Banks[IF Z!Selected(Bank) THEN 2 ELSE 1] + 2 * (y * WordsPerLine + (w - 1))

\* renderFrame() reads the two cells of a word.
LEMMA WordRead ==
    ASSUME MemoryIsKept, NEW y \in 0 .. Lines - 1, NEW w \in 1 .. WordsPerLine
    PROVE  LET input == Z!ScreenBase + 2 * (y * WordsPerLine + w - 1)
               cell  == CellOf(y, w)
           IN  Z!Read8(input) = Z!Stored(cell) /\ Z!Read8(input + 1) = Z!Stored(cell + 1)
<1> DEFINE bank == IF Z!Selected(Bank) THEN 2 ELSE 1
           line == y * WordsPerLine
           input == Z!ScreenBase + 2 * (line + w - 1)
           cell == CellOf(y, w)
<1>1. Bank \in displayControl <=> Z!Selected(Bank)
  BY Zenon DEF MemoryIsKept
<1>2. Z!ScreenBase = RamStart + Banks[bank]
  BY <1>1, Zenon DEF Z!ScreenBase
<1>3. bank \in {1, 2}
  OBVIOUS
<1>4. cell = Banks[bank] + 2 * (line + (w - 1))
  BY DEF CellOf
<1> HIDE DEF cell, bank
<1>5. line \in Nat /\ line + WordsPerLine <= Lines * WordsPerLine
  <2>1. line \in Nat /\ (y + 1) * WordsPerLine = line + WordsPerLine
    BY PictureTypes
  <2>2. (y + 1) * WordsPerLine <= Lines * WordsPerLine
    <3>1. Lines - (y + 1) \in Nat /\ WordsPerLine \in Nat
      BY PictureTypes
    <3>2. (Lines - (y + 1)) * WordsPerLine \in Nat
      BY <3>1
    <3>3. (Lines - (y + 1)) * WordsPerLine = Lines * WordsPerLine - (y + 1) * WordsPerLine
      BY PictureTypes
    <3>4. Lines * WordsPerLine \in Int /\ (y + 1) * WordsPerLine \in Int
      BY PictureTypes
    <3> QED BY <3>2, <3>3, <3>4
  <2> QED BY <2>1, <2>2
<1>6. Lines * WordsPerLine \in Nat /\ Banks[bank] \in Nat /\ RamStart \in Nat
  BY <1>3, PictureTypes
<1> HIDE DEF line
<1>7. /\ cell \in Banks[bank] .. Banks[bank] + 2 * (Lines * WordsPerLine) - 1
      /\ cell + 1 \in Banks[bank] .. Banks[bank] + 2 * (Lines * WordsPerLine) - 1
      /\ Z!ScreenBase + 2 * (line + w - 1) = RamStart + cell
      /\ (Z!ScreenBase + 2 * (line + w - 1)) + 1 = RamStart + (cell + 1)
  BY <1>2, <1>4, <1>5, <1>6, PictureTypes
<1>8. Banks[bank] .. Banks[bank] + 2 * (Lines * WordsPerLine) - 1 \subseteq DOMAIN before
  BY <1>3, PictureAssumption, Zenon DEF MemoryIsKept
<1>9. cell \in Z!Cells /\ cell + 1 \in Z!Cells
  BY <1>7, <1>8, Zenon DEF Z!Cells
<1>10. Z!Read8(RamStart + cell) = Z!Stored(cell) /\ Z!Read8(RamStart + (cell + 1)) = Z!Stored(cell + 1)
  BY <1>9, CellRead
<1> QED BY <1>7, <1>10, Zenon DEF line, cell

\* The bits of a column are in the word the column is in.
LEMMA ColumnBits ==
    ASSUME NEW y \in 0 .. Lines - 1, NEW w \in 1 .. WordsPerLine, NEW i \in 1 .. ByteBits,
           NEW x, x = (w - 1) * ByteBits + i, NEW bit, bit = ByteBits - i
    PROVE  /\ Z!PlaneBit("high", x, y) = Z!HasBit(Z!Stored(CellOf(y, w)), bit)
           /\ Z!PlaneBit("low", x, y) = Z!HasBit(Z!Stored(CellOf(y, w) + 1), bit)
<1> DEFINE q == (x - 1) \div ByteBits
           r == (x - 1) % ByteBits
           b == Banks[IF Z!Selected(Bank) THEN 2 ELSE 1]
<1>1. q = w - 1 /\ r = i - 1
  <2>1. (w - 1) * ByteBits \in Nat /\ ByteBits \in Nat \ {0}
    BY PictureTypes
  <2>2. x - 1 = (w - 1) * ByteBits + (i - 1)
    BY <2>1
  <2>3. i - 1 \in 0 .. ByteBits - 1 /\ w - 1 \in Int
    BY <2>1
  <2>4. ((w - 1) * ByteBits + (i - 1)) \div ByteBits = w - 1
        /\ ((w - 1) * ByteBits + (i - 1)) % ByteBits = i - 1
    BY <2>1, <2>3, PutTogetherAgain
  <2> QED BY <2>2, <2>4, Zenon
<1>2. b \in Nat /\ y * WordsPerLine \in Nat /\ ByteBits \in Nat
  BY PictureTypes
<1> HIDE DEF q, r, b
<1>3. Z!PlaneBit("high", x, y)
        = Z!HasBit(Z!Stored(b + 2 * (y * WordsPerLine + q) + 0), ByteBits - 1 - r)
  <2>1. "high" # "low"
    OBVIOUS
  <2> QED BY <2>1, Zenon DEF Z!PlaneBit, q, r, b
<1>4. Z!PlaneBit("low", x, y)
        = Z!HasBit(Z!Stored(b + 2 * (y * WordsPerLine + q) + 1), ByteBits - 1 - r)
  BY Zenon DEF Z!PlaneBit, q, r, b
<1>5. CellOf(y, w) = b + 2 * (y * WordsPerLine + (w - 1))
  BY DEF CellOf, b
<1>6. /\ b + 2 * (y * WordsPerLine + q) + 0 = CellOf(y, w)
      /\ b + 2 * (y * WordsPerLine + q) + 1 = CellOf(y, w) + 1
      /\ ByteBits - 1 - r = bit
  BY <1>1, <1>2, <1>5
<1> QED BY <1>3, <1>4, <1>6, Zenon

----------------------------------------------------------------------------
(* Pixels in a row.                                                        *)

\* Colours are sets of components.
Colours == SUBSET {"red", "green", "blue"}

\* Every pixel has a colour.
LEMMA ColourType == ASSUME NEW r, NEW g, NEW b PROVE Z!Colour(r, g, b) \in Colours
BY Zenon DEF Z!Colour, Colours

\* Two rows put together.
LEMMA Joined ==
    ASSUME NEW m \in Nat, NEW n \in Nat, NEW s \in [1 .. m -> Colours],
           NEW t \in [1 .. n -> Colours]
    PROVE  s \o t = [k \in 1 .. m + n |-> IF k <= m THEN s[k] ELSE t[k - m]]
<1>1. s \in Seq(Colours) /\ Len(s) = m /\ t \in Seq(Colours) /\ Len(t) = n
  <2>1. s \in Seq(Colours) /\ t \in Seq(Colours)
    OBVIOUS
  <2> QED BY <2>1, LenProperties
<1>2. /\ s \o t \in Seq(Colours) /\ Len(s \o t) = m + n
      /\ \A k \in 1 .. m + n : (s \o t)[k] = IF k <= m THEN s[k] ELSE t[k - m]
  BY <1>1, ConcatProperties
<1>3. DOMAIN (s \o t) = 1 .. m + n
  BY <1>2, LenProperties
<1>4. s \o t = [k \in 1 .. m + n |-> (s \o t)[k]]
  <2>1. s \o t \in [1 .. Len(s \o t) -> Colours]
    BY <1>2, LenProperties
  <2> QED BY <1>2, <2>1, Zenon
<1> QED BY <1>2, <1>4

----------------------------------------------------------------------------
(* MODE 4.                                                                 *)

\* The pixel of a column.
Pixel4(x, y) ==
    Z!Colour(Z!PlaneBit("low", x, y), Z!PlaneBit("high", x, y),
             Z!PlaneBit("low", x, y) /\ Z!PlaneBit("high", x, y))

\* A line after w words.
Row4(y, w) == [pixels |-> [x \in 1 .. w * ByteBits |-> Pixel4(x, y)], latch |-> Z!NotFlashing]

\* A word adds the pixels of its columns.
LEMMA WordOfFour ==
    ASSUME NEW y \in 0 .. Lines - 1, NEW w \in 1 .. WordsPerLine, NEW high, NEW low,
           high = Z!Stored(CellOf(y, w)), low = Z!Stored(CellOf(y, w) + 1)
    PROVE  Z!Word4(high, low, Row4(y, w - 1)) = Row4(y, w)
<1> DEFINE bit(i) == ByteBits - i
           t == [i \in 1 .. ByteBits |->
                   Z!Colour(Z!HasBit(low, bit(i)), Z!HasBit(high, bit(i)),
                            Z!HasBit(low, bit(i)) /\ Z!HasBit(high, bit(i)))]
           m == (w - 1) * ByteBits
           s == [x \in 1 .. m |-> Pixel4(x, y)]
<1>1. ByteBits \in Nat \ {0} /\ m \in Nat /\ m + ByteBits = w * ByteBits
  BY PictureTypes
<1>2. ASSUME NEW i \in 1 .. ByteBits PROVE t[i] = Pixel4(m + i, y)
  <2>1. /\ Z!PlaneBit("high", m + i, y) = Z!HasBit(high, bit(i))
        /\ Z!PlaneBit("low", m + i, y) = Z!HasBit(low, bit(i))
    BY ColumnBits
  <2> HIDE DEF bit, m
  <2> QED BY <2>1, Zenon DEF Pixel4
<1>3. s \in [1 .. m -> Colours] /\ t \in [1 .. ByteBits -> Colours]
  BY ColourType, Zenon DEF Pixel4
<1>4. Z!Word4(high, low, Row4(y, w - 1)) = [pixels |-> s \o t, latch |-> Z!NotFlashing]
  <2> DEFINE state == Row4(y, w - 1)
  <2>1. Z!Word4(high, low, state) = [state EXCEPT !.pixels = state.pixels \o t]
    BY Zenon DEF Z!Word4
  <2>2. state = [pixels |-> s, latch |-> Z!NotFlashing]
    BY Zenon DEF Row4
  <2> HIDE DEF s, t, state
  <2>4. [state EXCEPT !.pixels = state.pixels \o t] = [pixels |-> s \o t, latch |-> Z!NotFlashing]
    <3> DEFINE latch == Z!NotFlashing
               u == s \o t
    <3>1. state = [pixels |-> s, latch |-> latch]
      BY <2>2
    <3> HIDE DEF latch
    <3>2. state.pixels = s
      BY <3>1
    <3>3. [state EXCEPT !.pixels = state.pixels \o t] = [state EXCEPT !.pixels = u]
      BY <3>2, Zenon
    <3> HIDE DEF u
    <3>4. [state EXCEPT !.pixels = u] = [pixels |-> u, latch |-> latch]
      BY <3>1
    <3> QED BY <3>3, <3>4 DEF u, latch
  <2> QED BY <2>1, <2>4, Zenon DEF state
<1> HIDE DEF s, t
<1>5. s \o t = [k \in 1 .. m + ByteBits |-> IF k <= m THEN s[k] ELSE t[k - m]]
  BY <1>1, <1>3, Joined
<1>6. ASSUME NEW k \in 1 .. m + ByteBits
      PROVE  (IF k <= m THEN s[k] ELSE t[k - m]) = Pixel4(k, y)
  <2>1. CASE k <= m
    <3>1. k \in 1 .. m
      BY <1>1, <2>1
    <3> QED BY <2>1, <3>1, Zenon DEF s
  <2>2. CASE ~(k <= m)
    <3>1. k - m \in 1 .. ByteBits /\ m + (k - m) = k
      BY <1>1, <2>2
    <3>2. t[k - m] = Pixel4(m + (k - m), y)
      BY <1>2, <3>1
    <3> QED BY <2>2, <3>1, <3>2, Zenon
  <2> QED BY <2>1, <2>2
<1>7. s \o t = [k \in 1 .. m + ByteBits |-> Pixel4(k, y)]
  BY <1>5, <1>6, Zenon
<1> QED BY <1>1, <1>4, <1>7, Zenon DEF Row4

----------------------------------------------------------------------------
(* MODE 8.                                                                 *)

\* The columns before pair p + 1 that have a flash bit, and the latch after them.
Flashed(p, y) == {v \in 1 .. 2 * p : v % 2 = 1 /\ Z!Flashes(v, y)}

\* A flash is on after an odd number of them.
IsOdd(columns) == Cardinality(columns) % 2 = 1

\* The latch keeps the colour of the pixel that began the last flash.
LatchOf(f, y) ==
    [flashing |-> IsOdd(f),
     colour   |-> IF IsOdd(f) THEN Z!Own(Z!LastOf(f), y)
                  ELSE IF f = {} THEN {} ELSE Z!Own(Z!LastOf(f \ {Z!LastOf(f)}), y)]

\* The pixel of a column, of MODE 8.
Pixel8(x, y, phase) ==
    IF phase /\ IsOdd(Z!FlashBits(x, y)) THEN Z!Own(Z!LastOf(Z!FlashBits(x, y)), y)
    ELSE Z!Own(x, y)

\* A line after p pairs of columns.
Row8(y, p, phase) ==
    [pixels |-> [x \in 1 .. 2 * p |-> Pixel8(x, y, phase)], latch |-> LatchOf(Flashed(p, y), y)]

\* Both columns of a pair have the flash bits before the pair.
LEMMA PairColumns ==
    ASSUME NEW p \in Nat, NEW y, NEW x \in {2 * p + 1, 2 * p + 2}
    PROVE  Z!OddColumn(x) = 2 * p + 1 /\ Z!FlashBits(x, y) = Flashed(p, y)
<1>1. Z!OddColumn(x) = 2 * p + 1
  BY DEF Z!OddColumn
<1>2. Z!OddColumn(x) - 1 = 2 * p
  BY <1>1
<1>3. Z!FlashBits(x, y) = {v \in 1 .. Z!OddColumn(x) - 1 : v % 2 = 1 /\ Z!Flashes(v, y)}
  BY Zenon DEF Z!FlashBits
<1> QED BY <1>1, <1>2, <1>3, Zenon DEF Flashed

\* One more pair, with a flash bit or without.
LEMMA FlashedNext ==
    ASSUME NEW p \in Nat, NEW y
    PROVE  /\ Flashed(p + 1, y) = Flashed(p, y) \cup IF Z!Flashes(2 * p + 1, y) THEN {2 * p + 1} ELSE {}
           /\ Flashed(p, y) \subseteq 1 .. 2 * p
           /\ IsFiniteSet(Flashed(p, y))
<1>1. Flashed(p, y) \subseteq 1 .. 2 * p
  BY Zenon DEF Flashed
<1>2. IsFiniteSet(Flashed(p, y))
  <2>1. 1 \in Int /\ 2 * p \in Int
    OBVIOUS
  <2>2. IsFiniteSet(1 .. 2 * p)
    BY <2>1, FS_Interval
  <2> QED BY <1>1, <2>2, FS_Subset
<1>3. ASSUME NEW v
      PROVE  v \in Flashed(p + 1, y)
               <=> v \in Flashed(p, y) \/ (v = 2 * p + 1 /\ Z!Flashes(2 * p + 1, y))
  <2>1. v \in 1 .. 2 * (p + 1) /\ v % 2 = 1
          <=> (v \in 1 .. 2 * p /\ v % 2 = 1) \/ v = 2 * p + 1
    OBVIOUS
  <2>2. v \in 1 .. 2 * p => v # 2 * p + 1
    OBVIOUS
  <2> QED BY <2>1, <2>2, Zenon DEF Flashed
<1> DEFINE new == IF Z!Flashes(2 * p + 1, y) THEN {2 * p + 1} ELSE {}
<1>4. \A v : v \in new <=> v = 2 * p + 1 /\ Z!Flashes(2 * p + 1, y)
  BY Zenon
<1> HIDE DEF new
<1>5. Flashed(p + 1, y) = Flashed(p, y) \cup new
  BY <1>3, <1>4, Zenon
<1> QED BY <1>1, <1>2, <1>5, Zenon DEF new

\* The last of the columns so far and one more.
LEMMA LastIs ==
    ASSUME NEW p \in Nat, NEW f, f \subseteq 1 .. 2 * p
    PROVE  Z!LastOf(f \cup {2 * p + 1}) = 2 * p + 1 /\ 2 * p + 1 \notin f
<1> DEFINE g == f \cup {2 * p + 1}
           IsLast(w) == w \in g /\ \A v \in g : v <= w
<1>1. IsLast(2 * p + 1)
  OBVIOUS
<1>2. \A w : IsLast(w) => w = 2 * p + 1
  OBVIOUS
<1>3. Z!LastOf(g) = CHOOSE w \in g : \A v \in g : v <= w
  BY Zenon DEF Z!LastOf
<1> HIDE DEF g
<1>4. IsLast(CHOOSE w \in g : \A v \in g : v <= w)
  BY <1>1, Zenon
<1> QED BY <1>2, <1>3, <1>4 DEF g

\* A pixel with a flash bit begins a flash or ends one.
LEMMA LatchNext ==
    ASSUME NEW p \in Nat, NEW y
    PROVE  Z!AfterPixel(LatchOf(Flashed(p, y), y), Z!Flashes(2 * p + 1, y), Z!Own(2 * p + 1, y))
             = LatchOf(Flashed(p + 1, y), y)
<1> DEFINE f == Flashed(p, y)
           n == 2 * p + 1
           latch == LatchOf(f, y)
           g == f \cup {n}
<1>1. CASE ~Z!Flashes(n, y)
  <2>1. Flashed(p + 1, y) = f
    BY <1>1, FlashedNext, Zenon
  <2> QED BY <1>1, <2>1, Zenon DEF Z!AfterPixel
<1>2. CASE Z!Flashes(n, y)
  <2>1. Flashed(p + 1, y) = g
    BY <1>2, FlashedNext, Zenon
  <2>2. f \subseteq 1 .. 2 * p /\ IsFiniteSet(f)
    BY FlashedNext, Zenon
  <2>3. Z!LastOf(g) = n /\ n \notin f
    BY <2>2, LastIs
  <2>4. IsOdd(g) <=> ~IsOdd(f)
    <3>1. Cardinality(g) = Cardinality(f) + 1 /\ Cardinality(f) \in Nat
      BY <2>2, <2>3, FS_AddElement, FS_CardinalityType
    <3> HIDE DEF f, g
    <3> QED BY <3>1 DEF IsOdd
  <2>5. g \ {Z!LastOf(g)} = f
    BY <2>3, Zenon
  <2>6. g # {}
    BY Zenon
  <2>7. LatchOf(g, y) = [flashing |-> IsOdd(g),
                         colour |-> IF IsOdd(g) THEN Z!Own(n, y) ELSE Z!Own(Z!LastOf(f), y)]
    BY <2>3, <2>5, <2>6, Zenon DEF LatchOf
  <2>8. CASE IsOdd(f)
    <3> DEFINE c == Z!Own(Z!LastOf(f), y)
    <3>1. latch = [flashing |-> TRUE, colour |-> c]
      BY <2>8, Zenon DEF LatchOf
    <3>2. LatchOf(g, y) = [flashing |-> FALSE, colour |-> c]
      <4>1. IsOdd(g) = FALSE
        BY <2>4, <2>8, Zenon DEF IsOdd
      <4> HIDE DEF g, f, c
      <4> QED BY <2>7, <4>1, Zenon DEF c
    <3> HIDE DEF latch, c
    <3>3. Z!AfterPixel(latch, Z!Flashes(n, y), Z!Own(n, y)) = [latch EXCEPT !.flashing = FALSE]
      BY <1>2, <3>1 DEF Z!AfterPixel
    <3>4. [latch EXCEPT !.flashing = FALSE] = [flashing |-> FALSE, colour |-> c]
      <4> DEFINE on == TRUE
                 off == FALSE
      <4>1. latch = [flashing |-> on, colour |-> c]
        BY <3>1
      <4> HIDE DEF on, off
      <4>2. [latch EXCEPT !.flashing = off] = [flashing |-> off, colour |-> c]
        BY <4>1
      <4> QED BY <4>2 DEF off
    <3> QED BY <2>1, <3>2, <3>3, <3>4, Zenon DEF latch
  <2>9. CASE ~IsOdd(f)
    <3>1. latch.flashing = FALSE
      BY <2>9, Zenon DEF LatchOf, IsOdd
    <3>2. LatchOf(g, y) = [flashing |-> TRUE, colour |-> Z!Own(n, y)]
      BY <2>4, <2>7, <2>9, Zenon
    <3> HIDE DEF latch
    <3>3. Z!AfterPixel(latch, Z!Flashes(n, y), Z!Own(n, y))
            = [flashing |-> TRUE, colour |-> Z!Own(n, y)]
      BY <1>2, <3>1, Zenon DEF Z!AfterPixel
    <3> QED BY <2>1, <3>2, <3>3, Zenon DEF latch
  <2> QED BY <2>8, <2>9
<1> QED BY <1>1, <1>2

\* The pairs of columns before pair i of word w.
PairsBefore(w, i) == (w - 1) * (ByteBits \div 2) + (i - 1)

\* The colour of a pair in a word.
OwnOf(high, low, bit) ==
    Z!Colour(Z!HasBit(low, bit + 1), Z!HasBit(high, bit + 1), Z!HasBit(low, bit))

\* Word8(), pair by pair.
PairStep(state, i, high, low, phase) ==
    LET bit   == ByteBits - 2 * i
        latch == state.latch
        own   == OwnOf(high, low, bit)
        shown == IF phase /\ latch.flashing THEN latch.colour ELSE own
    IN  [pixels |-> state.pixels \o <<shown, shown>>,
         latch  |-> Z!AfterPixel(latch, Z!HasBit(high, bit), own)]

\* Pixels of MODE 8 have colours.
LEMMA OwnType == ASSUME NEW x, NEW y PROVE Z!Own(x, y) \in Colours
BY ColourType, Zenon DEF Z!Own

\* With a flash or without.
LEMMA PixelType == ASSUME NEW x, NEW y, NEW phase PROVE Pixel8(x, y, phase) \in Colours
BY OwnType, Zenon DEF Pixel8

\* What a pair shows, and its flash bit, by the columns.
LEMMA PairBits ==
    ASSUME NEW y \in 0 .. Lines - 1, NEW w \in 1 .. WordsPerLine,
           NEW i \in 1 .. ByteBits \div 2, NEW high, NEW low,
           high = Z!Stored(CellOf(y, w)), low = Z!Stored(CellOf(y, w) + 1)
    PROVE  /\ Z!Own(2 * PairsBefore(w, i) + 1, y) = OwnOf(high, low, ByteBits - 2 * i)
           /\ Z!Flashes(2 * PairsBefore(w, i) + 1, y) = Z!HasBit(high, ByteBits - 2 * i)
<1> DEFINE half == ByteBits \div 2
           p == PairsBefore(w, i)
           n == 2 * p + 1
           bit == ByteBits - 2 * i
<1>1. half \in Nat /\ ByteBits = 2 * half /\ ByteBits \in Nat
  BY PictureTypes
<1>9. p = (w - 1) * half + (i - 1)
  BY DEF PairsBefore
<1> HIDE DEF p
<1>2. p \in Nat /\ n = (w - 1) * ByteBits + (2 * i - 1) /\ n + 1 = (w - 1) * ByteBits + 2 * i
  <2> HIDE DEF half
  <2>1. (w - 1) * half \in Nat
    BY <1>1
  <2>2. (w - 1) * (2 * half) = 2 * ((w - 1) * half)
    BY <1>1
  <2> QED BY <1>1, <1>9, <2>1, <2>2
<1>3. /\ 2 * i - 1 \in 1 .. ByteBits /\ 2 * i \in 1 .. ByteBits
      /\ bit + 1 = ByteBits - (2 * i - 1)
  BY <1>1
<1>4. Z!OddColumn(n) = n
  <2>1. n \in {2 * p + 1, 2 * p + 2}
    OBVIOUS
  <2> QED BY <1>2, <2>1, PairColumns
<1> HIDE DEF n, half
<1>5. /\ Z!PlaneBit("high", n, y) = Z!HasBit(high, bit + 1)
      /\ Z!PlaneBit("low", n, y) = Z!HasBit(low, bit + 1)
  BY <1>2, <1>3, ColumnBits
<1>6. /\ Z!PlaneBit("high", n + 1, y) = Z!HasBit(high, bit)
      /\ Z!PlaneBit("low", n + 1, y) = Z!HasBit(low, bit)
  BY <1>2, <1>3, ColumnBits
<1> HIDE DEF bit
<1>7. Z!Own(n, y) = OwnOf(high, low, bit)
  BY <1>4, <1>5, <1>6, Zenon DEF Z!Own, OwnOf
<1>8. Z!Flashes(n, y) = Z!HasBit(high, bit)
  BY <1>4, <1>6, Zenon DEF Z!Flashes
<1> QED BY <1>7, <1>8, Zenon DEF n, p, bit

\* A pair adds two pixels, and goes on with the latch.
LEMMA PairOfEight ==
    ASSUME NEW y \in 0 .. Lines - 1, NEW w \in 1 .. WordsPerLine,
           NEW i \in 1 .. ByteBits \div 2, NEW high, NEW low, NEW phase,
           high = Z!Stored(CellOf(y, w)), low = Z!Stored(CellOf(y, w) + 1)
    PROVE  LET p == PairsBefore(w, i)
           IN  PairStep(Row8(y, p, phase), i, high, low, phase) = Row8(y, p + 1, phase)
<1> DEFINE p == PairsBefore(w, i)
           n == 2 * p + 1
           bit == ByteBits - 2 * i
           f == Flashed(p, y)
           own == OwnOf(high, low, bit)
           latch == LatchOf(f, y)
           shown == IF phase /\ latch.flashing THEN latch.colour ELSE own
           s == [x \in 1 .. 2 * p |-> Pixel8(x, y, phase)]
           t == <<shown, shown>>
<1>1. Z!Own(n, y) = own /\ Z!Flashes(n, y) = Z!HasBit(high, bit)
  <2>1. /\ Z!Own(2 * PairsBefore(w, i) + 1, y) = OwnOf(high, low, ByteBits - 2 * i)
        /\ Z!Flashes(2 * PairsBefore(w, i) + 1, y) = Z!HasBit(high, ByteBits - 2 * i)
    BY PairBits
  <2> QED BY <2>1, Zenon
<1>2. p \in Nat
  <2>1. ByteBits \div 2 \in Nat
    BY PictureTypes
  <2>2. (w - 1) * (ByteBits \div 2) \in Nat
    BY <2>1
  <2> QED BY <2>2 DEF PairsBefore
<1> HIDE DEF p, own, bit
<1>3. Z!AfterPixel(latch, Z!HasBit(high, bit), own) = LatchOf(Flashed(p + 1, y), y)
  BY <1>1, <1>2, LatchNext, Zenon
<1>4. shown = Pixel8(n, y, phase) /\ shown = Pixel8(n + 1, y, phase)
  <2>1. /\ Z!OddColumn(n) = n /\ Z!FlashBits(n, y) = f
        /\ Z!OddColumn(n + 1) = n /\ Z!FlashBits(n + 1, y) = f
    <3>1. n \in {2 * p + 1, 2 * p + 2} /\ n + 1 \in {2 * p + 1, 2 * p + 2}
      BY <1>2
    <3> QED BY <1>2, <3>1, PairColumns, Zenon
  <2>2. Z!Own(n + 1, y) = own
    <3> HIDE DEF n
    <3> QED BY <1>1, <2>1, Zenon DEF Z!Own
  <2>3. latch.flashing = IsOdd(f) /\ (IsOdd(f) => latch.colour = Z!Own(Z!LastOf(f), y))
    BY Zenon DEF LatchOf
  <2> HIDE DEF latch, f, n
  <2> QED BY <1>1, <2>1, <2>2, <2>3, Zenon DEF Pixel8
<1> HIDE DEF shown
<1>5. s \in [1 .. 2 * p -> Colours] /\ t \in [1 .. 2 -> Colours]
  <2>1. s \in [1 .. 2 * p -> Colours]
    BY PixelType, Zenon
  <2>2. shown \in Colours
    BY <1>4, PixelType
  <2> QED BY <2>1, <2>2
<1>6. t[1] = shown /\ t[2] = shown
  OBVIOUS
<1> HIDE DEF s, t
<1>7. 2 * p \in Nat /\ 2 * p + 2 = 2 * (p + 1)
  BY <1>2
<1>8. s \o t = [k \in 1 .. 2 * p + 2 |-> IF k <= 2 * p THEN s[k] ELSE t[k - 2 * p]]
  <2> DEFINE m == 2 * p
             two == 2
  <2>1. two \in Nat /\ m \in Nat /\ s \in [1 .. m -> Colours] /\ t \in [1 .. two -> Colours]
    BY <1>5, <1>7
  <2> HIDE DEF m, two
  <2>2. s \o t = [k \in 1 .. m + two |-> IF k <= m THEN s[k] ELSE t[k - m]]
    BY <2>1, Joined, Zenon
  <2> QED BY <2>2, Zenon DEF m, two
<1>9. ASSUME NEW k \in 1 .. 2 * p + 2
      PROVE  (IF k <= 2 * p THEN s[k] ELSE t[k - 2 * p]) = Pixel8(k, y, phase)
  <2>1. CASE k <= 2 * p
    <3>1. k \in 1 .. 2 * p
      BY <1>7, <2>1
    <3> QED BY <2>1, <3>1, Zenon DEF s
  <2>2. CASE ~(k <= 2 * p)
    <3>1. (k = n /\ k - 2 * p = 1) \/ (k = n + 1 /\ k - 2 * p = 2)
      BY <1>2, <2>2
    <3> QED BY <1>4, <1>6, <2>2, <3>1, Zenon
  <2> QED BY <2>1, <2>2
<1>10. s \o t = [k \in 1 .. 2 * (p + 1) |-> Pixel8(k, y, phase)]
  BY <1>7, <1>8, <1>9, Zenon
<1>11. PairStep(Row8(y, p, phase), i, high, low, phase)
         = [pixels |-> s \o t, latch |-> Z!AfterPixel(latch, Z!HasBit(high, bit), own)]
  <2>1. Row8(y, p, phase).pixels = s /\ Row8(y, p, phase).latch = latch
    BY DEF Row8, s
  <2> HIDE DEF latch
  <2> QED BY <2>1, Zenon DEF PairStep, shown, t, own, bit
<1> QED BY <1>3, <1>10, <1>11, Zenon DEF Row8, p

----------------------------------------------------------------------------
(* Words and lines.                                                        *)

\* A set of numbers has a least element.
LEMMA LeastElement ==
    ASSUME NEW N, N \subseteq Nat, N # {}
    PROVE  \E m \in N : \A k \in N : m <= k
<1> DEFINE R == OpToRel(<, Nat)
<1>1. IsWellFoundedOn(R, Nat)
  BY NatLessThanWellFounded
<1>2. \A k, m \in Nat : k < m => <<k, m>> \in R
  BY DEF OpToRel
<1> HIDE DEF R
<1>3. PICK m \in N : \A k \in N : ~(<<k, m>> \in R)
  BY <1>1, WFMin, Zenon
<1>4. ASSUME NEW k \in N
      PROVE  m <= k
  <2>1. ~(k < m)
    BY <1>2, <1>3, Zenon
  <2> QED BY <2>1
<1> QED
  BY <1>4

\* Two that begin with the same and go on in the same way are the same.
LEMMA Stepwise ==
    ASSUME NEW n \in Nat, NEW f, NEW g, f[0] = g[0],
           \A k \in 1 .. n : f[k - 1] = g[k - 1] => f[k] = g[k]
    PROVE  \A k \in 0 .. n : f[k] = g[k]
<1> DEFINE N == {k \in 0 .. n : f[k] # g[k]}
<1>1. SUFFICES ASSUME N # {} PROVE FALSE
  OBVIOUS
<1>2. PICK m \in N : \A k \in N : m <= k
  <2>1. N \subseteq Nat
    OBVIOUS
  <2> HIDE DEF N
  <2> QED BY <1>1, <2>1, LeastElement
<1>3. m \in 1 .. n
  BY <1>2
<1>4. m - 1 \in 0 .. n /\ ~(m <= m - 1)
  BY <1>3
<1>5. f[m - 1] = g[m - 1]
  BY <1>2, <1>4
<1>6. f[m] = g[m]
  BY <1>3, <1>5
<1> QED BY <1>2, <1>6

\* The function that Word8() is defined by.
IsWord(f, high, low, state, phase) ==
    f = [i \in 0 .. ByteBits \div 2 |->
            IF i = 0 THEN state ELSE PairStep(f[i - 1], i, high, low, phase)]

\* There is one, and Word8() is its last value.
LEMMA WordIsIts ==
    ASSUME NEW high, NEW low, NEW state, NEW phase, NEW h, IsWord(h, high, low, state, phase)
    PROVE  \E f : IsWord(f, high, low, state, phase)
                  /\ Z!Word8(high, low, state, phase) = f[ByteBits \div 2]
<1> DEFINE after == CHOOSE f : IsWord(f, high, low, state, phase)
<1>1. Z!Word8(high, low, state, phase) = after[ByteBits \div 2]
  BY DEF Z!Word8, IsWord, PairStep, OwnOf
<1>2. IsWord(after, high, low, state, phase)
  BY Zenon
<1> QED BY <1>1, <1>2, Zenon

\* A word adds the pixels of its pairs.
LEMMA WordOfEight ==
    ASSUME NEW y \in 0 .. Lines - 1, NEW w \in 1 .. WordsPerLine, NEW high, NEW low, NEW phase,
           high = Z!Stored(CellOf(y, w)), low = Z!Stored(CellOf(y, w) + 1)
    PROVE  Z!Word8(high, low, Row8(y, (w - 1) * (ByteBits \div 2), phase), phase)
             = Row8(y, w * (ByteBits \div 2), phase)
<1> DEFINE half == ByteBits \div 2
           m == (w - 1) * half
           state == Row8(y, m, phase)
           h == [i \in 0 .. half |-> Row8(y, m + i, phase)]
<1>1. half \in Nat /\ m \in Nat /\ m + half = w * half
  <2>1. half \in Nat
    BY PictureTypes
  <2> HIDE DEF half
  <2> QED BY <2>1
<1>2. m + 0 = m
  BY <1>1
<1>3. h[0] = state
  <2>1. 0 \in 0 .. half
    BY <1>1
  <2> HIDE DEF half, m
  <2> QED BY <1>2, <2>1, Zenon
<1>4. ASSUME NEW i \in 1 .. half PROVE h[i] = PairStep(h[i - 1], i, high, low, phase)
  <2>1. i \in 0 .. half /\ i - 1 \in 0 .. half /\ (m + (i - 1)) + 1 = m + i
    BY <1>1
  <2>2. PairsBefore(w, i) = m + (i - 1)
    BY Zenon DEF PairsBefore
  <2>3. PairStep(Row8(y, m + (i - 1), phase), i, high, low, phase) = Row8(y, (m + (i - 1)) + 1, phase)
    <3>1. PairStep(Row8(y, PairsBefore(w, i), phase), i, high, low, phase)
            = Row8(y, PairsBefore(w, i) + 1, phase)
      BY PairOfEight
    <3> QED BY <2>2, <3>1, Zenon
  <2> HIDE DEF half, m
  <2>4. h[i] = Row8(y, m + i, phase) /\ h[i - 1] = Row8(y, m + (i - 1), phase)
    BY <2>1
  <2> QED BY <2>1, <2>3, <2>4, Zenon
<1>5. IsWord(h, high, low, state, phase)
  <2> DEFINE e(i) == IF i = 0 THEN state ELSE PairStep(h[i - 1], i, high, low, phase)
  <2>1. ASSUME NEW i \in 0 .. half PROVE h[i] = e(i)
    <3>1. CASE i = 0
      BY <1>3, <3>1, Zenon
    <3>2. CASE i # 0
      <4>1. i \in 1 .. half
        BY <1>1, <3>2
      <4> HIDE DEF h
      <4> QED BY <1>4, <3>2, <4>1, Zenon
    <3> QED BY <3>1, <3>2
  <2>2. h = [i \in 0 .. half |-> h[i]]
    BY Zenon
  <2> HIDE DEF h, state
  <2>3. h = [i \in 0 .. half |-> e(i)]
    BY <2>1, <2>2, Zenon
  <2> QED BY <2>3, Zenon DEF IsWord
<1> HIDE DEF h, state
<1>6. PICK f : /\ IsWord(f, high, low, state, phase)
               /\ Z!Word8(high, low, state, phase) = f[half]
  BY <1>5, WordIsIts, Zenon
<1>7. f[0] = state /\ \A i \in 1 .. half : f[i] = PairStep(f[i - 1], i, high, low, phase)
  <2>1. \A i \in 0 .. half : f[i] = IF i = 0 THEN state ELSE PairStep(f[i - 1], i, high, low, phase)
    BY <1>6, Zenon DEF IsWord
  <2>2. 0 \in 0 .. half /\ \A i \in 1 .. half : i \in 0 .. half /\ i # 0
    BY <1>1
  <2> QED BY <2>1, <2>2, Zenon
<1>8. \A i \in 1 .. half : f[i - 1] = h[i - 1] => f[i] = h[i]
  BY <1>4, <1>7, Zenon
<1>9. \A i \in 0 .. half : f[i] = h[i]
  <2> HIDE DEF half
  <2> QED BY <1>1, <1>3, <1>7, <1>8, Stepwise
<1>10. half \in 0 .. half
  BY <1>1
<1>11. h[half] = Row8(y, m + half, phase)
  BY <1>10, Zenon DEF h
<1> QED BY <1>1, <1>6, <1>9, <1>10, <1>11, Zenon DEF state

\* Line(), word by word.
LineStep(state, y, w, phase) ==
    LET input == Z!ScreenBase + 2 * (y * WordsPerLine + w - 1)
        high  == Z!Read8(input)
        low   == Z!Read8(input + 1)
    IN  IF Mode8 \in displayControl THEN Z!Word8(high, low, state, phase)
                                    ELSE Z!Word4(high, low, state)

\* A line without a word.
LineBegins == [pixels |-> << >>, latch |-> Z!NotFlashing]

\* The function that Line() is defined by.
IsLine(f, y, phase) ==
    f = [w \in 0 .. WordsPerLine |-> IF w = 0 THEN LineBegins ELSE LineStep(f[w - 1], y, w, phase)]

\* There is one, and Line() has the pixels of its last value.
LEMMA LineIsIts ==
    ASSUME NEW y, NEW phase, NEW h, IsLine(h, y, phase)
    PROVE  \E f : IsLine(f, y, phase) /\ Z!Line(y, phase) = f[WordsPerLine].pixels
<1> DEFINE after == CHOOSE f : IsLine(f, y, phase)
<1>1. Z!Line(y, phase) = after[WordsPerLine].pixels
  BY DEF Z!Line, IsLine, LineStep, LineBegins
<1>2. IsLine(after, y, phase)
  BY Zenon
<1> QED BY <1>1, <1>2, Zenon

\* A line after w words, in the mode selected.
Row(y, w, phase) ==
    IF Z!Selected(Mode8) THEN Row8(y, w * (ByteBits \div 2), phase) ELSE Row4(y, w)

\* The row of no word is a line that begins.
LEMMA RowBegins == ASSUME NEW y, NEW phase PROVE Row(y, 0, phase) = LineBegins
<1>1. 0 * (ByteBits \div 2) = 0 /\ 0 * ByteBits = 0 /\ 2 * 0 = 0 /\ 1 .. 0 = {}
  BY PictureTypes
<1>2. [x \in {} |-> Pixel8(x, y, phase)] = << >> /\ [x \in {} |-> Pixel4(x, y)] = << >>
  OBVIOUS
<1>3. Row4(y, 0) = LineBegins
  BY <1>1, <1>2, Zenon DEF Row4, LineBegins
<1>4. Flashed(0, y) = {}
  BY <1>1, Zenon DEF Flashed
<1>5. IsOdd({}) = FALSE
  <2>1. Cardinality({}) = 0
    BY FS_EmptySet
  <2> QED BY <2>1 DEF IsOdd
<1>6. LatchOf({}, y) = Z!NotFlashing
  BY <1>5, Zenon DEF LatchOf, Z!NotFlashing
<1>7. Row8(y, 0, phase) = LineBegins
  BY <1>1, <1>2, <1>4, <1>6, Zenon DEF Row8, LineBegins
<1> QED BY <1>1, <1>3, <1>7, Zenon DEF Row

\* A word makes the next row of a row, in either mode.
LEMMA RowGoesOn ==
    ASSUME MemoryIsKept, NEW y \in 0 .. Lines - 1, NEW w \in 1 .. WordsPerLine, NEW phase
    PROVE  LineStep(Row(y, w - 1, phase), y, w, phase) = Row(y, w, phase)
<1> DEFINE input == Z!ScreenBase + 2 * (y * WordsPerLine + w - 1)
           high == Z!Read8(input)
           low == Z!Read8(input + 1)
<1>1. high = Z!Stored(CellOf(y, w)) /\ low = Z!Stored(CellOf(y, w) + 1)
  BY WordRead
<1>2. Mode8 \in displayControl <=> Z!Selected(Mode8)
  BY Zenon DEF MemoryIsKept
<1>3. \A state : LineStep(state, y, w, phase)
                   = IF Mode8 \in displayControl THEN Z!Word8(high, low, state, phase)
                                                 ELSE Z!Word4(high, low, state)
  BY Zenon DEF LineStep
<1> HIDE DEF high, low
<1>4. CASE Z!Selected(Mode8)
  <2>1. Z!Word8(high, low, Row8(y, (w - 1) * (ByteBits \div 2), phase), phase)
          = Row8(y, w * (ByteBits \div 2), phase)
    BY <1>1, WordOfEight
  <2> QED BY <1>2, <1>3, <1>4, <2>1, Zenon DEF Row
<1>5. CASE ~Z!Selected(Mode8)
  <2>1. Z!Word4(high, low, Row4(y, w - 1)) = Row4(y, w)
    BY <1>1, WordOfFour
  <2> QED BY <1>2, <1>3, <1>5, <2>1, Zenon DEF Row
<1> QED BY <1>4, <1>5

\* So a line is the row of all its words.
LEMMA LineIsRow ==
    ASSUME MemoryIsKept, NEW y \in 0 .. Lines - 1, NEW phase
    PROVE  Z!Line(y, phase) = Row(y, WordsPerLine, phase).pixels
<1> DEFINE h == [w \in 0 .. WordsPerLine |-> Row(y, w, phase)]
<1>1. WordsPerLine \in Nat
  BY PictureTypes
<1>2. /\ 0 \in 0 .. WordsPerLine /\ WordsPerLine \in 0 .. WordsPerLine
      /\ \A w \in 1 .. WordsPerLine :
            w \in 0 .. WordsPerLine /\ w - 1 \in 0 .. WordsPerLine /\ w # 0
      /\ \A w \in 0 .. WordsPerLine : w # 0 => w \in 1 .. WordsPerLine
  BY <1>1
<1>3. \A w \in 0 .. WordsPerLine : h[w] = Row(y, w, phase)
  BY Zenon
<1>4. h = [w \in 0 .. WordsPerLine |-> h[w]]
  BY Zenon
<1> HIDE DEF h
<1>5. h[0] = LineBegins
  BY <1>2, <1>3, RowBegins, Zenon
<1>6. ASSUME NEW w \in 1 .. WordsPerLine PROVE h[w] = LineStep(h[w - 1], y, w, phase)
  <2>1. h[w] = Row(y, w, phase) /\ h[w - 1] = Row(y, w - 1, phase)
    BY <1>2, <1>3
  <2> QED BY <2>1, RowGoesOn, Zenon
<1>7. IsLine(h, y, phase)
  <2>1. ASSUME NEW w \in 0 .. WordsPerLine
        PROVE  h[w] = IF w = 0 THEN LineBegins ELSE LineStep(h[w - 1], y, w, phase)
    <3>1. CASE w = 0
      BY <1>5, <3>1, Zenon
    <3>2. CASE w # 0
      BY <1>2, <1>6, <3>2, Zenon
    <3> QED BY <3>1, <3>2
  <2> QED BY <1>4, <2>1, Zenon DEF IsLine
<1>8. PICK f : IsLine(f, y, phase) /\ Z!Line(y, phase) = f[WordsPerLine].pixels
  BY <1>7, LineIsIts, Zenon
<1>9. f[0] = LineBegins /\ \A w \in 1 .. WordsPerLine : f[w] = LineStep(f[w - 1], y, w, phase)
  <2>1. \A w \in 0 .. WordsPerLine :
          f[w] = IF w = 0 THEN LineBegins ELSE LineStep(f[w - 1], y, w, phase)
    BY <1>8, Zenon DEF IsLine
  <2> QED BY <1>2, <2>1, Zenon
<1>10. f[0] = h[0] /\ \A w \in 1 .. WordsPerLine : f[w - 1] = h[w - 1] => f[w] = h[w]
  BY <1>5, <1>6, <1>9, Zenon
<1>11. f[WordsPerLine] = h[WordsPerLine]
  BY <1>1, <1>2, <1>10, Stepwise
<1> QED BY <1>2, <1>3, <1>8, <1>11, Zenon

----------------------------------------------------------------------------
(* The picture.                                                            *)

\* The property follows from what the memory and the register have.
LEMMA PictureFollows == ASSUME MemoryIsKept PROVE Z!PictureIsMemory
<1>1. ASSUME NEW phase \in BOOLEAN, NEW y \in 0 .. Lines - 1, NEW x \in 1 .. ByteBits * WordsPerLine
      PROVE  Z!Frame(phase)[y][x] = Z!Pixel(x, y, phase)
  <2>1. Z!Frame(phase)[y] = IF Blank \in displayControl
                              THEN [v \in 1 .. ByteBits * WordsPerLine |-> {}]
                            ELSE Z!Line(y, phase)
    BY Zenon DEF Z!Frame
  <2>2. Blank \in displayControl <=> Z!Selected(Blank)
    BY Zenon DEF MemoryIsKept
  <2>3. CASE Z!Selected(Blank)
    BY <2>1, <2>2, <2>3, Zenon DEF Z!Pixel
  <2>4. CASE ~Z!Selected(Blank)
    <3>1. Z!Frame(phase)[y] = Row(y, WordsPerLine, phase).pixels
      BY <2>1, <2>2, <2>4, LineIsRow, Zenon
    <3>2. x \in 1 .. WordsPerLine * ByteBits
          /\ x \in 1 .. 2 * (WordsPerLine * (ByteBits \div 2))
      <4> DEFINE half == ByteBits \div 2
      <4>1. half \in Nat /\ ByteBits = 2 * half
        BY PictureTypes
      <4> HIDE DEF half
      <4>2. /\ ByteBits * WordsPerLine = WordsPerLine * ByteBits
            /\ 2 * (WordsPerLine * half) = WordsPerLine * (2 * half)
        BY <4>1, PictureTypes
      <4> QED BY <4>1, <4>2, Zenon DEF half
    <3>3. CASE Z!Selected(Mode8)
      <4>1. Row(y, WordsPerLine, phase).pixels
              = [v \in 1 .. 2 * (WordsPerLine * (ByteBits \div 2)) |-> Pixel8(v, y, phase)]
        BY <3>3, Zenon DEF Row, Row8
      <4>2. Z!Frame(phase)[y][x] = Pixel8(x, y, phase)
        BY <3>1, <3>2, <4>1, Zenon
      <4> DEFINE flash == Z!FlashBits(x, y)
      <4>0. Z!Cardinality(flash) = Cardinality(flash)
        BY Zenon DEF Z!Cardinality, Cardinality
      <4>3. CASE phase /\ Cardinality(flash) % 2 = 1
        <5>1. Z!Pixel(x, y, phase) = Z!Own(Z!LastOf(flash), y)
          BY <2>4, <3>3, <4>0, <4>3, Zenon DEF Z!Pixel
        <5>2. Pixel8(x, y, phase) = Z!Own(Z!LastOf(flash), y)
          BY <4>3, Zenon DEF Pixel8, IsOdd
        <5> QED BY <4>2, <5>1, <5>2, Zenon
      <4>4. CASE ~(phase /\ Cardinality(flash) % 2 = 1)
        <5>1. Z!Pixel(x, y, phase) = Z!Own(x, y)
          BY <2>4, <3>3, <4>0, <4>4, Zenon DEF Z!Pixel
        <5>2. Pixel8(x, y, phase) = Z!Own(x, y)
          BY <4>4, Zenon DEF Pixel8, IsOdd
        <5> QED BY <4>2, <5>1, <5>2, Zenon
      <4> QED BY <4>3, <4>4
    <3>4. CASE ~Z!Selected(Mode8)
      <4>1. Row(y, WordsPerLine, phase).pixels = [v \in 1 .. WordsPerLine * ByteBits |-> Pixel4(v, y)]
        BY <3>4, Zenon DEF Row, Row4
      <4>2. Z!Frame(phase)[y][x] = Pixel4(x, y)
        BY <3>1, <3>2, <4>1, Zenon
      <4> QED BY <2>4, <3>4, <4>2, Zenon DEF Z!Pixel, Pixel4
    <3> QED BY <3>3, <3>4
  <2> QED BY <2>3, <2>4
<1>2. \A phase \in BOOLEAN :
        LET frame == Z!Frame(phase)
        IN  \A y \in 0 .. Lines - 1, x \in 1 .. ByteBits * WordsPerLine :
                frame[y][x] = Z!Pixel(x, y, phase)
  BY <1>1, Zenon
<1> QED BY <1>2, ReadBack, Zenon DEF Z!PictureIsMemory

\* Whatever was written, by any mirrors, and whatever was reset: every pixel of every
\* frame shows the bits that belong to it, in the mode and from the bank that were
\* selected last, with the flashes of its line and of no other; and what is read back
\* is what was written (read8() and write8() of the bus, renderFrame() of the ZX8301).
THEOREM PictureCorrect == ComputerSpec => []PictureIsMemory
<1>1. ComputerInit => PictureInv
  BY PictureStarts DEF ComputerInit, PictureInv
<1>2. PictureInv => PictureIsMemory
  BY PictureFollows, Zenon DEF PictureInv, PictureIsMemory
<1> QED BY <1>1, <1>2, PictureStep, PTL DEF ComputerSpec
=============================================================================
