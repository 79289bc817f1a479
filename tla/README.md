# Formal models of the Sinclair QL emulator

TLA+ modules of the emulator's own logic, TLC configurations that check them on
small instances, and TLAPS proofs of the properties that matter most for every
value of the constants. Everything is translated from the JavaScript under
`src/`; paths below are relative to it (`devices/zx8302.js` is
`src/devices/zx8302.js`).

Run a model with `tlc -config MCComputer.cfg MCComputer`, a proof with
`tlapm Computer_proofs.tla`. `PROJECT.json` lists the runs, the mutants that show
each property can fail, the source lines of every definition, the hazards and the
theorems.

## 1. The system

The emulator is a single page. `main.js` runs the processor in animation frames
and ticks the devices; the processor reaches ROM, RAM and devices over
`core/bus.js`; the user clicks between the frames, and files, ROMs and the audio
worklet are awaited. There are no threads that share memory but for the audio
worklet, which gets messages; what interleaves are tasks of the browser,
instructions of an arbitrary program, and the hardware the program drives.

| Component | State | Operations | Interacts with |
|---|---|---|---|
| ZX8302 Microdrive controller (`devices/zx8302.js`) | drive chain, motor, phase of the tape, poll counters, two offsets, sector, pending advance, write mode, eight cartridges | writes of the control and data registers, reads of status and of the data registers, mount, eject, save, reset | processor through registers, page through mount/eject |
| Microdrive image (`devices/microdrive.js`) | bytes, dirty, write-protected, physical path, splice | write a byte, copy out | controller |
| IPC link (`devices/zx8302.js`) | command, argument and answer bits, keyboard queue, sound and its remaining cycles | write a bit, press a key, tick, reset | processor, keyboard, sound output |
| Interrupts and ticks of the ZX8302 | pending interrupts, masks, frame and gap accumulators | tick, read, acknowledge, reset | loop of the page, processor |
| Processor (`core/mc68008.js`) | registers, status register, two stack pointers, stopped, interrupt level, level 7 edge | `step()`, `setInterruptLevel()`, `reset()` | bus, loop |
| Loop of the page (`main.js`) | running, requested frame, last frame time | run, pause, step, reset, boot, frame | processor, bus, audio |
| Sound output (`ui/ql-audio.js`, `ui/ql-sound-worklet.js`, `devices/ql-sound.js`) | enabled, paused, pending sound, initialisation, context, node; synthesizer | start, stop, resume, pause, switch, message | IPC, loop, browser |
| Rack and library (`main.js`, `ui/software-library.js`) | files, selection, busy flag, rack as drawn, ROM | add, select, mount, boot, eject, save, choose ROM | controller, loop |
| Import of packages (`formats/*.js`) | the entries read so far; the tables of an image that is laid out | read a ZIP, convert its files, build an image | rack |
| Bus and display (`core/bus.js`, `devices/zx8301.js`) | ROM, memory, display register | read, write, reset, render a frame | processor, loop of the page |
| Keyboard map, frames, scripts, tooling | little or none | conversion and layout | page |

### What is hard in it

- **Protocols through registers.** The drive chain, the tape and the IPC link are
  driven by reads and writes one bit or byte at a time. One edge, poll or bit too
  many is not an error: it makes the next thing mean something else.
- **Putting off.** The advance to the next sector is put off to a poll; the trace
  exception is decided after the instruction; the level of the devices is copied
  into the processor after an instruction.
- **Awaits.** Mounting, loading a ROM and starting the sound await, and the state
  read before is used after.
- **Things taken away.** Cartridges are ejected and the machine is reset in the
  middle of any of this.
- **Edges of numbers.** Flags at the edges of a word, counts of zero and beyond
  the width, periods overrun by a long instruction, the 125th file of a cartridge,
  a pitch at the end of its sweep.
- **Order within an instruction.** What a register holds when a second operand is
  located, which return address is pushed, what MOVEM stores of its own register.

Nothing is persisted but by the user saving a file, so there is no crash recovery;
nothing is sent over a network, and messages to the worklet are delivered once and
in order.

### What makes each component correct

- *Controller*: the blocks of the tape go past the head in order and none twice,
  whatever is written and polled; the head stays on the tape of the cartridge that
  is there; protected cartridges keep their bytes and changed ones are dirty.
- *IPC link*: a bit belongs to one transfer; keys arrive in order, once and at
  last; what the program hears of the sound is what the host plays.
- *Interrupts and loop*: one loop; between instructions the processor knows what
  the devices ask for; a driver that waits for a gap is told of one.
- *Exceptions*: what is suspended is resumed as it was; the user's stack pointer
  survives; level 7 once a transition, whatever the mask; no traced instruction
  missed.
- *Instructions*: numbers of many words come out exact with their flags; a loop
  does what it is meant to and nothing else; what a procedure is promised of the
  stack, its registers and its caller is kept.
- *Sound*: one node, no sound that hangs, none lost, silence when off; a running
  machine is heard but for a context the browser suspended and no gesture resumed; a
  sound has its length, and its pitch goes where its parameters say.
- *Display*: every pixel shows what was last written to its bits.
- *Import*: a package comes back from the image file by file; only an archive that is
  faulty, does not fit or has a name that the QL cannot write is refused.
- *Rack*: it shows what is in the drives, though it may lag in saying that a cartridge
  was changed; it is never left locked; a changed cartridge is lost only by an
  operation that asked about that cartridge.

## 2. The modules

| Module | Models | Composes |
|---|---|---|
| `MicrodriveImage` | an image as a value: the sectors changed, not their bytes | |
| `Tape` | abstract: the blocks of the tape pass in order | |
| `ZX8302Microdrive` | the controller, driven by any processor and any user | `MicrodriveImage`; implements `Tape` |
| `MicrodriveDriver` | the ROM's driver (external): select, read, write, format | `ZX8302Microdrive` |
| `IpcLink` | the serial link, keys and sound of the IPC | |
| `IpcDriver` | the ROM's side of a transfer (external) | `IpcLink` |
| `QLAudio` | page, audio bridge and port to the worklet | |
| `QLSoundSynthesizer` | the synthesizer, sample by sample | |
| `SoundOutput` | the two side by side | `QLAudio`, `QLSoundSynthesizer` |
| `Contexts` | abstract: contexts are suspended and resumed | |
| `MC68008Exceptions` | status register, two stacks, exceptions, trace, interrupts | implements `Contexts` |
| `MC68008Arithmetic`, `PackedBcd` | results and flags of the arithmetic, as operators | |
| `MultiPrecision` | chains of instructions over numbers of many words | the two above |
| `Shifts` | the loop of `shiftValue()` | `MC68008Arithmetic` |
| `Division` | divide, multiply, long division | `MC68008Arithmetic` |
| `ShiftsAndDivisions` | the two side by side | `Shifts`, `Division` |
| `MC68008Operands` | registers, memory and addressing modes, as operators on the state of the processor | `MC68008Arithmetic` |
| `MC68008Instructions` | the instructions that move data and control | `MC68008Operands` |
| `Loops` | loops as programs have them (external) | `MC68008Instructions` |
| `Activations` | abstract: values, calls, registers and frames on a stack | |
| `Procedures` | programs of procedures, with interrupts (external) | `MC68008Instructions`, beside `Activations` |
| `InstructionSet` | the five uses of the instructions, one in a behaviour | `MultiPrecision`, `ShiftsAndDivisions`, `Loops`, `Procedures` |
| `Machine` | frames, ticks, interrupt register, STOP, buttons | |
| `ZX8301` | bus, display register and the rendering of a frame | |
| `Computer` | the two side by side | `Machine`, `ZX8301` |
| `Refusals` | checks that throw, one after the other | |
| `ZipReader` | the directory and the entries of an archive | `Refusals` |
| `MicrodriveBuilder` | the layout of files over the sectors of an image | `Refusals` |
| `Conversion` | abstract: what becomes of a package | |
| `QlPackage` | the import from archive to image | `ZipReader`, `MicrodriveBuilder`; implements `Conversion` |
| `HostUi` | library, rack and ROM with their awaits | |
| `*_proofs` | proofs about the module of that name and the modules it composes; `MC68008Arithmetic_proofs` about those that compose it | |

`MC*` modules give the constants their values, and the `.cfg` alone does for
`IpcDriver`, `MC68008Exceptions` and `HostUi`. An operator whose name ends in
`_Mut` is the definition after it with a plausible mistake; it is used by no
specification, and `PROJECT.json` says which property finds it.

### How state and actions correspond to the code

- **`ZX8302Microdrive`**: the variables are the fields of `ZX8302` of the same
  name. Each register access is one action, with the whole handler: a status read
  includes the advance of the gap or the byte counters
  (`readMicrodriveStatus`), a control write includes the clocking of the chain,
  the start and end of writing and the reset of the stream
  (`writeMicrodriveControl`). Bytes are not modelled; the offset each goes to is.
  Values of the control register that decode alike are one value. The processor is
  the environment: any register at any time. So is the user.
- **`MicrodriveDriver`** is not code of this repository. Its sequences are those
  with which `tests/zx8302.test.js` and `tests/microdrive-write.test.js` and the
  comments of the controller say QDOS reads and writes.
  `onlyReads` is set in a behaviour where it only reads and the user leaves the
  drives alone.
- **`IpcLink`**: bits are modelled one by one as in `writeIpcBit`; the widths of
  the fields are constants (a status of 8 bits, keys of 12, four-bit counts in the
  code). A command, its argument counts and its answers are those of the code.
  The remaining cycles of a sound are "none", "some" or "forever".
- **`IpcDriver`**: what the processor runs is chosen at the start: a driver that
  sends all commands, the server that polls the keyboard, or another program.
- **`QLAudio`**: a click, an animation frame or the settling of a promise is one
  task and one action; the code after an `await` is a new action. The port is a
  queue. `silenced` is history: the browser suspended the context, and no `resume()`
  came since.
- **`MC68008Exceptions`**: one action is one `step()`. `served` is history: the level 7
  exceptions since the line last came to 7. The program is any sequence
  of instructions of the modelled classes; in supervisor mode it pops what it
  pushed, so frames are popped by RTE only. Stack cells hold a frame or data.
- **`MC68008Arithmetic`, `PackedBcd`**: operators on one word, of width `SignBit`.
  Bitwise expressions become what they compute: `& mask` the reduction to a word,
  `(dst ^ res) & sign` a difference of signs.
- **`MultiPrecision`**: one action is one instruction of the chain, or another
  instruction between two of them. The words are taken as they come and the model
  keeps the numbers they make up, so the state before the last word of a number is
  the end of a shorter one.
- **`Shifts`**: one action is one pass of the loop, then the setting of the flags;
  `result`, `carry`, `extend`, `overflow` are the locals.
- **`MC68008Operands`, `MC68008Instructions`**: the state of the processor is a
  record `[d, a, pc, memory, ccr]` and an instruction an operator on it, with its
  operands decoded. `Read`, `Passed` and `Write` are `read()` and `write()` of an
  operand of `effectiveAddress()`, and what they leave behind in its register and
  the program counter. The width of a byte is a constant, from which those of words
  and long words follow.
- **`Loops`** and **`Procedures`** are programs, not code of this repository: one
  action is one instruction of theirs. `Loops` has the body and the closing DBcc or
  branch; `Procedures` pushes, calls, saves, works and takes back, with an interrupt
  after every instruction that leaves nothing below the stack pointer.
- **`InstructionSet`**, **`SoundOutput`**, **`Computer`**: their parts share nothing
  but constants; `unit` is what a behaviour is about, and the others are at rest.
- **`QLSoundSynthesizer`**: one action is one sample of `render()`, or a message
  between two. Times are in a unit of which a sample and a tick are whole multiples;
  `played` and `advances` are history.
- **`ZX8301`**: an action is a write through the bus, or a reset. A frame is a
  function of the state, word by word with the latch of the flash, as
  `renderFrame()` goes; the reference in `PictureIsMemory` finds the bits of each
  pixel by itself, in the last values written.
- **Import**: the ZIP reader, `importQlPackage()` and the builder are phases of one
  asynchronous function. Each entry, and each block laid out, is an action. A path
  is a sequence of parts, some of which the QL cannot write (`Foreign`), and a file a
  sequence of cells; of the name of the medium there is only its check; `CartridgeRead` reads
  the files back from the image alone, through the map in sector 0.
- **`Machine`**: a frame is a task: `BeginFrame`, steps, `EndFrame`. How many steps
  depends on time, so a frame may end after each. A step costs some cycles, ticks
  the device and copies the level, in the code's order; it may also throw before the
  tick. An instruction either writes the Microdrive control or the interrupt register,
  or both with one word, or is RESET, or gives the status register a value and may
  stop. Selecting a drive, again or for the first time, and mounting or ejecting in
  the drive that runs set the counter of the gap back, as `resetMicrodriveStream()`
  does. The stack is not at the registers of the devices.
- **`HostUi`**: a click is guarded by the button as it was drawn last. Mounting is
  two actions, before and after its awaits. Questions to the user are answered
  yes; no leaves all as it was. `released` and `warned` are history: the cartridges that
  the question of the last operation was about, and those it said had changes. The rack
  keeps the label of a cartridge as it was drawn, which the machine does not draw again.

## 3. The runs

| Run | Instance | States | Shows |
|---|---|---|---|
| `mdv_controller` | 2 drives, 3 sectors, gaps of 2 polls, an imported and a virgin cartridge, any register access | 377k | types, a sound stream (counters, pending advance, motion, head), media, and that the controller implements `Tape` |
| `mdv_driver` | a whole cartridge and one with a splice, a record of 4 bytes, and the driver; from some initial states it only reads | 529k | the drive wanted runs, no torn block, records in place, FORMAT covers the tape; every header and record comes round |
| `ipc` | status of 2 bits, keys of 1, queue of 4, 4 keys pressed; the driver, the keyboard server or a program that writes any nibble | 197k | one transfer at a time, the host's sound and the status agree, alignment, keys in order and none left behind, an answer is of what was asked, as it was then |
| `audio` | 2 sounds, one endless, port of 7 messages; 84 shapes of sounds between two pitches of 32, at 2.5 samples to a tick, 60 samples | 249k | one node; the sound follows the machine: none hangs, none is lost, off is silent; a running machine comes to be heard, unless the context stays suspended for want of a gesture; length and pitch are those of the parameters |
| `audio_pause` | the same | | violated: see findings |
| `cpu_exceptions` | levels 0, 2, 7; supervisor stack of 2 frames | 609k | contexts; level 7 pending until it is taken, whatever the mask, and taken once a transition; trace |
| `instructions` | words of 3 bits; two words and decimal digits of base 3, all operands; counts 0 to 9; registers of 6 bits, long numbers of 3 words; bytes of 3 bits, loops of 24 kinds over 3 images of memory and 9 distances; 2 procedures deep | 359k | exact results, carry, zero, overflow, conditions; shifts against powers of two, rotations against rings; quotients, remainders, products, long division; what loops compute; what procedures are promised |
| `instructions_negx` | the same | | violated: see findings |
| `machine` | frames of 3 cycles, gaps of 2, instructions of 1 or 2; 2 drives, control values 0 to 3; a screen of 2 lines of 2 words of 4-bit bytes, 2 writes | 124k | one loop, fresh level, gaps signalled; the picture is what was written |
| `host_ui` | 2 drives, a file and the virgin cartridge, 3 cartridges inserted, 2 ROMs awaited besides the bundled one | 60k | rack and its labels, unsaved cartridges, no lock |
| `host_ui_loss` | the same | | violated: see findings |
| `package` | archives of up to 7 entries from 7 files, 9 configurations, 12 marked, 11 faulty and 5 with foreign names; 10 sectors of 3 cells, 3 files, 4 entries, 14 cells at most | 42k | no sector twice; records tell their file; the import implements `Conversion` |

### Why the bounds are enough

- *Tape*: three sectors give a splice inside, a sector outside the physical path
  and two left to tell order from repetition; two drives are enough for a chain,
  a drive skipped and a swap; gaps of two polls have a first and a later poll;
  the record is longer than the block header and the preamble that is skipped.
- *IPC*: the widths differ among command, argument, status and key count, so a bit
  taken for another shows; more keys wait than one answer carries.
- *Import*: three files reach the first number that a mark makes that of a free
  sector, as 125 do in the code; archives reach each limit, on the
  entries, the files, the sectors and the cells of all files, and pass it. Names that
  the QL cannot write are those of a file, of its end that is cut off, of folders that
  it sees and that it does not, and of the package.
- *Loops*: a block has up to four elements, distances overlap by less, as much and
  more than an element, on both sides, and the counter is zero, one or more.
- *Procedures*: a procedure calls itself once, so that there is a frame of its own
  and one of its caller; registers hold values that differ in every part.
- *Synthesizer*: two and a half samples to a tick make intervals that end within a
  sample; sweeps end on a pitch or pass it, once, twice, thrice or for ever; 60
  samples are several turns. Random offsets are any that the strength allows.
- *Display*: two words have a border that a flash crosses, two lines one it must not;
  the images put flash bits at any pixel of the first line, and two writes are enough
  for mode or bank and a byte, mirrored or not.
- *Audio*: `PortBound` exceeds the messages that one task posts, so the actions
  that post are held back only by a worklet that never reads, which delivery rules
  out. The settling of a promise is never held back.
- *Exceptions*: two frames nest once with an interrupt between; two levels under
  the edge of level 7 are one masked and one not. The line comes to 7 and drops any
  number of times, for nothing counts the transitions: `served` starts again at each.
- *Arithmetic*: three bits have every combination of signs, carries and zero of
  two operands; two words have a first and a later word, and the theorems hold for
  all. Nibbles of 4 with base 3 keep the relation of 16 with base 10: two digits
  and a carry exceed the nibble.
- *Shifts*: nine is above twice the ring of word and X (4), and three times the
  width.
- *Machine*: the long instruction oversteps both periods, which do not divide each
  other, so that their counters meet in every combination (in the code one is four
  times the other); two drives have a first, a next and none beyond, and the control
  values are the four that select.
- *Rack*: three cartridges allow a mount, its replacement and a mount under way.
  Two ROMs of the user may be awaited at once, with the bundled one, in any order.

### Deadlock

It is checked everywhere but in `instructions`, `instructions_negx` and `package`,
where the program or the import under study ends.

### Fairness

- `mdv_driver`: a driver that only reads keeps reading (`WF` of its next step): its
  loop in the ROM polls until it is satisfied. Nothing is assumed of a driver that
  also writes. `ipc` likewise, of the keyboard server and of nothing else.
- `audio`: the browser settles the promise of the worklet, resumes a context that
  was asked to, and delivers messages. Nothing is assumed of the user, nor that a
  context stays as it is: `RunningIsHeard` excuses a suspension until a `resume()`
  comes (`ui/ql-audio.js:92`), for nothing else looks at the state. Loading may
  fail, which switches the sound off.
- `machine`: the browser calls a frame that was requested, and a frame ends. A
  frame executes at least one instruction (its budget is at least one cycle), and
  may end after any, so executing is strongly fair, ending and beginning weakly.
  Nothing is assumed of the program: one that selects a drive for ever (3, 1, 3, 1 to the
  control register), or a user who swaps the cartridge for ever, sets the counter of the
  gap back each time and never has a gap interrupt. `GapIsSignalled` excuses exactly
  those behaviours.
- `host_ui`: a file that is awaited arrives or fails.

The safety-only specifications state none.

## 4. Findings

1. `audio_pause`: `resume()` unpauses the worklet after its awaits without looking
   whether the machine was paused meanwhile (`ui/ql-audio.js:97`);
   `docs/ARCHITECTURE.md:58` says that the pause of the emulator also freezes the
   sound.
2. `host_ui_loss`: `mountSoftware()` reads the dirty flag for its question before it
   awaits the file (`main.js:409`), and the label of the rack is drawn on events of the
   page only. A cartridge that the machine writes on in between is replaced with its
   changes, and neither the label nor the question told of them; `README.md:84` says
   that replacing a changed cartridge asks for confirmation, `docs/ARCHITECTURE.md:111`
   that cartridges signal their changes.
3. `instructions_negx`: NEGX of the largest positive operand with X set reports
   an overflow (`core/mc68008.js:596`): `-127 - 1` fits in a byte. `OverflowIsExact`
   therefore speaks of additions and subtractions only.

## 5. What is proved

Every safety property that a passing run checks is a theorem, but for those listed
as only model-checked. No theorem assumes more than the named assumptions on the
constants, unless said. What the assumptions say is so in the code: see the table
at the end of this section. Each proof has the same shape: the inductive invariant
`IInv`, one lemma for each action that keeps it, `InvariantHolds`, and then the
properties that follow. Each `IInv` was checked by TLC on the instance of the run
before it was proved. An argument by induction on numbers or lengths is one about
the least counterexample (`LeastElement`).

**`MicrodriveDriver_proofs`**. First the controller with any processor (any number
of drives, sectors and bytes, any cartridges). The types and the counters are
inductive together: which counter may be above zero depends on the phase. On them
rest the pending advance, the motion and the head; `HeadOnTape` needs that a stream
that is not at its start has a cartridge under it (`NoMotionWithoutTape`), for
otherwise a mounted cartridge with fewer sectors would find the head beyond its
end. `MediaIntegrity` needs only the types: it is about where bytes go.
`ImplementsTape` maps the sector to the one that counts, the next one when an
advance is pending; every register access is a step of the tape or a stutter, and
the pending advance at the start of a gap is what keeps the end of a write from
moving the head twice.

Then the driver on top of it, which is one of those processors (`StepIsController`),
so that the types hold of it too. That a block is whole is seen byte by byte:
`InBlock` says where the head stands for each place of the driver, how many bytes of
the record have gone past it, and that the preamble is skipped exactly once, also
when two polls are needed to find its end. When a cartridge is changed under the
driver it says that the stream is back at its start, from which no second byte can
come. `BeforeBlock` is the gap before: the first byte the driver will take is the
first of the block. `Writing` is the other way round: how far the head is follows
from what is left to write. `ChainIsClocked` counts the edges that are still to go
through the chain of drives.

**`IpcDriver_proofs`**. First the link alone (any widths, any nibbles written):
`TypeOK`, `OneTransfer` and `HostHearsSound` are inductive together, because that
the bits that have come and those to come add up to what the command asks for needs
the types of the sequences. Then numbers: `NumberComesBack` says that a number that
fits in a width is the number made of its bits, and `SmallerFits` that a count of
keys does where the largest does. Then the two ends together. `Stream` says that
what the driver has sent and still has to send is the command with its arguments,
and that what it has read and what the link still holds is an answer; `IsAnswer`
says which. `WaitingIsTrue` is why a key that a status announced is there: only the
driver takes keys, and it forgets the announcement before it does.

**`QlPackage_proofs`** (any archives, cartridges and sizes). The loops of the builder
hold no bound of their own, the count before them is all there is. `InOrder` ties the
sector to the unit and the block that come next, so that it stays below the blocks of
all units (`BlocksUpToGrows`), which the checks have compared with the cartridge;
`IsTaken` says of each sector given out that it comes before the next block and after
all before it, and what its record says; `Untaken` that the next sector is free.
Every unit takes a block (`UnitsTakeBlocks`), or two would share a sector. `Content`
follows the bytes of a file from the archive to the builder. `ImageCorrect` then
follows them into the image: `Laid`, inductive with `IInv`, says that every block in
front of the next one has its sector, with the data of the block; the order of the
sectors makes it the only one that the map leads to (`BlocksAreFound`).
`RecordsTellTheirFile` keeps its condition on the number of files: from the 125th on
it is false.

**`SoundOutput_proofs`**. First the way of a sound (any sounds, any length of the
port). A message in the port says
nothing by itself: what matters is what the synthesizer will have come to when all of
them have arrived. `Reaches` is that, the last command in the port or what
sounds now, and `PortAgrees` says that it is what the page wants. It is what makes
`SoundFollowsMachine` inductive, with `ResumesNode`: a context that is awaited
belongs to a node, or the sound kept while it was awaited would be posted to none.

Then the synthesizer (any sounds, any number of pitches, any rate; `SampleBound` is
only a guard, and may be any number). `SoundIsShaped` says where the pitch is after n
steps by two quotients, `advancePitch()` by counting wraps down and comparing a
candidate with two ends; `SynthInv` ties the two. A number of steps has one place, its
turn, the sweep in it and the step in that (`PlaceIsOne`, `PlaceOf`), and the next step
is the next of the sweep, the first of the next, or the first of the next turn
(`NextPlace`). `SweepGoes` is the comparison: every step of a sweep but the last is
strictly between the ends, from whichever side it comes and also when it starts from
past an end, as after a turn; the last is not. That the numbers do not run over 255 and
come back between the ends is `Fits`, and why the property has it. `IntervalGoes` says
that what is left of an interval is what its samples leave, or the rest of the sound
when that is shorter, which `pitchDurationSamples()` puts there: then the sound ends
with the interval, and no step of the pitch comes out of it (`TimeLeft`).

**`HostUi_proofs`** (any files, drives and ROMs). `OneMount` says that the library is
busy while a mount awaits, so that no second one can begin, and `Agreed` carries the
user's consent across the awaits: the cartridge that a mount will replace is the one
the question was about. `LostIsReleased` follows, an action property about the step
in which a changed cartridge leaves its drive. It says whose loss was agreed to, not
that the question told of the changes: that is `LossIsSignalled`, which does not hold.
That a label can lag in one way only rests on `LabelType` and on the fact that only
the machine sets the dirty flag without drawing.

**`MC68008Exceptions_proofs`** (any levels, any number of instructions, any size of
the supervisor stack). `Sound` says that the frames on the stack are all above its
pointer; with the lemmas of its first half, pushing and popping a frame moves the
frames by one. `ExecuteClasses` sorts what an instruction can do into three: it
proceeds, raises, or returns. On it rest `TracedInstructions` and
`ImplementsContexts`, where a step is also a trace exception or an interrupt after
each of the three, so that a traced RTE pops a frame and pushes it again.
`EdgesServed` says of a line at 7 that its interrupt is pending just as long as it has
not been taken, and has been taken once at most. Then a level 7 that is due outweighs
every mask: `Level7NotMasked` says that the next change of the processor is its
exception or a reset, whatever the program does.

**`Computer_proofs`**. First the machine (any periods, costs and masks). `OneLoop` is
inductive with
the types; `LevelIsFresh` holds because each action that changes the devices
outside of an instruction also sets the level, or is one after which it is set
before the next; the exception is an instruction that throws, named in the
property. Selections and swaps keep the types, whatever the control value.

Then the picture (any size of the screen and of the memory, any place of both, any
values and number of writes). `MemoryIsKept` says of the memory and of the register
what the program left in them; a write by a mirror is a write to the cell because the
memory lies below the addresses that the lines tell apart, and the reset takes the
register and nothing else. The rest follows from it in one state. `ColumnBits` says
where in the memory the bits of a column are, by which `WordOfFour` and `PairOfEight`
say what `renderFrame()` adds to a line at each turn of its loops. The loops are
functions defined by recursion; `Row` says what they should come to, which shows that
there is such a function, and `Stepwise` that there is only one. The latch is followed
by the set of columns with a flash bit so far (`LatchNext`): it is on when they are an
odd number, and then has the colour of the last. While it is off it still keeps an
older colour, which is never shown.

**`MC68008Arithmetic_proofs`**. First chains (words of any width, decimal digits of any base in
nibbles of any size, any number of them). The lemmas on words say that each
instruction gives the exact value less what it carries out, and that Z is what was
left of it. For ABCD, SBCD and NBCD the lemmas on digits say it of a packed byte
(`PackedExact`): the adjustment by six makes a digit of each nibble, and moves to
the next digit, or out of the byte, what the digit cannot hold (`SumOfDigits`,
`DifferenceOfDigits`). `ExecutedExact` puts both together;
`CarryHeld` says that the chain so far is exact up to the carry the next
instruction takes in, also before the first word. The step multiplies the
equation of the word by its weight and adds. What the invariant adds to the
properties is `FreshChain`, the state before the first word. `FlagsFollow` says that
C, N and V of the last word are those of the whole numbers, whose sign is that of
their highest word; the weight of a word is even (`WeightIsEven`), so that there is a
half to compare with. The ten conditions of a branch after a subtraction are then
comparisons of whole numbers.

Then divisions (words of any width, long numbers of any length). There is one
quotient whose remainder is smaller than the divisor and has the sign of the
dividend (`OneQuotient`), and `divs()` finds it by dividing the magnitudes
(`TruncatedDivides`); if it fits, the halves of the register hold it and the
remainder (`QuotientFits`), which is why multiplying and adding gives the dividend
back. `DivisionInv` adds to the properties what the phases know of each other: a long
division that goes on has a remainder below the divisor, or its next quotient would
not fit.

Then shifts and rotations (operands of any width, any counts). Nothing is assumed of
powers of two but their recursion, from which `Powers` and `PowersMeet` follow. A
pass to the left is exact up to the bit that goes out (`PassLeft`), one to the right
is a quotient and its remainder (`PassRight`), and dividing by two after a power is
dividing by the next (`HalvedAgain`). `ShiftInv` says after each pass what the passes
so far come to. V is the sharpest part: `SignHeld` says that the number with its sign
is still exact until V is set, and that V once set is right for good, because a
number that has left the range stays outside when doubled. A rotation is a turn of a
ring of bits, the word or the word with X on top; turning by one place more moves its
highest bit to the lowest (`TurnOnce`), which is what a pass does (`RingPass`), and a
whole turn is none (`NoTurn`).

| Assumption | In the code |
|---|---|
| `DriverAssumption`: the nibbles of the driver are among the control values; a block header and its preamble fit in a record; headers end before the bytes a fast erase spares, and these before the sector does | 4 + 8 < 612; 12 + 16 <= 64 < 652 (`devices/microdrive.js`, `devices/zx8302.js`) |
| `WidthAssumption`: a count of the keys that one answer carries fits in its field, and a key in its own | 7 keys at most, counted in 4 bits (`devices/zx8302.js:362`) |
| `QlPackageAssumption`: the numbers of files lie below the mark of a last block, and that below those of free and damaged sectors; that of the map is another one, above the files | 127 < 0x80 < 0xfd < 0xff, 0xf8 (`formats/microdrive-builder.js`) |
| `WidthAssumption` of `ShiftsAndDivisions`: the words are those of the width, `2 ^ Width` of them | 8, 16 and 32 bits, `maskForSize()` and `signBitForSize()` (`core/mc68008.js:63`) |
| `SynthAssumption`: the pitches of a sound are among the pitches, its wrap is at most the one that never ends, the special step is negative, and there are samples in a tick | 8 bits; 4 bits and 15; -8; the rate of the audio context (`devices/ql-sound.js`) |
| `PictureAssumption`: the ROM, the register and the memory do not share addresses; both screens are in the memory, and the memory within the addresses; a byte has an even number of bits | 48 KiB, `0x18063`, `0x20000` to `0x3ffff`, 20 lines (`core/bus.js:1`, `devices/zx8301.js:1`) |
| `MachineAssumption`: an instruction costs at least a cycle and at most a period of either interrupt; the masks hold the level of the devices and 7 | 37500 and 150000 cycles (`devices/zx8302.js`) |
| `ArchivesAssumption`: entries, and the bytes of each, are sequences | what is parsed from a file |
| the others: sizes are positive, sets are not mixed up | |

### Only model-checked

- Liveness (`EverySectorComesRound`, `EveryKeyArrives`, `RunningIsHeard`,
  `GapIsSignalled`, `RackIsFreed`): fairness is out of the prover's reach.
- `PackageIsKept`: what is read back is put together by choosing sectors and joining
  their blocks, and the size of a package is a sum over sets: both need induction over
  data. That the blocks are where the map says is proved (`BlocksAreFound`).
- `LoopsCompute`, `KeepsActivations`: bitwise operators, and what recursion over data
  computes.

## 6. What is not modelled

- *The decoder of the processor and the illegal forms*: a table from bit patterns to
  instructions, without state; the repository replays vectors for it. Instructions
  are modelled decoded. Their forms are all checked before a register is moved, so
  that an illegal one is what `MC68008Exceptions` models.
- *Some operands*: NBCD in memory, ABCD and SBCD on memory, JMP. The decimal
  arithmetic is modelled on registers and long numbers, and the operands are those of
  the other instructions.
- *Odd addresses*: an access to one throws out of `step()`. `Machine` lets an
  instruction throw before the tick; what registers then hold is not modelled.
- *The bytes of a running cartridge*: the controller is modelled with offsets and
  sectors. Checksums and preambles of an image that is built, and the bytes of its
  name, which is only checked.
- *The wave*: amplitude and sign of samples. `decodeIpcSoundBits()`, a table of bit
  positions.
- *Cycle counts*: an instruction costs what it costs.
- *The keyboard table* (`ui/ql-keyboard.js`), a constant; the queue it feeds is in
  `IpcLink`.
- *Presentation*: filtering and sorting of the library, layout, full screen, the
  picture of the computer; scripts, conformance tooling, bundled and vendored
  material.
- *Which ROM wins* when several are awaited: `HostUi` has the race, but nothing says
  which outcome is right.

## 7. Plan

The modules of section 2 are complete for what section 6 does not except, and the
safety properties are proved, but for those listed as only model-checked. What is
left, in this order:

1. The number of blocks of a file that the map shows, so that what the reader joins
   (`FileRead`) is the file: the length of the joined blocks, without their joining.
2. `KeepsActivations`, for the instructions that do not compute bit by bit, once these
   are in a module apart from those that do.
3. `OneLoop` and `LevelIsFresh` cover the loop of the machine; the same for an
   instruction that throws half way, once its registers are modelled.
