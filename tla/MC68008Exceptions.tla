------------------------- MODULE MC68008Exceptions -------------------------
(***************************************************************************)
(* Exceptions and interrupts of the processor (core/mc68008.js): the status *)
(* register and the two stack pointers it switches, the frames exceptions  *)
(* push, RTE, STOP, tracing, and the interrupt levels with the edge of      *)
(* level 7.  One action is one call of step().                             *)
(*                                                                         *)
(* What the instructions compute is left out.  The program in memory is    *)
(* any program that, in supervisor mode, pops from the stack what it       *)
(* pushed there; a frame is one cell of the stack, and a cell that was     *)
(* popped, which nobody reads again, is represented by Data.               *)
(***************************************************************************)
EXTENDS Integers, Sequences, FiniteSets

CONSTANTS
    PcCount,    \* addresses of code are 0 .. PcCount - 1
    Levels,     \* interrupt levels the devices ask for
    Masks,      \* values of the interrupt mask
    StackTop,   \* cells of the supervisor stack, a bound of the model
    UserTop     \* values of the user stack pointer beyond the supervisor stack

Pcs     == 0 .. PcCount - 1
Handler == 0            \* where every vector leads
ResetPc == 1

ASSUME ExceptionAssumption ==
    /\ PcCount \in Nat /\ PcCount > 1
    /\ Levels \subseteq 0 .. 7
    /\ Masks \subseteq 0 .. 7
    /\ Levels \cup {0, 7} \subseteq Masks
    /\ {StackTop, UserTop} \subseteq Nat

Status == [s : BOOLEAN, t : BOOLEAN, mask : Masks]
Frame  == [sr : Status, pc : Pcs]
Data   == [data |-> TRUE]       \* what the program itself pushes
Cells  == 0 .. StackTop - 1
UserPointers == {0} \cup (StackTop + 2 .. StackTop + 1 + UserTop)

VARIABLES
    cpu,            \* pc, sr, a7, usp, ssp, stopped, and the supervisor stack in memory
    interruptLevel, level7Pending,
    served      \* history: level 7 exceptions since the line last came to level 7

levels == <<interruptLevel, level7Pending>>
vars   == <<cpu, levels, served>>

ResetStatus == [s |-> TRUE, t |-> FALSE, mask |-> 7]

\* reset(): the stack is empty.
ResetCpu ==
    [pc |-> ResetPc, sr |-> ResetStatus, a7 |-> StackTop, ssp |-> StackTop, usp |-> 0,
     stopped |-> FALSE, raised |-> FALSE, memory |-> [cell \in Cells |-> Data]]

Init ==
    /\ cpu = ResetCpu
    /\ interruptLevel = 0
    /\ level7Pending = FALSE
    /\ served = 0

----------------------------------------------------------------------------
(* The registers.                                                          *)

\* Mutant: the user pointer is not saved.
SetStatusRegister_Mut(c, sr) ==
    IF c.sr.s = sr.s THEN [c EXCEPT !.sr = sr]
    ELSE IF c.sr.s THEN [c EXCEPT !.sr = sr, !.ssp = c.a7, !.a7 = c.usp]
    ELSE [c EXCEPT !.sr = sr, !.a7 = c.ssp]

\* A change of mode switches A7.
SetStatusRegister(c, sr) ==
    IF c.sr.s = sr.s THEN [c EXCEPT !.sr = sr]
    ELSE IF c.sr.s THEN [c EXCEPT !.sr = sr, !.ssp = c.a7, !.a7 = c.usp]
    ELSE [c EXCEPT !.sr = sr, !.usp = c.a7, !.a7 = c.ssp]

\* exception(): the frame holds the status before the change of mode.
Exception(c, stackedPc) ==
    LET b == SetStatusRegister(c, [c.sr EXCEPT !.s = TRUE])
        p == b.a7 - 1
    IN  [b EXCEPT !.sr.t = FALSE, !.a7 = p, !.pc = Handler, !.stopped = FALSE, !.raised = TRUE,
                  !.memory = [cell \in Cells |-> IF cell = p THEN [sr |-> c.sr, pc |-> stackedPc]
                                                 ELSE b.memory[cell]]]

----------------------------------------------------------------------------
(* Instructions.  Each is the set of the states it may lead to.             *)

NextPc(c) == (c.pc + 1) % PcCount

\* Any instruction that neither uses A7 nor raises an exception.
Ordinary(c) == {[c EXCEPT !.pc = p] : p \in Pcs}

Pop(c) == [c EXCEPT !.a7 = c.a7 + 1, !.memory[c.a7] = Data]

\* The program pushes and pops data of its own.
UseStack(c) ==
    LET moved(p) == [c EXCEPT !.a7 = p, !.pc = NextPc(c)] IN
    IF ~c.sr.s THEN {moved(p) : p \in {c.a7 - 1, c.a7 + 1} \cap UserPointers}
    ELSE {moved(c.a7 - 1)} \cup {moved(cell + 1) : cell \in {a \in Cells \cap {c.a7} : c.memory[a] = Data}}

\* TRAP, TRAPV, CHK, a division by zero: they return after the instruction.
Trap(c) == {Exception(c, NextPc(c))}

\* An illegal instruction, line 1010 or 1111: they return to it.
Fault(c) == {Exception(c, c.pc)}

\* A privileged instruction in user mode is a fault.
Privileged(c, results) == IF c.sr.s THEN results ELSE Fault(c)

MoveToSr(c) == {[SetStatusRegister(c, sr) EXCEPT !.pc = NextPc(c)] : sr \in Status}

Stop(c) == {[d EXCEPT !.stopped = TRUE] : d \in MoveToSr(c)}

MoveUsp(c) == {[c EXCEPT !.usp = p, !.pc = NextPc(c)] : p \in UserPointers}

\* The frame is popped before the status is restored.
Rte(c) ==
    {[SetStatusRegister(Pop(c), frame.sr) EXCEPT !.pc = frame.pc] :
        frame \in {c.memory[cell] : cell \in Cells \cap {c.a7}} \ {Data}}

Execute(c) ==
    UNION {Ordinary(c), UseStack(c), Trap(c), Fault(c),
           Privileged(c, MoveToSr(c)), Privileged(c, Stop(c)), Privileged(c, MoveUsp(c)),
           Privileged(c, Rte(c))}

----------------------------------------------------------------------------
(* Interrupts and step().                                                  *)

\* Mutant: the level alone counts, not its transition.
Level7Pending_Mut(level) == level = 7

Level7Pending(level) ==
    IF level # 7 THEN FALSE ELSE level7Pending \/ interruptLevel # 7

SetInterruptLevel(level) ==
    /\ interruptLevel' = level
    /\ level7Pending' = Level7Pending(level)
    /\ served' = IF level = 7 /\ interruptLevel # 7 THEN 0 ELSE served
    /\ UNCHANGED cpu

PendingInterruptLevel ==
    IF interruptLevel = 7 THEN IF level7Pending THEN 7 ELSE 0
    ELSE IF interruptLevel > cpu.sr.mask THEN interruptLevel ELSE 0

\* Within the bound of the supervisor stack.
Fits(c) == c.a7 >= 0 /\ c.ssp >= 0

AcceptInterrupt ==
    /\ PendingInterruptLevel # 0
    /\ LET e == Exception(cpu, cpu.pc)
       IN  cpu' = [e EXCEPT !.sr.mask = PendingInterruptLevel, !.raised = FALSE]
    /\ Fits(cpu')
    /\ level7Pending' = (level7Pending /\ PendingInterruptLevel # 7)
    /\ served' = IF PendingInterruptLevel = 7 THEN served + 1 ELSE served
    /\ UNCHANGED interruptLevel

\* Mutant: an instruction that clears the trace bit is not traced.
Traced_Mut(c, d) == c.sr.t /\ d.sr.t

\* The trace bit at the beginning of the instruction decides.
Traced(c, d) == c.sr.t

\* An exception of the instruction itself takes the place of the trace.
Instruction ==
    /\ PendingInterruptLevel = 0
    /\ ~cpu.stopped
    /\ \E d \in Execute(cpu) :
          LET e == IF Traced(cpu, d) /\ ~d.raised THEN Exception(d, d.pc) ELSE d
          IN  Fits(e) /\ cpu' = [e EXCEPT !.raised = FALSE]
    /\ UNCHANGED <<levels, served>>

Step == AcceptInterrupt \/ Instruction

Reset ==
    /\ cpu' = ResetCpu
    /\ interruptLevel' = 0
    /\ level7Pending' = FALSE
    /\ UNCHANGED served

Next ==
    \/ Step
    \/ \E level \in Levels : SetInterruptLevel(level)
    \/ Reset

Spec == Init /\ [][Next]_vars
----------------------------------------------------------------------------
SupervisorSp(c) == IF c.sr.s THEN c.a7 ELSE c.ssp
UserSp(c)       == IF c.sr.s THEN c.usp ELSE c.a7

TypeOK ==
    /\ cpu.pc \in Pcs
    /\ cpu.sr \in Status
    /\ {cpu.stopped, level7Pending} \subseteq BOOLEAN
    /\ SupervisorSp(cpu) \in 0 .. StackTop
    /\ UserSp(cpu) \in UserPointers
    /\ cpu.memory \in [Cells -> Frame \cup {Data}]
    /\ interruptLevel \in Levels \cup {0}
    /\ served \in Nat

\* While the line stays at 7, its transition is served once.  Until it has been, it is
\* the interrupt of the next step, whatever the mask, the instructions and the handlers
\* of other levels did meanwhile; afterwards it is not taken again, although the main
\* loop sets the level after every instruction.  A line that dropped and rose again,
\* served before or not, is served once more.
Level7Once ==
    /\ TypeOK
    /\ interruptLevel = 7 =>
         /\ served <= 1
         /\ PendingInterruptLevel = 7 <=> served = 0

\* Every instruction executed with the trace bit set is followed by an
\* exception, its own or the trace, also when it clears the trace bit itself:
\* a debugger misses no instruction, and its handler is not traced.
TracedInstructions ==
    [][cpu.sr.t => \/ cpu'.pc = Handler /\ cpu'.sr.s /\ ~cpu'.sr.t
                   \/ cpu' = ResetCpu]_cpu

\* The cells of the supervisor stack that hold frames, and the frame that so many of
\* them are on top of.
FrameCells(c)  == {cell \in Cells : cell >= SupervisorSp(c) /\ c.memory[cell] # Data}
OnTop(c, cell) == {upper \in FrameCells(c) : upper < cell}
FramesUnder(c, n) ==
    {c.memory[cell] : cell \in {a \in FrameCells(c) : Cardinality(OnTop(c, a)) = n}}

\* The frames, the last pushed first.
Frames(c) ==
    [i \in 1 .. Cardinality(FrameCells(c)) |-> CHOOSE frame \in FramesUnder(c, i - 1) : TRUE]

Saved == INSTANCE Contexts WITH
    current   <- [pc |-> cpu.pc, sr |-> cpu.sr],
    suspended <- Frames(cpu),
    userSp    <- UserSp(cpu)

\* The switched stack pointers and the frames keep the promise of Contexts:
\* what an exception suspends is resumed as it was, and the stack pointer of
\* user mode survives every handler.
SavesContexts == Saved!Spec
=============================================================================
