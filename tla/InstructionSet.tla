--------------------------- MODULE InstructionSet ---------------------------
(***************************************************************************)
(* The instructions of the processor, five uses of them side by side: a    *)
(* chain of additions or subtractions over many words (MultiPrecision), a  *)
(* shift or a rotation, divisions with the product back (both in           *)
(* ShiftsAndDivisions), a loop through memory (Loops) and procedures on    *)
(* the stack (Procedures).  A behaviour is about one of them; the others   *)
(* are at rest.                                                            *)
(***************************************************************************)
EXTENDS MultiPrecision, ShiftsAndDivisions

CONSTANTS       \* of the loops and of the procedures
    ByteBits, Images, Block, Distances, Repeats, Arguments, UpperWord, LongBound,
    StackTop, Data, Pointer, Entry, Locals, CallBound, WorkBound

ASSUME InstructionSetAssumption ==
    /\ {ByteBits, Block, UpperWord, LongBound} \subseteq Nat
    /\ {StackTop, Data, Pointer, Entry, CallBound, WorkBound} \subseteq Nat

VARIABLES
    unit,       \* what the behaviour is about
    loop, first, loopCpu, loopIndex, at,
    procedure, cpu, registers, stack, frame, pc, ccr, worked

L == INSTANCE Loops WITH cpu <- loopCpu, index <- loopIndex
P == INSTANCE Procedures

loops      == <<loop, first, loopCpu, loopIndex, at>>
procedures == <<procedure, cpu, registers, stack, frame, pc, ccr, worked>>

Units == {"chain", "shift", "division", "loop", "procedure"}

ClearFlags == [x |-> FALSE, n |-> FALSE, z |-> FALSE, v |-> FALSE, c |-> FALSE]

ChainAtRest ==
    /\ program = [kind |-> "add", decimal |-> FALSE, extended |-> FALSE]
    /\ flags = [ClearFlags EXCEPT !.z = TRUE]

ShiftAtRest ==
    /\ type = 0 /\ left = FALSE /\ count = 0 /\ value = 0
    /\ before = ClearFlags

DivisionAtRest == signed = FALSE /\ divisor = 1

None == <<>>
LoopAtRest ==
    loop = None /\ first = None /\ loopCpu = None /\ loopIndex = None /\ at = None
ProcedureAtRest ==
    /\ procedure = None /\ cpu = None /\ worked = None
    /\ registers = None /\ stack = None /\ frame = None /\ pc = None /\ ccr = None

InstructionSetInit ==
    /\ unit \in Units
    /\ unit # "chain"    => ChainAtRest
    /\ unit # "shift"    => ShiftAtRest
    /\ unit # "division" => DivisionAtRest
    /\ Init /\ S!Init /\ D!Init
    /\ IF unit = "loop" THEN L!LoopsInit ELSE LoopAtRest
    /\ IF unit = "procedure" THEN P!ProceduresInit ELSE ProcedureAtRest

InstructionSetNext ==
    /\ \/ unit = "chain"     /\ Next   /\ UNCHANGED <<shift, division, loops, procedures>>
       \/ unit = "shift"     /\ S!Next /\ UNCHANGED <<vars, division, loops, procedures>>
       \/ unit = "division"  /\ D!Next /\ UNCHANGED <<vars, shift, loops, procedures>>
       \/ unit = "loop"      /\ L!LoopsNext /\ UNCHANGED <<vars, shift, division, procedures>>
       \/ unit = "procedure" /\ P!ProceduresNext /\ UNCHANGED <<vars, shift, division, loops>>
    /\ UNCHANGED unit

InstructionSetSpec ==
    InstructionSetInit /\ [][InstructionSetNext]_<<unit, vars, shift, division, loops, procedures>>
----------------------------------------------------------------------------
\* A loop does to its block what it is meant to, and to nothing else (Loops).
LoopsCompute == unit = "loop" => L!LoopsCompute

\* What is pushed is popped, registers come back and callers go on (Procedures).
KeepsActivations == unit = "procedure" => P!KeepsActivations
=============================================================================
