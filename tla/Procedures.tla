----------------------------- MODULE Procedures ------------------------------
(***************************************************************************)
(* Programs of procedures on the stack of the processor, recursive ones    *)
(* among them, beside what they are promised (Activations): parameters of  *)
(* any size are pushed, a procedure opens a frame, saves registers or      *)
(* condition codes, reads and changes its parameters, and takes it all     *)
(* back in the order the stack asks for.  An interrupt comes after every   *)
(* instruction, and its handler leaves nothing                             *)
(* as it was below the stack pointer.  The code between two calls is taken *)
(* to lie at one address.                                                  *)
(***************************************************************************)
EXTENDS MC68008Instructions

CONSTANTS
    StackTop,       \* the stack grows down from here, in memory that ends here
    Data, Pointer,  \* what D0 and A0 begin with
    Entry,          \* address of the procedures
    Locals,         \* bytes of local variables that their frames have
    CallBound,      \* bounds of the model: return addresses on the stack,
    WorkBound       \* and instructions between parameters and registers

VARIABLES
    procedure,      \* its code: how it begins, and how it saves the registers
    cpu,
    registers, stack, frame, pc, ccr,   \* what the program is promised
    worked          \* instructions of the latter kind so far

promised      == <<registers, stack, frame, pc, ccr>>
procedureVars == <<procedure, cpu, promised, worked>>

Accessed == {0, 8}              \* D0 and A0, as MOVEM numbers them

LongOf(number)      == Of(4, number)
LowOf(number, size) == Of(size, number)

Promise == INSTANCE Activations WITH
    DataRegister <- 0, AddressRegister <- 8, Long <- LongOf, Low <- LowOf, Extend <- Extended

ProceduresInit ==
    /\ procedure \in [first : {"frame", "codes", "nothing"}, save : {2, 4}]
    /\ cpu = [d |-> [r \in 0 .. 7 |-> IF r = 0 THEN Data ELSE 0],
              a |-> [r \in 0 .. 7 |-> CASE r = 0 -> Pointer [] r = 7 -> StackTop [] OTHER -> 0],
              pc |-> 0, memory |-> [b \in 0 .. StackTop - 1 |-> 0],
              ccr |-> [x |-> TRUE, n |-> FALSE, z |-> TRUE, v |-> FALSE, c |-> FALSE]]
    /\ registers = [r \in Accessed |-> RegisterOf(cpu, r)]
    /\ stack = <<>>
    /\ frame = 0
    /\ pc = cpu.pc
    /\ ccr = CcrOf(cpu.ccr)
    /\ worked = 0
----------------------------------------------------------------------------
Pushed   == Operand("-(An)", 7, 0)
Popped   == Operand("(An)+", 7, 0)
RegisterOperand(r) == IF r < 8 THEN Operand("Dn", r, 0) ELSE Operand("An", r - 8, 0)

BytesOf(item) ==
    CASE item.kind = "value" -> Step(Pushed, item.size)
      [] item.kind = "saved" -> 2 * item.size
      [] OTHER               -> item.size

\* Where the items lie, and where the stack begins.
Starts ==
    LET start[i \in 1 .. Len(stack) + 1] ==
            IF i = 1 THEN cpu.a[7] ELSE start[i - 1] + BytesOf(stack[i - 1])
    IN  start

\* The processor executes an instruction and an interrupt.
Executes(s) ==
    /\ cpu' = [s EXCEPT !.memory = [b \in DOMAIN @ |-> IF b < s.a[7] THEN 0 ELSE @[b]]]
    /\ UNCHANGED procedure

\* Such an instruction is followed by others that are not calls.
Straight(s) == Executes([s EXCEPT !.pc = cpu.pc])

\* It leaves condition codes that nothing is promised about.
NewCodes == ccr' = CcrOf(cpu'.ccr)

Now == Fetched(cpu)

\* The main program, which has nothing on the stack, and a procedure with its
\* registers saved make one call, with a parameter.
Called  == pc \notin {0, Entry}
Calling == Promise!OnTop \in {"nothing", "saved"} /\ ~Called
Entered(first) == ~Called /\ procedure.first = first
Depth   == Len(SelectSeq(stack, LAMBDA item : item.kind = "return"))

PushRegister(r, size) ==
    /\ Calling /\ (r = 8 => size > 1)
    /\ Straight(Move(Now, size, RegisterOperand(r), Pushed))
    /\ Promise!PushValue(r, size) /\ NewCodes
    /\ UNCHANGED worked

PushEffectiveAddress(d) ==
    /\ Calling
    /\ Straight(Pea(Now, Operand("d(An)", 0, d)))
    /\ Promise!PushAddress(d)
    /\ UNCHANGED worked

\* A value of the size of the item on top is moved.
PopRegister(r) ==
    /\ Called /\ Promise!OnTop = "value" /\ (r = 8 => Head(stack).size > 1)
    /\ Straight(Move(Now, Head(stack).size, Popped, RegisterOperand(r)))
    /\ Promise!PopValue(r) /\ (r = 0 => NewCodes)
    /\ UNCHANGED worked

\* ADDQ.L #n,A7 or LEA n(A7),A7
DropParameter ==
    /\ Called /\ Promise!OnTop = "value"
    /\ LET bytes == BytesOf(Head(stack))
       IN  Straight(AddAddress(Now, 7, bytes)) \/ Straight(Lea(Now, 7, Operand("d(An)", 7, bytes)))
    /\ Promise!DropValue
    /\ UNCHANGED worked

CallProcedure ==
    /\ ~Called /\ Promise!OnTop = "value" /\ Depth < CallBound
    /\ IF Depth = 0
         THEN Promise!Call(3, Entry) /\ Executes(Jsr(Now, Operand("abs.l", 0, Entry)))
         ELSE Promise!Call(2, Entry) /\ Executes(Bsr(Now, Of(2, Entry - Now.pc)))
    /\ UNCHANGED worked

ReturnToCaller == Promise!Return /\ Executes(Rts(Now)) /\ UNCHANGED worked

PushCodes ==
    /\ Promise!OnTop = "return" /\ Entered("codes")
    /\ Straight(MoveFromSr(Now, Pushed))
    /\ Promise!SaveCodes
    /\ UNCHANGED worked

PopCodes ==
    /\ \/ Promise!RestoreCodes    /\ Straight(MoveToCcr(Now, Popped))
       \/ Promise!ReturnWithCodes /\ Executes(Rtr(Now))
    /\ UNCHANGED worked

LinkFrame(bytes) ==
    /\ Promise!OnTop = "return" /\ Entered("frame")
    /\ Straight(Link(Now, 6, Of(2, -bytes)))
    /\ Promise!Enter(bytes)
    /\ UNCHANGED worked

UnlinkFrame == Promise!Leave /\ Straight(Unlk(Now, 6)) /\ UNCHANGED worked

SaveAll ==
    /\ Promise!OnTop = CASE procedure.first = "frame" -> "locals"
                         [] procedure.first = "codes" -> "codes" [] OTHER -> "return"
    /\ ~Called
    /\ Straight(SaveRegisters(Fetched(Now), procedure.save, Accessed, 7))
    /\ Promise!Save(procedure.save)
    /\ UNCHANGED worked

RestoreAll ==
    /\ Promise!OnTop = "saved"
    /\ Straight(RestoreRegisters(Fetched(Now), Head(stack).size, Accessed, 7))
    /\ Promise!Restore
    /\ UNCHANGED worked

Works == Promise!OnTop = "saved" /\ worked < WorkBound /\ worked' = worked + 1

\* A parameter is found from the stack pointer or from the frame pointer, if it lies
\* within the displacement.
Place(i, base) == Operand("d(An)", base, Of(2, Starts[i] - cpu.a[base]))
Found(i, base) ==
    /\ stack[i].kind = "value" /\ (base = 6 => frame > 0)
    /\ Starts[i] - cpu.a[base] < SignBitOf(2)

ReadParameter(i, base, r) ==
    /\ Found(i, base) /\ (r = 8 => stack[i].size > 1)
    /\ Works
    /\ Straight(Move(Now, stack[i].size, Place(i, base), RegisterOperand(r)))
    /\ Promise!ReadValue(i, r) /\ (r = 0 => NewCodes)

InvertParameter(i, base) ==
    /\ Found(i, base)
    /\ Works
    /\ Straight(Complement(Now, stack[i].size, Place(i, base)))
    /\ Promise!InvertValue(i) /\ NewCodes

ComputeRegisters ==
    /\ Works
    /\ \E s \in {MoveQ(Now, 0, Values(1) - 2), Swap(Now, 0), Exg(Now, 0, 0), Ext(Now, 4, 0)} :
           Straight(s)
    /\ Promise!Compute /\ NewCodes
    /\ registers' = [r \in Accessed |-> RegisterOf(cpu', r)]

ProceduresNext ==
    \/ \E r \in Accessed : \/ \E size \in Sizes : PushRegister(r, size)
                           \/ PopRegister(r)
    \/ PushEffectiveAddress(1) \/ DropParameter
    \/ CallProcedure \/ ReturnToCaller
    \/ PushCodes \/ PopCodes
    \/ \E bytes \in Locals : LinkFrame(bytes)
    \/ UnlinkFrame
    \/ SaveAll \/ RestoreAll
    \/ \E i \in DOMAIN stack, base \in {6, 7} :
          InvertParameter(i, base) \/ \E r \in Accessed : ReadParameter(i, base, r)
    \/ ComputeRegisters
----------------------------------------------------------------------------
\* The bytes of an item are what it says; a frame pointer points to the frame.
Lies(i) ==
    LET at   == Starts[i]
        item == stack[i]
        Number(offset, size) == NumberAt(cpu.memory, at + offset, size)
        Points(address, height) ==
            address = IF height = 0 THEN 0 ELSE Starts[Len(stack) - height + 1]
    IN  CASE item.kind = "saved"  -> \A k \in 0 .. 1 :
                                        Number(k * item.size, item.size) = item.content[k + 1]
          [] item.kind = "locals" -> TRUE
          [] item.kind = "frame"  -> Points(Number(0, 4), item.content[1])
          [] OTHER                -> Number(0, item.size) = item.content[1]

\* The registers and the bytes on the stack keep the promise of Activations: what was
\* pushed is what is popped, in whatever sizes and however it is reached, registers
\* and condition codes come back, frames are left as a whole and callers go on after
\* their calls, although an interrupt comes after every instruction.
KeepsActivations ==
    /\ \A r \in Accessed : RegisterOf(cpu, r) = registers[r]
    /\ cpu.pc = pc /\ CcrOf(cpu.ccr) = ccr
    /\ Starts[Len(stack) + 1] = StackTop
    /\ cpu.a[6] = IF frame = 0 THEN 0 ELSE Starts[Promise!FramePlace]
    /\ \A i \in DOMAIN stack : Lies(i)
=============================================================================
