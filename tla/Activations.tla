----------------------------- MODULE Activations -----------------------------
(***************************************************************************)
(* What the stack promises to the procedures of a program: a stack of      *)
(* values, return addresses, saved registers and frames.  What is pushed   *)
(* is what is popped, a procedure returns to its caller, registers and     *)
(* condition codes that are saved come back, and a frame that is left      *)
(* takes with it whatever was pushed in it.                                *)
(***************************************************************************)
EXTENDS Integers, Sequences

CONSTANTS
    DataRegister, AddressRegister,      \* of the program
    Long(_),                            \* a number, as wide as a register
    Low(_, _),                          \* its lower part, of a size
    Extend(_, _)                        \* the part of a size, with its sign

VARIABLES
    registers,
    stack,          \* items, the last pushed first
    frame,          \* height of the frame in force, or 0
    pc, ccr

Item(kind, size, content) == [kind |-> kind, size |-> size, content |-> content]

OnTop == IF stack = <<>> THEN "nothing" ELSE Head(stack).kind
Below == Tail(stack)
Pushes(item) == stack' = <<item>> \o stack

\* A data register takes the part that is as wide as the value, an address register
\* all of it, and then the condition codes stay.
Loads(register, size, value) ==
    /\ registers' = [registers EXCEPT ![register] =
           IF register = DataRegister THEN @ - Low(@, size) + value ELSE Extend(value, size)]
    /\ register = AddressRegister => ccr' = ccr
    /\ UNCHANGED <<frame, pc>>

PushValue(r, size) ==
    /\ Pushes(Item("value", size, <<Low(registers[r], size)>>))
    /\ UNCHANGED <<registers, frame, pc>>

PushAddress(d) ==
    /\ Pushes(Item("value", 4, <<Long(registers[AddressRegister] + d)>>))
    /\ UNCHANGED <<registers, frame, pc, ccr>>

PopValue(r) ==
    /\ OnTop = "value"
    /\ stack' = Below
    /\ Loads(r, Head(stack).size, Head(stack).content[1])

DropValue ==
    /\ OnTop = "value"
    /\ stack' = Below
    /\ UNCHANGED <<registers, frame, pc, ccr>>

\* A value anywhere in the stack, of this activation or of a caller, is read, or
\* changed in place.
ReadValue(i, r) ==
    /\ stack[i].kind = "value"
    /\ Loads(r, stack[i].size, stack[i].content[1])
    /\ UNCHANGED stack

InvertValue(i) ==
    /\ stack[i].kind = "value"
    /\ stack' = [stack EXCEPT ![i].content = <<Low(-1, stack[i].size) - @[1]>>]
    /\ UNCHANGED <<registers, frame, pc>>

Save(size) ==
    /\ Pushes(Item("saved", size, <<Low(registers[DataRegister], size),
                                    Low(registers[AddressRegister], size)>>))
    /\ UNCHANGED <<registers, frame, pc, ccr>>

Restore ==
    /\ OnTop = "saved"
    /\ registers' = [registers EXCEPT
           ![DataRegister]    = Extend(Head(stack).content[1], Head(stack).size),
           ![AddressRegister] = Extend(Head(stack).content[2], Head(stack).size)]
    /\ stack' = Below
    /\ UNCHANGED <<frame, pc, ccr>>

\* The caller goes on after its call, two or three words on.
Call(words, target) ==
    /\ Pushes(Item("return", 4, <<Long(pc + 2 * words)>>))
    /\ pc' = target
    /\ UNCHANGED <<registers, frame, ccr>>

Return ==
    /\ OnTop = "return"
    /\ pc' = Head(stack).content[1]
    /\ stack' = Below
    /\ UNCHANGED <<registers, frame, ccr>>

SaveCodes ==
    /\ Pushes(Item("codes", 2, <<ccr>>))
    /\ UNCHANGED <<registers, frame, pc, ccr>>

RestoreCodes ==
    /\ OnTop = "codes"
    /\ ccr' = Head(stack).content[1]
    /\ stack' = Below
    /\ UNCHANGED <<registers, frame, pc>>

ReturnWithCodes ==
    /\ OnTop = "codes" /\ Head(Below).kind = "return"
    /\ ccr' = Head(stack).content[1]
    /\ pc' = Head(Below).content[1]
    /\ stack' = Tail(Below)
    /\ UNCHANGED <<registers, frame>>

Enter(bytes) ==
    /\ stack' = <<Item("locals", bytes, <<>>), Item("frame", 4, <<frame>>)>> \o stack
    /\ frame' = Len(stack) + 1
    /\ UNCHANGED <<registers, pc, ccr>>

\* A procedure leaves its own frame only.
FramePlace == Len(stack) - frame + 1

Leave ==
    /\ frame > 0
    /\ \A i \in 1 .. FramePlace : stack[i].kind # "return"
    /\ frame' = stack[FramePlace].content[1]
    /\ stack' = SubSeq(stack, FramePlace + 1, Len(stack))
    /\ UNCHANGED <<registers, pc, ccr>>

\* Instructions between registers.
Compute == UNCHANGED <<stack, frame, pc>>
=============================================================================
