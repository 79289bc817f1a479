--------------------------- MODULE MC68008Operands ---------------------------
(***************************************************************************)
(* Operands of the processor (mc68008.js): registers, memory and the       *)
(* addressing modes.  The state of the processor is a record, and what the *)
(* code does to it is an operator on records.  An instruction is decoded   *)
(* already: an operand is [mode, register, extension, index].  Addresses   *)
(* and accesses are those that a program uses without a fault: words and   *)
(* long words at even addresses.                                           *)
(***************************************************************************)
EXTENDS Integers

CONSTANT ByteBits       \* bits of a byte: 8

Sizes == {1, 2, 4}

\* How many values an operand of a size has, and its sign bit.
Values(size) == 2 ^ (ByteBits * size)
SignBitOf(size) == Values(size) \div 2

\* The arithmetic of MC68008Arithmetic, for each size.
Sized(SignBit) == INSTANCE MC68008Arithmetic
Of(size, value) == value % Values(size)

\* signExtend(), signExtend8() and signExtend16(), to a long word.
Extended(value, size) == Of(4, Sized(SignBitOf(size))!Signed(value))

LogicalFlagsOf(s, size, value) ==
    Sized(SignBitOf(size))!LogicalFlags(s.ccr, Of(size, value))
----------------------------------------------------------------------------
(* Memory.                                                                 *)

\* The number that some bytes are, the highest first.
NumberAt(memory, address, bytes) ==
    LET number[n \in 0 .. bytes] ==
            IF n = 0 THEN 0 ELSE number[n - 1] * Values(1) + memory[address + n - 1]
    IN  number[bytes]

\* readSize()
ReadSize(s, address, size) == NumberAt(s.memory, address, size)

Written(memory, address, size, value) ==
    [b \in DOMAIN memory |->
        IF b \in address .. address + size - 1
          THEN Of(1, value \div Values(address + size - 1 - b)) ELSE memory[b]]

\* writeSize()
WriteSize(s, address, size, value) ==
    [s EXCEPT !.memory = Written(@, address, size, value)]

\* push16() and push32(), pop16() and pop32().
Push(s, size, value) ==
    LET top == Of(4, s.a[7] - size)
    IN  WriteSize([s EXCEPT !.a[7] = top], top, size, value)

Top(s, size)     == ReadSize(s, s.a[7], size)
Dropped(s, size) == [s EXCEPT !.a[7] = Of(4, @ + size)]

\* fetch16(), of an opcode or an extension word.
Fetched(s) == [s EXCEPT !.pc = Of(4, @ + 2)]

\* writeDataRegister(): the upper part of the register stays.
WriteData(s, register, size, value) ==
    [s EXCEPT !.d[register] = @ - Of(size, @) + Of(size, value)]
----------------------------------------------------------------------------
(* Addressing modes.                                                       *)

NoIndex == [address |-> FALSE, register |-> 0, long |-> FALSE]

Operand(mode, register, extension) ==
    [mode |-> mode, register |-> register, extension |-> extension, index |-> NoIndex]

\* indexValue()
IndexValue(s, index) ==
    LET raw == IF index.address THEN s.a[index.register] ELSE s.d[index.register]
    IN  IF index.long THEN raw ELSE Extended(Of(2, raw), 2)

\* The extension words that an operand takes from the program.
ExtensionWords(o, size) ==
    CASE o.mode \in {"d(An)", "d(An,Xn)", "abs.w", "d(PC)", "d(PC,Xn)"} -> 1
      [] o.mode = "abs.l" -> 2
      [] o.mode = "#"     -> IF size = 4 THEN 2 ELSE 1
      [] OTHER            -> 0

\* The address in memory, before the extension words are fetched.
Address(s, o) ==
    CASE o.mode \in {"(An)", "(An)+", "-(An)"} -> s.a[o.register]
      [] o.mode = "d(An)"    -> Of(4, s.a[o.register] + Extended(o.extension, 2))
      [] o.mode = "d(An,Xn)" -> Of(4, s.a[o.register] + IndexValue(s, o.index)
                                                      + Extended(o.extension, 1))
      [] o.mode = "abs.w"    -> Extended(o.extension, 2)
      [] o.mode = "abs.l"    -> o.extension
      [] o.mode = "d(PC)"    -> Of(4, s.pc + Extended(o.extension, 2))
      [] o.mode = "d(PC,Xn)" -> Of(4, s.pc + IndexValue(s, o.index) + Extended(o.extension, 1))

\* The stack pointer stays even.
Step(o, size) == IF size = 1 /\ o.register = 7 THEN 2 ELSE size

\* effectiveAddress(): the register of a predecremented operand is moved.
Located(s, o, size) ==
    IF o.mode = "-(An)" THEN [s EXCEPT !.a[o.register] = Of(4, @ - Step(o, size))] ELSE s

\* Then the extension words are gone; and memoryOperand(): a register is moved on
\* once, after the first access, also when the operand is read and then written.
Passed(s, o, size) ==
    LET fetched == [Located(s, o, size) EXCEPT !.pc = Of(4, @ + 2 * ExtensionWords(o, size))]
    IN  IF o.mode = "(An)+" THEN [fetched EXCEPT !.a[o.register] = Of(4, @ + Step(o, size))]
        ELSE fetched

\* read(): the value of the operand; Passed is the state after it.
Read(s, o, size) ==
    CASE o.mode = "Dn" -> Of(size, s.d[o.register])
      [] o.mode = "An" -> Of(size, s.a[o.register])
      [] o.mode = "#"  -> Of(size, o.extension)
      [] OTHER         -> LET at == Located(s, o, size)
                          IN  ReadSize(at, Address(at, o), size)

\* write(), with or without a read() before.
Write(s, o, size, value) ==
    IF o.mode = "Dn" THEN WriteData(Passed(s, o, size), o.register, size, value)
    ELSE WriteSize(Passed(s, o, size), Address(Located(s, o, size), o), size, value)
=============================================================================
