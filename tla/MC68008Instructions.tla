------------------------- MODULE MC68008Instructions -------------------------
(***************************************************************************)
(* Instructions of the processor that move data and control (mc68008.js),  *)
(* as operators on the state of the processor after its opcode was         *)
(* fetched.  MC68008Arithmetic has the arithmetic, Shifts and Division the *)
(* shifts and divisions, MC68008Exceptions the exceptions.                 *)
(***************************************************************************)
EXTENDS MC68008Operands, SequencesExt, Bitwise

\* A result that sets the flags as a move does.
Tested(s, size, value) == [s EXCEPT !.ccr = LogicalFlagsOf(s, size, value)]

SetFlags(s, flags) == [s EXCEPT !.ccr = flags]
----------------------------------------------------------------------------
(* Moving data.                                                            *)

\* executeMove(): the source is read, and its register moved on, before the
\* destination is located; an address register takes a long word and no flags.
Move(s, size, source, destination) ==
    LET value == Read(s, source, size)
        after == Passed(s, source, size)
    IN  IF destination.mode = "An"
          THEN [after EXCEPT !.a[destination.register] = Extended(value, size)]
          ELSE Tested(Write(after, destination, size, value), size, value)

\* executeMoveQ()
MoveQ(s, register, byte) ==
    Tested([s EXCEPT !.d[register] = Extended(byte, 1)], 4, Extended(byte, 1))

\* executeLea(), executePea()
Lea(s, register, o) == [Passed(s, o, 4) EXCEPT !.a[register] = Address(s, o)]
Pea(s, o)           == Push(Passed(s, o, 4), 4, Address(s, o))

\* executeClr(), executeTst()
Clr(s, size, o) == Tested(Write(s, o, size, 0), size, 0)
Tst(s, size, o) == Tested(Passed(s, o, size), size, Read(s, o, size))

\* executeExt(), executeSwap(), executeExg() of a data and an address register.
Ext(s, size, register) ==
    LET result == Of(size, Extended(Of(size \div 2, s.d[register]), size \div 2))
    IN  Tested(WriteData(s, register, size, result), size, result)

Swapped(long) == Of(2, long) * Values(2) + long \div Values(2)

Swap(s, register) ==
    Tested([s EXCEPT !.d[register] = Swapped(@)], 4, Swapped(s.d[register]))

Exg(s, data, address) ==
    [s EXCEPT !.d[data] = s.a[address], !.a[address] = s.d[data]]
----------------------------------------------------------------------------
(* MOVEM; the registers are numbered as in its mask, D0 to D7 and A0 to A7. *)

RegisterOf(s, r)       == IF r < 8 THEN s.d[r] ELSE s.a[r - 8]
WithRegister(s, r, v) ==
    IF r < 8 THEN [s EXCEPT !.d[r] = v] ELSE [s EXCEPT !.a[r - 8] = v]

Ordered(registers) == SetToSortSeq(registers, <)

\* Mutant: with predecrement the registers go in the order of the mask.
StoredFirst_Mut(registers) == Ordered(registers)

\* The mask is reversed with predecrement: A7 goes first.
StoredFirst(registers) == Reverse(Ordered(registers))

\* executeMovem(), registers to -(An): what is stored is what the registers held
\* at the beginning, the address register among them.
SaveRegisters(s, size, registers, address) ==
    LET order == StoredFirst(registers)
        Store(state, i) ==
            WriteSize(state, Of(4, s.a[address] - i * size), size,
                      Of(size, RegisterOf(s, order[i])))
    IN  [FoldLeft(Store, s, [i \in 1 .. Len(order) |-> i])
            EXCEPT !.a[address] = Of(4, @ - Len(order) * size)]

\* (An)+ to registers: a word is extended, and the address register is not loaded.
RestoreRegisters(s, size, registers, address) ==
    LET order == Ordered(registers)
        Load(state, i) ==
            IF order[i] = address + 8 THEN state
            ELSE WithRegister(state, order[i],
                     Extended(ReadSize(s, Of(4, s.a[address] + (i - 1) * size), size), size))
    IN  [FoldLeft(Load, s, [i \in 1 .. Len(order) |-> i])
            EXCEPT !.a[address] = Of(4, s.a[address] + Len(order) * size)]

\* executeMovep(): the bytes of a register, the highest first, at every other
\* address; and back.
MovepOut(s, size, register, o) ==
    LET at == Address(s, o)
        Store(state, i) ==
            WriteSize(state, at + 2 * (i - 1), 1, s.d[register] \div Values(size - i))
    IN  FoldLeft(Store, Passed(s, o, size), [i \in 1 .. size |-> i])

MovepIn(s, size, register, o) ==
    LET value[i \in 0 .. size] ==
            IF i = 0 THEN 0
            ELSE value[i - 1] * Values(1) + s.memory[Address(s, o) + 2 * (i - 1)]
    IN  WriteData(Passed(s, o, size), register, size, value[size])
----------------------------------------------------------------------------
(* Calls and returns.                                                      *)

\* executeBranch(), BSR with an extension word; executeJump(), JSR.
Bsr(s, displacement) ==
    [Push(Fetched(s), 4, Fetched(s).pc) EXCEPT !.pc = Of(4, s.pc + Extended(displacement, 2))]

Jsr(s, o) == [Push(Passed(s, o, 4), 4, Passed(s, o, 4).pc) EXCEPT !.pc = Address(s, o)]

\* executeLink(), executeUnlk()
Link(s, register, displacement) ==
    LET pushed == Push(Fetched(s), 4, s.a[register])
    IN  [pushed EXCEPT !.a[register] = pushed.a[7],
                       !.a[7] = Of(4, @ + Extended(displacement, 2))]

Unlk(s, register) ==
    LET back == [s EXCEPT !.a[7] = s.a[register]]
    IN  [Dropped(back, 4) EXCEPT !.a[register] = Top(back, 4)]

\* RTS
Rts(s) == [Dropped(s, 4) EXCEPT !.pc = Top(s, 4)]

\* The condition codes as five bits.
FlagNames  == <<"c", "v", "z", "n", "x">>
CcrOf(f)   == MapThenSumSet(LAMBDA i : IF f[FlagNames[i]] THEN 2 ^ (i - 1) ELSE 0, 1 .. 5)
FlagsIn(w) == [x |-> (w \div 16) % 2 = 1, n |-> (w \div 8) % 2 = 1, z |-> (w \div 4) % 2 = 1,
               v |-> (w \div 2) % 2 = 1,  c |-> w % 2 = 1]

\* executeMoveFromSr(), executeMoveToStatus() to CCR, executeRtr(); the system
\* byte of the status register is left to MC68008Exceptions.
MoveFromSr(s, o) == Write(s, o, 2, CcrOf(s.ccr))
MoveToCcr(s, o)  == SetFlags(Passed(s, o, 2), FlagsIn(Read(s, o, 2)))

Rtr(s) ==
    LET popped == Dropped(s, 2)
    IN  [Dropped(popped, 4) EXCEPT !.pc = Top(popped, 4), !.ccr = FlagsIn(Top(s, 2))]
----------------------------------------------------------------------------
(* Operations on an operand in place.                                      *)

Bits(o) == IF o.mode = "Dn" THEN 4 * ByteBits ELSE ByteBits

\* What executeLogical(), executeAddSub(), executeCmp() and executeImmediate() make
\* of two values, and of the flags.
Operation(s, kind, size, source, old) ==
    LET logical ==
            CASE kind = "or"  -> source | old
              [] kind = "and" -> source & old
              [] kind = "eor" -> source ^^ old
              [] OTHER        -> old
        A == Sized(SignBitOf(size))!AddSub(s.ccr, source, old, kind = "sub")
    IN  CASE kind \in {"add", "sub"} -> A
          [] kind = "cmp" -> [result |-> old,
                              flags  |-> Sized(SignBitOf(size))!Compare(s.ccr, source, old)]
          [] OTHER        -> [result |-> logical, flags |-> LogicalFlagsOf(s, size, logical)]

\* A register, or an amount, into an operand that is read and written: also
\* executeQuick(); a comparison only reads.
Operate(s, kind, size, source, o) ==
    LET done == Operation(s, kind, size, Of(size, source), Read(s, o, size))
    IN  SetFlags(IF kind = "cmp" THEN Passed(s, o, size) ELSE Write(s, o, size, done.result),
                 done.flags)

\* The immediate operand comes before the words of the other.
Immediate(s, kind, size, value, o) ==
    Operate([s EXCEPT !.pc = Of(4, @ + IF size = 4 THEN 4 ELSE 2)], kind, size, value, o)

\* An operand into a data register.
Into(s, kind, size, o, register) ==
    Operate(Passed(s, o, size), kind, size, Read(s, o, size), Operand("Dn", register, 0))

\* executeQuick() on an address register, ADDA and SUBA: 32 bits and no flags.
AddAddress(s, register, amount) == [s EXCEPT !.a[register] = Of(4, @ + amount)]

Adda(s, size, o, register) ==
    AddAddress(Passed(s, o, size), register, Extended(Read(s, o, size), size))

\* CMPA: the operand is extended, and 32 bits are compared.
Cmpa(s, size, o, register) ==
    SetFlags(Passed(s, o, size),
             Sized(SignBitOf(4))!Compare(s.ccr, Extended(Read(s, o, size), size),
                                         Passed(s, o, size).a[register]))

\* executeUnary(): NOT and NEG.
Complement(s, size, o) ==
    LET result == Values(size) - 1 - Read(s, o, size)
    IN  Tested(Write(s, o, size, result), size, result)

Neg(s, size, o) ==
    LET done == Sized(SignBitOf(size))!Negate(s.ccr, Read(s, o, size), FALSE)
    IN  SetFlags(Write(s, o, size, done.result), done.flags)

BitOf(o, number) == number % Bits(o)

\* executeBit(): Z is that of the bit before; the other flags stay.
BitOperation(s, kind, number, o) ==
    LET size == IF o.mode = "Dn" THEN 4 ELSE 1
        old  == Read(s, o, size)
        bit  == 2 ^ BitOf(o, number)
        tested == SetFlags(s, [s.ccr EXCEPT !.z = (old & bit) = 0])
    IN  CASE kind = "btst" -> Passed(tested, o, size)
          [] kind = "bchg" -> Write(tested, o, size, old ^^ bit)
          [] kind = "bclr" -> Write(tested, o, size, old - (old & bit))
          [] kind = "bset" -> Write(tested, o, size, old | bit)

\* executeTas()
Tas(s, o) ==
    Tested(Write(s, o, 1, Read(s, o, 1) | SignBitOf(1)), 1, Read(s, o, 1))

\* executeCmpm()
Cmpm(s, size, source, destination) ==
    LET from  == Operand("(An)+", source, 0)
        with  == Operand("(An)+", destination, 0)
        after == Passed(s, from, size)
    IN  SetFlags(Passed(after, with, size),
                 Sized(SignBitOf(size))!Compare(s.ccr, Read(s, from, size), Read(after, with, size)))

\* executeExtendArithmetic() in memory: both registers are predecremented.
ExtendInMemory(s, size, subtract, source, destination) ==
    LET from  == Operand("-(An)", source, 0)
        into  == Operand("-(An)", destination, 0)
        after == Passed(s, from, size)
        done  == Sized(SignBitOf(size))!ExtendArithmetic(s.ccr, Read(s, from, size),
                                                         Read(after, into, size), subtract)
    IN  SetFlags(Write(after, into, size, done.result), done.flags)

\* executeChk(): N tells which bound was not kept.
ChkValue(s, register) == Sized(SignBitOf(2))!Signed(Of(2, s.d[register]))

ChkTraps(s, o, register) ==
    LET upperBound == Sized(SignBitOf(2))!Signed(Read(s, o, 2))
    IN  ChkValue(s, register) < 0 \/ ChkValue(s, register) > upperBound

Chk(s, o, register) ==
    IF ChkTraps(s, o, register)
      THEN [Passed(s, o, 2) EXCEPT !.ccr.n = ChkValue(s, register) < 0]
    ELSE Passed(s, o, 2)
----------------------------------------------------------------------------
(* Conditions.                                                             *)

Condition(s, name) ==
    name = "T" \/ (name # "F" /\ Sized(SignBitOf(1))!ConditionTrue(name, s.ccr))

\* executeConditional(): Scc, DBcc.
Scc(s, condition, o) ==
    Write(s, o, 1, IF Condition(s, condition) THEN Values(1) - 1 ELSE 0)

\* Mutant: the loop ends when the counter is zero.
Counted_Mut(counter) == counter # 0

\* The counter goes below zero before a loop ends.
Counted(counter) == counter # Values(2) - 1

Dbcc(s, condition, register, displacement) ==
    LET counter == Of(2, s.d[register] - 1)
    IN  IF Condition(s, condition) THEN Fetched(s)
        ELSE [WriteData(s, register, 2, counter) EXCEPT
                  !.pc = IF Counted(counter) THEN Of(4, @ + Extended(displacement, 2))
                                             ELSE Fetched(s).pc]

\* executeBranch() with an extension word.
Bcc(s, condition, displacement) ==
    IF Condition(s, condition) THEN [s EXCEPT !.pc = Of(4, @ + Extended(displacement, 2))]
    ELSE Fetched(s)
=============================================================================
