------------------------------- MODULE Shifts -------------------------------
(***************************************************************************)
(* Shifts and rotations of a register or a word in memory: shiftValue() of *)
(* mc68008.js, one pass of its loop a step.  The count comes from the      *)
(* opcode or from a register and may be zero or exceed the width.          *)
(***************************************************************************)
EXTENDS MC68008Arithmetic

CONSTANTS
    Width,          \* bits of the operand
    CountBound      \* largest count: 63 in a register

VARIABLES
    type,           \* arithmetic, logical, with extend, or a rotation: 0 .. 3
    left,
    count,
    value,          \* the operand
    flags,          \* the condition codes, set at the end
    before,         \* and as the instruction found them
    index,          \* passes done
    result, carry, extend, overflow,    \* the locals of shiftValue()
    done

operands == <<type, left, count, value, before>>
vars     == <<operands, flags, index, result, carry, extend, overflow, done>>

Init ==
    /\ type \in 0 .. 3
    /\ left \in BOOLEAN
    /\ count \in 0 .. CountBound
    /\ value \in Word
    /\ before \in {f \in Flags : ~f.n /\ ~f.z}
    /\ flags = before
    /\ index = 0
    /\ result = value
    /\ carry = FALSE
    /\ extend = before.x
    /\ overflow = FALSE
    /\ done = FALSE

\* The bit that comes in at the top of a shift to the right.
RightInput(out) ==
    \/ type = 0 /\ Negative(result)
    \/ type = 2 /\ extend
    \/ type = 3 /\ out

LeftInput(out) == (type = 2 /\ extend) \/ (type = 3 /\ out)

ShiftedLeft(out) == (2 * result + Bit(LeftInput(out))) % Modulus

\* An arithmetic shift to the left has changed the sign at any pass so far.
Overflowed(shifted) ==
    overflow \/ (type = 0 /\ left /\ Negative(result) # Negative(shifted))

\* One pass of the loop.
Pass ==
    LET out     == IF left THEN Negative(result) ELSE result % 2 = 1
        shifted == IF left THEN ShiftedLeft(out)
                           ELSE (result \div 2) + SignBit * Bit(RightInput(out))
    IN  /\ index < count
        /\ index' = index + 1
        /\ carry' = out
        /\ result' = shifted
        /\ overflow' = Overflowed(shifted)
        /\ extend' = IF type = 2 THEN out ELSE extend
        /\ UNCHANGED <<operands, flags, done>>

\* A rotation with extend by zero copies X.
FinalCarry == IF count = 0 /\ type = 2 THEN before.x ELSE carry

\* Mutant: a count of zero shifts the cleared carry into X.
FinalExtend_Mut == IF type = 3 THEN before.x ELSE IF type = 2 THEN extend ELSE carry

FinalExtend ==
    IF count = 0 \/ type = 3 THEN before.x ELSE IF type = 2 THEN extend ELSE carry

Finish ==
    /\ index = count /\ ~done
    /\ done' = TRUE
    /\ flags' = [x |-> FinalExtend, n |-> Negative(result), z |-> result = 0,
                 v |-> overflow, c |-> FinalCarry]
    /\ UNCHANGED <<operands, index, result, carry, extend, overflow>>

Next == Pass \/ Finish

Spec == Init /\ [][Next]_vars
----------------------------------------------------------------------------
\* Every variable has its type.
TypeOK ==
    /\ type \in 0 .. 3
    /\ left \in BOOLEAN
    /\ count \in 0 .. CountBound
    /\ value \in Word
    /\ flags \in Flags /\ before \in Flags
    /\ index \in 0 .. count
    /\ result \in Word
    /\ carry \in BOOLEAN /\ extend \in BOOLEAN /\ overflow \in BOOLEAN
    /\ done \in BOOLEAN

PowerOfTwo[n \in Nat] == IF n = 0 THEN 1 ELSE 2 * PowerOfTwo[n - 1]

Shift == type \in {0, 1}

\* After any number of passes a shift is a multiplication or a division by a
\* power of two, and an arithmetic one to the right rounds down.
ShiftIsPower ==
    Shift =>
        result = IF left THEN (value * PowerOfTwo[index]) % Modulus
                 ELSE ((IF type = 0 THEN Signed(value) ELSE value) \div PowerOfTwo[index]) % Modulus

\* The carry, and X with it unless the count is zero, are the bit that a shift
\* lost last.
LostBit ==
    IF left THEN (value * PowerOfTwo[count]) \div Modulus
    ELSE (IF type = 0 THEN Signed(value) ELSE value) \div PowerOfTwo[count - 1]

ShiftedOut ==
    Shift /\ done =>
        IF count = 0 THEN ~flags.c /\ flags.x = before.x
        ELSE flags.c = (LostBit % 2 = 1) /\ flags.x = flags.c

\* An arithmetic shift to the left tells by V that the number with its sign was
\* too large at any time; no other shift and no rotation sets it.
OverflowIsLostSign ==
    done => (flags.v <=> /\ type = 0 /\ left
                         /\ Signed(value) * PowerOfTwo[count] \notin -SignBit .. SignBit - 1)

\* A rotation by any count is a rotation by its remainder: of the word, which
\* leaves X alone, or of the word with X on top.
Ring       == IF type = 2 THEN 2 * Modulus ELSE Modulus
RingWidth  == IF type = 2 THEN Width + 1 ELSE Width
RingOf(word, x) == IF type = 2 THEN word + Modulus * Bit(x) ELSE word
Turned(ring, places) ==
    LET up == PowerOfTwo[places]
    IN  ((ring * up) % Ring) + ((ring * up) \div Ring)

RotationIsCyclic ==
    ~Shift /\ done =>
        LET places == count % RingWidth
            turned == Turned(RingOf(value, before.x),
                             IF left THEN places ELSE (RingWidth - places) % RingWidth)
        IN  /\ RingOf(result, flags.x) = turned
            /\ type = 3 => flags.x = before.x
            /\ type = 2 => flags.c = flags.x
            /\ type = 3 => flags.c = (count > 0 /\ IF left THEN result % 2 = 1
                                                         ELSE Negative(result))
=============================================================================
