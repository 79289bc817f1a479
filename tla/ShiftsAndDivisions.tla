------------------------- MODULE ShiftsAndDivisions --------------------------
(***************************************************************************)
(* Shifts and rotations (Shifts) and divisions with the products back      *)
(* (Division), side by side.                                               *)
(***************************************************************************)
EXTENDS MC68008Arithmetic

CONSTANTS
    Width,          \* bits of the operand of a shift
    CountBound,     \* its largest count: 63 in a register
    LongDigits      \* bound of the model on the words of a long dividend

ASSUME ShiftsAndDivisionsAssumption ==
    /\ Width \in Nat \ {0}
    /\ {CountBound, LongDigits} \subseteq Nat

VARIABLES
    type, left, count, value, before, index, shiftCarry, shiftExtend, overflow, done,
    shiftFlags, shiftResult,
    signed, divisor, register, dividend, quotient, phase,
    divisionFlags, divisionLength

S == INSTANCE Shifts
        WITH flags <- shiftFlags, result <- shiftResult, carry <- shiftCarry,
             extend <- shiftExtend
D == INSTANCE Division
        WITH flags <- divisionFlags, length <- divisionLength, Digits <- LongDigits

shift    == <<type, left, count, value, before, index, shiftCarry, shiftExtend, overflow,
              done, shiftFlags, shiftResult>>
division == <<signed, divisor, register, dividend, quotient, phase, divisionFlags,
              divisionLength>>

\* The width of the operand is the one its highest bit says.
ASSUME WidthAssumption == Modulus = S!PowerOfTwo[Width]
----------------------------------------------------------------------------
\* A shift is a multiplication or a division by a power of two after any number of
\* passes, C and X are the bit lost last, V tells that the sign was lost at any
\* time, and a rotation turns the word, or the word with X on top; by any count,
\* zero and beyond the width among them.  A register is divided into the one quotient
\* and remainder there are, or V says that they do not fit; a long number is divided
\* word by word; and the quotient times the divisor gives the dividend back.
ShiftsAndDivisionsAreExact ==
    /\ S!TypeOK /\ S!ShiftIsPower /\ S!ShiftedOut /\ S!OverflowIsLostSign /\ S!RotationIsCyclic
    /\ D!TypeOK /\ D!DivisionIsExact /\ D!LongDivisionIsExact /\ D!ProductIsExact
=============================================================================
