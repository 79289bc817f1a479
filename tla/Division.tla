------------------------------ MODULE Division ------------------------------
(***************************************************************************)
(* DIVU, DIVS, MULU and MULS (mc68008.js) and the two things a program     *)
(* does with them: it divides a register and multiplies back, or it        *)
(* divides a number of many words by one word, from the highest word down, *)
(* with the remainder as the upper word of the next division.              *)
(***************************************************************************)
EXTENDS MC68008Arithmetic

CONSTANT Digits     \* bound of the model on the words of the long number

Register == 0 .. Modulus * Modulus - 1

VARIABLES
    signed,         \* DIVS and MULS, or DIVU and MULU
    divisor,
    register,       \* of the processor: remainder and quotient, or a product
    flags,
    dividend,       \* the number divided so far, in words
    quotient,       \* and the quotient so far, in words
    length,         \* words divided
    phase           \* "divide", "divided", "trapped", "multiplied"

vars == <<signed, divisor, register, flags, dividend, quotient, length, phase>>

SignedRegister(r) == IF r >= Modulus * SignBit THEN r - Modulus * Modulus ELSE r

\* The operands as the instruction reads them.
WordOf(word)  == IF signed THEN Signed(word) ELSE word
LongOf(r)     == IF signed THEN SignedRegister(r) ELSE r
LowOf(r)      == r % Modulus
HighOf(r)     == r \div Modulus

Abs(a) == IF a < 0 THEN -a ELSE a

\* Math.trunc()
Truncated(a, b) ==
    IF a < 0 <=> b < 0 THEN Abs(a) \div Abs(b) ELSE -(Abs(a) \div Abs(b))

\* Mutant: the quotient with sign is held to the range without.
QuotientRange_Mut == 0 .. Mask

QuotientRange == IF signed THEN -SignBit .. SignBit - 1 ELSE 0 .. Mask

Halves(remainder, result) == (remainder % Modulus) * Modulus + (result % Modulus)

\* executeDivide(), on a register.
Divide(operand) ==
    IF divisor = 0
      THEN /\ phase' = "trapped"
           /\ register' = operand
           /\ UNCHANGED flags
    ELSE LET result    == Truncated(LongOf(operand), WordOf(divisor))
             remainder == LongOf(operand) - result * WordOf(divisor)
         IN  /\ phase' = "divided"
             /\ IF result \notin QuotientRange
                  THEN /\ register' = operand
                       /\ flags' = [flags EXCEPT !.v = TRUE, !.c = FALSE]
                  ELSE /\ register' = Halves(remainder, result)
                       /\ flags' = LogicalFlags(flags, result % Modulus)

\* A word of the long number, under the remainder of the words above it.
DivideNext(digit) ==
    /\ ~signed /\ length < Digits
    /\ phase = "divide" \/ (phase = "divided" /\ length > 0)
    /\ Divide(HighOf(register) * Modulus + digit)
    /\ dividend' = dividend * Modulus + digit
    /\ quotient' = quotient * Modulus + LowOf(register')
    /\ length' = length + 1
    /\ UNCHANGED <<signed, divisor>>

\* A register with whatever it holds.
DivideWhole(operand) ==
    /\ phase = "divide" /\ length = 0
    /\ Divide(operand)
    /\ dividend' = LongOf(operand)
    /\ quotient' = WordOf(LowOf(register'))
    /\ UNCHANGED <<signed, divisor, length>>

Product(word) == WordOf(LowOf(register)) * WordOf(word)

\* executeMultiply(): the quotient in the lower word by the divisor.
MultiplyBack ==
    /\ phase = "divided" /\ length = 0 /\ ~flags.v
    /\ phase' = "multiplied"
    /\ register' = Product(divisor) % (Modulus * Modulus)
    /\ flags' = [flags EXCEPT !.n = register' >= Modulus * SignBit, !.z = register' = 0,
                              !.v = FALSE, !.c = FALSE]
    /\ dividend' = dividend - WordOf(HighOf(register))
    /\ UNCHANGED <<signed, divisor, quotient, length>>

Init ==
    /\ signed \in BOOLEAN
    /\ divisor \in Word
    /\ register = 0
    /\ flags = [x |-> FALSE, n |-> FALSE, z |-> FALSE, v |-> FALSE, c |-> TRUE]
    /\ dividend = 0 /\ quotient = 0
    /\ length = 0
    /\ phase = "divide"

Next ==
    \/ \E digit \in Word : DivideNext(digit)
    \/ \E operand \in Register : DivideWhole(operand)
    \/ MultiplyBack

Spec == Init /\ [][Next]_vars
----------------------------------------------------------------------------
\* Every variable has its type.
TypeOK ==
    /\ signed \in BOOLEAN
    /\ divisor \in Word
    /\ register \in Register
    /\ flags \in Flags
    /\ dividend \in Int /\ quotient \in Int
    /\ length \in 0 .. Digits
    /\ phase \in {"divide", "divided", "trapped", "multiplied"}

\* Word by word a long number is divided exactly, and no step overflows: the
\* remainder above the next word is smaller than the divisor.
LongDivisionIsExact ==
    phase = "divided" /\ length > 0 =>
        /\ dividend = quotient * divisor + HighOf(register)
        /\ HighOf(register) < divisor
        /\ ~flags.v

\* The quotient and the remainder that the definition of a division asks for, with
\* the remainder of the sign of the dividend.
IsDivision(q, r) ==
    /\ dividend = q * WordOf(divisor) + r
    /\ Abs(r) < Abs(WordOf(divisor))
    /\ r = 0 \/ (r < 0 <=> dividend < 0)

Quotients == IF signed THEN {Signed(word) : word \in Word} ELSE Word

\* A register is divided into that quotient and that remainder; or else there are
\* none that fit, V says so, and the register is as it was.
DivisionIsExact ==
    phase = "divided" /\ length = 0 =>
        IF flags.v
          THEN /\ LongOf(register) = dividend
               /\ ~\E q \in Quotients, r \in -Mask .. Mask : IsDivision(q, r)
          ELSE /\ IsDivision(WordOf(LowOf(register)), WordOf(HighOf(register)))
               /\ flags.z <=> quotient = 0
               /\ flags.n <=> Negative(LowOf(register))

\* The quotient times the divisor is the dividend without the remainder.
ProductIsExact ==
    phase = "multiplied" =>
        /\ LongOf(register) = dividend
        /\ flags.z <=> dividend = 0
        /\ signed => (flags.n <=> dividend < 0)
=============================================================================
