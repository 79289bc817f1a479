------------------------- MODULE MC68008Arithmetic -------------------------
(***************************************************************************)
(* Arithmetic of the processor (mc68008.js) and its condition codes, for   *)
(* operands of one size.  The size is a parameter: SignBit is the weight   *)
(* of its highest bit.                                                     *)
(***************************************************************************)
EXTENDS Integers

CONSTANT SignBit    \* signBitForSize(size)

ASSUME ArithmeticAssumption == SignBit \in Nat \ {0}

Modulus == 2 * SignBit
Mask    == Modulus - 1
Word    == 0 .. Mask

Flags == [x : BOOLEAN, n : BOOLEAN, z : BOOLEAN, v : BOOLEAN, c : BOOLEAN]

Bit(flag) == IF flag THEN 1 ELSE 0

Negative(word) == word >= SignBit

\* value & mask, for the sums and differences of two words and a bit.
Masked(value) ==
    IF value < 0 THEN value + Modulus
    ELSE IF value > Mask THEN value - Modulus ELSE value

\* signExtend16()
Signed(word) == IF Negative(word) THEN word - Modulus ELSE word
----------------------------------------------------------------------------
(* Condition codes.                                                        *)

SameSign(a, b) == Negative(a) <=> Negative(b)

\* setLogicalFlags()
LogicalFlags(f, result) ==
    [f EXCEPT !.n = Negative(result), !.z = (result = 0), !.v = FALSE, !.c = FALSE]

\* Mutant: the sign of the result is compared with the other operand.
Overflow_Mut(source, destination, result, subtract) ==
    /\ subtract # SameSign(source, destination)
    /\ ~SameSign(source, result)

\* The sign of the result cannot be that of the exact one.
Overflow(source, destination, result, subtract) ==
    /\ subtract # SameSign(source, destination)
    /\ ~SameSign(destination, result)

\* setAddFlags()
AddFlags(source, destination, result) ==
    LET carry == source + destination > Mask
    IN  [x |-> carry,
         n |-> Negative(result),
         z |-> result = 0,
         v |-> Overflow(source, destination, result, FALSE),
         c |-> carry]

\* Mutant: a comparison changes the extend flag as a subtraction does.
SubFlags_Mut(f, source, destination, result, affectExtend) ==
    LET carry == source > destination
    IN  [x |-> carry,
         n |-> Negative(result),
         z |-> result = 0,
         v |-> Overflow(source, destination, result, TRUE),
         c |-> carry]

\* setSubFlags()
SubFlags(f, source, destination, result, affectExtend) ==
    LET carry == source > destination
    IN  [x |-> IF affectExtend THEN carry ELSE f.x,
         n |-> Negative(result),
         z |-> result = 0,
         v |-> Overflow(source, destination, result, TRUE),
         c |-> carry]

\* The carry out of a word, with the extend flag that came in.
ExtendCarry(source, destination, subtract, extend) ==
    IF subtract THEN source + extend > destination
    ELSE source + destination + extend > Mask

\* Mutant: zero is set by every result of zero.
StickyZero_Mut(f, result) == result = 0

\* The zero flag of a chain: it can only be cleared.
StickyZero(f, result) == f.z /\ result = 0

\* setExtendArithmeticFlags()
ExtendArithmeticFlags(f, source, destination, result, subtract) ==
    LET carry == ExtendCarry(source, destination, subtract, Bit(f.x))
    IN  [x |-> carry,
         n |-> Negative(result),
         z |-> StickyZero(f, result),
         v |-> Overflow(source, destination, result, subtract),
         c |-> carry]

GreaterOrEqual(f) == f.n = f.v

\* conditionTrue(), by the names of the conditions.
ConditionTrue(condition, f) ==
    CASE condition = "HI" -> ~f.c /\ ~f.z
      [] condition = "LS" -> f.c \/ f.z
      [] condition = "CC" -> ~f.c
      [] condition = "CS" -> f.c
      [] condition = "NE" -> ~f.z
      [] condition = "EQ" -> f.z
      [] condition = "VC" -> ~f.v
      [] condition = "VS" -> f.v
      [] condition = "PL" -> ~f.n
      [] condition = "MI" -> f.n
      [] condition = "GE" -> GreaterOrEqual(f)
      [] condition = "LT" -> ~GreaterOrEqual(f)
      [] condition = "GT" -> ~f.z /\ GreaterOrEqual(f)
      [] condition = "LE" -> f.z \/ ~GreaterOrEqual(f)
----------------------------------------------------------------------------
(* Instructions: the result that is written and the flags after it.        *)

\* executeAddSub(), ADD and SUB.
AddSub(f, source, destination, subtract) ==
    LET result == Masked(IF subtract THEN destination - source ELSE destination + source)
    IN  [result |-> result,
         flags  |-> IF subtract THEN SubFlags(f, source, destination, result, TRUE)
                                ELSE AddFlags(source, destination, result)]

\* executeExtendArithmetic(), ADDX and SUBX.
ExtendArithmetic(f, source, destination, subtract) ==
    LET extend == Bit(f.x)
        result == Masked(IF subtract THEN destination - source - extend
                                     ELSE destination + source + extend)
    IN  [result |-> result,
         flags  |-> ExtendArithmeticFlags(f, source, destination, result, subtract)]

\* executeUnary(), NEG and NEGX.
Negate(f, oldValue, negx) ==
    LET extend == Bit(negx /\ f.x)
        source == Masked(oldValue + extend)
        result == Masked(-oldValue - extend)
        borrow == oldValue # 0 \/ extend # 0
    IN  [result |-> result,
         flags  |-> [x |-> borrow,
                     n |-> Negative(result),
                     z |-> IF negx THEN StickyZero(f, result) ELSE result = 0,
                     v |-> Negative(source) /\ Negative(result),
                     c |-> borrow]]

\* executeCmp(), executeCmpm()
Compare(f, source, destination) ==
    SubFlags(f, source, destination, Masked(destination - source), FALSE)
=============================================================================
