--------------------------- MODULE MultiPrecision ---------------------------
(***************************************************************************)
(* Arithmetic on numbers of several words, as programs of the QL do it: a  *)
(* chain that starts with ADD, SUB or NEG and goes on with ADDX, SUBX or   *)
(* NEGX on the next higher word, or is made of ADDX, SUBX, NEGX, ABCD,     *)
(* SBCD or NBCD alone after X was set as wanted and Z was set.  Between    *)
(* two of them the program may MOVE and compare, which change every flag   *)
(* but X.  The words come and go one by one; the model keeps the numbers   *)
(* they make up.                                                           *)
(***************************************************************************)
EXTENDS PackedBcd

CONSTANTS
    Programs,       \* chains to execute, of Program
    Digits          \* bound of the model on the words of a number

\* Decimal instructions always look at X.
Program ==
    {chain \in [kind : {"add", "sub", "neg"}, decimal : BOOLEAN, extended : BOOLEAN] :
        chain.decimal => chain.extended}

ASSUME MultiPrecisionAssumption ==
    /\ Programs \subseteq Program
    /\ Digits \in Nat

VARIABLES
    program,
    carryIn,        \* X as the chain found it, if its first instruction looks
    flags,          \* the condition codes
    weight,         \* of the next word
    source,         \* the numbers made of the words so far
    destination,
    result,
    length,         \* words so far
    disturbed       \* another instruction has set the flags since

vars == <<program, carryIn, flags, weight, source, destination, result, length, disturbed>>

Subtract == program.kind # "add"

\* A number whose nibbles are decimal digits.
Decimal(byte) == byte \div Nibble < Ten /\ byte % Nibble < Ten

\* The words the chain works on, the number a word stands for, and how many.
Operands == IF program.decimal THEN {byte \in 0 .. Byte - 1 : Decimal(byte)} ELSE Word

ValueOf(word) ==
    IF program.decimal THEN (word \div Nibble) * Ten + (word % Nibble) ELSE word

Base == IF program.decimal THEN Ten * Ten ELSE Modulus

Init ==
    /\ program \in Programs
    /\ flags \in [x : BOOLEAN, n : {FALSE}, z : {TRUE}, v : {FALSE}, c : {FALSE}]
    /\ carryIn = IF program.extended THEN Bit(flags.x) ELSE 0
    /\ weight = 1
    /\ source = 0 /\ destination = 0 /\ result = 0
    /\ length = 0
    /\ disturbed = FALSE

\* The next instruction of the chain on two words; NEG, NEGX and NBCD have one.
Executed(src, dst) ==
    IF program.decimal THEN PackedBcd(flags, src, dst, Subtract)
    ELSE IF program.kind = "neg"
      THEN Negate(flags, src, program.extended \/ length > 0)
    ELSE IF program.extended \/ length > 0
      THEN ExtendArithmetic(flags, src, dst, Subtract)
    ELSE AddSub(flags, src, dst, Subtract)

NextWord(src, dst) ==
    /\ length < Digits
    /\ flags' = Executed(src, dst).flags
    /\ result' = result + ValueOf(Executed(src, dst).result) * weight
    /\ source' = source + ValueOf(src) * weight
    /\ destination' = destination + ValueOf(dst) * weight
    /\ weight' = weight * Base
    /\ length' = length + 1
    /\ UNCHANGED <<program, carryIn, disturbed>>

\* MOVE of a word, or CMP and CMPM of two, between two instructions.
Disturb(src, dst) ==
    /\ length \in 1 .. Digits - 1
    /\ flags' \in {Compare(flags, src, dst), LogicalFlags(flags, src)}
    /\ disturbed' = TRUE
    /\ UNCHANGED <<program, carryIn, weight, source, destination, result, length>>

Next ==
    \/ \E src \in Operands, dst \in IF program.kind = "neg" THEN {0} ELSE Operands :
           NextWord(src, dst)
    \/ \E src, dst \in Word : Disturb(src, dst)

Spec == Init /\ [][Next]_vars
----------------------------------------------------------------------------
Started == length > 0

\* Every variable has its type; the numbers fit in the words so far.
TypeOK ==
    /\ program \in Programs
    /\ carryIn \in 0 .. 1
    /\ flags \in Flags
    /\ weight \in Nat \ {0}
    /\ source \in 0 .. weight - 1
    /\ destination \in 0 .. weight - 1
    /\ result \in 0 .. weight - 1
    /\ length \in 0 .. Digits
    /\ disturbed \in BOOLEAN

\* The words of the result and the extend flag are the sum or the difference of
\* the whole numbers, whatever else is compared or moved between the words: X is
\* what the next word needs.  (Of a chain that begins with ADD, SUB or NEG only
\* from its first word on.)
ChainIsExact ==
    Started =>
        result = IF Subtract
                   THEN destination - source - carryIn + Bit(flags.x) * weight
                   ELSE destination + source + carryIn - Bit(flags.x) * weight

\* The zero flag tells whether the whole number is zero.
ZeroIsSticky == Started /\ ~disturbed => (flags.z <=> result = 0)

\* A number of the words so far, read with its sign.
SignedValue(number) == IF 2 * number >= weight THEN number - weight ELSE number

Binary == Started /\ ~disturbed /\ ~program.decimal

\* The overflow flag of the last word tells whether the whole result, with its
\* sign, does not fit.
OverflowShown ==
    LET exact == IF Subtract THEN SignedValue(destination) - SignedValue(source) - carryIn
                 ELSE SignedValue(destination) + SignedValue(source) + carryIn
    IN  flags.v <=> exact # SignedValue(result)

\* So it is for additions and subtractions: ADDX and SUBX carry it on to the whole
\* number.
OverflowIsExact == Binary /\ program.kind # "neg" => OverflowShown

\* And for NEG and NEGX, which the README counts among the instructions with
\* their condition codes: they subtract the number, and X, from zero.
NegationOverflow == Binary /\ program.kind = "neg" => OverflowShown

\* After a subtraction of whole numbers the conditions of branches compare them,
\* as numbers and as numbers with a sign.
ConditionsCompare ==
    Binary /\ program.kind = "sub" /\ carryIn = 0 =>
        LET d == SignedValue(destination)
            s == SignedValue(source)
        IN  /\ ConditionTrue("HI", flags) <=> destination > source
            /\ ConditionTrue("LS", flags) <=> destination <= source
            /\ ConditionTrue("CC", flags) <=> destination >= source
            /\ ConditionTrue("CS", flags) <=> destination < source
            /\ ConditionTrue("NE", flags) <=> destination # source
            /\ ConditionTrue("EQ", flags) <=> destination = source
            /\ ConditionTrue("GE", flags) <=> d >= s
            /\ ConditionTrue("LT", flags) <=> d < s
            /\ ConditionTrue("GT", flags) <=> d > s
            /\ ConditionTrue("LE", flags) <=> d <= s

\* Both together: the flags at the end of a chain are those of the whole numbers.
FlagsAreExact == OverflowIsExact /\ ConditionsCompare
=============================================================================
