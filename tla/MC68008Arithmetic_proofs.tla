---------------------- MODULE MC68008Arithmetic_proofs ----------------------
(***************************************************************************)
(* The arithmetic of the processor, for words of every width.              *)
(*                                                                         *)
(* Chains are exact for digits of every base and numbers of every length.  *)
(* A word contributes its exact sum or difference less what X carries out  *)
(* of it (the lemmas on words), and so do the two digits of a packed byte  *)
(* (the lemmas on digits); the weights are powers of the modulus or the    *)
(* base, and what is left is distributing a product (the lemmas on         *)
(* numbers).                                                               *)
(*                                                                         *)
(* A division leaves the one quotient whose remainder is smaller than the  *)
(* divisor and has the sign of the dividend; halves that hold both give    *)
(* the dividend back.  A shift and a rotation keep, pass after pass, what  *)
(* the passes so far come to: a product, a quotient, or a ring of bits     *)
(* turned by so many places.                                               *)
(***************************************************************************)
EXTENDS MultiPrecision, ShiftsAndDivisions, TLAPS, WellFoundedInduction

\* What an instruction takes in: X, if it is one that looks.
Looks   == program.extended \/ length > 0
CarryOf == IF Looks THEN Bit(flags.x) ELSE 0

\* The instruction on one word, between the exact value and the carry out of it.
BinaryExact(src, dst, executed) ==
    /\ executed.result \in Word
    /\ executed.flags \in Flags
    /\ executed.result =
         IF Subtract THEN dst - src - CarryOf + Bit(executed.flags.x) * Modulus
         ELSE dst + src + CarryOf - Bit(executed.flags.x) * Modulus
    /\ executed.flags.z <=> (Looks => flags.z) /\ executed.result = 0

\* The same of words that are binary or decimal.
WordIsExact(src, dst, executed) ==
    /\ executed.result \in Operands
    /\ executed.flags \in Flags
    /\ ValueOf(executed.result) =
         IF Subtract THEN ValueOf(dst) - ValueOf(src) - CarryOf + Bit(executed.flags.x) * Base
         ELSE ValueOf(dst) + ValueOf(src) + CarryOf - Bit(executed.flags.x) * Base
    /\ executed.flags.z <=> (Looks => flags.z) /\ executed.result = 0
----------------------------------------------------------------------------
(* Words.                                                                  *)

LEMMA ModulusType == Modulus \in Nat /\ Modulus >= 2 /\ Mask = Modulus - 1
BY ArithmeticAssumption DEF Modulus, Mask

LEMMA WordType == ASSUME NEW w \in Word PROVE w \in Int /\ SignBit \in Int /\ Mask \in Int
BY ArithmeticAssumption, ModulusType DEF Word

\* What the flags are made of.
LEMMA FlagParts ==
    ASSUME NEW s \in Word, NEW d \in Word, NEW r \in Word, NEW subtract \in BOOLEAN
    PROVE  /\ Negative(r) \in BOOLEAN /\ (r = 0) \in BOOLEAN
           /\ Overflow(s, d, r, subtract) \in BOOLEAN
           /\ (s > d) \in BOOLEAN /\ (s + d > Mask) \in BOOLEAN
<1>1. (s > d) \in BOOLEAN /\ (s + d > Mask) \in BOOLEAN /\ (r >= SignBit) \in BOOLEAN
  BY WordType
<1>2. Overflow(s, d, r, subtract) \in BOOLEAN /\ (r = 0) \in BOOLEAN
  BY Zenon DEF Overflow, SameSign
<1> QED
  BY <1>1, <1>2, Zenon DEF Negative

LEMMA SubFlagsType ==
    ASSUME NEW f \in Flags, NEW s \in Word, NEW d \in Word, NEW r \in Word, NEW affect \in BOOLEAN
    PROVE  SubFlags(f, s, d, r, affect) \in Flags
<1>1. f.x \in BOOLEAN
  BY Zenon DEF Flags
<1>2. (s > d) \in BOOLEAN /\ Negative(r) \in BOOLEAN /\ (r = 0) \in BOOLEAN
  BY FlagParts, Zenon
<1>3. Overflow(s, d, r, TRUE) \in BOOLEAN
  BY FlagParts, Zenon
<1>4. (IF affect THEN s > d ELSE f.x) \in BOOLEAN
  BY <1>1, <1>2, Zenon
<1> QED
  BY <1>2, <1>3, <1>4, Zenon DEF SubFlags, Flags

LEMMA AddFlagsType ==
    ASSUME NEW s \in Word, NEW d \in Word, NEW r \in Word
    PROVE  AddFlags(s, d, r) \in Flags
<1>1. /\ (s + d > Mask) \in BOOLEAN /\ Negative(r) \in BOOLEAN /\ (r = 0) \in BOOLEAN
      /\ Overflow(s, d, r, FALSE) \in BOOLEAN
  BY FlagParts, Zenon
<1> QED
  BY <1>1, Zenon DEF AddFlags, Flags

\* ADD and SUB.
LEMMA AddSubExact ==
    ASSUME NEW f \in Flags, NEW s \in Word, NEW d \in Word, NEW subtract \in BOOLEAN,
           NEW e, e = AddSub(f, s, d, subtract)
    PROVE  /\ e.result \in Word
           /\ e.flags \in Flags
           /\ e.result = IF subtract THEN d - s + Bit(e.flags.x) * Modulus
                         ELSE d + s - Bit(e.flags.x) * Modulus
           /\ e.flags.z <=> e.result = 0
<1>1. CASE subtract
  <2>1. Masked(d - s) = (IF s > d THEN d - s + Modulus ELSE d - s) /\ Masked(d - s) \in Word
    BY ModulusType DEF Masked, Word
  <2>2. e.result = Masked(d - s) /\ e.flags = SubFlags(f, s, d, e.result, TRUE)
    BY <1>1 DEF AddSub
  <2>3. (e.flags.x <=> s > d) /\ (e.flags.z <=> e.result = 0)
    <3> DEFINE r == e.result
    <3>1. (SubFlags(f, s, d, r, TRUE).x <=> s > d) /\ (SubFlags(f, s, d, r, TRUE).z <=> r = 0)
      <4> HIDE DEF r
      <4> QED BY Zenon DEF SubFlags
    <3> QED BY <2>2, <3>1, Zenon
  <2>4. e.flags \in Flags
    BY <2>1, <2>2, SubFlagsType
  <2>5. Bit(e.flags.x) * Modulus = IF s > d THEN Modulus ELSE 0
    BY <2>3, ModulusType DEF Bit
  <2>6. e.result \in Word /\ e.result = d - s + Bit(e.flags.x) * Modulus
    <3>1. d \in Int /\ s \in Int /\ Modulus \in Int
      BY WordType, ModulusType
    <3>2. e.result = (IF s > d THEN d - s + Modulus ELSE d - s) /\ e.result \in Word
      BY <2>1, <2>2
    <3> DEFINE carried == Bit(e.flags.x) * Modulus
    <3>3. carried = IF s > d THEN Modulus ELSE 0
      BY <2>5
    <3>4. e.result = d - s + carried
      <4> HIDE DEF carried
      <4> QED BY <3>1, <3>2, <3>3
    <3> QED BY <3>2, <3>4
  <2> QED
    BY <1>1, <2>3, <2>4, <2>6, Zenon
<1>2. CASE ~subtract
  <2>1. /\ Masked(d + s) = IF s + d > Mask THEN d + s - Modulus ELSE d + s
        /\ Masked(d + s) \in Word
    BY ModulusType DEF Masked, Word
  <2>2. e.result = Masked(d + s) /\ e.flags = AddFlags(s, d, e.result)
    BY <1>2 DEF AddSub
  <2>3. (e.flags.x <=> s + d > Mask) /\ (e.flags.z <=> e.result = 0)
    <3> DEFINE r == e.result
    <3>1. (AddFlags(s, d, r).x <=> s + d > Mask) /\ (AddFlags(s, d, r).z <=> r = 0)
      <4> HIDE DEF r
      <4> QED BY Zenon DEF AddFlags
    <3> QED BY <2>2, <3>1, Zenon
  <2>4. e.flags \in Flags
    BY <2>1, <2>2, AddFlagsType
  <2>5. Bit(e.flags.x) * Modulus = IF s + d > Mask THEN Modulus ELSE 0
    BY <2>3, ModulusType DEF Bit
  <2>6. e.result \in Word /\ e.result = d + s - Bit(e.flags.x) * Modulus
    BY <2>1, <2>2, <2>5, ModulusType DEF Word
  <2> QED
    BY <1>2, <2>3, <2>4, <2>6, Zenon
<1> QED
  BY <1>1, <1>2

\* ADDX and SUBX.
LEMMA ExtendArithmeticExact ==
    ASSUME NEW f \in Flags, NEW s \in Word, NEW d \in Word, NEW subtract \in BOOLEAN,
           NEW e, e = ExtendArithmetic(f, s, d, subtract)
    PROVE  /\ e.result \in Word
           /\ e.flags \in Flags
           /\ e.result = IF subtract THEN d - s - Bit(f.x) + Bit(e.flags.x) * Modulus
                         ELSE d + s + Bit(f.x) - Bit(e.flags.x) * Modulus
           /\ e.flags.z <=> f.z /\ e.result = 0
<1> DEFINE exact == IF subtract THEN d - s - Bit(f.x) ELSE d + s + Bit(f.x)
           carry == ExtendCarry(s, d, subtract, Bit(f.x))
<1>1. Bit(f.x) \in 0 .. 1
  BY DEF Bit
<1>2. /\ e.result = Masked(exact)
      /\ e.flags = ExtendArithmeticFlags(f, s, d, e.result, subtract)
  BY Zenon DEF ExtendArithmetic
<1>3. carry <=> exact < 0 \/ exact > Mask
  BY <1>1, ModulusType DEF ExtendCarry, Word
<1>4. exact \in -Modulus .. Modulus + Mask
  BY <1>1, ModulusType DEF Word
<1>5. carry \in BOOLEAN
  <2>1. /\ (s + Bit(f.x) > d) \in BOOLEAN
        /\ (s + d + Bit(f.x) > Mask) \in BOOLEAN
    BY <1>1, WordType
  <2> QED BY <2>1, Zenon DEF ExtendCarry
<1>6. /\ Masked(exact) \in Word
      /\ Masked(exact) = IF exact < 0 THEN exact + Modulus
                         ELSE IF exact > Mask THEN exact - Modulus ELSE exact
  <2> HIDE DEF exact
  <2> QED BY <1>4, ModulusType DEF Masked, Word
<1>7. (e.flags.x <=> carry) /\ (e.flags.z <=> f.z /\ e.result = 0)
  <2> DEFINE r == e.result
             after == ExtendArithmeticFlags(f, s, d, r, subtract)
  <2>1. (after.x <=> carry) /\ (after.z <=> f.z /\ r = 0)
    <3> HIDE DEF r
    <3> QED BY <1>5, Zenon DEF ExtendArithmeticFlags, StickyZero
  <2> QED BY <1>2, <2>1, Zenon
<1>8. e.flags \in Flags
  <2> DEFINE r == e.result
             after == ExtendArithmeticFlags(f, s, d, r, subtract)
  <2>1. r \in Word
    BY <1>2, <1>6
  <2>2. after \in Flags
    <3> HIDE DEF r
    <3>1. Negative(r) \in BOOLEAN /\ Overflow(s, d, r, subtract) \in BOOLEAN
      BY <2>1, FlagParts, Zenon
    <3>2. StickyZero(f, r) \in BOOLEAN
      BY Zenon DEF StickyZero
    <3> QED BY <1>5, <3>1, <3>2, Zenon DEF ExtendArithmeticFlags, Flags
  <2> QED BY <1>2, <2>2, Zenon
<1>9. Bit(e.flags.x) * Modulus = IF carry THEN Modulus ELSE 0
  <2> HIDE DEF carry
  <2> QED BY <1>7, ModulusType DEF Bit
<1>10. (subtract => exact <= Mask) /\ (~subtract => exact >= 0)
  BY <1>1, ModulusType DEF Word
<1>11. e.result = exact + IF subtract THEN Bit(e.flags.x) * Modulus ELSE -(Bit(e.flags.x) * Modulus)
  <2> HIDE DEF exact, carry
  <2> QED BY <1>2, <1>3, <1>4, <1>6, <1>9, <1>10, ModulusType
<1> QED
  BY <1>1, <1>2, <1>6, <1>7, <1>8, <1>9, <1>11, ModulusType DEF Word

\* NEG, and NEGX which looks at X.
LEMMA NegateExact ==
    ASSUME NEW f \in Flags, NEW o \in Word, NEW negx \in BOOLEAN,
           NEW e, e = Negate(f, o, negx)
    PROVE  /\ e.result \in Word
           /\ e.flags \in Flags
           /\ e.result = 0 - o - (IF negx THEN Bit(f.x) ELSE 0) + Bit(e.flags.x) * Modulus
           /\ e.flags.z <=> (negx => f.z) /\ e.result = 0
<1> DEFINE extend == Bit(negx /\ f.x)
           src == Masked(o + extend)
           r == Masked(-o - extend)
           borrow == o # 0 \/ extend # 0
           after == [x |-> borrow, n |-> Negative(r),
                     z |-> IF negx THEN StickyZero(f, r) ELSE r = 0,
                     v |-> Negative(src) /\ Negative(r), c |-> borrow]
<1>1. e.result = r /\ e.flags = after
  BY Zenon DEF Negate
<1>2. extend \in 0 .. 1 /\ extend = IF negx THEN Bit(f.x) ELSE 0
  <2>1. f.x \in BOOLEAN
    BY Zenon DEF Flags
  <2>2. (negx /\ f.x) \in BOOLEAN
    BY Zenon
  <2> QED BY <2>1, <2>2 DEF Bit
<1>3. o \in 0 .. Modulus - 1 /\ Modulus \in Nat /\ Modulus >= 2
  BY ModulusType DEF Word
<1>4. /\ r \in Word
      /\ r = IF borrow THEN -o - extend + Modulus ELSE 0
  <2> HIDE DEF extend
  <2> QED BY <1>2, <1>3, ModulusType DEF Masked, Word
<1>5. (after.x <=> borrow) /\ (after.z <=> (negx => f.z) /\ r = 0)
  <2> HIDE DEF r, borrow
  <2>1. borrow \in BOOLEAN
    BY Zenon DEF borrow
  <2> QED BY <2>1, Zenon DEF StickyZero
<1>6. after \in Flags
  <2>1. borrow \in BOOLEAN
    BY Zenon
  <2>2. Negative(r) \in BOOLEAN
    BY <1>4, FlagParts, Zenon
  <2>3. (IF negx THEN StickyZero(f, r) ELSE r = 0) \in BOOLEAN
    BY Zenon DEF StickyZero
  <2> HIDE DEF r, borrow, src
  <2>4. (Negative(src) /\ Negative(r)) \in BOOLEAN
    BY Zenon
  <2> QED BY <2>1, <2>2, <2>3, <2>4, Zenon DEF Flags
<1> HIDE DEF after
<1>7. (e.flags.x <=> borrow) /\ (e.flags.z <=> (negx => f.z) /\ e.result = 0) /\ e.flags \in Flags
  BY <1>1, <1>5, <1>6, Zenon
<1> DEFINE carried == Bit(e.flags.x) * Modulus
<1>8. carried = IF borrow THEN Modulus ELSE 0
  <2> HIDE DEF borrow
  <2> QED BY <1>3, <1>7 DEF Bit
<1>9. r = 0 - o - extend + carried
  <2> HIDE DEF r, extend, carried
  <2> QED BY <1>2, <1>3, <1>4, <1>8
<1>10. e.result = 0 - o - (IF negx THEN Bit(f.x) ELSE 0) + carried /\ e.result \in Word
  <2> HIDE DEF carried
  <2> QED BY <1>1, <1>2, <1>4, <1>9, Zenon
<1> QED
  BY <1>7, <1>10, Zenon

\* Whatever a binary chain executes on a word.
LEMMA BinaryExecuted ==
    ASSUME NEW s \in Word, NEW d \in Word, program \in Program, ~program.decimal,
           program.kind = "neg" => d = 0, flags \in Flags, length \in Nat
    PROVE  BinaryExact(s, d, Executed(s, d))
<1> DEFINE e == Executed(s, d)
<1>1. program.extended \in BOOLEAN /\ program.kind \in {"add", "sub", "neg"}
  BY DEF Program
<1>2. Looks \in BOOLEAN /\ Subtract \in BOOLEAN
  BY Zenon DEF Looks, Subtract
<1> SUFFICES BinaryExact(s, d, e)
  OBVIOUS
<1>3. CASE program.kind = "neg"
  <2>1. e = Negate(flags, s, Looks) /\ d = 0 /\ Subtract
    BY <1>3, Zenon DEF Executed, Looks, Subtract
  <2> HIDE DEF e
  <2>2. /\ e.result \in Word /\ e.flags \in Flags
        /\ e.result = 0 - s - (IF Looks THEN Bit(flags.x) ELSE 0) + Bit(e.flags.x) * Modulus
        /\ e.flags.z <=> (Looks => flags.z) /\ e.result = 0
    BY <2>1, <1>2, NegateExact
  <2> QED BY <2>1, <2>2, Zenon DEF BinaryExact, CarryOf
<1>4. CASE program.kind # "neg" /\ Looks
  <2>1. e = ExtendArithmetic(flags, s, d, Subtract)
    BY <1>4, Zenon DEF Executed, Looks
  <2> HIDE DEF e
  <2>2. /\ e.result \in Word /\ e.flags \in Flags
        /\ e.result = IF Subtract THEN d - s - Bit(flags.x) + Bit(e.flags.x) * Modulus
                      ELSE d + s + Bit(flags.x) - Bit(e.flags.x) * Modulus
        /\ e.flags.z <=> flags.z /\ e.result = 0
    BY <2>1, <1>2, ExtendArithmeticExact
  <2>3. CarryOf = Bit(flags.x)
    BY <1>4, Zenon DEF CarryOf
  <2> QED BY <1>4, <2>2, <2>3, Zenon DEF BinaryExact
<1>5. CASE program.kind # "neg" /\ ~Looks
  <2>1. e = AddSub(flags, s, d, Subtract)
    BY <1>5, Zenon DEF Executed, Looks
  <2> HIDE DEF e
  <2>2. /\ e.result \in Word /\ e.flags \in Flags
        /\ e.result = IF Subtract THEN d - s + Bit(e.flags.x) * Modulus
                      ELSE d + s - Bit(e.flags.x) * Modulus
        /\ e.flags.z <=> e.result = 0
    BY <2>1, <1>2, AddSubExact
  <2>3. d - s = d - s - CarryOf /\ d + s = d + s + CarryOf
    BY <1>5, WordType DEF CarryOf
  <2> DEFINE carried == Bit(e.flags.x) * Modulus
  <2>4. e.result = IF Subtract THEN d - s - CarryOf + carried ELSE d + s + CarryOf - carried
    <3> HIDE DEF carried
    <3>1. CASE Subtract
      <4>1. e.result = d - s + carried
        BY <2>2, <3>1, Zenon DEF carried
      <4> QED BY <2>3, <3>1, <4>1, Zenon
    <3>2. CASE ~Subtract
      <4>1. e.result = d + s - carried
        BY <2>2, <3>2, Zenon DEF carried
      <4>2. CarryOf = 0
        BY <1>5, Zenon DEF CarryOf
      <4>3. d \in Int /\ s \in Int /\ carried \in Int
        BY WordType, ModulusType DEF Bit, carried
      <4> QED BY <3>2, <4>1, <4>2, <4>3
    <3> QED BY <3>1, <3>2
  <2> QED BY <1>5, <2>2, <2>4, Zenon DEF BinaryExact
<1> QED
  BY <1>3, <1>4, <1>5
----------------------------------------------------------------------------
(* Digits.                                                                 *)

LEMMA NibbleType == Nibble \in Nat /\ Ten \in Nat /\ 2 <= Ten /\ Ten <= Nibble
BY PackedBcdAssumption

\* A larger count of nibbles.
LEMMA Multiples ==
    ASSUME NEW n \in Nat, NEW a \in Int, NEW b \in Int, a <= b
    PROVE  a * n <= b * n
<1>1. (b - a) * n \in Nat /\ (b - a) * n = b * n - a * n
  OBVIOUS
<1>2. a * n \in Int /\ b * n \in Int
  OBVIOUS
<1> QED
  BY <1>1, <1>2

\* Two nibbles and the byte they make.
LEMMA TwoNibbles ==
    ASSUME NEW h \in 0 .. Nibble - 1, NEW l \in 0 .. Nibble - 1
    PROVE  /\ h * Nibble + l \in 0 .. Byte - 1
           /\ (h * Nibble + l) \div Nibble = h /\ (h * Nibble + l) % Nibble = l
<1>1. Nibble \in Nat \ {0} /\ h \in Nat /\ l \in Nat
  BY NibbleType
<1>2. h * Nibble + l \in 0 .. Byte - 1
  <2>1. h * Nibble <= (Nibble - 1) * Nibble
    BY <1>1, Multiples
  <2>2. (Nibble - 1) * Nibble = Byte - Nibble /\ Byte \in Int /\ h * Nibble \in Nat
    BY <1>1 DEF Byte
  <2> QED BY <1>1, <2>1, <2>2
<1>3. (h * Nibble + l) % Nibble = l
  BY <1>1
<1>4. (h * Nibble + l) \div Nibble = h
  BY <1>1
<1> QED
  BY <1>2, <1>3, <1>4

LEMMA NibblesOf ==
    ASSUME NEW byte \in 0 .. Byte - 1, Decimal(byte)
    PROVE  /\ byte \div Nibble \in 0 .. Ten - 1 /\ byte % Nibble \in 0 .. Ten - 1
           /\ byte = (byte \div Nibble) * Nibble + (byte % Nibble)
<1>1. Nibble \in Nat \ {0} /\ Ten \in Nat /\ byte \in Nat
  BY NibbleType DEF Byte
<1>2. byte \div Nibble \in Nat /\ byte % Nibble \in Nat
  BY <1>1
<1>3. byte = (byte \div Nibble) * Nibble + (byte % Nibble)
  BY <1>1
<1> QED
  BY <1>1, <1>2, <1>3 DEF Decimal

\* A difference or a sum is in a byte but for one byte.
LEMMA WrapsAround ==
    ASSUME NEW v \in 0 .. Byte - 1
    PROVE  v % Byte = v /\ (v + Byte) % Byte = v /\ (v - Byte) % Byte = v
<1>1. Byte \in Nat \ {0} /\ v \in Nat /\ v < Byte
  BY NibbleType DEF Byte
<1> HIDE DEF Byte
<1>2. v % Byte = v
  BY <1>1
<1>3. (v + Byte) % Byte = v
  BY <1>1
<1>4. (v - Byte) % Byte = v
  BY <1>1
<1> QED
  BY <1>2, <1>3, <1>4

\* An adjustment moves a carry from a digit to the next.
LEMMA SumAdjusted ==
    ASSUME NEW n \in Int, NEW t \in Int, NEW h \in Int, NEW l \in Int,
           NEW low \in 0 .. 1, NEW carry \in 0 .. 1
    PROVE  h * n + l + ((n - t) * low + (n - t) * n * carry)
             = (h + low - t * carry) * n + (l - t * low) + n * n * carry
<1>1. low \in {0, 1} /\ carry \in {0, 1}
  OBVIOUS
<1>2. (n - t) * n = n * n - t * n /\ (h + 1) * n = h * n + n
  OBVIOUS
<1>3. (h - t) * n = h * n - t * n /\ (h + 1 - t) * n = h * n + n - t * n
  OBVIOUS
<1>4. n * n \in Int /\ t * n \in Int /\ h * n \in Int
  OBVIOUS
<1> QED
  BY <1>1, <1>2, <1>3, <1>4

LEMMA DifferenceAdjusted ==
    ASSUME NEW n \in Int, NEW t \in Int, NEW h \in Int, NEW l \in Int,
           NEW low \in 0 .. 1, NEW borrow \in 0 .. 1
    PROVE  h * n + l - ((n - t) * low + (n - t) * n * borrow)
             = (h - low + t * borrow) * n + (l + t * low) - n * n * borrow
<1>1. low \in {0, 1} /\ borrow \in {0, 1}
  OBVIOUS
<1>2. (n - t) * n = n * n - t * n /\ (h - 1) * n = h * n - n
  OBVIOUS
<1>3. (h + t) * n = h * n + t * n /\ (h - 1 + t) * n = h * n - n + t * n
  OBVIOUS
<1>4. n * n \in Int /\ t * n \in Int /\ h * n \in Int
  OBVIOUS
<1> QED
  BY <1>1, <1>2, <1>3, <1>4
\* The adjustment of a sum of digits, high and low, that has h and l of them.
LEMMA SumOfDigits ==
    ASSUME NEW h \in 0 .. 2 * Ten - 2, NEW l \in 0 .. 2 * Ten - 1,
           NEW low \in 0 .. 1, low = Bit(l >= Ten),
           NEW carry \in 0 .. 1, carry = Bit(h * Nibble + l > NinetyNine)
    PROVE  /\ h + low - Ten * carry \in 0 .. Ten - 1 /\ l - Ten * low \in 0 .. Ten - 1
           /\ h * Nibble + l + (Six * low + Six * Nibble * carry)
                = (h + low - Ten * carry) * Nibble + (l - Ten * low) + Byte * carry
<1>1. /\ Nibble \in Nat /\ Ten \in Nat /\ 2 <= Ten /\ Ten <= Nibble
      /\ h \in Nat /\ l \in Nat /\ low \in {0, 1} /\ carry \in {0, 1}
  BY NibbleType
<1>2. /\ l >= Ten => low = 1
      /\ ~(l >= Ten) => low = 0
  BY DEF Bit
<1>3. l - Ten * low \in 0 .. Ten - 1
  BY <1>1, <1>2
<1>4. /\ h * Nibble + l > NinetyNine => carry = 1
      /\ ~(h * Nibble + l > NinetyNine) => carry = 0
  BY DEF Bit
<1>5. NinetyNine = (Ten - 1) * Nibble + Ten - 1 /\ (Ten - 1) * Nibble \in Nat /\ h * Nibble \in Nat
  BY <1>1 DEF NinetyNine
<1>6. h + low - Ten * carry \in 0 .. Ten - 1
  <2>1. CASE h >= Ten
    <3>1. Ten * Nibble <= h * Nibble /\ Ten * Nibble = (Ten - 1) * Nibble + Nibble
      BY <1>1, <2>1, Multiples
    <3>2. carry = 1
      BY <1>1, <1>4, <1>5, <3>1
    <3>3. h + low - Ten \in 0 .. Ten - 1
      BY <1>1, <2>1
    <3> QED BY <1>1, <3>2, <3>3
  <2>2. CASE h = Ten - 1
    <3>1. carry = low
      BY <1>1, <1>2, <1>4, <1>5, <2>2
    <3>2. low = 0 => h + low - Ten * low \in 0 .. Ten - 1
      BY <1>1, <2>2
    <3>3. low = 1 => h + low - Ten * low \in 0 .. Ten - 1
      BY <1>1, <2>2
    <3> QED BY <1>1, <3>1, <3>2, <3>3
  <2>3. CASE h <= Ten - 2
    <3>1. h * Nibble <= (Ten - 2) * Nibble /\ (Ten - 2) * Nibble = (Ten - 1) * Nibble - Nibble
      BY <1>1, <2>3, Multiples
    <3>2. carry = 0
      BY <1>1, <1>4, <1>5, <3>1
    <3>3. h + low \in 0 .. Ten - 1
      BY <1>1, <2>3
    <3> QED BY <1>1, <3>2, <3>3
  <2> QED
    BY <1>1, <2>1, <2>2, <2>3
<1>7. h * Nibble + l + ((Nibble - Ten) * low + (Nibble - Ten) * Nibble * carry)
        = (h + low - Ten * carry) * Nibble + (l - Ten * low) + Nibble * Nibble * carry
  BY <1>1, SumAdjusted
<1> QED
  BY <1>3, <1>6, <1>7 DEF Six, Byte

\* And of a difference.
LEMMA DifferenceOfDigits ==
    ASSUME NEW h \in -(Ten - 1) .. Ten - 1, NEW l \in -Ten .. Ten - 1,
           NEW low \in 0 .. 1, low = Bit(l < 0),
           NEW borrow \in 0 .. 1, borrow = Bit(h * Nibble + l < 0)
    PROVE  /\ h - low + Ten * borrow \in 0 .. Ten - 1 /\ l + Ten * low \in 0 .. Ten - 1
           /\ h * Nibble + l - (Six * low + Six * Nibble * borrow)
                = (h - low + Ten * borrow) * Nibble + (l + Ten * low) - Byte * borrow
<1>1. /\ Nibble \in Nat /\ Ten \in Nat /\ 2 <= Ten /\ Ten <= Nibble
      /\ h \in Int /\ l \in Int /\ low \in {0, 1} /\ borrow \in {0, 1}
  BY NibbleType
<1>2. /\ l < 0 => low = 1
      /\ ~(l < 0) => low = 0
  BY DEF Bit
<1>3. l + Ten * low \in 0 .. Ten - 1
  BY <1>1, <1>2
<1>4. /\ h * Nibble + l < 0 => borrow = 1
      /\ ~(h * Nibble + l < 0) => borrow = 0
  BY DEF Bit
<1>5. h * Nibble \in Int
  BY <1>1
<1>6. h - low + Ten * borrow \in 0 .. Ten - 1
  <2>1. CASE h >= 1
    <3>1. 1 * Nibble <= h * Nibble
      BY <1>1, <2>1, Multiples
    <3>2. borrow = 0
      BY <1>1, <1>4, <1>5, <3>1
    <3>3. h - low \in 0 .. Ten - 1
      BY <1>1, <2>1
    <3> QED BY <1>1, <3>2, <3>3
  <2>2. CASE h = 0
    <3>1. borrow = low
      BY <1>1, <1>2, <1>4, <2>2
    <3>2. low = 0 => h - low + Ten * low \in 0 .. Ten - 1
      BY <1>1, <2>2
    <3>3. low = 1 => h - low + Ten * low \in 0 .. Ten - 1
      BY <1>1, <2>2
    <3> QED BY <1>1, <3>1, <3>2, <3>3
  <2>3. CASE h <= -1
    <3>1. h * Nibble <= (-1) * Nibble
      BY <1>1, <2>3, Multiples
    <3>2. borrow = 1
      BY <1>1, <1>4, <1>5, <3>1
    <3>3. h - low + Ten \in 0 .. Ten - 1
      BY <1>1, <2>3
    <3> QED BY <1>1, <3>2, <3>3
  <2> QED
    BY <1>1, <2>1, <2>2, <2>3
<1>7. h * Nibble + l - ((Nibble - Ten) * low + (Nibble - Ten) * Nibble * borrow)
        = (h - low + Ten * borrow) * Nibble + (l + Ten * low) - Nibble * Nibble * borrow
  BY <1>1, DifferenceAdjusted
<1> QED
  BY <1>3, <1>6, <1>7 DEF Six, Byte

\* The number that two digits stand for.
DecimalValue(byte) == (byte \div Nibble) * Ten + (byte % Nibble)

\* Digits put together: their nibbles are they, so their number is theirs.
LEMMA PutTogether ==
    ASSUME NEW h \in 0 .. Ten - 1, NEW l \in 0 .. Ten - 1, NEW v, v = h * Nibble + l
    PROVE  v \in 0 .. Byte - 1 /\ Decimal(v) /\ DecimalValue(v) = h * Ten + l
<1>1. h \in 0 .. Nibble - 1 /\ l \in 0 .. Nibble - 1
  BY NibbleType
<1>2. v \in 0 .. Byte - 1 /\ v \div Nibble = h /\ v % Nibble = l
  BY <1>1, TwoNibbles
<1> QED
  BY <1>2, NibbleType DEF Decimal, DecimalValue

\* ABCD.
LEMMA PackedSum ==
    ASSUME NEW s \in 0 .. Byte - 1, Decimal(s), NEW d \in 0 .. Byte - 1, Decimal(d),
           NEW x \in 0 .. 1, NEW r,
           r = (d + s + x + (Six * Bit(LowDigitCarries(s, d, x))
                             + Six * Nibble * Bit(d + s + x > NinetyNine))) % Byte
    PROVE  /\ r \in 0 .. Byte - 1 /\ Decimal(r)
           /\ DecimalValue(r) = DecimalValue(d) + DecimalValue(s) + x
                                  - Bit(d + s + x > NinetyNine) * (Ten * Ten)
<1> DEFINE low == Bit(LowDigitCarries(s, d, x))
           carry == Bit(d + s + x > NinetyNine)
           dh == d \div Nibble
           dl == d % Nibble
           sh == s \div Nibble
           sl == s % Nibble
           h  == dh + sh
           l  == dl + sl + x
           H  == h + low - Ten * carry
           L  == l - Ten * low
<1>1. /\ dh \in 0 .. Ten - 1 /\ dl \in 0 .. Ten - 1 /\ d = dh * Nibble + dl
      /\ sh \in 0 .. Ten - 1 /\ sl \in 0 .. Ten - 1 /\ s = sh * Nibble + sl
  BY NibblesOf
<1>2. /\ low = Bit(l >= Ten) /\ low \in 0 .. 1
      /\ carry = Bit(d + s + x > NinetyNine) /\ carry \in 0 .. 1
      /\ r = (d + s + x + (Six * low + Six * Nibble * carry)) % Byte
  <2>1. low = Bit(l >= Ten) /\ carry = Bit(d + s + x > NinetyNine)
    BY Zenon DEF LowDigitCarries
  <2>2. low \in 0 .. 1 /\ carry \in 0 .. 1
    BY DEF Bit
  <2>3. r = (d + s + x + (Six * low + Six * Nibble * carry)) % Byte
    BY Zenon
  <2> QED BY <2>1, <2>2, <2>3, Zenon
<1> HIDE DEF low, carry
<1>3. DecimalValue(d) = dh * Ten + dl /\ DecimalValue(s) = sh * Ten + sl
  BY DEF DecimalValue
<1> HIDE DEF dh, dl, sh, sl
<1>4. h \in 0 .. 2 * Ten - 2 /\ l \in 0 .. 2 * Ten - 1
  BY <1>1, NibbleType
<1>5. d + s + x = h * Nibble + l
  <2>1. h * Nibble = dh * Nibble + sh * Nibble
    BY <1>1, NibbleType
  <2>2. dh * Nibble \in Int /\ sh * Nibble \in Int
    BY <1>1, NibbleType
  <2> QED BY <1>1, <2>1, <2>2, NibbleType
<1>6. /\ H \in 0 .. Ten - 1 /\ L \in 0 .. Ten - 1
      /\ d + s + x + (Six * low + Six * Nibble * carry) = H * Nibble + L + Byte * carry
  <2>1. carry = Bit(h * Nibble + l > NinetyNine)
    BY <1>2, <1>5, Zenon
  <2> HIDE DEF h, l
  <2>2. h * Nibble + l + (Six * low + Six * Nibble * carry) = H * Nibble + L + Byte * carry
    BY <1>2, <1>4, <2>1, SumOfDigits
  <2>3. H \in 0 .. Ten - 1 /\ L \in 0 .. Ten - 1
    BY <1>2, <1>4, <2>1, SumOfDigits
  <2> DEFINE adjust == Six * low + Six * Nibble * carry
  <2>4. /\ adjust \in Int /\ h * Nibble \in Int /\ l \in Int
        /\ d \in Int /\ s \in Int /\ x \in Int
    BY <1>2, <1>4, NibbleType DEF Six, Byte
  <2> HIDE DEF adjust
  <2>5. d + s + x + adjust = h * Nibble + l + adjust
    BY <1>5, <2>4
  <2> QED BY <2>2, <2>3, <2>5, Zenon DEF adjust
<1>7. h * Ten + l - carry * (Ten * Ten) = H * Ten + L
  <2>1. h \in Int /\ l \in Int /\ low \in Int /\ carry \in Int /\ Ten \in Int
    BY <1>2, <1>4, NibbleType
  <2> HIDE DEF h, l
  <2> QED BY <2>1
<1>8. h * Ten = dh * Ten + sh * Ten /\ dh * Ten \in Int /\ sh * Ten \in Int
  BY <1>1, NibbleType
<1> HIDE DEF H, L
<1> DEFINE v == H * Nibble + L
<1>9. v \in 0 .. Byte - 1 /\ Decimal(v) /\ DecimalValue(v) = H * Ten + L
  BY <1>6, PutTogether
<1> HIDE DEF v
<1>10. r = v
  <2>1. v % Byte = v /\ (v + Byte) % Byte = v
    BY <1>9, WrapsAround
  <2>2. Byte * carry \in {0, Byte} /\ v \in Int /\ Byte \in Int
    BY <1>2, <1>9, NibbleType DEF Byte
  <2>3. r = (v + Byte * carry) % Byte
    BY <1>2, <1>6 DEF v
  <2>4. v + 0 = v
    BY <2>2
  <2> QED BY <2>1, <2>2, <2>3, <2>4
<1>11. /\ carry * (Ten * Ten) \in Int /\ dl \in Int /\ sl \in Int /\ x \in Int
  BY <1>1, <1>2, NibbleType
<1>12. h * Ten + l - carry * (Ten * Ten)
         = DecimalValue(d) + DecimalValue(s) + x - carry * (Ten * Ten)
  <2> DEFINE out == carry * (Ten * Ten)
  <2>1. h * Ten + l = DecimalValue(d) + DecimalValue(s) + x
    BY <1>3, <1>8, <1>11
  <2>2. /\ h * Ten \in Int /\ l \in Int /\ out \in Int /\ x \in Int
        /\ DecimalValue(d) \in Int /\ DecimalValue(s) \in Int
    BY <1>3, <1>8, <1>11
  <2> HIDE DEF h, l, out
  <2>3. h * Ten + l - out = DecimalValue(d) + DecimalValue(s) + x - out
    BY <2>1, <2>2
  <2> QED BY <2>3 DEF out
<1> QED
  BY <1>7, <1>9, <1>10, <1>12 DEF carry

\* SBCD, and NBCD which subtracts from zero.
LEMMA PackedDifference ==
    ASSUME NEW s \in 0 .. Byte - 1, Decimal(s), NEW d \in 0 .. Byte - 1, Decimal(d),
           NEW x \in 0 .. 1, NEW r,
           r = (d - s - x - (Six * Bit(LowDigitBorrows(s, d, x))
                             + Six * Nibble * Bit(d - s - x < 0))) % Byte
    PROVE  /\ r \in 0 .. Byte - 1 /\ Decimal(r)
           /\ DecimalValue(r) = DecimalValue(d) - DecimalValue(s) - x
                                  + Bit(d - s - x < 0) * (Ten * Ten)
<1> DEFINE low == Bit(LowDigitBorrows(s, d, x))
           borrow == Bit(d - s - x < 0)
           dh == d \div Nibble
           dl == d % Nibble
           sh == s \div Nibble
           sl == s % Nibble
           h  == dh - sh
           l  == dl - sl - x
           H  == h - low + Ten * borrow
           L  == l + Ten * low
<1>1. /\ dh \in 0 .. Ten - 1 /\ dl \in 0 .. Ten - 1 /\ d = dh * Nibble + dl
      /\ sh \in 0 .. Ten - 1 /\ sl \in 0 .. Ten - 1 /\ s = sh * Nibble + sl
  BY NibblesOf
<1>2. /\ low = Bit(l < 0) /\ low \in 0 .. 1
      /\ borrow = Bit(d - s - x < 0) /\ borrow \in 0 .. 1
      /\ r = (d - s - x - (Six * low + Six * Nibble * borrow)) % Byte
  <2>1. low = Bit(l < 0) /\ borrow = Bit(d - s - x < 0)
    BY Zenon DEF LowDigitBorrows
  <2>2. low \in 0 .. 1 /\ borrow \in 0 .. 1
    BY DEF Bit
  <2>3. r = (d - s - x - (Six * low + Six * Nibble * borrow)) % Byte
    BY Zenon
  <2> QED BY <2>1, <2>2, <2>3, Zenon
<1> HIDE DEF low, borrow
<1>3. DecimalValue(d) = dh * Ten + dl /\ DecimalValue(s) = sh * Ten + sl
  BY DEF DecimalValue
<1> HIDE DEF dh, dl, sh, sl
<1>4. h \in -(Ten - 1) .. Ten - 1 /\ l \in -Ten .. Ten - 1
  BY <1>1, NibbleType
<1>5. d - s - x = h * Nibble + l
  <2>1. h * Nibble = dh * Nibble - sh * Nibble
    BY <1>1, NibbleType
  <2>2. dh * Nibble \in Int /\ sh * Nibble \in Int
    BY <1>1, NibbleType
  <2> QED BY <1>1, <2>1, <2>2, NibbleType
<1>6. /\ H \in 0 .. Ten - 1 /\ L \in 0 .. Ten - 1
      /\ d - s - x - (Six * low + Six * Nibble * borrow) = H * Nibble + L - Byte * borrow
  <2>1. borrow = Bit(h * Nibble + l < 0)
    BY <1>2, <1>5, Zenon
  <2> HIDE DEF h, l
  <2>2. h * Nibble + l - (Six * low + Six * Nibble * borrow) = H * Nibble + L - Byte * borrow
    BY <1>2, <1>4, <2>1, DifferenceOfDigits
  <2>3. H \in 0 .. Ten - 1 /\ L \in 0 .. Ten - 1
    BY <1>2, <1>4, <2>1, DifferenceOfDigits
  <2> DEFINE adjust == Six * low + Six * Nibble * borrow
  <2>4. /\ adjust \in Int /\ h * Nibble \in Int /\ l \in Int
        /\ d \in Int /\ s \in Int /\ x \in Int
    BY <1>2, <1>4, NibbleType DEF Six, Byte
  <2> HIDE DEF adjust
  <2>5. d - s - x - adjust = h * Nibble + l - adjust
    <3> DEFINE high == h * Nibble
    <3>1. d - s - x = high + l /\ high \in Int
      BY <1>5, <2>4
    <3> HIDE DEF high
    <3>2. d - s - x - adjust = high + l - adjust
      BY <2>4, <3>1
    <3> QED BY <3>2 DEF high
  <2> QED BY <2>2, <2>3, <2>5, Zenon DEF adjust
<1>7. h * Ten + l + borrow * (Ten * Ten) = H * Ten + L
  <2>1. h \in Int /\ l \in Int /\ low \in Int /\ borrow \in Int /\ Ten \in Int
    BY <1>2, <1>4, NibbleType
  <2> HIDE DEF h, l
  <2> QED BY <2>1
<1>8. h * Ten = dh * Ten - sh * Ten /\ dh * Ten \in Int /\ sh * Ten \in Int
  BY <1>1, NibbleType
<1> HIDE DEF H, L
<1> DEFINE v == H * Nibble + L
<1>9. v \in 0 .. Byte - 1 /\ Decimal(v) /\ DecimalValue(v) = H * Ten + L
  BY <1>6, PutTogether
<1> HIDE DEF v
<1>10. r = v
  <2>1. v % Byte = v /\ (v - Byte) % Byte = v
    BY <1>9, WrapsAround
  <2>2. Byte * borrow \in {0, Byte} /\ v \in Int /\ Byte \in Int
    BY <1>2, <1>9, NibbleType DEF Byte
  <2>3. r = (v - Byte * borrow) % Byte
    <3>1. H * Nibble \in Int /\ L \in Int
      BY <1>6, NibbleType
    <3>2. v - Byte * borrow = H * Nibble + L - Byte * borrow
      BY <2>2, <3>1 DEF v
    <3> QED BY <1>2, <1>6, <3>2, Zenon
  <2>4. v - 0 = v
    BY <2>2
  <2> QED BY <2>1, <2>2, <2>3, <2>4
<1>11. /\ borrow * (Ten * Ten) \in Int /\ dl \in Int /\ sl \in Int /\ x \in Int
  BY <1>1, <1>2, NibbleType
<1>12. h * Ten + l + borrow * (Ten * Ten)
         = DecimalValue(d) - DecimalValue(s) - x + borrow * (Ten * Ten)
  <2> DEFINE out == borrow * (Ten * Ten)
  <2>1. h * Ten + l = DecimalValue(d) - DecimalValue(s) - x
    BY <1>3, <1>8, <1>11
  <2>2. /\ h * Ten \in Int /\ l \in Int /\ out \in Int /\ x \in Int
        /\ DecimalValue(d) \in Int /\ DecimalValue(s) \in Int
    BY <1>3, <1>8, <1>11
  <2> HIDE DEF h, l, out
  <2>3. h * Ten + l + out = DecimalValue(d) - DecimalValue(s) - x + out
    BY <2>1, <2>2
  <2> QED BY <2>3 DEF out
<1> QED
  BY <1>7, <1>9, <1>10, <1>12 DEF borrow

\* Both, as the processor executes them.
LEMMA PackedExact ==
    ASSUME NEW f \in Flags, NEW s \in 0 .. Byte - 1, Decimal(s),
           NEW d \in 0 .. Byte - 1, Decimal(d), NEW subtract \in BOOLEAN,
           NEW e, e = PackedBcd(f, s, d, subtract)
    PROVE  /\ e.result \in 0 .. Byte - 1 /\ Decimal(e.result)
           /\ e.flags \in Flags
           /\ DecimalValue(e.result) =
                IF subtract
                  THEN DecimalValue(d) - DecimalValue(s) - Bit(f.x) + Bit(e.flags.x) * (Ten * Ten)
                  ELSE DecimalValue(d) + DecimalValue(s) + Bit(f.x) - Bit(e.flags.x) * (Ten * Ten)
           /\ e.flags.z <=> f.z /\ e.result = 0
<1> DEFINE x == Bit(f.x)
<1>1. x \in 0 .. 1 /\ Six \in Int /\ Nibble \in Int /\ NinetyNine \in Int /\ s \in Int /\ d \in Int
  BY NibbleType DEF Bit, Six, NinetyNine, Byte
<1>2. ASSUME NEW carry \in BOOLEAN, NEW r, e = [result |-> r, flags |-> BcdFlags(f, r, carry)]
      PROVE  /\ e.result = r /\ e.flags \in Flags /\ e.flags.x = carry
             /\ e.flags.z <=> f.z /\ e.result = 0
  <2>1. e.result = r /\ e.flags = [f EXCEPT !.x = carry, !.z = StickyZero(f, r), !.c = carry]
    <3> DEFINE after == BcdFlags(f, r, carry)
    <3>1. after = [f EXCEPT !.x = carry, !.z = StickyZero(f, r), !.c = carry]
      BY Zenon DEF BcdFlags
    <3> HIDE DEF after
    <3>2. e.result = r /\ e.flags = after
      BY <1>2 DEF after
    <3> QED BY <3>1, <3>2, Zenon
  <2>2. StickyZero(f, r) \in BOOLEAN /\ (StickyZero(f, r) <=> f.z /\ r = 0)
    BY Zenon DEF StickyZero
  <2> HIDE DEF StickyZero
  <2> QED BY <2>1, <2>2, Zenon DEF Flags
<1> HIDE DEF x
<1>3. CASE subtract
  <2> DEFINE carry == d - s - x < 0
             low   == LowDigitBorrows(s, d, x)
             r     == (d - s - x - (Six * Bit(low) + Six * Nibble * Bit(carry))) % Byte
  <2>1. e = [result |-> r, flags |-> BcdFlags(f, r, carry)]
    BY <1>3, Zenon DEF PackedBcd, x
  <2>2. carry \in BOOLEAN /\ Bit(carry) \in 0 .. 1 /\ Bit(low) \in 0 .. 1
    BY <1>1 DEF Bit
  <2>3. /\ r \in 0 .. Byte - 1 /\ Decimal(r)
        /\ DecimalValue(r) = DecimalValue(d) - DecimalValue(s) - x + Bit(carry) * (Ten * Ten)
    BY <1>1, PackedDifference, Zenon
  <2> HIDE DEF carry, r
  <2>4. /\ e.result = r /\ e.flags \in Flags /\ e.flags.x = carry
        /\ e.flags.z <=> f.z /\ e.result = 0
    BY <1>2, <2>1, <2>2, Zenon
  <2> QED BY <1>3, <2>3, <2>4, Zenon DEF x
<1>4. CASE ~subtract
  <2> DEFINE carry == d + s + x > NinetyNine
             low   == LowDigitCarries(s, d, x)
             r     == (d + s + x + (Six * Bit(low) + Six * Nibble * Bit(carry))) % Byte
  <2>1. e = [result |-> r, flags |-> BcdFlags(f, r, carry)]
    BY <1>4, Zenon DEF PackedBcd, x
  <2>2. carry \in BOOLEAN /\ Bit(carry) \in 0 .. 1 /\ Bit(low) \in 0 .. 1
    BY <1>1 DEF Bit
  <2>3. /\ r \in 0 .. Byte - 1 /\ Decimal(r)
        /\ DecimalValue(r) = DecimalValue(d) + DecimalValue(s) + x - Bit(carry) * (Ten * Ten)
    BY <1>1, PackedSum, ZenonT(60)
  <2> HIDE DEF carry, r
  <2>4. /\ e.result = r /\ e.flags \in Flags /\ e.flags.x = carry
        /\ e.flags.z <=> f.z /\ e.result = 0
    BY <1>2, <2>1, <2>2, Zenon
  <2> QED BY <1>4, <2>3, <2>4, Zenon DEF x
<1> QED
  BY <1>3, <1>4

\* Words and their values.
LEMMA ValuesFit ==
    ASSUME program \in Program, NEW w \in Operands
    PROVE  /\ Base \in Nat /\ Base >= 2
           /\ ValueOf(w) \in 0 .. Base - 1
           /\ ValueOf(w) = 0 <=> w = 0
<1>1. CASE ~program.decimal
  <2>1. Base = Modulus /\ ValueOf(w) = w /\ w \in Word
    BY <1>1, Zenon DEF Base, ValueOf, Operands
  <2> QED BY <2>1, ModulusType DEF Word
<1>2. CASE program.decimal
  <2> DEFINE h == w \div Nibble
             l == w % Nibble
  <2>1. Base = Ten * Ten /\ ValueOf(w) = h * Ten + l
    BY <1>2, Zenon DEF Base, ValueOf
  <2>2. w \in 0 .. Byte - 1 /\ Decimal(w)
    BY <1>2 DEF Operands
  <2>3. h \in 0 .. Ten - 1 /\ l \in 0 .. Ten - 1 /\ w = h * Nibble + l
    BY <2>2, NibblesOf
  <2> HIDE DEF h, l
  <2>4. Ten \in Nat /\ Ten >= 2 /\ Nibble \in Nat /\ Nibble >= 2
    BY NibbleType
  <2>5. h * Ten <= (Ten - 1) * Ten /\ 2 * Ten <= Ten * Ten
    BY <2>3, <2>4, Multiples
  <2>6. (Ten - 1) * Ten = Ten * Ten - Ten /\ h * Ten \in Nat /\ Ten * Ten \in Nat
    BY <2>3, <2>4
  <2>7. CASE h = 0
    BY <2>1, <2>3, <2>4, <2>5, <2>6, <2>7
  <2>8. CASE h # 0
    <3>1. 1 * Ten <= h * Ten /\ 1 * Nibble <= h * Nibble
      BY <2>3, <2>4, <2>8, Multiples
    <3>2. h * Nibble \in Nat
      BY <2>3, <2>4
    <3> QED BY <2>1, <2>3, <2>4, <2>5, <2>6, <3>1, <3>2
  <2> QED BY <2>7, <2>8
<1>3. program.decimal \in BOOLEAN
  BY DEF Program
<1> QED
  BY <1>1, <1>2, <1>3

\* Zero is a word of either kind.
LEMMA ZeroIsOperand == 0 \in Operands
<1>1. 0 \in Word
  BY ModulusType DEF Word
<1>2. 0 \in 0 .. Byte - 1 /\ Decimal(0)
  <2>1. 0 \in 0 .. Ten - 1 /\ 0 = 0 * Nibble + 0
    BY NibbleType
  <2> QED BY <2>1, PutTogether
<1> QED
  BY <1>1, <1>2, Zenon DEF Operands

\* Whatever the chain executes on a word.
LEMMA ExecutedExact ==
    ASSUME NEW s \in Operands, NEW d \in Operands, program \in Program,
           program.kind = "neg" => d = 0, flags \in Flags, length \in Nat
    PROVE  WordIsExact(s, d, Executed(s, d))
<1> DEFINE e == Executed(s, d)
<1> SUFFICES WordIsExact(s, d, e)
  OBVIOUS
<1>1. CASE ~program.decimal
  <2>1. s \in Word /\ d \in Word
    BY <1>1, Zenon DEF Operands
  <2>2. BinaryExact(s, d, e)
    BY <1>1, <2>1, BinaryExecuted
  <2> HIDE DEF e
  <2> QED BY <1>1, <2>2, Zenon DEF BinaryExact, WordIsExact, Operands, ValueOf, Base
<1>2. CASE program.decimal
  <2>1. /\ s \in 0 .. Byte - 1 /\ Decimal(s) /\ d \in 0 .. Byte - 1 /\ Decimal(d)
        /\ Subtract \in BOOLEAN
    BY <1>2 DEF Operands, Subtract
  <2>2. e = PackedBcd(flags, s, d, Subtract)
    BY <1>2, Zenon DEF Executed
  <2> DEFINE sub == Subtract
  <2> HIDE DEF e, sub
  <2>3. /\ e.result \in 0 .. Byte - 1 /\ Decimal(e.result)
        /\ e.flags \in Flags
        /\ DecimalValue(e.result) =
             IF sub
               THEN DecimalValue(d) - DecimalValue(s) - Bit(flags.x) + Bit(e.flags.x) * (Ten * Ten)
               ELSE DecimalValue(d) + DecimalValue(s) + Bit(flags.x) - Bit(e.flags.x) * (Ten * Ten)
        /\ e.flags.z <=> flags.z /\ e.result = 0
    <3>1. sub \in BOOLEAN /\ e = PackedBcd(flags, s, d, sub)
      BY <2>1, <2>2, Zenon DEF sub
    <3> QED BY <2>1, <3>1, PackedExact
  <2>4. Looks /\ CarryOf = Bit(flags.x)
    <3>1. program.extended
      BY <1>2 DEF Program
    <3> QED BY <3>1, Zenon DEF Looks, CarryOf
  <2>5. /\ ValueOf(e.result) = DecimalValue(e.result) /\ ValueOf(d) = DecimalValue(d)
        /\ ValueOf(s) = DecimalValue(s) /\ Base = Ten * Ten
    BY <1>2, Zenon DEF ValueOf, DecimalValue, Base
  <2>6. e.result \in Operands
    BY <1>2, <2>3 DEF Operands
  <2> QED BY <2>3, <2>4, <2>5, <2>6, Zenon DEF WordIsExact, sub
<1>3. program.decimal \in BOOLEAN
  BY DEF Program
<1> QED
  BY <1>1, <1>2, <1>3
----------------------------------------------------------------------------
(* Numbers.                                                                *)

LEMMA NumberBound ==
    ASSUME NEW w \in Nat \ {0}, NEW n \in 0 .. w - 1, NEW m \in Nat, m >= 2,
           NEW digit \in 0 .. m - 1
    PROVE  /\ w * m \in Nat \ {0}
           /\ n + digit * w \in 0 .. w * m - 1
           /\ n + digit * w = 0 <=> n = 0 /\ digit = 0
<1>1. digit \in Nat /\ m \in Nat /\ m - 1 - digit \in Nat
  OBVIOUS
<1>2. digit * w \in Nat /\ (m - 1 - digit) * w \in Nat /\ w * m \in Nat
  BY <1>1
<1>3. (m - 1 - digit) * w = w * m - w - digit * w
  BY <1>1
<1>4. digit # 0 => digit * w >= w
  <2>1. (digit - 1) * w = digit * w - w
    BY <1>1
  <2>2. digit # 0 => digit - 1 \in Nat /\ (digit - 1) * w \in Nat
    BY <1>1
  <2> QED BY <1>1, <1>2, <2>1, <2>2
<1>5. digit = 0 => digit * w = 0
  BY <1>1
<1> QED
  BY <1>1, <1>2, <1>3, <1>4, <1>5

\* A further word of a sum, and of a difference.
LEMMA SumStep ==
    ASSUME NEW w \in Int, NEW R \in Int, NEW r \in Int, NEW Dst \in Int, NEW Src \in Int,
           NEW d \in Int, NEW s \in Int, NEW C \in Int, NEW c \in Int, NEW x \in Int,
           NEW m \in Int, R = Dst + Src + C - c * w, r = d + s + c - x * m
    PROVE  R + r * w = (Dst + d * w) + (Src + s * w) + C - x * (w * m)
<1>1. r * w = d * w + s * w + c * w - x * (w * m)
  OBVIOUS
<1> QED
  BY <1>1

LEMMA DifferenceStep ==
    ASSUME NEW w \in Int, NEW R \in Int, NEW r \in Int, NEW Dst \in Int, NEW Src \in Int,
           NEW d \in Int, NEW s \in Int, NEW C \in Int, NEW c \in Int, NEW x \in Int,
           NEW m \in Int, R = Dst - Src - C + c * w, r = d - s - c + x * m
    PROVE  R + r * w = (Dst + d * w) - (Src + s * w) - C + x * (w * m)
<1>1. r * w = d * w - s * w - c * w + x * (w * m)
  OBVIOUS
<1> QED
  BY <1>1
----------------------------------------------------------------------------
(* The chain.                                                              *)

\* Before the first word: nothing is there, Z is set, and X is what was found.
FreshChain ==
    length = 0 => /\ weight = 1 /\ source = 0 /\ destination = 0 /\ result = 0
                  /\ carryIn = IF program.extended THEN Bit(flags.x) ELSE 0
                  /\ flags.z /\ ~disturbed

NumberTypes ==
    /\ carryIn \in 0 .. 1
    /\ weight \in Nat \ {0}
    /\ source \in 0 .. weight - 1
    /\ destination \in 0 .. weight - 1
    /\ result \in 0 .. weight - 1
    /\ length \in 0 .. Digits

ChainTypes ==
    /\ program \in Programs
    /\ flags \in Flags
    /\ disturbed \in BOOLEAN

IInv == ChainTypes /\ NumberTypes /\ FreshChain /\ ChainIsExact /\ ZeroIsSticky

LEMMA InitEstablishes == Init => IInv
<1> SUFFICES ASSUME Init PROVE IInv
  OBVIOUS
<1>1. Bit(flags.x) \in 0 .. 1
  BY DEF Bit
<1>2. NumberTypes
  BY <1>1, MultiPrecisionAssumption DEF Init, NumberTypes
<1>3. flags \in Flags
  BY Zenon DEF Init, Flags
<1>4. ChainTypes
  BY <1>3, Zenon DEF Init, ChainTypes
<1>5. length = 0 /\ flags.z /\ ~disturbed
  BY Zenon DEF Init
<1>6. FreshChain
  BY <1>5, Zenon DEF Init, FreshChain
<1>7. ~Started
  BY <1>5 DEF Started
<1> QED
  BY <1>2, <1>4, <1>6, <1>7, Zenon DEF IInv, ChainIsExact, ZeroIsSticky

\* What the instruction finds, before the first word as well as between words.
LEMMA CarryHeld ==
    ASSUME IInv
    PROVE  /\ CarryOf \in 0 .. 1
           /\ result = IF Subtract THEN destination - source - carryIn + CarryOf * weight
                       ELSE destination + source + carryIn - CarryOf * weight
<1>1. Bit(flags.x) \in 0 .. 1
  BY DEF Bit
<1>2. CarryOf \in 0 .. 1
  <2>1. Looks \in BOOLEAN /\ 0 \in 0 .. 1
    BY DEF Looks
  <2> QED BY <1>1, <2>1, Zenon DEF CarryOf
<1>3. CASE length = 0
  <2>1. ~(length > 0)
    BY <1>3
  <2>2. CarryOf = carryIn
    BY <1>3, <2>1, Zenon DEF IInv, FreshChain, CarryOf, Looks
  <2> QED BY <1>2, <1>3, <2>2 DEF IInv, FreshChain
<1>4. CASE length > 0
  <2>1. CarryOf = Bit(flags.x)
    BY <1>4, Zenon DEF CarryOf, Looks
  <2> QED BY <1>2, <1>4, <2>1, Zenon DEF IInv, ChainIsExact, Started
<1> QED
  BY <1>3, <1>4 DEF IInv, NumberTypes

LEMMA NextWordPreserves ==
    ASSUME IInv, NEW s \in Operands, NEW d \in Operands,
           program.kind = "neg" => d = 0, NextWord(s, d)
    PROVE  IInv'
<1> DEFINE e == Executed(s, d)
<1>1. program \in Program /\ flags \in Flags /\ length \in Nat
  <2>1. length \in Nat
    BY MultiPrecisionAssumption DEF IInv, NumberTypes
  <2> QED BY <2>1, MultiPrecisionAssumption, Zenon DEF IInv, ChainTypes
<1>2. /\ Base \in Nat /\ Base >= 2
      /\ ValueOf(s) \in 0 .. Base - 1 /\ ValueOf(d) \in 0 .. Base - 1
  BY <1>1, ValuesFit
<1>3. WordIsExact(s, d, e)
  BY <1>1, ExecutedExact
<1>4. /\ flags' = e.flags
      /\ result' = result + ValueOf(e.result) * weight
      /\ source' = source + ValueOf(s) * weight
      /\ destination' = destination + ValueOf(d) * weight
      /\ weight' = weight * Base
      /\ UNCHANGED <<program, carryIn, disturbed>>
  BY Zenon DEF NextWord
<1>5. length < Digits /\ length' = length + 1
  BY DEF NextWord
<1> HIDE DEF e
<1> DEFINE r == ValueOf(e.result)
<1>0. r \in 0 .. Base - 1 /\ (r = 0 <=> e.result = 0)
  <2>1. e.result \in Operands
    BY <1>3, Zenon DEF WordIsExact
  <2> QED BY <1>1, <2>1, ValuesFit
<1> HIDE DEF r
<1>6. NumberTypes'
  <2>1. /\ weight \in Nat \ {0} /\ source \in 0 .. weight - 1
        /\ destination \in 0 .. weight - 1 /\ result \in 0 .. weight - 1
        /\ carryIn \in 0 .. 1 /\ length \in 0 .. Digits
    BY DEF IInv, NumberTypes
  <2>2. result' = result + r * weight
    BY <1>4 DEF r
  <2>3. weight' \in Nat \ {0} /\ source' \in 0 .. weight' - 1
    BY <1>2, <1>4, <2>1, NumberBound
  <2>4. destination' \in 0 .. weight' - 1 /\ result' \in 0 .. weight' - 1
    BY <1>0, <1>2, <1>4, <2>1, <2>2, NumberBound
  <2>5. carryIn' \in 0 .. 1 /\ length' \in 0 .. Digits
    BY <1>4, <1>5, <2>1, MultiPrecisionAssumption
  <2> QED BY <2>3, <2>4, <2>5 DEF NumberTypes
<1>7. ChainTypes'
  BY <1>3, <1>4, Zenon DEF IInv, ChainTypes, WordIsExact
<1>8. length' > 0 /\ length' # 0
  BY <1>1, <1>5
<1>9. FreshChain'
  BY <1>8, Zenon DEF FreshChain
<1>10. ChainIsExact'
  <2> DEFINE x == Bit(flags'.x)
  <2>1. x \in Int /\ Base \in Int
    BY <1>2 DEF Bit
  <2>2. /\ result \in Int /\ source \in Int /\ destination \in Int /\ weight \in Int
        /\ carryIn \in Int /\ ValueOf(s) \in Int /\ ValueOf(d) \in Int /\ r \in Int
    BY <1>0, <1>2 DEF IInv, NumberTypes
  <2>3. CarryOf \in Int
    BY CarryHeld
  <2>4. Subtract' = Subtract
    BY <1>4, Zenon DEF Subtract
  <2>5. CASE Subtract
    <3>1. result = destination - source - carryIn + CarryOf * weight
      BY <2>5, CarryHeld, Zenon
    <3>2. r = ValueOf(d) - ValueOf(s) - CarryOf + x * Base
      BY <1>3, <1>4, <2>5, Zenon DEF WordIsExact, r
    <3>3. result' = destination' - source' - carryIn' + x * weight'
      <4> HIDE DEF x
      <4>1. result' = result + r * weight
        BY <1>4 DEF r
      <4> QED BY <1>4, <2>1, <2>2, <2>3, <3>1, <3>2, <4>1, DifferenceStep
    <3> QED BY <2>4, <2>5, <3>3, Zenon DEF ChainIsExact
  <2>6. CASE ~Subtract
    <3>1. result = destination + source + carryIn - CarryOf * weight
      BY <2>6, CarryHeld, Zenon
    <3>2. r = ValueOf(d) + ValueOf(s) + CarryOf - x * Base
      BY <1>3, <1>4, <2>6, Zenon DEF WordIsExact, r
    <3>3. result' = destination' + source' + carryIn' - x * weight'
      <4> HIDE DEF x
      <4>1. result' = result + r * weight
        BY <1>4 DEF r
      <4> QED BY <1>4, <2>1, <2>2, <2>3, <3>1, <3>2, <4>1, SumStep
    <3> QED BY <2>4, <2>6, <3>3, Zenon DEF ChainIsExact
  <2> QED BY <2>5, <2>6
<1>11. ZeroIsSticky'
  <2>1. result' = 0 <=> result = 0 /\ e.result = 0
    <3>1. result' = result + r * weight
      BY <1>4 DEF r
    <3> QED BY <1>0, <1>2, <3>1, NumberBound DEF IInv, NumberTypes
  <2>2. flags'.z <=> (Looks => flags.z) /\ e.result = 0
    BY <1>3, <1>4, Zenon DEF WordIsExact
  <2>3. ~disturbed => ((Looks => flags.z) <=> result = 0)
    <3>1. CASE length = 0
      BY <3>1, Zenon DEF IInv, FreshChain
    <3>2. CASE length > 0
      BY <3>2, Zenon DEF IInv, ZeroIsSticky, Started, Looks
    <3> QED BY <1>1, <3>1, <3>2
  <2> QED BY <1>4, <2>1, <2>2, <2>3, Zenon DEF ZeroIsSticky
<1> QED
  BY <1>6, <1>7, <1>9, <1>10, <1>11, Zenon DEF IInv

LEMMA DisturbPreserves ==
    ASSUME IInv, NEW s \in Word, NEW d \in Word, Disturb(s, d)
    PROVE  IInv'
<1>1. /\ UNCHANGED <<program, carryIn, weight, source, destination, result, length>>
      /\ disturbed' = TRUE
      /\ length # 0
  BY DEF Disturb
<1>2. flags \in Flags
  BY DEF IInv, ChainTypes
<1>3. flags' \in Flags /\ flags'.x = flags.x
  <2> DEFINE r == Masked(d - s)
  <2>1. r \in Word
    BY ModulusType DEF Masked, Word
  <2>2. CASE flags' = Compare(flags, s, d)
    <3>1. flags' = SubFlags(flags, s, d, r, FALSE)
      BY <2>2, Zenon DEF Compare
    <3> HIDE DEF r
    <3>2. SubFlags(flags, s, d, r, FALSE) \in Flags
      BY <1>2, <2>1, SubFlagsType
    <3>3. SubFlags(flags, s, d, r, FALSE).x = flags.x
      BY Zenon DEF SubFlags
    <3> QED BY <3>1, <3>2, <3>3, Zenon
  <2>3. CASE flags' = LogicalFlags(flags, s)
    <3>1. flags' = [flags EXCEPT !.n = Negative(s), !.z = (s = 0), !.v = FALSE, !.c = FALSE]
      BY <2>3, Zenon DEF LogicalFlags
    <3>2. Negative(s) \in BOOLEAN /\ (s = 0) \in BOOLEAN
      BY FlagParts, Zenon
    <3> QED BY <1>2, <3>1, <3>2, Zenon DEF Flags
  <2> QED BY <2>2, <2>3 DEF Disturb
<1>4. NumberTypes'
  BY <1>1 DEF IInv, NumberTypes
<1>5. ChainTypes'
  BY <1>1, <1>3, Zenon DEF IInv, ChainTypes
<1>6. FreshChain' /\ ZeroIsSticky'
  BY <1>1, Zenon DEF FreshChain, ZeroIsSticky
<1>7. ChainIsExact'
  BY <1>1, <1>3, Zenon DEF IInv, ChainIsExact, Started, Subtract
<1> QED
  BY <1>4, <1>5, <1>6, <1>7, Zenon DEF IInv

LEMMA NextPreserves == IInv /\ [Next]_vars => IInv'
<1> SUFFICES ASSUME IInv, [Next]_vars PROVE IInv'
  OBVIOUS
<1>1. ASSUME NEW s \in Operands, NEW d \in IF program.kind = "neg" THEN {0} ELSE Operands,
             NextWord(s, d)
      PROVE  IInv'
  <2>1. d \in Operands /\ (program.kind = "neg" => d = 0)
    BY ZeroIsOperand, Zenon
  <2> QED BY <1>1, <2>1, NextWordPreserves
<1>2. ASSUME NEW s \in Word, NEW d \in Word, Disturb(s, d)
      PROVE  IInv'
  BY <1>2, DisturbPreserves
<1>3. CASE UNCHANGED vars
  BY <1>3, Zenon DEF vars, IInv, NumberTypes, ChainTypes, FreshChain, ChainIsExact,
                     ZeroIsSticky, Started, Subtract
<1> QED
  BY <1>1, <1>2, <1>3 DEF Next

\* The invariant holds of every chain, binary or decimal.
THEOREM InductiveInvariant == Spec => []IInv
<1>1. IInv /\ [Next]_vars => IInv'
  BY NextPreserves
<1> QED
  BY <1>1, InitEstablishes, PTL DEF Spec

\* The sum, the difference or the negation of numbers of every length, in words of
\* every width or in decimal digits, is exact, carry included, whatever stands
\* between the words.
THEOREM ChainCorrect == Spec => []ChainIsExact
<1>1. IInv => ChainIsExact
  BY DEF IInv
<1> QED
  BY <1>1, InductiveInvariant, PTL

\* Z at the end of a chain tells whether the whole number is zero.
THEOREM ZeroCorrect == Spec => []ZeroIsSticky
<1>1. IInv => ZeroIsSticky
  BY DEF IInv
<1> QED
  BY <1>1, InductiveInvariant, PTL

\* The numbers fit in the words so far, and the flags are flags.
THEOREM TypeCorrect == Spec => []TypeOK
<1>1. IInv => TypeOK
  BY DEF IInv, NumberTypes, ChainTypes, TypeOK
<1> QED
  BY <1>1, InductiveInvariant, PTL
----------------------------------------------------------------------------
(* The flags of the last word are those of the whole numbers: a number has *)
(* the sign of its highest word.                                           *)

NumberNegative(number) == 2 * number >= weight

\* Overflow() on the whole numbers.
NumberOverflow ==
    /\ Subtract # (NumberNegative(source) <=> NumberNegative(destination))
    /\ ~(NumberNegative(destination) <=> NumberNegative(result))

\* C, N and V as X, Z and the result are in IInv.
FlagsFollow ==
    Binary /\ program.kind # "neg" =>
        /\ flags.c <=> flags.x
        /\ flags.n <=> NumberNegative(result)
        /\ flags.v <=> NumberOverflow

\* So that there are as many numbers with a sign as without.
WeightIsEven ==
    Started /\ ~program.decimal => \E half \in Nat \ {0} : weight = 2 * half

FlagInv == FlagsFollow /\ WeightIsEven

\* The other flags of an instruction on one word.
LEMMA WordFlags ==
    ASSUME NEW s \in Word, NEW d \in Word, program \in Program, ~program.decimal,
           program.kind # "neg", NEW e, e = Executed(s, d)
    PROVE  /\ e.flags.c <=> e.flags.x
           /\ e.flags.n <=> Negative(e.result)
           /\ e.flags.v <=> Overflow(s, d, e.result, Subtract)
<1>1. Subtract \in BOOLEAN
  BY Zenon DEF Subtract
<1>2. CASE Looks
  <2> DEFINE r == e.result
  <2>1. e.flags = ExtendArithmeticFlags(flags, s, d, r, Subtract)
    BY <1>2, Zenon DEF Executed, Looks, ExtendArithmetic
  <2> HIDE DEF r
  <2>2. /\ ExtendArithmeticFlags(flags, s, d, r, Subtract).c
              = ExtendArithmeticFlags(flags, s, d, r, Subtract).x
        /\ ExtendArithmeticFlags(flags, s, d, r, Subtract).n = Negative(r)
        /\ ExtendArithmeticFlags(flags, s, d, r, Subtract).v = Overflow(s, d, r, Subtract)
    BY Zenon DEF ExtendArithmeticFlags
  <2> QED BY <2>1, <2>2, Zenon DEF r
<1>3. CASE ~Looks
  <2> DEFINE r == e.result
  <2>1. e = AddSub(flags, s, d, Subtract)
    BY <1>3, Zenon DEF Executed, Looks
  <2>2. CASE Subtract
    <3>1. e.flags = SubFlags(flags, s, d, r, TRUE)
      BY <2>1, <2>2 DEF AddSub
    <3>2. Subtract = TRUE
      BY <1>1, <2>2
    <3> HIDE DEF r
    <3>3. /\ SubFlags(flags, s, d, r, TRUE).c = SubFlags(flags, s, d, r, TRUE).x
          /\ SubFlags(flags, s, d, r, TRUE).n = Negative(r)
          /\ SubFlags(flags, s, d, r, TRUE).v = Overflow(s, d, r, TRUE)
      BY Zenon DEF SubFlags
    <3> QED BY <3>1, <3>2, <3>3, Zenon DEF r
  <2>3. CASE ~Subtract
    <3>1. e.flags = AddFlags(s, d, r)
      BY <2>1, <2>3 DEF AddSub
    <3>2. Subtract = FALSE
      BY <1>1, <2>3
    <3> HIDE DEF r
    <3>3. /\ AddFlags(s, d, r).c = AddFlags(s, d, r).x
          /\ AddFlags(s, d, r).n = Negative(r)
          /\ AddFlags(s, d, r).v = Overflow(s, d, r, FALSE)
      BY Zenon DEF AddFlags
    <3> QED BY <3>1, <3>2, <3>3, Zenon DEF r
  <2> QED BY <2>2, <2>3
<1> QED
  BY <1>2, <1>3

\* The sign of a number is that of its highest word.
LEMMA HighestWord ==
    ASSUME NEW w \in Nat \ {0}, NEW n \in 0 .. w - 1, NEW digit \in Word
    PROVE  2 * (n + digit * w) >= w * Modulus <=> Negative(digit)
<1>1. digit \in Nat /\ SignBit \in Nat \ {0} /\ w * Modulus = 2 * (w * SignBit)
  BY ArithmeticAssumption, ModulusType DEF Word, Modulus
<1>2. digit * w \in Nat /\ w * SignBit \in Nat
  BY <1>1
<1>3. CASE digit >= SignBit
  <2>1. digit - SignBit \in Nat /\ (digit - SignBit) * w \in Nat
    BY <1>1, <1>3
  <2>2. (digit - SignBit) * w = digit * w - w * SignBit
    BY <1>1
  <2> QED BY <1>1, <1>2, <1>3, <2>1, <2>2 DEF Negative
<1>4. CASE ~(digit >= SignBit)
  <2>1. SignBit - 1 - digit \in Nat /\ (SignBit - 1 - digit) * w \in Nat
    BY <1>1, <1>4
  <2>2. (SignBit - 1 - digit) * w = w * SignBit - w - digit * w
    BY <1>1
  <2> QED BY <1>1, <1>2, <1>4, <2>1, <2>2 DEF Negative
<1> QED
  BY <1>3, <1>4

LEMMA NextWordKeepsFlags ==
    ASSUME IInv, ~program.decimal, NEW s \in Operands, NEW d \in Operands,
           program.kind = "neg" => d = 0, NextWord(s, d)
    PROVE  FlagInv'
<1> DEFINE e == Executed(s, d)
<1>1. program \in Program /\ ~program.decimal /\ flags \in Flags /\ length \in Nat
  <2>1. length \in Nat
    BY MultiPrecisionAssumption DEF IInv, NumberTypes
  <2> QED BY <2>1, MultiPrecisionAssumption, Zenon DEF IInv, ChainTypes
<1>2. s \in Word /\ d \in Word
  BY <1>1, Zenon DEF Operands
<1>3. e.result \in Word
  <2>1. BinaryExact(s, d, e)
    BY <1>1, <1>2, BinaryExecuted
  <2> QED BY <2>1, Zenon DEF BinaryExact
<1>4. /\ flags' = e.flags
      /\ result' = result + e.result * weight
      /\ source' = source + s * weight
      /\ destination' = destination + d * weight
      /\ weight' = weight * Modulus
      /\ program' = program
  BY <1>1, Zenon DEF NextWord, ValueOf, Base
<1>5. program.kind # "neg" =>
        /\ e.flags.c <=> e.flags.x
        /\ e.flags.n <=> Negative(e.result)
        /\ e.flags.v <=> Overflow(s, d, e.result, Subtract)
  BY <1>1, <1>2, WordFlags
<1> HIDE DEF e
<1>6. WeightIsEven'
  <2>1. SignBit \in Nat \ {0} /\ weight \in Nat \ {0}
    BY ArithmeticAssumption DEF IInv, NumberTypes
  <2>2. weight * SignBit \in Nat \ {0}
    BY <2>1
  <2>3. weight' = 2 * (weight * SignBit)
    BY <1>4, <2>1 DEF Modulus
  <2> QED BY <2>2, <2>3 DEF WeightIsEven
<1>7. FlagsFollow'
  <2>1. /\ weight \in Nat \ {0} /\ source \in 0 .. weight - 1
        /\ destination \in 0 .. weight - 1 /\ result \in 0 .. weight - 1
    BY DEF IInv, NumberTypes
  <2>2. e.result \in Word
    BY <1>3
  <2>3. NumberNegative(source)' <=> Negative(s)
    BY <1>2, <1>4, <2>1, HighestWord DEF NumberNegative
  <2>4. NumberNegative(destination)' <=> Negative(d)
    BY <1>2, <1>4, <2>1, HighestWord DEF NumberNegative
  <2>5. NumberNegative(result)' <=> Negative(e.result)
    BY <1>4, <2>1, <2>2, HighestWord DEF NumberNegative
  <2>6. Subtract' = Subtract
    BY <1>4, Zenon DEF Subtract
  <2>7. Overflow(s, d, e.result, Subtract) <=> NumberOverflow'
    BY <2>3, <2>4, <2>5, <2>6, Zenon DEF Overflow, SameSign, NumberOverflow
  <2> QED BY <1>4, <1>5, <2>5, <2>7, Zenon DEF FlagsFollow, Binary
<1> QED
  BY <1>6, <1>7, Zenon DEF FlagInv

LEMMA NextKeepsFlags == IInv /\ FlagInv /\ [Next]_vars => FlagInv'
<1> SUFFICES ASSUME IInv, FlagInv, [Next]_vars PROVE FlagInv'
  OBVIOUS
<1>1. ASSUME NEW s \in Operands, NEW d \in IF program.kind = "neg" THEN {0} ELSE Operands,
             NextWord(s, d)
      PROVE  FlagInv'
  <2>1. d \in Operands /\ (program.kind = "neg" => d = 0)
    BY ZeroIsOperand, Zenon
  <2>2. CASE ~program.decimal
    BY <1>1, <2>1, <2>2, NextWordKeepsFlags
  <2>3. CASE program.decimal
    <3>1. program' = program
      BY <1>1, Zenon DEF NextWord
    <3> QED BY <2>3, <3>1, Zenon DEF FlagInv, FlagsFollow, WeightIsEven, Binary
  <2> QED BY <2>2, <2>3
<1>2. ASSUME NEW s \in Word, NEW d \in Word, Disturb(s, d)
      PROVE  FlagInv'
  BY <1>2, Zenon DEF Disturb, FlagInv, FlagsFollow, WeightIsEven, Started, Binary
<1>3. CASE UNCHANGED vars
  BY <1>3, Zenon DEF vars, FlagInv, FlagsFollow, WeightIsEven, Started, Binary, Subtract,
                     NumberOverflow, NumberNegative
<1> QED
  BY <1>1, <1>2, <1>3 DEF Next
----------------------------------------------------------------------------
(* What the branches see.                                                  *)

\* Two numbers and a carry, by their signs and the carry out of them.
LEMMA SignsOfSum ==
    ASSUME NEW h \in Nat \ {0}, NEW Src \in 0 .. 2 * h - 1, NEW Dst \in 0 .. 2 * h - 1,
           NEW R \in 0 .. 2 * h - 1, NEW C \in 0 .. 1, NEW X \in {0, 2 * h},
           R = Dst + Src + C - X
    PROVE  ((Src >= h <=> Dst >= h) /\ ~(Dst >= h <=> R >= h))
             <=> (IF Dst >= h THEN Dst - 2 * h ELSE Dst) + (IF Src >= h THEN Src - 2 * h ELSE Src) + C
                   # (IF R >= h THEN R - 2 * h ELSE R)
OBVIOUS

LEMMA SignsOfDifference ==
    ASSUME NEW h \in Nat \ {0}, NEW Src \in 0 .. 2 * h - 1, NEW Dst \in 0 .. 2 * h - 1,
           NEW R \in 0 .. 2 * h - 1, NEW C \in 0 .. 1, NEW X \in {0, 2 * h},
           R = Dst - Src - C + X
    PROVE  (~(Src >= h <=> Dst >= h) /\ ~(Dst >= h <=> R >= h))
             <=> (IF Dst >= h THEN Dst - 2 * h ELSE Dst) - (IF Src >= h THEN Src - 2 * h ELSE Src) - C
                   # (IF R >= h THEN R - 2 * h ELSE R)
OBVIOUS

\* The signs of the numbers, when there is a half to compare with.
LEMMA SignedValues ==
    ASSUME IInv, FlagInv, Binary
    PROVE  \E h \in Nat \ {0} :
             /\ weight = 2 * h
             /\ source \in 0 .. 2 * h - 1 /\ destination \in 0 .. 2 * h - 1
             /\ result \in 0 .. 2 * h - 1
             /\ \A number \in Int :
                  /\ NumberNegative(number) <=> number >= h
                  /\ SignedValue(number) = IF number >= h THEN number - 2 * h ELSE number
<1>1. PICK h \in Nat \ {0} : weight = 2 * h
  BY DEF FlagInv, WeightIsEven, Binary
<1>2. ASSUME NEW number \in Int
      PROVE  /\ NumberNegative(number) <=> number >= h
             /\ SignedValue(number) = IF number >= h THEN number - 2 * h ELSE number
  BY <1>1 DEF NumberNegative, SignedValue
<1> QED
  BY <1>1, <1>2 DEF IInv, NumberTypes

LEMMA OverflowFollows == IInv /\ FlagInv => OverflowIsExact
<1> SUFFICES ASSUME IInv, FlagInv, Binary, program.kind # "neg" PROVE OverflowShown
  BY Zenon DEF OverflowIsExact
<1> DEFINE X == Bit(flags.x) * weight
<1>1. Started /\ (flags.v <=> NumberOverflow)
  BY Zenon DEF Binary, FlagInv, FlagsFollow
<1>2. PICK h \in Nat \ {0} :
             /\ weight = 2 * h
             /\ source \in 0 .. 2 * h - 1 /\ destination \in 0 .. 2 * h - 1
             /\ result \in 0 .. 2 * h - 1
             /\ \A number \in Int :
                  /\ NumberNegative(number) <=> number >= h
                  /\ SignedValue(number) = IF number >= h THEN number - 2 * h ELSE number
  BY <1>1, SignedValues
<1>3. carryIn \in 0 .. 1 /\ source \in Int /\ destination \in Int /\ result \in Int
  BY <1>2 DEF IInv, NumberTypes
<1>4. /\ NumberNegative(source) <=> source >= h
      /\ NumberNegative(destination) <=> destination >= h
      /\ NumberNegative(result) <=> result >= h
  BY <1>2, <1>3
<1>5. /\ SignedValue(source) = IF source >= h THEN source - 2 * h ELSE source
      /\ SignedValue(destination) = IF destination >= h THEN destination - 2 * h ELSE destination
      /\ SignedValue(result) = IF result >= h THEN result - 2 * h ELSE result
  BY <1>2, <1>3
<1>6. X \in {0, 2 * h}
  BY <1>2 DEF Bit
<1>7. CASE Subtract
  <2>1. result = destination - source - carryIn + X
    BY <1>1, <1>7, Zenon DEF IInv, ChainIsExact
  <2> HIDE DEF X
  <2>2. (~(source >= h <=> destination >= h) /\ ~(destination >= h <=> result >= h))
             <=> SignedValue(destination) - SignedValue(source) - carryIn # SignedValue(result)
    BY <1>2, <1>3, <1>5, <1>6, <2>1, SignsOfDifference
  <2>3. NumberOverflow <=> ~(source >= h <=> destination >= h) /\ ~(destination >= h <=> result >= h)
    BY <1>4, <1>7, Zenon DEF NumberOverflow, Subtract
  <2> QED BY <1>1, <1>7, <2>2, <2>3, Zenon DEF OverflowShown
<1>8. CASE ~Subtract
  <2>1. result = destination + source + carryIn - X
    BY <1>1, <1>8, Zenon DEF IInv, ChainIsExact
  <2> HIDE DEF X
  <2>2. ((source >= h <=> destination >= h) /\ ~(destination >= h <=> result >= h))
             <=> SignedValue(destination) + SignedValue(source) + carryIn # SignedValue(result)
    BY <1>2, <1>3, <1>5, <1>6, <2>1, SignsOfSum
  <2>3. NumberOverflow <=> (source >= h <=> destination >= h) /\ ~(destination >= h <=> result >= h)
    BY <1>4, <1>8, Zenon DEF NumberOverflow, Subtract
  <2> QED BY <1>1, <1>8, <2>2, <2>3, Zenon DEF OverflowShown
<1> QED
  BY <1>7, <1>8

\* HI and the other conditions that compare without a sign follow from C and Z, GE
\* and the others from N, V and Z.
LEMMA ConditionsFollow == IInv /\ FlagInv => ConditionsCompare
<1> SUFFICES ASSUME IInv, FlagInv, Binary, program.kind = "sub", carryIn = 0
             PROVE  LET d == SignedValue(destination)
                        s == SignedValue(source)
                    IN  /\ ConditionTrue("HI", flags) <=> destination > source
                        /\ ConditionTrue("LS", flags) <=> destination <= source
                        /\ ConditionTrue("CC", flags) <=> destination >= source
                        /\ ConditionTrue("CS", flags) <=> destination < source
                        /\ ConditionTrue("NE", flags) <=> destination # source
                        /\ ConditionTrue("EQ", flags) <=> destination = source
                        /\ ConditionTrue("GE", flags) <=> d >= s
                        /\ ConditionTrue("LT", flags) <=> d < s
                        /\ ConditionTrue("GT", flags) <=> d > s
                        /\ ConditionTrue("LE", flags) <=> d <= s
  BY DEF ConditionsCompare
<1> DEFINE d == SignedValue(destination)
           s == SignedValue(source)
           r == SignedValue(result)
<1>1. /\ Started /\ ~disturbed /\ program.kind # "neg" /\ Subtract
      /\ flags.c <=> flags.x
      /\ flags.n <=> NumberNegative(result)
      /\ flags.z <=> result = 0
  BY Zenon DEF Binary, FlagInv, FlagsFollow, IInv, ZeroIsSticky, Subtract
<1>2. PICK h \in Nat \ {0} :
             /\ weight = 2 * h
             /\ source \in 0 .. 2 * h - 1 /\ destination \in 0 .. 2 * h - 1
             /\ result \in 0 .. 2 * h - 1
             /\ \A number \in Int :
                  /\ NumberNegative(number) <=> number >= h
                  /\ SignedValue(number) = IF number >= h THEN number - 2 * h ELSE number
  BY <1>1, SignedValues
<1>3. /\ d = IF destination >= h THEN destination - 2 * h ELSE destination
      /\ s = IF source >= h THEN source - 2 * h ELSE source
      /\ r = IF result >= h THEN result - 2 * h ELSE result
      /\ NumberNegative(result) <=> result >= h
  BY <1>2
<1>4. result = destination - source - carryIn + Bit(flags.x) * weight
  BY <1>1, Zenon DEF IInv, ChainIsExact
<1>5. flags \in Flags
  BY DEF IInv, ChainTypes
<1>6. /\ flags.x \in BOOLEAN /\ flags.n \in BOOLEAN /\ flags.z \in BOOLEAN
      /\ flags.v \in BOOLEAN /\ flags.c \in BOOLEAN
  BY <1>5, Zenon DEF Flags
<1>7. flags.v <=> d - s - carryIn # r
  BY <1>1, OverflowFollows, Zenon DEF OverflowIsExact, Binary, OverflowShown
<1> HIDE DEF d, s, r
<1>8. flags.c <=> destination < source
  <2>1. CASE flags.x
    <3>1. Bit(flags.x) = 1
      BY <2>1 DEF Bit
    <3>2. destination < source
      BY <1>2, <1>4, <3>1
    <3> QED BY <1>1, <2>1, <3>2, Zenon
  <2>2. CASE ~flags.x
    <3>1. Bit(flags.x) = 0
      BY <2>2 DEF Bit
    <3>2. ~(destination < source)
      BY <1>2, <1>4, <3>1
    <3> QED BY <1>1, <2>2, <3>2, Zenon
  <2> QED BY <2>1, <2>2
<1>9. flags.z <=> destination = source
  <2>1. Bit(flags.x) \in {0, 1}
    BY DEF Bit
  <2>2. Bit(flags.x) * weight \in {0, 2 * h}
    BY <1>2, <2>1
  <2>3. result = 0 <=> destination = source
    <3> DEFINE X == Bit(flags.x) * weight
    <3> HIDE DEF X
    <3> QED BY <1>2, <1>4, <2>2 DEF X
  <2> QED BY <1>1, <2>3, Zenon
<1>10. flags.n <=> r < 0
  <2>1. NumberNegative(result) <=> r < 0
    BY <1>2, <1>3
  <2> QED BY <1>1, <2>1, Zenon
<1>11. flags.n = flags.v <=> d >= s
  <2>1. (r < 0 <=> d - s - carryIn # r) <=> d >= s
    <3> DEFINE X == Bit(flags.x) * weight
    <3>1. X \in {0, 2 * h}
      BY <1>2 DEF Bit
    <3>2. result = destination - source + X
      <4>1. X \in Int
        BY <3>1
      <4> HIDE DEF X
      <4> QED BY <1>2, <1>4, <4>1 DEF X
    <3> HIDE DEF X
    <3> QED BY <1>2, <1>3, <3>1, <3>2
  <2> QED BY <1>6, <1>7, <1>10, <2>1, Zenon
<1>12. (d = s <=> destination = source) /\ d \in Int /\ s \in Int
  BY <1>2, <1>3
<1>13. /\ ConditionTrue("HI", flags) = (~flags.c /\ ~flags.z)
       /\ ConditionTrue("LS", flags) = (flags.c \/ flags.z)
       /\ ConditionTrue("CC", flags) = ~flags.c
       /\ ConditionTrue("CS", flags) = flags.c
       /\ ConditionTrue("NE", flags) = ~flags.z
       /\ ConditionTrue("EQ", flags) = flags.z
       /\ ConditionTrue("GE", flags) = (flags.n = flags.v)
       /\ ConditionTrue("LT", flags) = ~(flags.n = flags.v)
       /\ ConditionTrue("GT", flags) = (~flags.z /\ flags.n = flags.v)
       /\ ConditionTrue("LE", flags) = (flags.z \/ ~(flags.n = flags.v))
  BY DEF ConditionTrue, GreaterOrEqual
<1> QED
  <2>1. source \in Int /\ destination \in Int
    BY <1>2
  <2>2. /\ destination > source <=> ~(destination < source) /\ ~(destination = source)
        /\ destination <= source <=> destination < source \/ destination = source
        /\ destination >= source <=> ~(destination < source)
        /\ d < s <=> ~(d >= s)
        /\ d > s <=> ~(destination = source) /\ d >= s
        /\ d <= s <=> destination = source \/ ~(d >= s)
    BY <1>12, <2>1
  <2> QED BY <1>8, <1>9, <1>11, <1>13, <2>2, Zenon DEF d, s

\* At the end of a binary chain of any length V tells whether the whole number fits, and the
\* ten conditions of a branch after a subtraction compare the whole numbers.
THEOREM FlagsCorrect == Spec => []FlagsAreExact
<1>1. Init => FlagInv
  BY DEF Init, FlagInv, FlagsFollow, WeightIsEven, Started, Binary
<1>2. IInv /\ FlagInv => FlagsAreExact
  BY OverflowFollows, ConditionsFollow DEF FlagsAreExact
<1> QED
  BY <1>1, <1>2, NextKeepsFlags, InductiveInvariant, PTL DEF Spec
----------------------------------------------------------------------------
(* Quotients and remainders.                                               *)

\* A number is its quotient times the divisor and its remainder.
LEMMA QuotientOf ==
    ASSUME NEW a \in Nat, NEW b \in Nat \ {0}
    PROVE  /\ a \div b \in Nat /\ a % b \in 0 .. b - 1
           /\ a = (a \div b) * b + (a % b)
<1>1. a \div b \in Int /\ a % b \in 0 .. b - 1 /\ a = b * (a \div b) + (a % b)
  OBVIOUS
<1>2. a \div b \in Nat
  OBVIOUS
<1> QED
  BY <1>1, <1>2

\* A quotient and a remainder put together and taken apart again.
LEMMA PutTogetherAgain ==
    ASSUME NEW b \in Nat \ {0}, NEW q \in Int, NEW r \in 0 .. b - 1
    PROVE  (q * b + r) \div b = q /\ (q * b + r) % b = r
<1>1. (q * b + r) \div b = q
  OBVIOUS
<1>2. (q * b + r) % b = r
  OBVIOUS
<1> QED
  BY <1>1, <1>2

\* No multiple is smaller than its divisor but zero.
LEMMA SmallMultiple ==
    ASSUME NEW k \in Int, NEW b \in Int, D!Abs(k * b) < D!Abs(b)
    PROVE  k = 0
<1> DEFINE d == D!Abs(b)
<1>1. d \in Nat /\ k * b \in Int /\ (b = d \/ b = -d)
  BY DEF D!Abs
<1>2. k * (-d) = -(k * d) /\ k * d \in Int
  BY <1>1
<1>3. D!Abs(k * d) < d
  BY <1>1, <1>2 DEF D!Abs
<1> HIDE DEF d
<1>4. CASE k >= 1
  <2>1. 1 * d <= k * d
    BY <1>1, <1>4, Multiples
  <2> QED BY <2>1, <1>1, <1>2, <1>3 DEF D!Abs
<1>5. CASE k <= -1
  <2>1. k * d <= (-1) * d
    BY <1>1, <1>5, Multiples
  <2>2. (-1) * d = -d
    BY <1>1
  <2> QED BY <2>1, <2>2, <1>1, <1>2, <1>3 DEF D!Abs
<1> QED
  BY <1>4, <1>5

\* A dividend less a multiple of the divisor, of the dividend's sign and smaller
\* than the divisor.
Remains(a, b, q) ==
    /\ D!Abs(a - q * b) < D!Abs(b)
    /\ a - q * b = 0 \/ (a - q * b < 0 <=> a < 0)

LEMMA TruncatedDivides ==
    ASSUME NEW a \in Int, NEW b \in Int \ {0}
    PROVE  D!Truncated(a, b) \in Int /\ Remains(a, b, D!Truncated(a, b))
<1> DEFINE p == D!Abs(a)
           d == D!Abs(b)
           q == p \div d
           m == p % d
           t == D!Truncated(a, b)
<1>1. p \in Nat /\ d \in Nat \ {0}
  BY DEF D!Abs
<1>2. q \in Nat /\ m \in 0 .. d - 1 /\ p = q * d + m
  <2> HIDE DEF p, d
  <2> QED BY <1>1, QuotientOf
<1>3. t = IF a < 0 <=> b < 0 THEN q ELSE -q
  BY DEF D!Truncated
<1>4. p = (IF a < 0 THEN -a ELSE a) /\ d = (IF b < 0 THEN -b ELSE b)
  BY DEF D!Abs
<1> HIDE DEF p, d, q, m, t
<1>5. /\ q * d \in Int /\ (-q) * d = -(q * d)
      /\ q * (-d) = -(q * d) /\ (-q) * (-d) = q * d
  BY <1>1, <1>2
<1>6. t \in Int /\ t * b = IF a < 0 THEN -(q * d) ELSE q * d
  <2>1. CASE a < 0 /\ b < 0
    <3>1. t = q /\ b = -d
      BY <1>1, <1>3, <1>4, <2>1
    <3> QED BY <3>1, <1>2, <1>5, <2>1
  <2>2. CASE a < 0 /\ ~(b < 0)
    <3>1. t = -q /\ b = d
      BY <1>1, <1>3, <1>4, <2>2
    <3> QED BY <3>1, <1>2, <1>5, <2>2
  <2>3. CASE ~(a < 0) /\ b < 0
    <3>1. t = -q /\ b = -d
      BY <1>1, <1>3, <1>4, <2>3
    <3> QED BY <3>1, <1>2, <1>5, <2>3
  <2>4. CASE ~(a < 0) /\ ~(b < 0)
    <3>1. t = q /\ b = d
      BY <1>1, <1>3, <1>4, <2>4
    <3> QED BY <3>1, <1>2, <1>5, <2>4
  <2> QED BY <2>1, <2>2, <2>3, <2>4
<1>7. a - t * b = IF a < 0 THEN -m ELSE m
  BY <1>1, <1>2, <1>4, <1>5, <1>6
<1>8. D!Abs(a - t * b) = m
  BY <1>1, <1>2, <1>7 DEF D!Abs
<1>9. D!Abs(a - t * b) < D!Abs(b)
  <2>1. D!Abs(b) = d
    BY Zenon DEF d
  <2> QED BY <1>1, <1>2, <1>8, <2>1
<1>10. a - t * b = 0 \/ (a - t * b < 0 <=> a < 0)
  BY <1>1, <1>2, <1>7
<1>11. t = D!Truncated(a, b)
  BY Zenon DEF t
<1> QED
  BY <1>6, <1>9, <1>10, <1>11, Zenon DEF Remains

LEMMA OneQuotient ==
    ASSUME NEW a \in Int, NEW b \in Int \ {0}, NEW q \in Int, NEW k \in Int,
           Remains(a, b, q), Remains(a, b, k)
    PROVE  q = k
<1> DEFINE r == a - q * b
           s == a - k * b
<1>1. q * b \in Int /\ k * b \in Int /\ (q - k) * b = q * b - k * b /\ D!Abs(b) \in Int
  BY DEF D!Abs
<1>2. r \in Int /\ s \in Int /\ (q - k) * b = s - r
  BY <1>1
<1>3. /\ D!Abs(r) < D!Abs(b) /\ D!Abs(s) < D!Abs(b)
      /\ r = 0 \/ (r < 0 <=> a < 0)
      /\ s = 0 \/ (s < 0 <=> a < 0)
  BY Zenon DEF Remains
<1> HIDE DEF r, s
<1>4. D!Abs(s - r) < D!Abs(b)
  BY <1>1, <1>2, <1>3 DEF D!Abs
<1>5. q - k = 0
  <2> DEFINE j == q - k
  <2>1. D!Abs(j * b) < D!Abs(b) /\ j \in Int
    BY <1>2, <1>4
  <2> HIDE DEF j
  <2>2. j = 0
    BY <2>1, SmallMultiple
  <2> QED BY <2>2 DEF j
<1> QED
  BY <1>5
\* The values of a register with a sign or without.
Longs == IF signed THEN -(Modulus * SignBit) .. Modulus * SignBit - 1
         ELSE 0 .. Modulus * Modulus - 1

\* Before a division, and after one or many.
DivisionStates ==
    /\ phase \in {"divided", "multiplied"} => divisor # 0
    /\ phase = "divide" =>
           /\ divisionLength = 0 /\ D!HighOf(register) = 0
           /\ dividend = 0 /\ quotient = 0 /\ ~divisionFlags.v
    /\ divisionLength > 0 => ~signed
    /\ phase = "divided" /\ divisionLength = 0 =>
           dividend \in Longs /\ quotient = D!WordOf(D!LowOf(register))

DivisionInv ==
    /\ D!TypeOK /\ DivisionStates
    /\ D!LongDivisionIsExact /\ D!DivisionIsExact /\ D!ProductIsExact
----------------------------------------------------------------------------
(* Words and registers of a division.                                      *)

LEMMA DivisionWords ==
    /\ SignBit \in Nat \ {0} /\ Modulus = 2 * SignBit
    /\ D!Modulus = Modulus /\ D!Mask = Modulus - 1
    /\ D!Word = 0 .. Modulus - 1 /\ D!Register = 0 .. Modulus * Modulus - 1
BY ArithmeticAssumption DEF Modulus, D!Modulus, D!Mask, D!Word, D!Register

LEMMA RegisterOfHalves ==
    ASSUME NEW h \in D!Word, NEW l \in D!Word
    PROVE  /\ h * Modulus + l \in D!Register
           /\ D!HighOf(h * Modulus + l) = h /\ D!LowOf(h * Modulus + l) = l
<1>1. h \in Int /\ 0 <= h /\ h <= Modulus - 1 /\ l \in 0 .. Modulus - 1 /\ Modulus \in Nat \ {0}
  BY DivisionWords
<1>2. h * Modulus <= (Modulus - 1) * Modulus
  BY <1>1, Multiples
<1>3. /\ (Modulus - 1) * Modulus = Modulus * Modulus - Modulus
      /\ Modulus * Modulus \in Int /\ h * Modulus \in Nat
  BY <1>1
<1>4. h * Modulus + l \in 0 .. Modulus * Modulus - 1
  BY <1>1, <1>2, <1>3
<1>5. (h * Modulus + l) \div Modulus = h /\ (h * Modulus + l) % Modulus = l
  BY <1>1, PutTogetherAgain
<1> QED
  BY <1>4, <1>5, DivisionWords, Zenon DEF D!HighOf, D!LowOf

LEMMA HalvesOfRegister ==
    ASSUME NEW r \in D!Register
    PROVE  /\ D!HighOf(r) \in D!Word /\ D!LowOf(r) \in D!Word
           /\ r = D!HighOf(r) * Modulus + D!LowOf(r)
<1> DEFINE h == r \div Modulus
           l == r % Modulus
<1>1. r \in Nat /\ r < Modulus * Modulus /\ Modulus \in Nat \ {0}
  BY DivisionWords
<1>2. h \in Nat /\ l \in 0 .. Modulus - 1 /\ r = h * Modulus + l
  BY <1>1, QuotientOf
<1>3. D!HighOf(r) = h /\ D!LowOf(r) = l
  BY DivisionWords, Zenon DEF D!HighOf, D!LowOf
<1> HIDE DEF h, l
<1>4. h < Modulus
  <2> SUFFICES ASSUME Modulus <= h PROVE FALSE
    BY <1>1, <1>2
  <2>1. Modulus * Modulus <= h * Modulus
    BY <1>1, <1>2, Multiples
  <2>2. h * Modulus \in Nat /\ Modulus * Modulus \in Nat
    BY <1>1, <1>2
  <2> QED BY <1>1, <1>2, <2>1, <2>2
<1>5. h \in D!Word /\ l \in D!Word
  BY <1>1, <1>2, <1>4, DivisionWords
<1> QED
  BY <1>2, <1>3, <1>5

\* A number in the range of a word survives being cut to a word.
LEMMA WordHolds ==
    ASSUME signed \in BOOLEAN, NEW x \in D!QuotientRange
    PROVE  x \in Int /\ x % Modulus \in D!Word /\ D!WordOf(x % Modulus) = x
<1>1. /\ SignBit \in Nat /\ Modulus = 2 * SignBit /\ Modulus \in Nat \ {0}
      /\ D!Modulus = Modulus /\ D!Word = 0 .. Modulus - 1 /\ D!Mask = Modulus - 1
  BY DivisionWords
<1>2. x \in Int /\ (x < 0 => signed)
  BY <1>1 DEF D!QuotientRange
<1>3. signed => -SignBit <= x /\ x < SignBit
  BY <1>1 DEF D!QuotientRange
<1>4. ~signed => x <= Modulus - 1
  BY <1>1 DEF D!QuotientRange
<1>5. x % Modulus = IF x < 0 THEN x + Modulus ELSE x
  <2>1. CASE x < 0
    <3>1. x + Modulus \in 0 .. Modulus - 1 /\ -1 \in Int
      BY <1>1, <1>2, <1>3, <2>1
    <3>2. ((-1) * Modulus + (x + Modulus)) % Modulus = x + Modulus
      BY <1>1, <3>1, PutTogetherAgain
    <3>3. (-1) * Modulus + (x + Modulus) = x
      BY <1>1, <1>2
    <3> QED BY <2>1, <3>2, <3>3
  <2>2. CASE ~(x < 0)
    <3>1. x \in 0 .. Modulus - 1
      BY <1>1, <1>2, <1>3, <1>4, <2>2
    <3> QED BY <1>1, <2>2, <3>1
  <2> QED BY <2>1, <2>2
<1>6. x % Modulus \in D!Word
  BY <1>1, <1>2
<1>7. CASE signed
  <2>1. D!WordOf(x % Modulus) = D!Signed(x % Modulus)
    BY <1>7, Zenon DEF D!WordOf
  <2>2. D!Signed(x % Modulus) = x
    BY <1>1, <1>2, <1>3, <1>5, <1>7 DEF D!Signed, D!Negative
  <2> QED BY <1>2, <1>6, <2>1, <2>2
<1>8. CASE ~signed
  <2>1. D!WordOf(x % Modulus) = x % Modulus
    BY <1>8, Zenon DEF D!WordOf
  <2> QED BY <1>2, <1>5, <1>6, <1>8, <2>1
<1> QED
  BY <1>7, <1>8

\* And what a word stands for is in that range.
LEMMA WordInRange ==
    ASSUME signed \in BOOLEAN, NEW w \in D!Word
    PROVE  /\ D!WordOf(w) \in D!QuotientRange /\ D!WordOf(w) \in Int
           /\ D!WordOf(w) = 0 <=> w = 0
<1>1. /\ SignBit \in Nat \ {0} /\ Modulus = 2 * SignBit /\ w \in Int /\ 0 <= w /\ w < Modulus
      /\ D!Modulus = Modulus /\ D!Mask = Modulus - 1
  BY DivisionWords
<1>2. CASE signed
  <2>1. D!WordOf(w) = D!Signed(w) /\ D!QuotientRange = -SignBit .. SignBit - 1
    BY <1>2, Zenon DEF D!WordOf, D!QuotientRange
  <2>2. D!Signed(w) \in -SignBit .. SignBit - 1 /\ (D!Signed(w) = 0 <=> w = 0)
    BY <1>1 DEF D!Signed, D!Negative
  <2> QED BY <2>1, <2>2
<1>3. CASE ~signed
  <2>1. D!WordOf(w) = w /\ D!QuotientRange = 0 .. D!Mask
    BY <1>3, Zenon DEF D!WordOf, D!QuotientRange
  <2> QED BY <1>1, <2>1
<1> QED
  BY <1>2, <1>3

LEMMA QuotientsAreRange ==
    ASSUME signed \in BOOLEAN PROVE D!Quotients \subseteq D!QuotientRange
<1>1. CASE signed
  <2> SUFFICES ASSUME NEW w \in D!Word PROVE D!Signed(w) \in D!QuotientRange
    BY <1>1, Zenon DEF D!Quotients
  <2>1. D!WordOf(w) = D!Signed(w)
    BY <1>1, Zenon DEF D!WordOf
  <2> QED BY <2>1, WordInRange
<1>2. CASE ~signed
  <2> SUFFICES ASSUME NEW w \in D!Word PROVE w \in D!QuotientRange
    BY <1>2, Zenon DEF D!Quotients
  <2>1. D!WordOf(w) = w
    BY <1>2, Zenon DEF D!WordOf
  <2> QED BY <2>1, WordInRange
<1> QED
  BY <1>1, <1>2

LEMMA SquareOfModulus ==
    /\ Modulus * Modulus \in Nat \ {0} /\ Modulus * SignBit \in Nat
    /\ Modulus * Modulus = 2 * (Modulus * SignBit) /\ SignBit <= Modulus * SignBit
    /\ Modulus <= Modulus * Modulus
<1>1. SignBit \in Nat \ {0} /\ Modulus = 2 * SignBit /\ Modulus \in Nat \ {0}
  BY DivisionWords
<1>2. Modulus * (2 * SignBit) = 2 * (Modulus * SignBit)
  BY <1>1
<1>3. 1 * SignBit <= Modulus * SignBit /\ 1 * Modulus <= Modulus * Modulus
  BY <1>1, Multiples
<1> QED
  BY <1>1, <1>2, <1>3

\* The same of a register.
LEMMA RegisterHolds ==
    ASSUME signed \in BOOLEAN, NEW x \in Longs
    PROVE  /\ x \in Int /\ x % (Modulus * Modulus) \in D!Register
           /\ D!LongOf(x % (Modulus * Modulus)) = x
           /\ x % (Modulus * Modulus) = 0 <=> x = 0
           /\ signed => (x % (Modulus * Modulus) >= Modulus * SignBit <=> x < 0)
<1> DEFINE m == Modulus * Modulus
           s == Modulus * SignBit
<1>1. m \in Nat \ {0} /\ s \in Nat /\ m = 2 * s
  BY SquareOfModulus
<1>2. D!Register = 0 .. m - 1 /\ D!Modulus = Modulus
  BY DivisionWords
<1>3. Longs = IF signed THEN -s .. s - 1 ELSE 0 .. m - 1
  BY Zenon DEF Longs
<1>4. D!SignedRegister(x % m) = IF x % m >= s THEN (x % m) - m ELSE x % m
  BY <1>2, Zenon DEF D!SignedRegister
<1> HIDE DEF m, s
<1>5. x \in Int /\ (signed => -s <= x /\ x < s) /\ (~signed => 0 <= x /\ x < m)
  BY <1>1, <1>3
<1>6. x % m = IF x < 0 THEN x + m ELSE x
  <2>1. CASE x < 0
    <3> DEFINE y == x + m
    <3>1. y \in 0 .. m - 1 /\ y = x + m
      BY <1>1, <1>5, <2>1
    <3> HIDE DEF y
    <3>2. (y - m) % m = y
      BY <1>1, <3>1
    <3>3. y - m = x
      BY <1>1, <1>5, <3>1
    <3> QED BY <2>1, <3>1, <3>2, <3>3
  <2>2. CASE ~(x < 0)
    <3>1. x \in 0 .. m - 1
      BY <1>1, <1>5, <2>2
    <3> QED BY <1>1, <2>2, <3>1
  <2> QED BY <2>1, <2>2
<1>7. x % m \in D!Register
  BY <1>1, <1>2, <1>5, <1>6
<1>8. x % m = 0 <=> x = 0
  BY <1>1, <1>5, <1>6
<1>9. CASE signed
  <2>1. D!LongOf(x % m) = D!SignedRegister(x % m)
    BY <1>9, Zenon DEF D!LongOf
  <2>2. D!SignedRegister(x % m) = x /\ (x % m >= s <=> x < 0)
    BY <1>1, <1>4, <1>5, <1>6, <1>9
  <2> QED BY <1>5, <1>7, <1>8, <2>1, <2>2 DEF m, s
<1>10. CASE ~signed
  <2>1. D!LongOf(x % m) = x % m
    BY <1>10, Zenon DEF D!LongOf
  <2>2. x % m = x
    BY <1>5, <1>6, <1>10
  <2> QED BY <1>5, <1>7, <1>8, <1>10, <2>1, <2>2 DEF m, s
<1> QED
  BY <1>9, <1>10

LEMMA RegisterInRange ==
    ASSUME signed \in BOOLEAN, NEW r \in D!Register
    PROVE  D!LongOf(r) \in Longs
<1> DEFINE m == Modulus * Modulus
           s == Modulus * SignBit
<1>1. m \in Nat \ {0} /\ s \in Nat /\ m = 2 * s
  BY SquareOfModulus
<1>2. D!Register = 0 .. m - 1 /\ D!Modulus = Modulus
  BY DivisionWords
<1>3. Longs = IF signed THEN -s .. s - 1 ELSE 0 .. m - 1
  BY Zenon DEF Longs
<1>4. D!SignedRegister(r) = IF r >= s THEN r - m ELSE r
  BY <1>2, Zenon DEF D!SignedRegister
<1>5. D!LongOf(r) = IF signed THEN D!SignedRegister(r) ELSE r
  BY Zenon DEF D!LongOf
<1> HIDE DEF m, s
<1> QED
  BY <1>1, <1>2, <1>3, <1>4, <1>5

\* A quotient that fits and its remainder are the halves of the register.
LEMMA QuotientFits ==
    ASSUME signed \in BOOLEAN, NEW a \in Longs, NEW b \in D!QuotientRange \ {0},
           NEW q \in D!QuotientRange, Remains(a, b, q),
           NEW g, g = D!Halves(a - q * b, q)
    PROVE  /\ g \in D!Register
           /\ D!WordOf(D!HighOf(g)) = a - q * b /\ D!WordOf(D!LowOf(g)) = q
           /\ D!LowOf(g) = q % Modulus
<1> DEFINE r == a - q * b
<1>1. /\ a \in Int /\ b \in Int /\ q \in Int /\ (~signed => 0 <= a)
      /\ SignBit \in Nat /\ Modulus = 2 * SignBit /\ D!Mask = Modulus - 1
  <2>1. a \in Int /\ (~signed => 0 <= a)
    BY SquareOfModulus DEF Longs
  <2> QED BY <2>1, WordHolds, DivisionWords
<1>2. r \in Int /\ D!Abs(r) < D!Abs(b) /\ (r = 0 \/ (r < 0 <=> a < 0))
  BY <1>1 DEF Remains
<1>3. g = (r % Modulus) * Modulus + (q % Modulus)
  BY DivisionWords, Zenon DEF D!Halves
<1> HIDE DEF r
<1>4. r \in D!QuotientRange
  <2>1. CASE signed
    <3>1. D!QuotientRange = -SignBit .. SignBit - 1
      BY <2>1, Zenon DEF D!QuotientRange
    <3> QED BY <1>1, <1>2, <3>1 DEF D!Abs
  <2>2. CASE ~signed
    <3>1. D!QuotientRange = 0 .. D!Mask
      BY <2>2, Zenon DEF D!QuotientRange
    <3> QED BY <1>1, <1>2, <2>2, <3>1 DEF D!Abs
  <2> QED BY <2>1, <2>2
<1>5. /\ r % Modulus \in D!Word /\ D!WordOf(r % Modulus) = r
      /\ q % Modulus \in D!Word /\ D!WordOf(q % Modulus) = q
  BY <1>4, WordHolds
<1>6. g \in D!Register /\ D!HighOf(g) = r % Modulus /\ D!LowOf(g) = q % Modulus
  BY <1>3, <1>5, RegisterOfHalves
<1> QED
  BY <1>5, <1>6 DEF r
----------------------------------------------------------------------------
(* The steps of a division.                                                *)

LEMMA DivisionFlagsKept ==
    ASSUME NEW f \in D!Flags, NEW w \in D!Word
    PROVE  /\ D!LogicalFlags(f, w) \in D!Flags
           /\ ~D!LogicalFlags(f, w).v
           /\ D!LogicalFlags(f, w).z <=> w = 0
           /\ D!LogicalFlags(f, w).n <=> D!Negative(w)
           /\ [f EXCEPT !.v = TRUE, !.c = FALSE] \in D!Flags
           /\ [f EXCEPT !.v = TRUE, !.c = FALSE].v
<1>1. D!Negative(w) \in BOOLEAN /\ (w = 0) \in BOOLEAN
  <2>1. (w >= SignBit) \in BOOLEAN
    BY DivisionWords
  <2> QED BY <2>1, Zenon DEF D!Negative
<1>2. /\ D!LogicalFlags(f, w) \in D!Flags
      /\ D!LogicalFlags(f, w).v = FALSE
      /\ D!LogicalFlags(f, w).z = (w = 0)
      /\ D!LogicalFlags(f, w).n = D!Negative(w)
  BY <1>1, Zenon DEF D!LogicalFlags, D!Flags
<1>3. /\ [f EXCEPT !.v = TRUE, !.c = FALSE] \in D!Flags
      /\ [f EXCEPT !.v = TRUE, !.c = FALSE].v = TRUE
  BY Zenon DEF D!Flags
<1> QED
  BY <1>2, <1>3, Zenon

\* No division has been done.
LEMMA DivisionInitEstablishes == D!Init => DivisionInv
<1> SUFFICES ASSUME D!Init PROVE DivisionInv
  OBVIOUS
<1>1. /\ signed \in BOOLEAN /\ divisor \in D!Word /\ phase = "divide"
      /\ register = 0 /\ dividend = 0 /\ quotient = 0 /\ divisionLength = 0
  BY Zenon DEF D!Init
<1>2. divisionFlags \in D!Flags /\ ~divisionFlags.v
  BY Zenon DEF D!Init, D!Flags
<1>3. 0 \in D!Register /\ D!HighOf(0) = 0
  <2>1. 0 \in D!Register
    BY DivisionWords, SquareOfModulus
  <2>2. 0 \div Modulus = 0
    BY DivisionWords
  <2> QED BY <2>1, <2>2, DivisionWords, Zenon DEF D!HighOf
<1>4. D!TypeOK
  <2>1. 0 \in 0 .. LongDigits /\ 0 \in Int
    BY ShiftsAndDivisionsAssumption
  <2> QED BY <1>1, <1>2, <1>3, <2>1, Zenon DEF D!TypeOK
<1>5. DivisionStates
  <2>1. ~(0 > 0)
    OBVIOUS
  <2> QED BY <1>1, <1>2, <1>3, <2>1, Zenon DEF DivisionStates
<1>6. D!LongDivisionIsExact /\ D!DivisionIsExact /\ D!ProductIsExact
  BY <1>1, Zenon DEF D!LongDivisionIsExact, D!DivisionIsExact, D!ProductIsExact
<1> QED
  BY <1>4, <1>5, <1>6, Zenon DEF DivisionInv

\* A register divided by a word.
LEMMA DivideWholeKeeps ==
    ASSUME DivisionInv, NEW operand \in D!Register, D!DivideWhole(operand)
    PROVE  DivisionInv'
<1> DEFINE a == D!LongOf(operand)
           b == D!WordOf(divisor)
           q == D!Truncated(a, b)
           g == D!Halves(a - q * b, q)
<1>1. /\ signed \in BOOLEAN /\ divisor \in D!Word /\ divisionFlags \in D!Flags
      /\ register \in D!Register /\ divisionLength \in 0 .. LongDigits
  BY Zenon DEF DivisionInv, D!TypeOK
<1>2. /\ signed' = signed /\ divisor' = divisor /\ divisionLength' = 0
      /\ dividend' = a /\ quotient' = D!WordOf(D!LowOf(register')) /\ divisionLength = 0
  BY Zenon DEF D!DivideWhole
<1>3. D!WordOf(D!LowOf(register))' = D!WordOf(D!LowOf(register'))
  BY <1>2 DEF D!WordOf, D!LowOf
<1>4. /\ D!WordOf(divisor)' = b
      /\ D!LongOf(register)' = D!LongOf(register')
      /\ Longs' = Longs /\ D!Quotients' = D!Quotients
  BY <1>2, Zenon DEF D!WordOf, D!LongOf, D!Quotients, Longs
<1>5. a \in Longs /\ a \in Int
  BY <1>1, RegisterInRange, RegisterHolds
<1>6. D!WordOf(D!HighOf(register))' = D!WordOf(D!HighOf(register'))
  BY <1>2 DEF D!WordOf, D!HighOf
<1>7. ASSUME register' \in D!Register, divisionFlags' \in D!Flags,
             phase' \in {"divided", "trapped"}, phase' = "divided" => divisor # 0
      PROVE  D!TypeOK' /\ DivisionStates' /\ D!LongDivisionIsExact' /\ D!ProductIsExact'
  <2>1. quotient' \in Int
    <3>1. D!LowOf(register') \in D!Word
      BY <1>7, HalvesOfRegister
    <3> QED BY <1>1, <1>2, <3>1, WordInRange
  <2>2. ~(0 > 0) /\ 0 \in 0 .. LongDigits
    BY ShiftsAndDivisionsAssumption
  <2>3. D!TypeOK'
    BY <1>1, <1>2, <1>5, <1>7, <2>1, <2>2, Zenon DEF D!TypeOK
  <2>4. DivisionStates'
    BY <1>2, <1>3, <1>4, <1>5, <1>7, <2>2, Zenon DEF DivisionStates
  <2>5. D!LongDivisionIsExact' /\ D!ProductIsExact'
    BY <1>2, <1>7, <2>2, Zenon DEF D!LongDivisionIsExact, D!ProductIsExact
  <2> QED BY <2>3, <2>4, <2>5
<1>8. CASE divisor = 0
  <2>1. phase' = "trapped" /\ register' = operand /\ divisionFlags' = divisionFlags
    BY <1>8, Zenon DEF D!DivideWhole, D!Divide
  <2>2. D!DivisionIsExact'
    BY <2>1, Zenon DEF D!DivisionIsExact
  <2> QED BY <1>1, <1>7, <2>1, <2>2, Zenon DEF DivisionInv
<1>9. CASE divisor # 0
  <2>1. /\ phase' = "divided"
        /\ IF q \notin D!QuotientRange
             THEN /\ register' = operand
                  /\ divisionFlags' = [divisionFlags EXCEPT !.v = TRUE, !.c = FALSE]
             ELSE /\ register' = g
                  /\ divisionFlags' = D!LogicalFlags(divisionFlags, q % D!Modulus)
    BY <1>9, Zenon DEF D!DivideWhole, D!Divide
  <2>2. b \in D!QuotientRange \ {0} /\ b \in Int \ {0}
    BY <1>1, <1>9, WordInRange
  <2>3. q \in Int /\ Remains(a, b, q)
    <3> HIDE DEF a, b
    <3> QED BY <1>5, <2>2, TruncatedDivides
  <2> HIDE DEF a, b, q, g
  <2>4. CASE q \notin D!QuotientRange
    <3>1. /\ register' = operand /\ divisionFlags' \in D!Flags /\ divisionFlags'.v
      BY <1>1, <2>1, <2>4, DivisionFlagsKept, DivisionWords, Zenon
    <3>2. D!LongOf(register)' = dividend'
      BY <1>2, <1>4, <3>1, Zenon DEF a
    <3>3. ASSUME NEW k \in D!Quotients, NEW r \in -D!Mask .. D!Mask, D!IsDivision(k, r)'
          PROVE  FALSE
      <4>1. a = k * b + r /\ D!Abs(r) < D!Abs(b) /\ (r = 0 \/ (r < 0 <=> a < 0))
        BY <1>2, <1>4, <3>3, Zenon DEF D!IsDivision
      <4>2. k \in D!QuotientRange /\ k \in Int
        BY <1>1, QuotientsAreRange, WordHolds, Zenon
      <4>3. r \in Int /\ k * b \in Int
        BY <2>2, <4>2, DivisionWords
      <4>4. a - k * b = r
        BY <4>1, <4>3
      <4>5. Remains(a, b, k)
        BY <4>1, <4>4, Zenon DEF Remains
      <4>6. k = q
        BY <1>5, <2>2, <2>3, <4>2, <4>5, OneQuotient
      <4> QED BY <2>4, <4>2, <4>6
    <3>4. (\E k \in D!Quotients, r \in -D!Mask .. D!Mask : D!IsDivision(k, r))' => FALSE
      BY <1>4, <3>3, Zenon
    <3>5. D!DivisionIsExact'
      BY <3>1, <3>2, <3>4, Zenon DEF D!DivisionIsExact
    <3> QED BY <1>7, <1>9, <2>1, <3>1, <3>5, Zenon DEF DivisionInv
  <2>5. CASE q \in D!QuotientRange
    <3>1. /\ g \in D!Register
          /\ D!WordOf(D!HighOf(g)) = a - q * b /\ D!WordOf(D!LowOf(g)) = q
          /\ D!LowOf(g) = q % Modulus
      BY <1>1, <1>5, <2>2, <2>3, <2>5, QuotientFits DEF g
    <3>2. D!LowOf(g) \in D!Word
      BY <3>1, HalvesOfRegister
    <3>3. register' = g /\ divisionFlags' = D!LogicalFlags(divisionFlags, D!LowOf(g))
      BY <2>1, <2>5, <3>1, DivisionWords, Zenon
    <3>4. /\ divisionFlags' \in D!Flags /\ ~divisionFlags'.v
          /\ divisionFlags'.z <=> D!LowOf(g) = 0
          /\ divisionFlags'.n <=> D!Negative(D!LowOf(g))
      BY <1>1, <3>2, <3>3, DivisionFlagsKept, Zenon
    <3>5. quotient' = q /\ (q = 0 <=> D!LowOf(g) = 0)
      BY <1>1, <1>2, <3>1, <3>2, <3>3, WordInRange
    <3>6. D!IsDivision(D!WordOf(D!LowOf(register)), D!WordOf(D!HighOf(register)))'
      <4>1. a = q * b + (a - q * b)
        BY <1>5, <2>2, <2>3
      <4>2. /\ D!Abs(a - q * b) < D!Abs(b)
            /\ a - q * b = 0 \/ (a - q * b < 0 <=> a < 0)
        BY <2>3, Zenon DEF Remains
      <4> QED BY <1>2, <1>3, <1>4, <1>6, <3>1, <3>3, <4>1, <4>2, Zenon DEF D!IsDivision
    <3>7. (D!Negative(D!LowOf(register)))' <=> D!Negative(D!LowOf(g))
      BY <3>3 DEF D!Negative, D!LowOf
    <3>8. D!DivisionIsExact'
      BY <3>4, <3>5, <3>6, <3>7, Zenon DEF D!DivisionIsExact
    <3>9. register' \in D!Register
      BY <3>1, <3>3
    <3> QED BY <1>7, <1>9, <2>1, <3>4, <3>8, <3>9, Zenon DEF DivisionInv
  <2> QED BY <2>4, <2>5
<1> QED
  BY <1>8, <1>9

\* The next word of a long number, divided with the remainder so far.
LEMMA DivideNextKeeps ==
    ASSUME DivisionInv, NEW digit \in D!Word, D!DivideNext(digit)
    PROVE  DivisionInv'
<1> DEFINE h == D!HighOf(register)
           a == h * D!Modulus + digit
           q == D!Truncated(a, divisor)
           r == a - q * divisor
           g == D!Halves(r, q)
<1>1. /\ signed \in BOOLEAN /\ divisor \in D!Word /\ divisionFlags \in D!Flags
      /\ register \in D!Register /\ divisionLength \in 0 .. LongDigits
      /\ dividend \in Int /\ quotient \in Int
  BY Zenon DEF DivisionInv, D!TypeOK
<1>2. /\ ~signed /\ divisionLength < LongDigits
      /\ phase = "divide" \/ (phase = "divided" /\ divisionLength > 0)
      /\ dividend' = dividend * D!Modulus + digit
      /\ quotient' = quotient * D!Modulus + D!LowOf(register')
      /\ divisionLength' = divisionLength + 1
      /\ signed' = signed /\ divisor' = divisor
      /\ D!Divide(a)
  BY Zenon DEF D!DivideNext
<1>3. SignBit \in Nat /\ Modulus \in Nat \ {0} /\ D!Modulus = Modulus /\ D!Mask = Modulus - 1
  BY DivisionWords
<1>4. divisor \in Nat /\ divisor <= Modulus - 1 /\ digit \in 0 .. Modulus - 1
  BY <1>1, DivisionWords
<1>5. h \in D!Word /\ h \in Nat
  BY <1>1, HalvesOfRegister, DivisionWords
<1>6. /\ dividend = quotient * divisor + h
      /\ divisor # 0 => h < divisor
      /\ ~divisionFlags.v
  <2>1. CASE phase = "divide"
    <3>1. h = 0 /\ dividend = 0 /\ quotient = 0 /\ ~divisionFlags.v
      BY <2>1, Zenon DEF DivisionInv, DivisionStates
    <3> QED BY <1>4, <3>1
  <2>2. CASE phase = "divided" /\ divisionLength > 0
    BY <2>2, Zenon DEF DivisionInv, D!LongDivisionIsExact
  <2> QED BY <1>2, <2>1, <2>2, Zenon
<1>7. a \in D!Register /\ a \in Nat
  <2>1. h * Modulus + digit \in D!Register
    BY <1>5, RegisterOfHalves
  <2>2. h * Modulus \in Nat
    BY <1>3, <1>5
  <2> QED BY <1>3, <1>4, <2>1, <2>2
<1>8. divisionLength' \in 0 .. LongDigits /\ divisionLength' > 0
  BY <1>1, <1>2, ShiftsAndDivisionsAssumption
<1>9. D!LongOf(a) = a /\ D!WordOf(divisor) = divisor
  BY <1>2, Zenon DEF D!LongOf, D!WordOf
<1>10. ASSUME register' \in D!Register, divisionFlags' \in D!Flags, ~divisionFlags'.v,
              \/ phase' = "trapped"
              \/ /\ phase' = "divided" /\ divisor # 0
                 /\ dividend' = quotient' * divisor + D!HighOf(register')
                 /\ D!HighOf(register') < divisor
       PROVE  DivisionInv'
  <2>1. dividend' \in Int /\ quotient' \in Int
    <3>1. D!LowOf(register') \in Int
      BY <1>10, HalvesOfRegister, DivisionWords
    <3> QED BY <1>1, <1>2, <1>3, <1>4, <3>1
  <2>2. D!TypeOK'
    BY <1>1, <1>2, <1>8, <1>10, <2>1, Zenon DEF D!TypeOK
  <2>3. divisionLength' # 0
    BY <1>8
  <2>4. DivisionStates'
    BY <1>2, <1>8, <1>10, <2>3, Zenon DEF DivisionStates
  <2>5. D!HighOf(register)' = D!HighOf(register')
    BY DEF D!HighOf
  <2>6. D!LongDivisionIsExact'
    BY <1>2, <1>10, <2>5, Zenon DEF D!LongDivisionIsExact
  <2>7. D!DivisionIsExact' /\ D!ProductIsExact'
    BY <1>10, <2>3, Zenon DEF D!DivisionIsExact, D!ProductIsExact
  <2> QED BY <2>2, <2>4, <2>6, <2>7, Zenon DEF DivisionInv
<1>11. CASE divisor = 0
  <2>1. phase' = "trapped" /\ register' = a /\ divisionFlags' = divisionFlags
    BY <1>2, <1>11, Zenon DEF D!Divide
  <2> QED BY <1>1, <1>6, <1>7, <1>10, <2>1
<1>12. CASE divisor # 0
  <2>1. q \in Int /\ Remains(a, divisor, q)
    <3> HIDE DEF a
    <3> QED BY <1>4, <1>7, <1>12, TruncatedDivides
  <2>2. q \in Nat /\ r \in 0 .. divisor - 1 /\ a = q * divisor + r
    <3> HIDE DEF a
    <3>1. q * divisor \in Int /\ r = a - q * divisor
      BY <1>4, <2>1
    <3>2. D!Abs(r) < D!Abs(divisor) /\ (r = 0 \/ (r < 0 <=> a < 0))
      BY <2>1, Zenon DEF Remains
    <3> HIDE DEF r
    <3>3. r \in 0 .. divisor - 1 /\ a = q * divisor + r
      BY <1>4, <1>7, <3>1, <3>2 DEF D!Abs
    <3> HIDE DEF q
    <3>4. ~(q <= -1)
      <4> SUFFICES ASSUME q <= -1 PROVE FALSE
        OBVIOUS
      <4>1. q * divisor <= (-1) * divisor
        BY <1>4, <2>1, Multiples
      <4>2. (-1) * divisor = -divisor
        BY <1>4
      <4> QED BY <1>4, <1>7, <3>1, <3>3, <4>1, <4>2
    <3> QED BY <2>1, <3>3, <3>4 DEF q
  <2>3. q < Modulus
    <3> HIDE DEF a, q, r
    <3> SUFFICES ASSUME Modulus <= q PROVE FALSE
      BY <1>3, <2>2
    <3>1. Modulus * divisor <= q * divisor
      BY <1>3, <1>4, <2>2, Multiples
    <3>2. (h + 1) * Modulus <= divisor * Modulus
      BY <1>3, <1>4, <1>5, <1>6, <1>12, Multiples
    <3>3. /\ (h + 1) * Modulus = h * Modulus + Modulus /\ divisor * Modulus = Modulus * divisor
          /\ h * Modulus \in Int /\ Modulus * divisor \in Int /\ q * divisor \in Int
      BY <1>3, <1>4, <1>5, <2>2
    <3>4. a = h * Modulus + digit
      BY <1>3 DEF a
    <3> QED BY <1>3, <1>4, <2>2, <3>1, <3>2, <3>3, <3>4
  <2> HIDE DEF a, q, r
  <2>4. D!QuotientRange = 0 .. D!Mask
    BY <1>2, Zenon DEF D!QuotientRange
  <2>5. q \in D!QuotientRange
    BY <1>3, <2>2, <2>3, <2>4
  <2>6. phase' = "divided" /\ register' = g
        /\ divisionFlags' = D!LogicalFlags(divisionFlags, q % D!Modulus)
    BY <1>2, <1>9, <1>12, <2>5, Zenon DEF D!Divide, g, r, q
  <2>7. q % Modulus = q /\ r % Modulus = r /\ q \in D!Word /\ r \in D!Word
    <3>1. q \in 0 .. Modulus - 1 /\ r \in 0 .. Modulus - 1
      BY <1>3, <1>4, <2>2, <2>3
    <3>2. q % Modulus = q /\ r % Modulus = r
      BY <1>3, <3>1
    <3> QED BY <3>1, <3>2, DivisionWords
  <2>8. g = r * Modulus + q
    BY <1>3, <2>7, Zenon DEF g, D!Halves
  <2>9. g \in D!Register /\ D!HighOf(g) = r /\ D!LowOf(g) = q
    BY <2>7, <2>8, RegisterOfHalves
  <2>10. divisionFlags' \in D!Flags /\ ~divisionFlags'.v
    BY <1>1, <1>3, <2>6, <2>7, DivisionFlagsKept, Zenon
  <2>11. dividend' = quotient' * divisor + r
    <3>1. quotient' = quotient * Modulus + q /\ dividend' = dividend * Modulus + digit
      BY <1>2, <1>3, <2>6, <2>9, Zenon
    <3>2. a = h * Modulus + digit
      BY <1>3 DEF a
    <3>3. (quotient * divisor + h) * Modulus = quotient * divisor * Modulus + h * Modulus
      BY <1>1, <1>3, <1>4, <1>5
    <3>4. (quotient * Modulus + q) * divisor = quotient * divisor * Modulus + q * divisor
      BY <1>1, <1>3, <1>4, <2>2
    <3>5. /\ quotient * divisor * Modulus \in Int /\ h * Modulus \in Int /\ q * divisor \in Int
          /\ quotient * divisor \in Int
      BY <1>1, <1>3, <1>4, <1>5, <2>2
    <3> QED BY <1>4, <1>6, <2>2, <3>1, <3>2, <3>3, <3>4, <3>5
  <2>12. D!HighOf(register') = r /\ r < divisor /\ register' \in D!Register
    BY <1>4, <2>2, <2>6, <2>9
  <2> QED BY <1>10, <1>12, <2>6, <2>10, <2>11, <2>12
<1> QED
  BY <1>11, <1>12

\* The quotient times the divisor.
LEMMA MultiplyBackKeeps ==
    ASSUME DivisionInv, D!MultiplyBack
    PROVE  DivisionInv'
<1> DEFINE b == D!WordOf(divisor)
           q == D!WordOf(D!LowOf(register))
           r == D!WordOf(D!HighOf(register))
           x == q * b
<1>1. /\ signed \in BOOLEAN /\ divisor \in D!Word /\ divisionFlags \in D!Flags
      /\ register \in D!Register /\ divisionLength \in 0 .. LongDigits
      /\ dividend \in Int /\ quotient \in Int
  BY Zenon DEF DivisionInv, D!TypeOK
<1>2. /\ phase = "divided" /\ divisionLength = 0 /\ ~divisionFlags.v
      /\ phase' = "multiplied" /\ register' = x % (D!Modulus * D!Modulus)
      /\ divisionFlags' = [divisionFlags EXCEPT !.n = register' >= D!Modulus * SignBit,
                                                !.z = register' = 0, !.v = FALSE, !.c = FALSE]
      /\ dividend' = dividend - r
      /\ signed' = signed /\ divisor' = divisor /\ quotient' = quotient
      /\ divisionLength' = divisionLength
  BY Zenon DEF D!MultiplyBack, D!Product
<1>3. dividend \in Longs /\ divisor # 0
  BY <1>2, Zenon DEF DivisionInv, DivisionStates
<1>4. /\ dividend = x + r /\ D!Abs(r) < D!Abs(b) /\ (r = 0 \/ (r < 0 <=> dividend < 0))
  BY <1>2, Zenon DEF DivisionInv, D!DivisionIsExact, D!IsDivision
<1>5. /\ D!LowOf(register) \in D!Word /\ D!HighOf(register) \in D!Word
  BY <1>1, HalvesOfRegister
<1>6. /\ b \in D!QuotientRange /\ q \in D!QuotientRange /\ r \in D!QuotientRange
      /\ b \in Int /\ q \in Int /\ r \in Int
  BY <1>1, <1>5, WordInRange
<1>7. x \in Int
  BY <1>6
<1>8. ~signed => 0 <= x
  <2> SUFFICES ASSUME ~signed PROVE 0 <= x
    OBVIOUS
  <2>1. D!QuotientRange = 0 .. D!Mask
    BY Zenon DEF D!QuotientRange
  <2>2. D!Mask \in Int
    BY DivisionWords
  <2> HIDE DEF q, b
  <2> QED BY <1>6, <2>1, <2>2
<1> HIDE DEF q, b, r, x
<1>9. x \in Longs
  <2>1. SignBit \in Nat /\ D!Mask = Modulus - 1 /\ Modulus = 2 * SignBit
    BY DivisionWords
  <2>2. CASE signed
    <3>1. D!QuotientRange = -SignBit .. SignBit - 1
      BY <2>2, Zenon DEF D!QuotientRange
    <3>2. Longs = -(Modulus * SignBit) .. Modulus * SignBit - 1
      BY <2>2, Zenon DEF Longs
    <3>3. -SignBit < r /\ r < SignBit
      BY <1>4, <1>6, <2>1, <3>1 DEF D!Abs
    <3> DEFINE s == Modulus * SignBit
    <3>4. s \in Nat /\ SignBit <= s
      BY SquareOfModulus
    <3> HIDE DEF s
    <3>5. x \in -s .. s - 1
      <4>1. dividend \in -s .. s - 1
        BY <1>3, <3>2 DEF s
      <4> QED BY <1>4, <1>6, <1>7, <2>1, <3>3, <3>4, <4>1
    <3> QED BY <3>2, <3>5 DEF s
  <2>3. CASE ~signed
    <3> DEFINE m == Modulus * Modulus
    <3>1. Longs = 0 .. m - 1 /\ D!QuotientRange = 0 .. D!Mask
      BY <2>3, Zenon DEF Longs, D!QuotientRange
    <3>2. m \in Nat
      BY SquareOfModulus
    <3> HIDE DEF m
    <3> QED BY <1>3, <1>4, <1>6, <1>7, <1>8, <2>1, <2>3, <3>1, <3>2
  <2> QED BY <1>1, <2>2, <2>3
<1>10. /\ x % (Modulus * Modulus) \in D!Register
       /\ D!LongOf(x % (Modulus * Modulus)) = x
       /\ x % (Modulus * Modulus) = 0 <=> x = 0
       /\ signed => (x % (Modulus * Modulus) >= Modulus * SignBit <=> x < 0)
  BY <1>1, <1>9, RegisterHolds
<1>11. dividend' = x /\ register' = x % (Modulus * Modulus) /\ D!Modulus = Modulus
  <2>1. dividend - r = x
    BY <1>1, <1>4, <1>6, <1>7
  <2> QED BY <1>2, <2>1, DivisionWords, Zenon
<1>12. /\ divisionFlags' \in D!Flags
       /\ divisionFlags'.z <=> register' = 0
       /\ divisionFlags'.n <=> register' >= Modulus * SignBit
  <2>1. (register' = 0) \in BOOLEAN /\ (register' >= D!Modulus * SignBit) \in BOOLEAN
    <3>1. register' \in Int /\ Modulus * SignBit \in Int
      BY <1>10, <1>11, DivisionWords, SquareOfModulus
    <3> QED BY <1>11, <3>1
  <2>2. divisionFlags' \in D!Flags
    BY <1>1, <1>2, <2>1, Zenon DEF D!Flags
  <2>3. /\ divisionFlags'.z = (register' = 0)
        /\ divisionFlags'.n = (register' >= D!Modulus * SignBit)
    BY <1>1, <1>2, <2>1, Zenon DEF D!Flags
  <2> QED BY <1>11, <2>2, <2>3, Zenon
<1>13. D!LongOf(register)' = x
  <2>1. D!LongOf(register)' = D!LongOf(register')
    BY <1>2, Zenon DEF D!LongOf
  <2> QED BY <1>10, <1>11, <2>1, Zenon
<1>14. D!ProductIsExact'
  <2>1. divisionFlags'.z <=> dividend' = 0
    BY <1>10, <1>11, <1>12, Zenon
  <2>2. signed' => (divisionFlags'.n <=> dividend' < 0)
    BY <1>2, <1>10, <1>11, <1>12, Zenon
  <2> QED BY <1>11, <1>13, <2>1, <2>2, Zenon DEF D!ProductIsExact
<1>15. D!TypeOK'
  BY <1>1, <1>2, <1>7, <1>10, <1>11, <1>12, Zenon DEF D!TypeOK
<1>16. ~(0 > 0)
  OBVIOUS
<1>17. DivisionStates'
  BY <1>2, <1>3, <1>16, Zenon DEF DivisionStates
<1>18. D!LongDivisionIsExact' /\ D!DivisionIsExact'
  BY <1>2, Zenon DEF D!LongDivisionIsExact, D!DivisionIsExact
<1> QED
  BY <1>14, <1>15, <1>17, <1>18, Zenon DEF DivisionInv

\* Every division keeps the invariant.
LEMMA DivisionStep == DivisionInv /\ [D!Next]_(D!vars) => DivisionInv'
<1> SUFFICES ASSUME DivisionInv, [D!Next]_(D!vars) PROVE DivisionInv'
  OBVIOUS
<1>1. ASSUME NEW digit \in D!Word, D!DivideNext(digit) PROVE DivisionInv'
  BY <1>1, DivideNextKeeps
<1>2. ASSUME NEW operand \in D!Register, D!DivideWhole(operand) PROVE DivisionInv'
  BY <1>2, DivideWholeKeeps
<1>3. CASE D!MultiplyBack
  BY <1>3, MultiplyBackKeeps
<1>4. CASE UNCHANGED D!vars
  BY <1>4, Zenon DEF D!vars, DivisionInv, DivisionStates, Longs, D!TypeOK, D!HighOf, D!LowOf,
       D!WordOf, D!LongOf, D!LongDivisionIsExact, D!DivisionIsExact, D!ProductIsExact,
       D!IsDivision, D!Quotients, D!Negative
<1> QED
  BY <1>1, <1>2, <1>3, <1>4, Zenon DEF D!Next

\* Divisions are exact, of a register and of a long number word by word, and
\* a product gives the dividend back: DIVU, DIVS, MULU and MULS.
THEOREM DivisionsAreExact ==
    D!Spec => [](D!TypeOK /\ D!DivisionIsExact /\ D!LongDivisionIsExact /\ D!ProductIsExact)
<1>1. DivisionInv => D!TypeOK /\ D!DivisionIsExact /\ D!LongDivisionIsExact /\ D!ProductIsExact
  BY Zenon DEF DivisionInv
<1>2. D!Spec => []DivisionInv
  BY DivisionInitEstablishes, DivisionStep, PTL DEF D!Spec
<1> QED
  BY <1>1, <1>2, PTL
----------------------------------------------------------------------------
(* Powers of two.                                                          *)

LEMMA LeastElement ==
    ASSUME NEW N, N \subseteq Nat, N # {}
    PROVE  \E m \in N : \A k \in N : m <= k
<1> DEFINE R == OpToRel(<, Nat)
<1>1. IsWellFoundedOn(R, Nat)
  BY NatLessThanWellFounded
<1>2. \A k, m \in Nat : k < m => <<k, m>> \in R
  BY DEF OpToRel
<1> HIDE DEF R
<1>3. PICK m \in N : \A k \in N : ~(<<k, m>> \in R)
  BY <1>1, WFMin, Zenon
<1>4. ASSUME NEW k \in N
      PROVE  m <= k
  <2>1. ~(k < m)
    BY <1>2, <1>3, Zenon
  <2> QED BY <2>1
<1> QED
  BY <1>4

\* A function doubles from one up to n.
Doubles(f, n) == f = [k \in 0 .. n |-> IF k = 0 THEN 1 ELSE 2 * f[k - 1]]

LEMMA DoublesExists ==
    ASSUME NEW n \in Nat PROVE \E f : Doubles(f, n)
<1> DEFINE N == {m \in Nat : ~ \E f : Doubles(f, m)}
<1>1. SUFFICES ASSUME N # {} PROVE FALSE
  OBVIOUS
<1>2. PICK m \in N : \A k \in N : m <= k
  <2>1. N \subseteq Nat
    OBVIOUS
  <2> HIDE DEF N
  <2> QED BY <1>1, <2>1, LeastElement
<1>3. m # 0
  <2>1. SUFFICES ASSUME m = 0 PROVE FALSE
    OBVIOUS
  <2>2. Doubles([k \in 0 .. 0 |-> 1], 0)
    BY DEF Doubles
  <2> QED BY <2>1, <2>2
<1>4. m - 1 \in Nat /\ ~(m - 1 \in N)
  BY <1>2, <1>3
<1>5. PICK f : Doubles(f, m - 1)
  BY <1>4
<1> DEFINE g == [k \in 0 .. m |-> IF k = m THEN 2 * f[m - 1] ELSE f[k]]
<1>6. Doubles(g, m)
  <2>1. ASSUME NEW k \in 0 .. m
        PROVE  g[k] = IF k = 0 THEN 1 ELSE 2 * g[k - 1]
    BY <1>3, <1>4, <1>5 DEF Doubles
  <2>2. g = [k \in 0 .. m |-> g[k]]
    OBVIOUS
  <2> HIDE DEF g
  <2> QED BY <2>1, <2>2 DEF Doubles
<1> QED
  BY <1>2, <1>6

\* Two that double agree where both are defined.
LEMMA DoublesAgree ==
    ASSUME NEW n \in Nat, NEW m \in Nat, NEW f, NEW g, Doubles(f, n), Doubles(g, m),
           NEW k \in Nat, k <= n, k <= m
    PROVE  f[k] = g[k]
<1> DEFINE N == {i \in Nat : i <= n /\ i <= m /\ f[i] # g[i]}
<1>1. SUFFICES ASSUME N # {} PROVE FALSE
  OBVIOUS
<1>2. PICK i \in N : \A j \in N : i <= j
  <2>1. N \subseteq Nat
    OBVIOUS
  <2> HIDE DEF N
  <2> QED BY <1>1, <2>1, LeastElement
<1>3. /\ f[i] = IF i = 0 THEN 1 ELSE 2 * f[i - 1]
      /\ g[i] = IF i = 0 THEN 1 ELSE 2 * g[i - 1]
  <2>1. i \in 0 .. n /\ i \in 0 .. m
    BY <1>2
  <2> QED BY <2>1 DEF Doubles
<1>4. i # 0
  BY <1>2, <1>3
<1>5. i - 1 \in Nat /\ i - 1 <= n /\ i - 1 <= m /\ ~(i - 1 \in N)
  BY <1>2, <1>4
<1> QED
  BY <1>2, <1>3, <1>4, <1>5

LEMMA Powers ==
    /\ S!PowerOfTwo[0] = 1
    /\ \A n \in Nat : S!PowerOfTwo[n + 1] = 2 * S!PowerOfTwo[n]
    /\ \A n \in Nat : S!PowerOfTwo[n] \in Nat \ {0}
<1> DEFINE upTo(n) == CHOOSE f : Doubles(f, n)
           h == [n \in Nat |-> upTo(n)[n]]
           IsPower(f) == f = [n \in Nat |-> IF n = 0 THEN 1 ELSE 2 * f[n - 1]]
           p == S!PowerOfTwo
<1>1. ASSUME NEW n \in Nat PROVE Doubles(upTo(n), n)
  BY DoublesExists
<1> HIDE DEF upTo
<1>2. ASSUME NEW n \in Nat PROVE h[n] = IF n = 0 THEN 1 ELSE 2 * h[n - 1]
  <2>1. h[n] = upTo(n)[n]
    OBVIOUS
  <2>2. upTo(n)[n] = IF n = 0 THEN 1 ELSE 2 * upTo(n)[n - 1]
    <3>1. n \in 0 .. n
      OBVIOUS
    <3> QED BY <1>1, <3>1 DEF Doubles
  <2>3. CASE n = 0
    BY <2>1, <2>2, <2>3
  <2>4. CASE n # 0
    <3>1. n - 1 \in Nat /\ n - 1 <= n
      BY <2>4
    <3>2. upTo(n)[n - 1] = upTo(n - 1)[n - 1]
      BY <1>1, <3>1, DoublesAgree
    <3>3. h[n - 1] = upTo(n - 1)[n - 1]
      BY <3>1
    <3> QED BY <2>1, <2>2, <2>4, <3>2, <3>3
  <2> QED BY <2>3, <2>4
<1>3. IsPower(h)
  <2>1. h = [n \in Nat |-> h[n]]
    OBVIOUS
  <2> HIDE DEF h
  <2> QED BY <1>2, <2>1
<1>4. IsPower(p)
  <2>1. p = CHOOSE f : IsPower(f)
    BY DEF S!PowerOfTwo
  <2> HIDE DEF p, h, IsPower
  <2> QED BY <1>3, <2>1, Zenon
<1> HIDE DEF p, h
<1>5. \A n \in Nat : p[n] = IF n = 0 THEN 1 ELSE 2 * p[n - 1]
  BY <1>4
<1>6. p[0] = 1 /\ \A n \in Nat : p[n + 1] = 2 * p[n]
  BY <1>5
<1>7. \A n \in Nat : p[n] \in Nat \ {0}
  <2> DEFINE N == {n \in Nat : p[n] \notin Nat \ {0}}
  <2>1. SUFFICES ASSUME N # {} PROVE FALSE
    OBVIOUS
  <2>2. PICK m \in N : \A k \in N : m <= k
    <3>1. N \subseteq Nat
      OBVIOUS
    <3> HIDE DEF N
    <3> QED BY <2>1, <3>1, LeastElement
  <2>3. m # 0
    BY <1>6, <2>2
  <2>4. m - 1 \in Nat /\ ~(m - 1 \in N)
    BY <2>2, <2>3
  <2>5. p[m] = 2 * p[m - 1]
    BY <1>5, <2>2, <2>3
  <2> QED BY <2>2, <2>4, <2>5
<1> QED
  BY <1>6, <1>7 DEF p
----------------------------------------------------------------------------
(* Shifts.                                                                 *)

\* The number that a word stands for in a shift.
Shown(word) == IF type = 0 THEN S!Signed(word) ELSE word

\* The locals at the start, the X that only a rotation with X touches, and the flags.
PassesDone ==
    /\ index = 0 => shiftCarry = FALSE /\ shiftExtend = before.x
    /\ type # 2 => shiftExtend = before.x
    /\ done =>
           /\ index = count
           /\ shiftFlags = [x |-> S!FinalExtend, n |-> S!Negative(shiftResult),
                            z |-> shiftResult = 0, v |-> overflow, c |-> S!FinalCarry]

\* A shift by the passes so far, and the bit lost last.
LostSoFar ==
    IF left THEN (value * S!PowerOfTwo[index]) \div Modulus
    ELSE Shown(value) \div S!PowerOfTwo[index - 1]

ShiftedSoFar ==
    S!Shift =>
        /\ IF left THEN shiftResult = (value * S!PowerOfTwo[index]) % Modulus
           ELSE Shown(shiftResult) = Shown(value) \div S!PowerOfTwo[index]
        /\ index > 0 => (shiftCarry <=> LostSoFar % 2 = 1)

\* The number with its sign is held until it is lost.
SignHeld ==
    LET exact == S!Signed(value) * S!PowerOfTwo[index]
    IN  /\ overflow <=> (type = 0 /\ left /\ exact \notin -SignBit .. SignBit - 1)
        /\ type = 0 /\ left /\ ~overflow => S!Signed(shiftResult) = exact

\* A ring of bits, turned to the left by some places: its upper ones come in below.
TurnedBy(ring, places) ==
    LET below == S!PowerOfTwo[S!RingWidth - places]
    IN  (ring % below) * S!PowerOfTwo[places] + (ring \div below)

Places == IF left THEN index % S!RingWidth ELSE S!RingWidth - (index % S!RingWidth)

RotatedSoFar ==
    ~S!Shift =>
        /\ S!RingOf(shiftResult, shiftExtend) = TurnedBy(S!RingOf(value, before.x), Places)
        /\ index > 0 =>
               /\ type = 2 => shiftCarry = shiftExtend
               /\ type = 3 => (shiftCarry <=> IF left THEN shiftResult % 2 = 1
                                                     ELSE S!Negative(shiftResult))

ShiftInv == S!TypeOK /\ PassesDone /\ ShiftedSoFar /\ SignHeld /\ RotatedSoFar
----------------------------------------------------------------------------
(* One pass of a shift.                                                    *)

LEMMA ShiftWords ==
    /\ SignBit \in Nat \ {0} /\ Modulus = 2 * SignBit /\ Modulus \in Nat \ {0}
    /\ S!Modulus = Modulus /\ S!Word = 0 .. Modulus - 1
BY ArithmeticAssumption DEF Modulus, S!Modulus, S!Mask, S!Word

LEMMA BitOfFlag == ASSUME NEW f \in BOOLEAN PROVE S!Bit(f) \in {0, 1} /\ (S!Bit(f) = 1 <=> f)
BY DEF S!Bit

LEMMA PassLeft ==
    ASSUME NEW w \in S!Word, NEW x \in {0, 1}
    PROVE  /\ (2 * w + x) % Modulus \in S!Word
           /\ 2 * w + x = S!Bit(w >= SignBit) * Modulus + ((2 * w + x) % Modulus)
           /\ ((2 * w + x) % Modulus) % 2 = x
<1>1. w \in Int /\ 0 <= w /\ w < 2 * SignBit
  BY ShiftWords
<1> DEFINE s == IF w >= SignBit THEN 2 * w + x - Modulus ELSE 2 * w + x
           o == IF w >= SignBit THEN 1 ELSE 0
<1>2. s \in 0 .. Modulus - 1 /\ o \in Int /\ s = 2 * w + x - o * Modulus /\ o = S!Bit(w >= SignBit)
  BY <1>1, ShiftWords DEF S!Bit
<1>3. s % 2 = x
  <2>1. CASE w >= SignBit
    <3>1. s = (w - SignBit) * 2 + x /\ w - SignBit \in Int
      BY <1>1, <2>1, ShiftWords
    <3> QED BY <3>1
  <2>2. CASE ~(w >= SignBit)
    <3>1. s = w * 2 + x
      BY <1>1, <2>2
    <3> QED BY <1>1, <3>1
  <2> QED BY <2>1, <2>2
<1>4. 2 * w + x = o * Modulus + s
  BY <1>1, <1>2, ShiftWords
<1> HIDE DEF s, o
<1>5. (o * Modulus + s) % Modulus = s
  BY <1>2, ShiftWords, PutTogetherAgain
<1>6. (2 * w + x) % Modulus = s
  BY <1>4, <1>5, Zenon
<1>7. s \in S!Word /\ 2 * w + x = S!Bit(w >= SignBit) * Modulus + s
  BY <1>2, <1>4, ShiftWords, Zenon
<1>8. ((2 * w + x) % Modulus) % 2 = s % 2
  BY <1>6
<1> QED
  BY <1>3, <1>6, <1>7, <1>8, Zenon

LEMMA PassRight ==
    ASSUME NEW w \in S!Word, NEW x \in {0, 1}
    PROVE  /\ w \div 2 \in Nat /\ w \div 2 < SignBit /\ w % 2 \in {0, 1}
           /\ w = 2 * (w \div 2) + (w % 2)
           /\ (w \div 2) + SignBit * x \in S!Word
           /\ S!Negative((w \div 2) + SignBit * x) <=> x = 1
<1>1. w \in Nat /\ w < 2 * SignBit /\ SignBit \in Nat
  BY ShiftWords
<1>2. /\ w \div 2 \in Nat /\ w % 2 \in {0, 1} /\ w = 2 * (w \div 2) + (w % 2)
  <2> DEFINE k == w \div 2
             b == w % 2
  <2>1. k \in Nat /\ b \in 0 .. 2 - 1 /\ w = k * 2 + b
    BY <1>1, QuotientOf
  <2> HIDE DEF k, b
  <2>2. k \in Nat /\ b \in {0, 1} /\ w = 2 * k + b
    BY <1>1, <2>1
  <2> QED BY <2>2, Zenon DEF k, b
<1>3. w \div 2 < SignBit
  BY <1>1, <1>2
<1>4. SignBit * x = IF x = 1 THEN SignBit ELSE 0
  BY <1>1
<1> QED
  BY <1>1, <1>2, <1>3, <1>4, ShiftWords DEF S!Negative

\* Dividing by two after a power is dividing by the next.
LEMMA HalvedAgain ==
    ASSUME NEW n \in Int, NEW p \in Nat \ {0}
    PROVE  n \div p \in Int /\ n \div (2 * p) = (n \div p) \div 2
<1> DEFINE k == n \div p
           r == n % p
           u == k \div 2
           b == k % 2
<1>1. k \in Int /\ r \in 0 .. p - 1 /\ n = p * k + r
  OBVIOUS
<1> HIDE DEF k, r
<1>2. u \in Int /\ b \in {0, 1} /\ k = 2 * u + b
  BY <1>1
<1> HIDE DEF u, b
<1> DEFINE d == 2 * p
           e == b * p + r
<1>3. d \in Nat \ {0} /\ e \in 0 .. d - 1
  <2>1. b * p = IF b = 1 THEN p ELSE 0
    BY <1>2
  <2> QED BY <1>1, <1>2, <2>1
<1>4. n = u * d + e
  <2>1. p * (2 * u + b) = u * (2 * p) + b * p
    BY <1>2
  <2>2. u * (2 * p) \in Int /\ b * p \in Int
    BY <1>2
  <2> QED BY <1>1, <1>2, <2>1, <2>2
<1> HIDE DEF d, e
<1>5. n \div d = u
  BY <1>2, <1>3, <1>4, PutTogetherAgain
<1> QED
  BY <1>1, <1>5 DEF d, u, k

\* The bit that goes out in a pass, and the one that comes in.
Out == IF left THEN S!Negative(shiftResult) ELSE shiftResult % 2 = 1
In  == S!Bit(IF left THEN S!LeftInput(Out) ELSE S!RightInput(Out))

LEMMA ShiftTypes ==
    ASSUME S!TypeOK
    PROVE  /\ shiftResult \in S!Word /\ value \in S!Word /\ left \in BOOLEAN
           /\ shiftExtend \in BOOLEAN /\ shiftCarry \in BOOLEAN /\ before.x \in BOOLEAN
           /\ type \in 0 .. 3 /\ index \in Nat /\ count \in Nat /\ Out \in BOOLEAN
           /\ In \in {0, 1} /\ S!Bit(Out) \in {0, 1} /\ (S!Bit(Out) = 1 <=> Out)
<1>1. /\ shiftResult \in S!Word /\ value \in S!Word /\ left \in BOOLEAN
      /\ shiftExtend \in BOOLEAN /\ shiftCarry \in BOOLEAN
      /\ type \in 0 .. 3 /\ index \in 0 .. count /\ count \in 0 .. CountBound
  BY Zenon DEF S!TypeOK
<1>2. index \in Nat /\ count \in Nat
  BY <1>1, ShiftsAndDivisionsAssumption
<1>3. before.x \in BOOLEAN
  BY Zenon DEF S!TypeOK, S!Flags
<1>4. Out \in BOOLEAN
  <2>1. (shiftResult >= SignBit) \in BOOLEAN /\ (shiftResult % 2 = 1) \in BOOLEAN
    BY <1>1, ShiftWords
  <2> QED BY <1>1, <2>1, Zenon DEF Out, S!Negative
<1>5. In \in {0, 1}
  BY DEF In, S!Bit
<1> QED
  BY <1>1, <1>2, <1>3, <1>4, <1>5, BitOfFlag

\* What comes in.
LEMMA PassInput ==
    ASSUME S!TypeOK
    PROVE  /\ type = 3 => In = S!Bit(Out)
           /\ type = 2 => In = S!Bit(shiftExtend)
           /\ type = 1 => In = 0
           /\ type = 0 => In = IF left THEN 0 ELSE S!Bit(S!Negative(shiftResult))
<1>1. left \in BOOLEAN /\ type \in 0 .. 3
  BY ShiftTypes
<1>2. 0 # 1 /\ 0 # 2 /\ 0 # 3 /\ 1 # 2 /\ 1 # 3 /\ 2 # 3
  OBVIOUS
<1>3. CASE left
  <2>1. In = S!Bit((type = 2 /\ shiftExtend) \/ (type = 3 /\ Out))
    BY <1>3, Zenon DEF In, S!LeftInput
  <2> QED BY <1>2, <1>3, <2>1 DEF S!Bit
<1>4. CASE ~left
  <2>1. In = S!Bit(\/ type = 0 /\ S!Negative(shiftResult)
                   \/ type = 2 /\ shiftExtend
                   \/ type = 3 /\ Out)
    BY <1>4, Zenon DEF In, S!RightInput
  <2> QED BY <1>2, <1>4, <2>1 DEF S!Bit
<1> QED
  BY <1>1, <1>3, <1>4

\* What a pass does to the locals.
LEMMA PassParts ==
    ASSUME S!TypeOK, S!Pass
    PROVE  /\ index' = index + 1 /\ index < count
           /\ shiftCarry' = Out
           /\ shiftExtend' = IF type = 2 THEN Out ELSE shiftExtend
           /\ overflow' = S!Overflowed(shiftResult')
           /\ type' = type /\ left' = left /\ count' = count /\ value' = value
           /\ before' = before /\ shiftFlags' = shiftFlags /\ done' = done
           /\ shiftResult' \in S!Word
           /\ left => /\ 2 * shiftResult + In = S!Bit(Out) * Modulus + shiftResult'
                      /\ shiftResult' % 2 = In
           /\ ~left => /\ shiftResult \div 2 \in Nat /\ shiftResult \div 2 < SignBit
                       /\ shiftResult' = (shiftResult \div 2) + SignBit * In
                       /\ shiftResult = 2 * (shiftResult \div 2) + S!Bit(Out)
                       /\ shiftResult % 2 = S!Bit(Out)
                       /\ S!Negative(shiftResult') <=> In = 1
<1>1. /\ index' = index + 1 /\ index < count
      /\ type' = type /\ left' = left /\ count' = count /\ value' = value
      /\ before' = before /\ shiftFlags' = shiftFlags /\ done' = done
  BY Zenon DEF S!Pass, S!operands
<1>2. /\ shiftCarry' = Out
      /\ shiftExtend' = IF type = 2 THEN Out ELSE shiftExtend
      /\ shiftResult' = IF left THEN S!ShiftedLeft(Out)
                        ELSE (shiftResult \div 2) + SignBit * S!Bit(S!RightInput(Out))
      /\ overflow' = S!Overflowed(IF left THEN S!ShiftedLeft(Out)
                        ELSE (shiftResult \div 2) + SignBit * S!Bit(S!RightInput(Out)))
  BY Zenon DEF S!Pass, Out
<1>3. shiftResult \in S!Word /\ In \in {0, 1}
  BY ShiftTypes
<1>4. CASE left
  <2>1. shiftResult' = (2 * shiftResult + In) % Modulus
    BY <1>2, <1>4, ShiftWords, Zenon DEF In, S!ShiftedLeft
  <2>2. Out <=> shiftResult >= SignBit
    BY <1>4, Zenon DEF Out, S!Negative
  <2>3. S!Bit(Out) = S!Bit(shiftResult >= SignBit)
    BY <2>2, Zenon DEF S!Bit
  <2> QED BY <1>1, <1>2, <1>3, <1>4, <2>1, <2>3, PassLeft, Zenon
<1>5. CASE ~left
  <2>1. shiftResult' = (shiftResult \div 2) + SignBit * In
    BY <1>2, <1>5, Zenon DEF In
  <2>2. shiftResult % 2 \in {0, 1} /\ (Out <=> shiftResult % 2 = 1)
    BY <1>3, <1>5, PassRight, Zenon DEF Out
  <2>3. shiftResult % 2 = S!Bit(Out)
    BY <2>2, Zenon DEF S!Bit
  <2> QED BY <1>1, <1>2, <1>3, <1>5, <2>1, <2>3, PassRight, Zenon
<1> QED
  BY <1>4, <1>5

----------------------------------------------------------------------------
(* A shift is a multiplication or a division.                              *)

LEMMA ShiftedLeftKeeps ==
    ASSUME S!TypeOK, ShiftedSoFar, S!Pass, S!Shift, left
    PROVE  ShiftedSoFar'
<1> DEFINE p == S!PowerOfTwo[index]
           n == S!PowerOfTwo[index + 1]
           q == (value * p) \div Modulus
           o == S!Bit(Out)
           r == shiftResult
           s == shiftResult'
<1>1. /\ index' = index + 1 /\ (shiftCarry' <=> Out) /\ type' = type /\ left' /\ value' = value
      /\ 2 * r + In = o * Modulus + s /\ s \in S!Word
  BY PassParts
<1>2. /\ p \in Nat \ {0} /\ n = 2 * p /\ index \in Nat
      /\ value \in Nat /\ r \in Nat /\ o \in {0, 1} /\ (o = 1 <=> Out)
  <2>1. index \in Nat /\ value \in S!Word /\ r \in S!Word /\ o \in {0, 1} /\ (o = 1 <=> Out)
    BY ShiftTypes
  <2>2. p \in Nat \ {0} /\ n = 2 * p
    BY <2>1, Powers
  <2>3. value \in Nat /\ r \in Nat
    BY <2>1, ShiftWords
  <2> QED BY <2>1, <2>2, <2>3
<1>3. In = 0
  <2>1. type = 0 \/ type = 1
    BY DEF S!Shift
  <2> QED BY <2>1, PassInput
<1>4. value * p \in Nat /\ r = (value * p) % Modulus
  <2>1. r = (value * p) % Modulus
    BY Zenon DEF ShiftedSoFar
  <2>2. value * p \in Nat
    BY <1>2
  <2> QED BY <2>1, <2>2
<1>5. q \in Nat /\ value * p = q * Modulus + r
  BY <1>4, ShiftWords, QuotientOf
<1>6. s \in 0 .. Modulus - 1 /\ Modulus \in Nat \ {0}
  BY <1>1, ShiftWords
<1> HIDE DEF p, n, q, o, r, s
<1> DEFINE k == 2 * q + o
<1>7. k \in Nat /\ k % 2 = o
  BY <1>2, <1>5
<1>8. value * n = k * Modulus + s
  <2>1. value * (2 * p) = 2 * (value * p)
    BY <1>2
  <2>2. (2 * q + o) * Modulus = 2 * (q * Modulus) + o * Modulus
    BY <1>2, <1>5, <1>6
  <2>3. q * Modulus \in Int /\ o * Modulus \in Int
    BY <1>2, <1>5, <1>6
  <2> QED BY <1>1, <1>2, <1>3, <1>5, <1>6, <2>1, <2>2, <2>3
<1> HIDE DEF k
<1>9. (value * n) % Modulus = s /\ (value * n) \div Modulus = k
  <2>1. (k * Modulus + s) % Modulus = s /\ (k * Modulus + s) \div Modulus = k
    BY <1>6, <1>7, PutTogetherAgain
  <2> QED BY <1>8, <2>1, Zenon
<1>10. LostSoFar' = (value * n) \div Modulus
  <2>1. Modulus' = Modulus
    BY DEF Modulus
  <2> QED BY <1>1, <2>1, Zenon DEF LostSoFar, n
<1>11. shiftCarry' <=> LostSoFar' % 2 = 1
  BY <1>1, <1>2, <1>7, <1>9, <1>10
<1>12. shiftResult' = (value' * S!PowerOfTwo[index']) % Modulus
  BY <1>1, <1>9, Zenon DEF n, s
<1>13. Modulus' = Modulus
  BY DEF Modulus
<1> QED
  BY <1>1, <1>11, <1>12, <1>13, Zenon DEF ShiftedSoFar

LEMMA ShownIsInt ==
    ASSUME NEW w \in S!Word
    PROVE  Shown(w) \in Int
BY ShiftWords DEF Shown, S!Signed, S!Negative

LEMMA ShiftedRightKeeps ==
    ASSUME S!TypeOK, ShiftedSoFar, S!Pass, S!Shift, ~left
    PROVE  ShiftedSoFar'
<1> DEFINE p == S!PowerOfTwo[index]
           n == Shown(value)
           k == n \div p
           h == shiftResult \div 2
           r == shiftResult
           s == shiftResult'
<1>1. /\ index' = index + 1 /\ (shiftCarry' <=> Out) /\ type' = type /\ ~left' /\ value' = value
      /\ s \in S!Word /\ s = h + SignBit * In
      /\ h \in Nat /\ h < SignBit /\ r = 2 * h + S!Bit(Out)
  BY PassParts
<1>2. /\ index \in Nat /\ r \in S!Word /\ n \in Int
      /\ S!Bit(Out) \in {0, 1} /\ (S!Bit(Out) = 1 <=> Out) /\ In \in {0, 1}
  BY ShiftTypes, ShownIsInt
<1>3. /\ p \in Nat \ {0} /\ S!PowerOfTwo[index'] = 2 * p /\ index' - 1 = index
  BY <1>1, <1>2, Powers
<1>4. Shown(r) = k
  BY Zenon DEF ShiftedSoFar
<1>5. k \in Int /\ n \div (2 * p) = k \div 2
  BY <1>2, <1>3, HalvedAgain
<1>6. k % 2 = S!Bit(Out) /\ k \div 2 = Shown(s)
  <2> HIDE DEF h, r, s, k, n, p
  <2>1. CASE type = 1
    <3>1. In = 0 /\ Shown(r) = r /\ Shown(s) = s
      BY <2>1, PassInput DEF Shown
    <3>2. k = h * 2 + S!Bit(Out) /\ s = h
      BY <1>1, <1>2, <1>4, <3>1, ShiftWords
    <3> QED BY <1>1, <1>2, <3>1, <3>2
  <2>2. CASE type = 0
    <3>1. /\ In = S!Bit(S!Negative(r)) /\ Shown(r) = S!Signed(r) /\ Shown(s) = S!Signed(s)
      BY <2>2, PassInput DEF Shown, r
    <3>2. CASE r >= SignBit
      <4>1. In = 1 /\ Shown(r) = r - Modulus
        BY <3>1, <3>2, ShiftWords DEF S!Bit, S!Negative, S!Signed
      <4>2. s = h + SignBit /\ s >= SignBit
        BY <1>1, <4>1, ShiftWords
      <4>3. Shown(s) = h - SignBit
        BY <1>1, <3>1, <4>2, ShiftWords DEF S!Negative, S!Signed
      <4>4. k = (h - SignBit) * 2 + S!Bit(Out) /\ h - SignBit \in Int
        BY <1>1, <1>2, <1>4, <4>1, ShiftWords
      <4> QED BY <1>2, <4>3, <4>4
    <3>3. CASE ~(r >= SignBit)
      <4>1. In = 0 /\ Shown(r) = r
        BY <3>1, <3>3, ShiftWords DEF S!Bit, S!Negative, S!Signed
      <4>2. s = h /\ ~(s >= SignBit)
        BY <1>1, <4>1, ShiftWords
      <4>3. Shown(s) = h
        BY <1>1, <3>1, <4>2, ShiftWords DEF S!Negative, S!Signed
      <4>4. k = h * 2 + S!Bit(Out)
        BY <1>1, <1>2, <1>4, <4>1, ShiftWords
      <4> QED BY <1>1, <1>2, <4>3, <4>4
    <3> QED BY <3>2, <3>3
  <2> QED BY <2>1, <2>2 DEF S!Shift
<1>7. Shown(shiftResult)' = Shown(s) /\ Shown(value)' = n
  BY <1>1, Zenon DEF Shown
<1>8. LostSoFar' = k
  BY <1>1, <1>3, <1>7, Zenon DEF LostSoFar
<1>9. shiftCarry' <=> LostSoFar' % 2 = 1
  <2> HIDE DEF k
  <2> QED BY <1>1, <1>2, <1>6, <1>8
<1>10. Shown(shiftResult)' = Shown(value)' \div S!PowerOfTwo[index']
  BY <1>3, <1>5, <1>6, <1>7, Zenon
<1> QED
  BY <1>1, <1>9, <1>10, Zenon DEF ShiftedSoFar

----------------------------------------------------------------------------
(* V: the sign of an arithmetic shift to the left.                         *)

LEMMA SignedWord ==
    ASSUME NEW w \in S!Word
    PROVE  /\ S!Signed(w) \in -SignBit .. SignBit - 1
           /\ S!Negative(w) <=> S!Signed(w) < 0
           /\ w = S!Signed(w) + S!Bit(S!Negative(w)) * Modulus
BY ShiftWords DEF S!Signed, S!Negative, S!Bit

LEMMA SignHeldKeeps ==
    ASSUME S!TypeOK, SignHeld, S!Pass
    PROVE  SignHeld'
<1> DEFINE e == S!Signed(value) * S!PowerOfTwo[index]
           f == S!Signed(value) * S!PowerOfTwo[index + 1]
           r == shiftResult
           s == shiftResult'
           Range == -SignBit .. SignBit - 1
<1>1. /\ index' = index + 1 /\ type' = type /\ left' = left /\ value' = value
      /\ overflow' = S!Overflowed(s) /\ s \in S!Word
      /\ left => 2 * r + In = S!Bit(Out) * Modulus + s
  BY PassParts
<1>2. index \in Nat /\ value \in S!Word /\ r \in S!Word
  BY ShiftTypes
<1>3. e \in Int /\ f = 2 * e
  <2>1. S!PowerOfTwo[index] \in Int /\ S!PowerOfTwo[index + 1] = 2 * S!PowerOfTwo[index]
    BY <1>2, Powers
  <2>2. S!Signed(value) \in Int
    BY <1>2, SignedWord, ShiftWords
  <2> QED BY <2>1, <2>2
<1>4. /\ overflow <=> (type = 0 /\ left /\ e \notin Range)
      /\ type = 0 /\ left /\ ~overflow => S!Signed(r) = e
  BY Zenon DEF SignHeld
<1>5. overflow' <=> (overflow \/ (type = 0 /\ left /\ S!Negative(r) # S!Negative(s)))
  BY <1>1, Zenon DEF S!Overflowed
<1>6. /\ overflow' <=> (type = 0 /\ left /\ f \notin Range)
      /\ type = 0 /\ left /\ ~overflow' => S!Signed(s) = f
  <2>1. CASE ~(type = 0 /\ left)
    BY <1>4, <1>5, <2>1, Zenon
  <2>2. CASE type = 0 /\ left /\ overflow
    <3>1. e \notin Range
      BY <1>4, <2>2, Zenon
    <3> HIDE DEF e, f
    <3>2. f \notin Range
      BY <1>3, <3>1, ShiftWords
    <3> QED BY <1>5, <2>2, <3>2, Zenon
  <2>3. CASE type = 0 /\ left /\ ~overflow
    <3> DEFINE x == S!Signed(r)
               y == S!Signed(s)
    <3>1. x = e
      BY <1>4, <2>3, Zenon
    <3>2. In = 0
      BY <2>3, PassInput, Zenon
    <3>3. /\ x \in Range /\ (S!Negative(r) <=> x < 0) /\ r = x + S!Bit(S!Negative(r)) * Modulus
          /\ y \in Range /\ (S!Negative(s) <=> y < 0) /\ s = y + S!Bit(S!Negative(s)) * Modulus
      BY <1>1, <1>2, SignedWord, Zenon
    <3>4. 2 * r = S!Bit(S!Negative(r)) * Modulus + s
      <4>1. S!Bit(Out) = S!Bit(S!Negative(r))
        BY <2>3, Zenon DEF Out
      <4>2. r \in Int
        BY <1>2, ShiftWords
      <4> QED BY <1>1, <2>3, <3>2, <4>1, <4>2
    <3> HIDE DEF e, f, x, y, r, s
    <3>5. /\ S!Bit(S!Negative(r)) = (IF x < 0 THEN 1 ELSE 0)
          /\ S!Bit(S!Negative(s)) = (IF y < 0 THEN 1 ELSE 0)
      BY <3>3 DEF S!Bit
    <3> DEFINE br == IF x < 0 THEN 1 ELSE 0
               bs == IF y < 0 THEN 1 ELSE 0
    <3>6. 2 * x + br * Modulus = y + bs * Modulus
      <4>1. r = x + br * Modulus /\ s = y + bs * Modulus /\ 2 * r = br * Modulus + s
        BY <3>3, <3>4, <3>5, Zenon
      <4>2. x \in Int /\ y \in Int
        BY <3>3, ShiftWords
      <4> QED BY <4>1, <4>2, ShiftWords
    <3>7. (x < 0 <=> y < 0) => 2 * x = y
      BY <3>3, <3>6, ShiftWords
    <3>8. ~(x < 0 <=> y < 0) => 2 * x \notin Range
      BY <3>3, <3>6, ShiftWords
    <3>9. overflow' <=> ~(x < 0 <=> y < 0)
      <4>1. S!Negative(r) \in BOOLEAN /\ S!Negative(s) \in BOOLEAN
        <5>1. r \in Int /\ s \in Int
          BY <1>1, <1>2, ShiftWords
        <5> QED BY <5>1, ShiftWords DEF S!Negative
      <4> QED BY <1>5, <2>3, <3>3, <4>1, Zenon
    <3>10. f = 2 * x
      BY <1>3, <3>1
    <3>11. y \in Range
      BY <3>3, Zenon
    <3>12. overflow' <=> f \notin Range
      BY <3>7, <3>8, <3>9, <3>10, <3>11
    <3> QED BY <2>3, <3>7, <3>9, <3>10, <3>12, Zenon DEF y
  <2> QED BY <2>1, <2>2, <2>3
<1> QED
  BY <1>1, <1>6, Zenon DEF SignHeld

----------------------------------------------------------------------------
(* A rotation turns a ring of bits.                                        *)

\* Powers of two of a width in two parts.
LEMMA PowersMeet ==
    ASSUME NEW w \in Nat, NEW j \in 0 .. w
    PROVE  S!PowerOfTwo[j] * S!PowerOfTwo[w - j] = S!PowerOfTwo[w]
<1> DEFINE p(n) == S!PowerOfTwo[n]
           N == {i \in Nat : i <= w /\ p(i) * p(w - i) # p(w)}
<1>1. ASSUME N # {} PROVE FALSE
  <2>1. PICK i \in N : \A k \in N : i <= k
    <3>1. N \subseteq Nat
      OBVIOUS
    <3> HIDE DEF N
    <3> QED BY <1>1, <3>1, LeastElement
  <2>2. i # 0
    <3>1. p(0) = 1 /\ p(w) \in Nat
      BY Powers
    <3>2. p(0) * p(w - 0) = p(w)
      BY <3>1
    <3> QED BY <2>1, <3>2
  <2>3. i - 1 \in Nat /\ i - 1 <= w /\ ~(i - 1 \in N) /\ i <= w /\ i \in Nat
    BY <2>1, <2>2
  <2>4. p(i - 1) * p(w - (i - 1)) = p(w)
    BY <2>3
  <2> DEFINE m == i - 1
             n == w - i
  <2>5. m \in Nat /\ n \in Nat /\ m + 1 = i /\ n + 1 = w - (i - 1)
    BY <2>3
  <2>6. p(m + 1) = 2 * p(m) /\ p(n + 1) = 2 * p(n) /\ p(m) \in Nat /\ p(n) \in Nat
    <3> HIDE DEF m, n
    <3> QED BY <2>5, Powers
  <2>7. p(m) * (2 * p(n)) = (2 * p(m)) * p(n)
    BY <2>6
  <2>8. p(i) = 2 * p(m) /\ p(w - i) = p(n) /\ p(w - (i - 1)) = 2 * p(n)
    BY <2>5, <2>6
  <2>9. p(i) * p(w - i) = p(m) * p(w - (i - 1))
    BY <2>7, <2>8, Zenon
  <2> QED BY <2>1, <2>4, <2>9
<1>2. j \in Nat /\ j <= w
  OBVIOUS
<1>3. ~(j \in N)
  <2> HIDE DEF N
  <2> QED BY <1>1
<1> QED
  BY <1>2, <1>3

\* Two turns that differ by one place: the highest bit of one is the lowest of the other.
LEMMA TurnOnce ==
    ASSUME NEW w \in Nat, NEW j \in 0 .. w, w + 1 = S!RingWidth,
           NEW ring \in 0 .. S!PowerOfTwo[w + 1] - 1
    PROVE  \E b \in {0, 1}, y \in 0 .. S!PowerOfTwo[w] - 1 :
               /\ TurnedBy(ring, j) = b * S!PowerOfTwo[w] + y
               /\ TurnedBy(ring, j + 1) = 2 * y + b
<1> DEFINE u == S!PowerOfTwo[w - j]
           p == S!PowerOfTwo[j]
           half == S!PowerOfTwo[w]
           h == ring \div (2 * u)
           l == ring % (2 * u)
           b == l \div u
           z == l % u
           y == z * p + h
<1>1. /\ j \in Nat /\ w - j \in Nat /\ w + 1 - j = (w - j) + 1 /\ w + 1 - (j + 1) = w - j
      /\ S!RingWidth - j = w + 1 - j /\ S!RingWidth - (j + 1) = w - j
  OBVIOUS
<1>2. /\ u \in Nat \ {0} /\ p \in Nat \ {0} /\ half \in Nat \ {0}
      /\ S!PowerOfTwo[j + 1] = 2 * p /\ S!PowerOfTwo[(w - j) + 1] = 2 * u
      /\ S!PowerOfTwo[w + 1] = 2 * half
  <2> DEFINE n == w - j
  <2>1. n \in Nat
    BY <1>1
  <2> HIDE DEF n
  <2>2. S!PowerOfTwo[n] \in Nat \ {0} /\ S!PowerOfTwo[n + 1] = 2 * S!PowerOfTwo[n]
    BY <2>1, Powers
  <2>3. /\ p \in Nat \ {0} /\ half \in Nat \ {0}
        /\ S!PowerOfTwo[j + 1] = 2 * p /\ S!PowerOfTwo[w + 1] = 2 * half
    BY <1>1, Powers
  <2> QED BY <2>2, <2>3 DEF n
<1>3. p * u = half
  BY PowersMeet
<1>4. ring \in Nat /\ ring < 2 * half
  BY <1>2
<1>5. h \in Nat /\ l \in 0 .. 2 * u - 1 /\ ring = h * (2 * u) + l
  <2> DEFINE d == 2 * u
  <2>1. d \in Nat \ {0}
    BY <1>2
  <2> HIDE DEF d
  <2>2. ring \div d \in Nat /\ ring % d \in 0 .. d - 1 /\ ring = (ring \div d) * d + (ring % d)
    BY <1>4, <2>1, QuotientOf
  <2> QED BY <2>2, Zenon DEF d
<1>6. TurnedBy(ring, j) = l * p + h
  BY <1>1, <1>2, Zenon DEF TurnedBy
<1>7. TurnedBy(ring, j + 1) = (ring % u) * (2 * p) + (ring \div u)
  BY <1>1, <1>2, Zenon DEF TurnedBy
<1> HIDE DEF u, p, half, h, l
<1>8. b \in {0, 1} /\ z \in 0 .. u - 1 /\ l = b * u + z
  <2>1. l \in Nat
    BY <1>2, <1>5
  <2>2. b \in Nat /\ z \in 0 .. u - 1 /\ l = b * u + z
    BY <1>2, <2>1, QuotientOf
  <2> HIDE DEF b, z
  <2>3. b < 2
    <3> SUFFICES ASSUME 2 <= b PROVE FALSE
      BY <2>2
    <3>1. 2 * u <= b * u
      BY <1>2, <2>2, Multiples
    <3>2. b * u \in Int
      BY <1>2, <2>2
    <3> QED BY <1>2, <1>5, <2>2, <3>1, <3>2
  <2> QED BY <2>2, <2>3
<1> HIDE DEF b, z
<1>9. ring % u = z /\ ring \div u = 2 * h + b
  <2> DEFINE k == 2 * h + b
  <2>1. k \in Int /\ ring = k * u + z
    <3>1. (2 * h + b) * u = h * (2 * u) + b * u
      BY <1>2, <1>5, <1>8
    <3>2. h * (2 * u) \in Int /\ b * u \in Int
      BY <1>2, <1>5, <1>8
    <3> QED BY <1>5, <1>8, <3>1, <3>2
  <2> HIDE DEF k
  <2>2. (k * u + z) \div u = k /\ (k * u + z) % u = z
    BY <1>2, <1>8, <2>1, PutTogetherAgain
  <2> QED BY <2>1, <2>2, Zenon DEF k
<1>10. h < p
  <2> SUFFICES ASSUME p <= h PROVE FALSE
    BY <1>2, <1>5
  <2> DEFINE d == 2 * u
  <2>1. d \in Nat
    BY <1>2
  <2>2. p * d <= h * d
    <3> HIDE DEF d
    <3> QED BY <1>2, <1>5, <2>1, Multiples
  <2>3. p * (2 * u) = 2 * (p * u) /\ p * u \in Int /\ h * (2 * u) \in Int
    BY <1>2, <1>5
  <2> QED BY <1>2, <1>3, <1>4, <1>5, <2>2, <2>3
<1>11. z * p \in Nat /\ z * p <= half - p
  <2>1. z * p <= (u - 1) * p
    BY <1>2, <1>8, Multiples
  <2>2. (u - 1) * p = p * u - p /\ z * p \in Nat
    BY <1>2, <1>8
  <2> QED BY <1>2, <1>3, <2>1, <2>2
<1>12. y \in 0 .. half - 1
  BY <1>2, <1>5, <1>10, <1>11
<1>13. TurnedBy(ring, j) = b * half + y
  <2>1. (b * u + z) * p = b * (p * u) + z * p
    BY <1>2, <1>8
  <2>2. b * half \in Int
    BY <1>2, <1>8
  <2> QED BY <1>3, <1>5, <1>6, <1>8, <1>11, <2>1, <2>2
<1>14. TurnedBy(ring, j + 1) = 2 * y + b
  <2>1. z * (2 * p) = 2 * (z * p)
    BY <1>2, <1>8
  <2> QED BY <1>5, <1>7, <1>8, <1>9, <1>11, <2>1
<1> HIDE DEF y
<1> QED
  BY <1>8, <1>12, <1>13, <1>14 DEF half

\* No turn and a whole one.
LEMMA NoTurn ==
    ASSUME S!RingWidth \in Nat, NEW ring \in 0 .. S!PowerOfTwo[S!RingWidth] - 1
    PROVE  TurnedBy(ring, 0) = ring /\ TurnedBy(ring, S!RingWidth) = ring
<1> DEFINE w == S!RingWidth
           p == S!PowerOfTwo[w]
<1>1. w \in Nat /\ w - 0 = w /\ w - w = 0 /\ p \in Nat \ {0} /\ S!PowerOfTwo[0] = 1
  BY Powers
<1>2. TurnedBy(ring, 0) = (ring % p) * 1 + (ring \div p)
  BY <1>1, Zenon DEF TurnedBy
<1>3. TurnedBy(ring, w) = (ring % 1) * p + (ring \div 1)
  BY <1>1, Zenon DEF TurnedBy
<1> HIDE DEF p, w
<1>4. ring \in 0 .. p - 1
  BY DEF p, w
<1>5. ring % p = ring /\ ring \div p = 0
  BY <1>1, <1>4
<1>6. ring % 1 = 0 /\ ring \div 1 = ring
  BY <1>1, <1>4
<1>7. 0 * p = 0
  BY <1>1
<1> QED
  BY <1>1, <1>2, <1>3, <1>4, <1>5, <1>6, <1>7 DEF w

LEMMA RingFacts ==
    ASSUME S!TypeOK, ~S!Shift
    PROVE  /\ type = 2 \/ type = 3
           /\ S!RingWidth \in Nat \ {0}
           /\ S!PowerOfTwo[S!RingWidth - 1] = (IF type = 2 THEN Modulus ELSE SignBit)
           /\ S!Ring = S!PowerOfTwo[S!RingWidth]
           /\ S!Ring = 2 * S!PowerOfTwo[S!RingWidth - 1]
           /\ S!RingOf(shiftResult, shiftExtend) \in 0 .. S!Ring - 1
           /\ S!RingOf(value, before.x) \in 0 .. S!Ring - 1
<1>1. type = 2 \/ type = 3
  <2>1. type \in 0 .. 3 /\ type \notin {0, 1}
    BY ShiftTypes DEF S!Shift
  <2> QED BY <2>1
<1>2. Width \in Nat \ {0} /\ S!PowerOfTwo[Width] = Modulus
  BY ShiftsAndDivisionsAssumption, WidthAssumption
<1>3. S!PowerOfTwo[Width + 1] = 2 * Modulus /\ S!PowerOfTwo[Width - 1] = SignBit
  <2> DEFINE n == Width - 1
  <2>1. n \in Nat /\ n + 1 = Width
    BY <1>2
  <2> HIDE DEF n
  <2>2. S!PowerOfTwo[n + 1] = 2 * S!PowerOfTwo[n] /\ S!PowerOfTwo[n] \in Nat
    BY <2>1, Powers
  <2>3. S!PowerOfTwo[n] = SignBit
    BY <1>2, <2>1, <2>2, ShiftWords
  <2>4. S!PowerOfTwo[Width + 1] = 2 * Modulus
    BY <1>2, Powers
  <2> QED BY <2>3, <2>4 DEF n
<1>4. /\ S!RingWidth = (IF type = 2 THEN Width + 1 ELSE Width)
      /\ S!Ring = (IF type = 2 THEN 2 * Modulus ELSE Modulus)
  BY ShiftWords, Zenon DEF S!RingWidth, S!Ring
<1>5. ASSUME NEW n \in S!Word, NEW x \in BOOLEAN
      PROVE  S!RingOf(n, x) \in 0 .. S!Ring - 1
  <2>1. S!Bit(x) \in {0, 1} /\ n \in 0 .. Modulus - 1 /\ Modulus \in Nat
    BY <1>5, BitOfFlag, ShiftWords
  <2>2. Modulus * S!Bit(x) = IF S!Bit(x) = 1 THEN Modulus ELSE 0
    BY <2>1
  <2>3. S!RingOf(n, x) = IF type = 2 THEN n + Modulus * S!Bit(x) ELSE n
    BY ShiftWords, Zenon DEF S!RingOf
  <2> QED BY <1>4, <2>1, <2>2, <2>3
<1>6. /\ S!RingOf(shiftResult, shiftExtend) \in 0 .. S!Ring - 1
      /\ S!RingOf(value, before.x) \in 0 .. S!Ring - 1
  BY <1>5, ShiftTypes
<1>7. CASE type = 2
  <2>1. S!RingWidth = Width + 1 /\ S!RingWidth - 1 = Width /\ S!Ring = 2 * Modulus
    BY <1>2, <1>4, <1>7
  <2> QED BY <1>1, <1>2, <1>3, <1>6, <1>7, <2>1
<1>8. CASE type # 2
  <2>1. S!RingWidth = Width /\ S!Ring = Modulus
    BY <1>2, <1>4, <1>8
  <2> QED BY <1>1, <1>2, <1>3, <1>6, <1>8, <2>1, ShiftWords
<1> QED
  BY <1>7, <1>8

\* A pass turns the ring by one place.
LEMMA RingPass ==
    ASSUME S!TypeOK, S!Pass, ~S!Shift,
           NEW b \in {0, 1}, NEW half, half = S!PowerOfTwo[S!RingWidth - 1], NEW y \in 0 .. half - 1,
           NEW c, c = S!RingOf(shiftResult, shiftExtend), NEW d, d = S!RingOf(shiftResult, shiftExtend)'
    PROVE  /\ left /\ c = b * half + y => d = 2 * y + b
           /\ ~left /\ c = 2 * y + b => d = b * half + y
<1> DEFINE r == shiftResult
           s == shiftResult'
           o == S!Bit(Out)
           x == S!Bit(shiftExtend)
<1>1. /\ r \in S!Word /\ s \in S!Word /\ o \in {0, 1} /\ In \in {0, 1} /\ x \in {0, 1}
      /\ left \in BOOLEAN /\ (o = 1 <=> Out) /\ Out \in BOOLEAN /\ type' = type
  BY ShiftTypes, PassParts, BitOfFlag
<1>2. /\ left => 2 * r + In = o * Modulus + s
      /\ ~left => /\ r \div 2 \in Nat /\ r \div 2 < SignBit
                  /\ s = (r \div 2) + SignBit * In /\ r = 2 * (r \div 2) + o
  BY PassParts
<1>3. /\ type = 2 \/ type = 3
      /\ half = (IF type = 2 THEN Modulus ELSE SignBit)
  BY RingFacts
<1>4. left => (Out <=> r >= SignBit)
  BY Zenon DEF Out, S!Negative
<1>5. /\ 0 <= r /\ r < Modulus /\ r \in Int /\ s \in Int /\ SignBit \in Nat \ {0}
      /\ Modulus = 2 * SignBit
  BY <1>1, ShiftWords
<1>6. CASE type = 2
  <2>1. c = r + Modulus * x
    BY <1>6, ShiftWords, Zenon DEF S!RingOf
  <2>2. d = s + Modulus * o
    <3>1. shiftExtend' = Out
      BY <1>6, PassParts
    <3>2. d = s + S!Modulus * S!Bit(Out)
      BY <1>1, <1>6, <3>1 DEF S!RingOf, S!Bit, S!Modulus
    <3> QED BY <3>2, ShiftWords, Zenon
  <2>3. In = x
    BY <1>6, PassInput
  <2>4. half = Modulus
    BY <1>3, <1>6
  <2> HIDE DEF r, s, o, x
  <2>5. /\ Modulus * x = (IF x = 1 THEN Modulus ELSE 0) /\ Modulus * o = (IF o = 1 THEN Modulus ELSE 0)
        /\ b * half = (IF b = 1 THEN Modulus ELSE 0) /\ o * Modulus = Modulus * o
        /\ SignBit * x = (IF x = 1 THEN SignBit ELSE 0)
    BY <1>1, <1>5, <2>4
  <2>6. ASSUME left, c = b * half + y PROVE d = 2 * y + b
    <3>1. b = x /\ y = r
      BY <1>1, <1>5, <2>1, <2>4, <2>5, <2>6
    <3> QED BY <1>1, <1>2, <1>5, <2>2, <2>3, <2>5, <2>6, <3>1
  <2>7. ASSUME ~left, c = 2 * y + b PROVE d = b * half + y
    <3> DEFINE h == r \div 2
    <3>1. h \in Nat /\ s = h + SignBit * x /\ r = 2 * h + o
      BY <1>2, <2>3, <2>7
    <3> HIDE DEF h
    <3>2. c = 2 * (h + SignBit * x) + o
      BY <1>1, <1>5, <2>1, <2>5, <3>1
    <3>3. b = o /\ y = s
      BY <1>1, <1>5, <2>4, <2>5, <2>7, <3>1, <3>2
    <3> QED BY <1>1, <1>5, <2>2, <2>4, <2>5, <3>3
  <2> QED BY <2>6, <2>7
<1>7. CASE type = 3
  <2>1. c = r
    BY <1>7, ShiftWords DEF S!RingOf
  <2>2. d = s
    BY <1>1, <1>7 DEF S!RingOf
  <2>3. In = o
    BY <1>7, PassInput
  <2>4. half = SignBit
    BY <1>3, <1>7
  <2> HIDE DEF r, s, o, x
  <2>5. /\ b * half = (IF b = 1 THEN SignBit ELSE 0)
        /\ o * Modulus = (IF o = 1 THEN Modulus ELSE 0)
        /\ SignBit * o = (IF o = 1 THEN SignBit ELSE 0)
    BY <1>1, <1>5, <2>4
  <2>6. ASSUME left, c = b * half + y PROVE d = 2 * y + b
    <3>1. b = 1 <=> r >= SignBit
      BY <1>5, <2>1, <2>4, <2>5, <2>6
    <3>2. b = o
      BY <1>1, <1>4, <2>6, <3>1
    <3> QED BY <1>1, <1>2, <1>5, <2>1, <2>2, <2>3, <2>4, <2>5, <2>6, <3>2
  <2>7. ASSUME ~left, c = 2 * y + b PROVE d = b * half + y
    <3> DEFINE h == r \div 2
    <3>1. h \in Nat /\ s = h + SignBit * o /\ r = 2 * h + o
      BY <1>2, <2>3, <2>7
    <3> HIDE DEF h
    <3>2. b = o /\ y = h
      <4>1. 2 * h + o = 2 * y + b
        BY <2>1, <2>7, <3>1, Zenon
      <4>2. y \in Int /\ h \in Int /\ o \in {0, 1}
        BY <1>1, <1>5, <2>4, <3>1
      <4> QED BY <4>1, <4>2
    <3> QED BY <1>1, <1>5, <2>2, <2>5, <3>1, <3>2
  <2> QED BY <2>6, <2>7
<1> QED
  BY <1>3, <1>6, <1>7

LEMMA NextInRing ==
    ASSUME NEW i \in Nat, NEW w \in Nat \ {0}
    PROVE  /\ i % w \in 0 .. w - 1
           /\ (i + 1) % w = IF (i % w) + 1 = w THEN 0 ELSE (i % w) + 1
<1> DEFINE q == i \div w
           k == i % w
<1>1. q \in Nat /\ k \in 0 .. w - 1 /\ i = q * w + k
  BY QuotientOf
<1> HIDE DEF q, k
<1>2. CASE k + 1 = w
  <2> DEFINE n == q + 1
  <2>1. n \in Int /\ 0 \in 0 .. w - 1 /\ i + 1 = n * w + 0
    <3>1. (q + 1) * w = q * w + w /\ q * w \in Int
      BY <1>1
    <3> QED BY <1>1, <1>2, <3>1
  <2> HIDE DEF n
  <2>2. (n * w + 0) % w = 0
    BY <2>1, PutTogetherAgain
  <2>3. (i + 1) % w = 0
    BY <2>1, <2>2, Zenon
  <2> QED BY <1>1, <1>2, <2>3 DEF k
<1>3. CASE k + 1 # w
  <2> DEFINE n == k + 1
  <2>1. n \in 0 .. w - 1 /\ i + 1 = q * w + n
    <3>1. q * w \in Int
      BY <1>1
    <3> QED BY <1>1, <1>3, <3>1
  <2> HIDE DEF n
  <2>2. (q * w + n) % w = n
    BY <1>1, <2>1, PutTogetherAgain
  <2>3. (i + 1) % w = n
    BY <2>1, <2>2, Zenon
  <2> QED BY <1>1, <1>3, <2>3 DEF k, n
<1> QED
  BY <1>2, <1>3

LEMMA RotatedKeeps ==
    ASSUME S!TypeOK, RotatedSoFar, S!Pass, ~S!Shift
    PROVE  RotatedSoFar'
<1> DEFINE W == S!RingWidth
           w == W - 1
           half == S!PowerOfTwo[w]
           k == index % W
           n == (index + 1) % W
           ring == S!RingOf(value, before.x)
           c == S!RingOf(shiftResult, shiftExtend)
           d == S!RingOf(shiftResult, shiftExtend)'
<1>1. /\ W \in Nat \ {0} /\ ring \in 0 .. S!PowerOfTwo[W] - 1
      /\ type = 2 \/ type = 3
  BY RingFacts
<1>2. index \in Nat /\ left \in BOOLEAN /\ Out \in BOOLEAN
  BY ShiftTypes
<1>3. k \in 0 .. W - 1 /\ n = IF k + 1 = W THEN 0 ELSE k + 1
  BY <1>1, <1>2, NextInRing
<1>4. TurnedBy(ring, 0) = ring /\ TurnedBy(ring, W) = ring
  BY <1>1, NoTurn
<1>5. c = TurnedBy(ring, IF left THEN k ELSE W - k)
  BY Zenon DEF RotatedSoFar, Places
<1>6. d = TurnedBy(ring, IF left THEN n ELSE W - n)
  <2> HIDE DEF W, ring, k, n, c, d
  <2> DEFINE j == IF left THEN k ELSE w - k
  <2>1. w \in Nat /\ j \in 0 .. w /\ w + 1 = W
    BY <1>1, <1>3
  <2> HIDE DEF w, j
  <2>2. PICK b \in {0, 1}, y \in 0 .. half - 1 :
            TurnedBy(ring, j) = b * half + y /\ TurnedBy(ring, j + 1) = 2 * y + b
    BY <1>1, <2>1, TurnOnce DEF W
  <2>3. half = S!PowerOfTwo[S!RingWidth - 1]
    BY DEF w, W
  <2> HIDE DEF half
  <2>4. /\ left /\ c = b * half + y => d = 2 * y + b
        /\ ~left /\ c = 2 * y + b => d = b * half + y
    BY <2>3, RingPass DEF c, d
  <2>5. CASE left
    <3>1. j = k
      BY <2>5 DEF j
    <3>2. d = TurnedBy(ring, k + 1)
      BY <1>5, <2>2, <2>4, <2>5, <3>1, Zenon
    <3>3. CASE k + 1 = W
      BY <1>3, <1>4, <2>5, <3>2, <3>3, Zenon
    <3>4. CASE k + 1 # W
      BY <1>3, <2>5, <3>2, <3>4, Zenon
    <3> QED BY <3>3, <3>4
  <2>6. CASE ~left
    <3>1. j = w - k /\ j + 1 = W - k
      BY <1>1, <1>3, <2>1, <2>6 DEF j, w
    <3>2. d = TurnedBy(ring, w - k)
      BY <1>5, <2>2, <2>4, <2>6, <3>1, Zenon
    <3>3. CASE k + 1 = W
      <4>1. w - k = 0 /\ W - n = W
        BY <1>1, <1>3, <2>1, <3>3
      <4> QED BY <1>4, <2>6, <3>2, <4>1, Zenon
    <3>4. CASE k + 1 # W
      <4>1. w - k = W - n
        BY <1>1, <1>3, <2>1, <3>4
      <4> QED BY <2>6, <3>2, <4>1, Zenon
    <3> QED BY <3>3, <3>4
  <2> QED BY <1>2, <2>5, <2>6
<1>7. /\ index' = index + 1 /\ type' = type /\ left' = left /\ value' = value /\ before' = before
      /\ shiftCarry' = Out /\ shiftExtend' = IF type = 2 THEN Out ELSE shiftExtend
  BY PassParts
<1>8. S!RingOf(value, before.x)' = ring /\ S!RingWidth' = W
  BY <1>7, Zenon DEF S!RingOf, S!RingWidth
<1>9. TurnedBy(S!RingOf(value, before.x), Places)' = TurnedBy(ring, IF left THEN n ELSE W - n)
  BY <1>7, <1>8, Zenon DEF TurnedBy, Places
<1>10. ~S!Shift'
  BY <1>7, Zenon DEF S!Shift
<1>11. type = 2 => shiftCarry' = shiftExtend'
  BY <1>7, Zenon
<1>12. type = 3 => (shiftCarry' <=> IF left THEN shiftResult' % 2 = 1
                                            ELSE S!Negative(shiftResult'))
  <2> SUFFICES ASSUME type = 3 PROVE shiftCarry' <=> IF left THEN shiftResult' % 2 = 1
                                                             ELSE S!Negative(shiftResult')
    OBVIOUS
  <2>1. In = S!Bit(Out) /\ (S!Bit(Out) = 1 <=> Out)
    BY PassInput, ShiftTypes
  <2>2. CASE left
    BY <1>7, <2>1, <2>2, PassParts
  <2>3. CASE ~left
    BY <1>7, <2>1, <2>3, PassParts
  <2> QED BY <1>2, <2>2, <2>3
<1>13. S!Negative(shiftResult)' <=> S!Negative(shiftResult')
  BY DEF S!Negative
<1> QED
  BY <1>6, <1>7, <1>9, <1>10, <1>11, <1>12, <1>13, Zenon DEF RotatedSoFar

----------------------------------------------------------------------------
(* The steps of a shift.                                                   *)

\* Before the first pass.
LEMMA ShiftInitEstablishes == S!Init => ShiftInv
<1> SUFFICES ASSUME S!Init PROVE ShiftInv
  OBVIOUS
<1>1. /\ type \in 0 .. 3 /\ left \in BOOLEAN /\ count \in 0 .. CountBound /\ value \in S!Word
      /\ before \in S!Flags /\ shiftFlags \in S!Flags
      /\ index = 0 /\ shiftResult = value
      /\ shiftCarry = FALSE /\ shiftExtend = before.x /\ overflow = FALSE /\ done = FALSE
  BY Zenon DEF S!Init
<1>2. S!TypeOK
  <2>1. 0 \in 0 .. count
    BY <1>1, ShiftsAndDivisionsAssumption
  <2>2. before.x \in BOOLEAN
    BY <1>1, Zenon DEF S!Flags
  <2> QED BY <1>1, <2>1, <2>2, Zenon DEF S!TypeOK
<1>3. PassesDone
  BY <1>1, Zenon DEF PassesDone
<1>4. S!PowerOfTwo[0] = 1
  BY Powers
<1>5. ~(0 > 0)
  OBVIOUS
<1>6. ShiftedSoFar
  <2>1. value \in 0 .. Modulus - 1 /\ Modulus \in Nat \ {0} /\ Shown(value) \in Int
    BY <1>1, ShiftWords, ShownIsInt
  <2>2. value = (value * 1) % Modulus
    BY <2>1
  <2>3. Shown(value) = Shown(value) \div 1
    BY <2>1
  <2> QED BY <1>1, <1>4, <1>5, <2>2, <2>3, Zenon DEF ShiftedSoFar
<1>7. SignHeld
  <2>1. S!Signed(value) \in -SignBit .. SignBit - 1
    BY <1>1, SignedWord
  <2>2. S!Signed(value) * 1 = S!Signed(value)
    BY <2>1, ShiftWords
  <2> QED BY <1>1, <1>4, <2>1, <2>2, Zenon DEF SignHeld
<1>8. RotatedSoFar
  <2> SUFFICES ASSUME ~S!Shift PROVE RotatedSoFar
    BY Zenon DEF RotatedSoFar
  <2> DEFINE ring == S!RingOf(value, before.x)
  <2>1. S!RingWidth \in Nat \ {0} /\ ring \in 0 .. S!PowerOfTwo[S!RingWidth] - 1
    BY <1>2, RingFacts
  <2>2. TurnedBy(ring, 0) = ring /\ TurnedBy(ring, S!RingWidth) = ring
    BY <2>1, NoTurn
  <2>3. 0 % S!RingWidth = 0 /\ S!RingWidth - 0 = S!RingWidth
    BY <2>1
  <2>4. Places = IF left THEN 0 ELSE S!RingWidth
    BY <1>1, <2>3, Zenon DEF Places
  <2>5. TurnedBy(ring, Places) = ring
    BY <1>1, <2>2, <2>4, Zenon
  <2> QED BY <1>1, <1>5, <2>5, Zenon DEF RotatedSoFar
<1> QED
  BY <1>2, <1>3, <1>6, <1>7, <1>8, Zenon DEF ShiftInv

\* A pass.
LEMMA PassKeeps ==
    ASSUME ShiftInv, S!Pass
    PROVE  ShiftInv'
<1>1. S!TypeOK /\ PassesDone /\ ShiftedSoFar /\ SignHeld /\ RotatedSoFar
  BY Zenon DEF ShiftInv
<1>2. /\ index' = index + 1 /\ index < count
      /\ shiftCarry' = Out /\ shiftExtend' = IF type = 2 THEN Out ELSE shiftExtend
      /\ overflow' = S!Overflowed(shiftResult')
      /\ type' = type /\ left' = left /\ count' = count /\ value' = value
      /\ before' = before /\ shiftFlags' = shiftFlags /\ done' = done
      /\ shiftResult' \in S!Word
  BY <1>1, PassParts
<1>3. /\ index \in Nat /\ count \in Nat /\ Out \in BOOLEAN /\ index' \in 0 .. count /\ index' # 0
      /\ index # count
  <2>1. index \in Nat /\ count \in Nat /\ Out \in BOOLEAN
    BY <1>1, ShiftTypes
  <2> QED BY <1>2, <2>1
<1>4. S!TypeOK'
  <2>1. overflow' \in BOOLEAN
    <3>1. S!Negative(shiftResult) \in BOOLEAN /\ S!Negative(shiftResult') \in BOOLEAN
      <4>1. shiftResult \in S!Word
        BY <1>1, ShiftTypes
      <4> QED BY <1>2, <4>1, ShiftWords DEF S!Negative
    <3>2. overflow \in BOOLEAN
      BY <1>1, Zenon DEF S!TypeOK
    <3> QED BY <1>2, <3>1, <3>2, Zenon DEF S!Overflowed
  <2> QED BY <1>1, <1>2, <1>3, <2>1, Zenon DEF S!TypeOK
<1>5. PassesDone'
  <2>1. ~done
    BY <1>1, <1>3, Zenon DEF PassesDone
  <2> QED BY <1>1, <1>2, <1>3, <2>1, Zenon DEF PassesDone
<1>6. ShiftedSoFar'
  <2>1. CASE ~S!Shift
    BY <1>2, <2>1, Zenon DEF ShiftedSoFar, S!Shift
  <2> QED BY <1>1, <2>1, ShiftedLeftKeeps, ShiftedRightKeeps, Zenon
<1>7. SignHeld'
  BY <1>1, SignHeldKeeps
<1>8. RotatedSoFar'
  <2>1. CASE S!Shift
    BY <1>2, <2>1, Zenon DEF RotatedSoFar, S!Shift
  <2> QED BY <1>1, <2>1, RotatedKeeps
<1> QED
  BY <1>4, <1>5, <1>6, <1>7, <1>8, Zenon DEF ShiftInv

\* The flags at the end.
LEMMA FinishKeeps ==
    ASSUME ShiftInv, S!Finish
    PROVE  ShiftInv'
<1>1. /\ index = count /\ done' = TRUE
      /\ shiftFlags' = [x |-> S!FinalExtend, n |-> S!Negative(shiftResult),
                        z |-> shiftResult = 0, v |-> overflow, c |-> S!FinalCarry]
      /\ type' = type /\ left' = left /\ count' = count /\ value' = value /\ before' = before
      /\ index' = index /\ shiftResult' = shiftResult /\ shiftCarry' = shiftCarry
      /\ shiftExtend' = shiftExtend /\ overflow' = overflow
  BY Zenon DEF S!Finish, S!operands
<1>2. S!TypeOK /\ PassesDone /\ ShiftedSoFar /\ SignHeld /\ RotatedSoFar
  BY Zenon DEF ShiftInv
<1>3. shiftFlags' \in S!Flags
  <2>1. S!Negative(shiftResult) \in BOOLEAN /\ (shiftResult = 0) \in BOOLEAN
    BY <1>2, ShiftTypes, ShiftWords DEF S!Negative
  <2>2. /\ overflow \in BOOLEAN /\ before.x \in BOOLEAN /\ shiftCarry \in BOOLEAN
        /\ shiftExtend \in BOOLEAN
    BY <1>2, Zenon DEF S!TypeOK, S!Flags
  <2>3. S!FinalExtend \in BOOLEAN /\ S!FinalCarry \in BOOLEAN
    BY <2>2, Zenon DEF S!FinalExtend, S!FinalCarry
  <2> QED BY <1>1, <2>1, <2>2, <2>3, Zenon DEF S!Flags
<1>4. S!TypeOK'
  BY <1>1, <1>2, <1>3, Zenon DEF S!TypeOK
<1>5. S!FinalExtend' = S!FinalExtend /\ S!FinalCarry' = S!FinalCarry
  BY <1>1, Zenon DEF S!FinalExtend, S!FinalCarry
<1>6. (S!Negative(shiftResult))' = S!Negative(shiftResult)
  BY <1>1, Zenon DEF S!Negative
<1>7. PassesDone'
  BY <1>1, <1>2, <1>5, <1>6, Zenon DEF PassesDone
<1>8. ShiftedSoFar'
  BY <1>1, <1>2, Zenon DEF ShiftedSoFar, LostSoFar, Shown, S!Shift, Modulus
<1>9. SignHeld'
  BY <1>1, <1>2, Zenon DEF SignHeld, S!Signed
<1>10. RotatedSoFar'
  BY <1>1, <1>2, <1>6, Zenon DEF RotatedSoFar, TurnedBy, Places, S!Shift, S!RingOf, S!RingWidth
<1> QED
  BY <1>4, <1>7, <1>8, <1>9, <1>10, Zenon DEF ShiftInv

\* Every step of a shift keeps the invariant.
LEMMA ShiftStep == ShiftInv /\ [S!Next]_(S!vars) => ShiftInv'
<1> SUFFICES ASSUME ShiftInv, [S!Next]_(S!vars) PROVE ShiftInv'
  OBVIOUS
<1>1. CASE S!Pass
  BY <1>1, PassKeeps
<1>2. CASE S!Finish
  BY <1>2, FinishKeeps
<1>3. CASE UNCHANGED S!vars
  <2>1. /\ type' = type /\ left' = left /\ count' = count /\ value' = value /\ before' = before
        /\ shiftFlags' = shiftFlags /\ index' = index /\ shiftResult' = shiftResult
        /\ shiftCarry' = shiftCarry /\ shiftExtend' = shiftExtend /\ overflow' = overflow
        /\ done' = done
    BY <1>3, Zenon DEF S!vars, S!operands
  <2>2. S!TypeOK /\ PassesDone /\ ShiftedSoFar /\ SignHeld /\ RotatedSoFar
    BY Zenon DEF ShiftInv
  <2>3. S!FinalExtend' = S!FinalExtend /\ S!FinalCarry' = S!FinalCarry
    BY <2>1, Zenon DEF S!FinalExtend, S!FinalCarry
  <2>4. (S!Negative(shiftResult))' = S!Negative(shiftResult)
    BY <2>1, Zenon DEF S!Negative
  <2>5. S!TypeOK' /\ PassesDone'
    BY <2>1, <2>2, <2>3, <2>4, Zenon DEF S!TypeOK, PassesDone
  <2>6. ShiftedSoFar'
    BY <2>1, <2>2, Zenon DEF ShiftedSoFar, LostSoFar, Shown, S!Shift, Modulus
  <2>7. SignHeld'
    BY <2>1, <2>2, Zenon DEF SignHeld, S!Signed
  <2>8. RotatedSoFar'
    BY <2>1, <2>2, <2>4, Zenon DEF RotatedSoFar, TurnedBy, Places, S!Shift, S!RingOf, S!RingWidth
  <2> QED BY <2>5, <2>6, <2>7, <2>8, Zenon DEF ShiftInv
<1> QED
  BY <1>1, <1>2, <1>3, Zenon DEF S!Next

\* A word is what its number leaves of the modulus.
LEMMA ShownAgain ==
    ASSUME NEW w \in S!Word
    PROVE  Shown(w) % Modulus = w
<1> DEFINE q == IF type = 0 /\ S!Negative(w) THEN -1 ELSE 0
           n == q * Modulus + w
<1>1. w \in 0 .. Modulus - 1 /\ Modulus \in Nat \ {0} /\ q \in Int
  BY ShiftWords
<1>2. Shown(w) = n
  BY <1>1, ShiftWords DEF Shown, S!Signed
<1>3. n % Modulus = w
  <2> HIDE DEF q
  <2> QED BY <1>1, PutTogetherAgain
<1> QED
  BY <1>2, <1>3, Zenon

LEMMA ShiftIsPowerHolds == ShiftInv => S!ShiftIsPower
<1> SUFFICES ASSUME ShiftInv, S!Shift PROVE S!ShiftIsPower
  BY Zenon DEF S!ShiftIsPower
<1>1. S!TypeOK /\ ShiftedSoFar
  BY Zenon DEF ShiftInv
<1>2. left \in BOOLEAN /\ shiftResult \in S!Word /\ S!Modulus = Modulus
  BY <1>1, ShiftTypes, ShiftWords
<1>3. CASE left
  BY <1>1, <1>2, <1>3, Zenon DEF ShiftedSoFar, S!ShiftIsPower
<1>4. CASE ~left
  <2>1. Shown(shiftResult) = Shown(value) \div S!PowerOfTwo[index]
    BY <1>1, <1>4, Zenon DEF ShiftedSoFar
  <2>2. shiftResult = (Shown(value) \div S!PowerOfTwo[index]) % Modulus
    BY <1>2, <2>1, ShownAgain, Zenon
  <2> QED BY <1>2, <1>4, <2>2, Zenon DEF S!ShiftIsPower, Shown
<1> QED
  BY <1>2, <1>3, <1>4

\* The flags at the end.
LEMMA FlagsAtEnd ==
    ASSUME PassesDone, done
    PROVE  /\ index = count /\ shiftFlags.x = S!FinalExtend /\ shiftFlags.c = S!FinalCarry
           /\ shiftFlags.v = overflow
<1>1. /\ index = count
      /\ shiftFlags = [x |-> S!FinalExtend, n |-> S!Negative(shiftResult),
                       z |-> shiftResult = 0, v |-> overflow, c |-> S!FinalCarry]
  BY Zenon DEF PassesDone
<1> QED
  BY <1>1

LEMMA ShiftedOutHolds == ShiftInv => S!ShiftedOut
<1> SUFFICES ASSUME ShiftInv, S!Shift, done PROVE S!ShiftedOut
  BY Zenon DEF S!ShiftedOut
<1>1. S!TypeOK /\ PassesDone /\ ShiftedSoFar
  BY Zenon DEF ShiftInv
<1>2. /\ left \in BOOLEAN /\ shiftCarry \in BOOLEAN /\ count \in Nat /\ S!Modulus = Modulus
  BY <1>1, ShiftTypes, ShiftWords
<1>3. index = count
  BY <1>1, Zenon DEF PassesDone
<1>4. shiftFlags.x = S!FinalExtend /\ shiftFlags.c = S!FinalCarry
  BY <1>1, FlagsAtEnd
<1>5. type # 2 /\ type # 3
  BY DEF S!Shift
<1>6. shiftFlags.c = shiftCarry
  BY <1>4, <1>5, Zenon DEF S!FinalCarry
<1>7. shiftFlags.x = IF count = 0 THEN before.x ELSE shiftCarry
  BY <1>4, <1>5, Zenon DEF S!FinalExtend
<1>8. CASE count = 0
  <2>1. shiftCarry = FALSE
    BY <1>1, <1>3, <1>8, Zenon DEF PassesDone
  <2>2. ~shiftFlags.c /\ shiftFlags.x = before.x
    BY <1>6, <1>7, <1>8, <2>1
  <2> QED BY <1>8, <2>2, Zenon DEF S!ShiftedOut
<1>9. CASE count # 0
  <2>1. index > 0
    BY <1>2, <1>3, <1>9
  <2>2. shiftCarry <=> LostSoFar % 2 = 1
    BY <1>1, <2>1, Zenon DEF ShiftedSoFar
  <2>3. LostSoFar = S!LostBit
    BY <1>2, <1>3, Zenon DEF LostSoFar, S!LostBit, Shown
  <2>4. shiftFlags.c = (S!LostBit % 2 = 1)
    BY <1>2, <1>6, <2>2, <2>3, Zenon
  <2> QED BY <1>6, <1>7, <1>9, <2>4, Zenon DEF S!ShiftedOut
<1> QED
  BY <1>8, <1>9

LEMMA OverflowHolds == ShiftInv => S!OverflowIsLostSign
<1> SUFFICES ASSUME ShiftInv, done PROVE S!OverflowIsLostSign
  BY Zenon DEF S!OverflowIsLostSign
<1>1. PassesDone /\ SignHeld
  BY Zenon DEF ShiftInv
<1>2. index = count /\ shiftFlags.v = overflow
  BY <1>1, FlagsAtEnd
<1>3. overflow <=> /\ type = 0 /\ left
                   /\ S!Signed(value) * S!PowerOfTwo[count] \notin -SignBit .. SignBit - 1
  BY <1>1, <1>2, Zenon DEF SignHeld
<1> QED
  BY <1>2, <1>3, Zenon DEF S!OverflowIsLostSign

\* A turn as it is written and as it is done.
LEMMA TurnedAlike ==
    ASSUME S!RingWidth \in Nat \ {0}, S!Ring = S!PowerOfTwo[S!RingWidth],
           NEW ring \in 0 .. S!Ring - 1, NEW places \in 0 .. S!RingWidth
    PROVE  S!Turned(ring, places) = TurnedBy(ring, places)
<1> DEFINE w == S!RingWidth
           u == S!PowerOfTwo[w - places]
           p == S!PowerOfTwo[places]
           m == S!Ring
           h == ring \div u
           l == ring % u
           below == l * p
<1>1. u \in Nat \ {0} /\ p \in Nat \ {0} /\ m \in Nat \ {0}
  <2>1. w \in Nat /\ places \in Nat /\ w - places \in Nat
    OBVIOUS
  <2> DEFINE n == w - places
  <2> HIDE DEF n
  <2>2. S!PowerOfTwo[n] \in Nat \ {0}
    BY <2>1, Powers DEF n
  <2>3. S!PowerOfTwo[places] \in Nat \ {0} /\ S!PowerOfTwo[w] \in Nat \ {0}
    BY <2>1, Powers
  <2> QED BY <2>2, <2>3 DEF n
<1>2. p * u = m
  <2>1. w \in Nat
    OBVIOUS
  <2> QED BY <2>1, PowersMeet
<1>3. S!Turned(ring, places) = ((ring * p) % m) + ((ring * p) \div m)
  BY Zenon DEF S!Turned
<1>4. TurnedBy(ring, places) = (l * p) + h
  BY Zenon DEF TurnedBy
<1>5. ring \in Nat /\ ring < m
  BY <1>1
<1> HIDE DEF w, u, p, m
<1>6. h \in Nat /\ l \in 0 .. u - 1 /\ ring = h * u + l
  BY <1>1, <1>5, QuotientOf
<1> HIDE DEF h, l
<1>7. below \in 0 .. m - 1
  <2>1. l * p <= (u - 1) * p
    BY <1>1, <1>6, Multiples
  <2>2. (u - 1) * p = p * u - p /\ l * p \in Nat
    BY <1>1, <1>6
  <2> QED BY <1>1, <1>2, <2>1, <2>2
<1>8. ring * p = h * m + below
  <2>1. (h * u + l) * p = h * (p * u) + l * p
    BY <1>1, <1>6
  <2> QED BY <1>2, <1>6, <2>1
<1>9. (h * m + below) \div m = h /\ (h * m + below) % m = below
  <2> HIDE DEF below
  <2> QED BY <1>1, <1>6, <1>7, PutTogetherAgain
<1>10. S!Turned(ring, places) = below + h
  BY <1>3, <1>8, <1>9, Zenon
<1> QED
  BY <1>4, <1>10, Zenon

\* A rotation by any count.
LEMMA RotationHolds == ShiftInv => S!RotationIsCyclic
<1> SUFFICES ASSUME ShiftInv, ~S!Shift, done PROVE S!RotationIsCyclic
  BY Zenon DEF S!RotationIsCyclic
<1> DEFINE W == S!RingWidth
           k == count % W
           ring == S!RingOf(value, before.x)
           places == IF left THEN k ELSE (W - k) % W
<1>1. S!TypeOK /\ PassesDone /\ RotatedSoFar
  BY Zenon DEF ShiftInv
<1>2. /\ left \in BOOLEAN /\ shiftCarry \in BOOLEAN /\ count \in Nat /\ before.x \in BOOLEAN
      /\ shiftExtend \in BOOLEAN
  BY <1>1, ShiftTypes
<1>3. /\ W \in Nat \ {0} /\ S!Ring = S!PowerOfTwo[W] /\ ring \in 0 .. S!Ring - 1
      /\ type = 2 \/ type = 3
  BY <1>1, RingFacts
<1>4. /\ index = count /\ shiftFlags.x = S!FinalExtend /\ shiftFlags.c = S!FinalCarry
      /\ index = 0 => shiftCarry = FALSE /\ shiftExtend = before.x
  <2>1. index = 0 => shiftCarry = FALSE /\ shiftExtend = before.x
    BY <1>1, Zenon DEF PassesDone
  <2> QED BY <1>1, <2>1, FlagsAtEnd
<1>5. k \in 0 .. W - 1
  BY <1>2, <1>3, NextInRing
<1>6. S!RingOf(shiftResult, shiftExtend) = TurnedBy(ring, IF left THEN k ELSE W - k)
  BY <1>1, <1>4, Zenon DEF RotatedSoFar, Places
<1>7. /\ places \in 0 .. W
      /\ TurnedBy(ring, IF left THEN k ELSE W - k) = TurnedBy(ring, places)
  <2>1. TurnedBy(ring, 0) = ring /\ TurnedBy(ring, W) = ring
    BY <1>3, NoTurn
  <2>2. CASE left
    <3> HIDE DEF k, W, ring
    <3> QED BY <1>3, <1>5, <2>2
  <2>3. CASE ~left /\ k = 0
    <3> HIDE DEF k, W, ring
    <3>1. places = 0 /\ W - k = W
      BY <1>3, <2>3
    <3> QED BY <1>3, <2>1, <2>3, <3>1
  <2>4. CASE ~left /\ k # 0
    <3> HIDE DEF k, W, ring
    <3>1. W - k \in 0 .. W - 1
      BY <1>3, <1>5, <2>4
    <3>2. (W - k) % W = W - k
      BY <1>3, <3>1
    <3> QED BY <1>3, <2>4, <3>1, <3>2
  <2> QED BY <1>2, <2>2, <2>3, <2>4
<1>8. S!Turned(ring, places) = TurnedBy(ring, places)
  <2> HIDE DEF ring, places
  <2> QED BY <1>3, <1>7, TurnedAlike
<1>9. S!RingOf(shiftResult, shiftFlags.x) = S!RingOf(shiftResult, shiftExtend)
  <2>1. CASE type = 3
    <3>1. type # 2
      BY <2>1
    <3> QED BY <3>1, Zenon DEF S!RingOf
  <2>2. CASE type = 2
    <3>1. type # 3
      BY <2>2
    <3>2. S!FinalExtend = shiftExtend
      BY <1>4, <2>2, <3>1, Zenon DEF S!FinalExtend
    <3> QED BY <1>4, <3>2, Zenon
  <2> QED BY <1>3, <2>1, <2>2
<1>10. type = 3 => shiftFlags.x = before.x
  BY <1>4, Zenon DEF S!FinalExtend
<1>11. count # 0 => index > 0
  BY <1>2, <1>4
<1>12. type = 2 => shiftFlags.c = shiftFlags.x
  <2> SUFFICES ASSUME type = 2 PROVE shiftFlags.c = shiftFlags.x
    OBVIOUS
  <2>1. type # 3
    OBVIOUS
  <2>2. CASE count = 0
    BY <1>4, <2>2, Zenon DEF S!FinalExtend, S!FinalCarry
  <2>3. CASE count # 0
    <3>1. shiftCarry = shiftExtend
      BY <1>1, <1>11, <2>3, Zenon DEF RotatedSoFar
    <3> QED BY <1>4, <2>1, <2>3, <3>1, Zenon DEF S!FinalExtend, S!FinalCarry
  <2> QED BY <2>2, <2>3
<1>13. type = 3 => shiftFlags.c = (count > 0 /\ IF left THEN shiftResult % 2 = 1
                                                      ELSE S!Negative(shiftResult))
  <2> SUFFICES ASSUME type = 3
               PROVE  shiftFlags.c = (count > 0 /\ IF left THEN shiftResult % 2 = 1
                                                   ELSE S!Negative(shiftResult))
    OBVIOUS
  <2>1. type # 2
    OBVIOUS
  <2>2. shiftFlags.c = shiftCarry
    BY <1>4, <2>1, Zenon DEF S!FinalCarry
  <2>3. CASE count = 0
    <3>1. ~(count > 0)
      BY <2>3
    <3> QED BY <1>4, <2>2, <2>3, <3>1, Zenon
  <2>4. CASE count # 0
    <3>1. count > 0
      BY <1>2, <2>4
    <3>2. shiftCarry <=> IF left THEN shiftResult % 2 = 1 ELSE S!Negative(shiftResult)
      BY <1>1, <1>11, <2>4, Zenon DEF RotatedSoFar
    <3>3. (shiftResult % 2 = 1) \in BOOLEAN /\ S!Negative(shiftResult) \in BOOLEAN
      BY <1>1, ShiftTypes, ShiftWords DEF S!Negative
    <3> QED BY <1>2, <2>2, <3>1, <3>2, <3>3, Zenon
  <2> QED BY <2>3, <2>4
<1>14. S!RingOf(shiftResult, shiftFlags.x) = S!Turned(ring, places)
  BY <1>6, <1>7, <1>8, <1>9, Zenon
<1> QED
  BY <1>10, <1>12, <1>13, <1>14, Zenon DEF S!RotationIsCyclic

\* Shifts and rotations do what they say for every count, and so do the flags
\* they leave: shiftValue().
THEOREM ShiftsAreExact ==
    S!Spec => [](S!TypeOK /\ S!ShiftIsPower /\ S!ShiftedOut /\ S!OverflowIsLostSign
                 /\ S!RotationIsCyclic)
<1>1. ShiftInv => S!TypeOK /\ S!ShiftIsPower /\ S!ShiftedOut /\ S!OverflowIsLostSign
                  /\ S!RotationIsCyclic
  BY ShiftIsPowerHolds, ShiftedOutHolds, OverflowHolds, RotationHolds, Zenon DEF ShiftInv
<1>2. S!Spec => []ShiftInv
  BY ShiftInitEstablishes, ShiftStep, PTL DEF S!Spec
<1> QED
  BY <1>1, <1>2, PTL

\* Both together, as they are checked.
THEOREM ShiftsAndDivisionsHold == S!Spec /\ D!Spec => []ShiftsAndDivisionsAreExact
<1>1. /\ S!TypeOK /\ S!ShiftIsPower /\ S!ShiftedOut /\ S!OverflowIsLostSign
      /\ S!RotationIsCyclic
      /\ D!TypeOK /\ D!DivisionIsExact /\ D!LongDivisionIsExact /\ D!ProductIsExact
      => ShiftsAndDivisionsAreExact
  BY Zenon DEF ShiftsAndDivisionsAreExact
<1> QED
  BY <1>1, ShiftsAreExact, DivisionsAreExact, PTL
=============================================================================
