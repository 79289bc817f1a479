----------------------------- MODULE PackedBcd ------------------------------
(***************************************************************************)
(* Decimal arithmetic of the processor (mc68008.js).  A packed byte is two *)
(* digits of base Ten in nibbles of Nibble values: 10 and 16 in the code.  *)
(***************************************************************************)
EXTENDS MC68008Arithmetic

CONSTANTS Nibble, Ten

ASSUME PackedBcdAssumption == Nibble \in Nat /\ Ten \in 2 .. Nibble

Byte       == Nibble * Nibble
Six        == Nibble - Ten
NinetyNine == (Ten - 1) * Nibble + Ten - 1

\* setBcdFlags(): N and V stay.
BcdFlags(f, result, carry) ==
    [f EXCEPT !.x = carry, !.z = StickyZero(f, result), !.c = carry]

\* Mutant: the low digit is adjusted without the digit that is carried in.
LowDigitCarries_Mut(source, destination, extend) ==
    (destination % Nibble) + (source % Nibble) >= Ten

LowDigitCarries(source, destination, extend) ==
    (destination % Nibble) + (source % Nibble) + extend >= Ten

LowDigitBorrows(source, destination, extend) ==
    (destination % Nibble) - (source % Nibble) - extend < 0

\* addPackedBcd(), subtractPackedBcd(), executeBcdPair() and executeNbcd(),
\* which subtracts from zero.
PackedBcd(f, source, destination, subtract) ==
    LET extend == Bit(f.x)
        binary == IF subtract THEN destination - source - extend
                              ELSE destination + source + extend
        carry  == IF subtract THEN binary < 0 ELSE binary > NinetyNine
        low    == IF subtract THEN LowDigitBorrows(source, destination, extend)
                              ELSE LowDigitCarries(source, destination, extend)
        adjust == Six * Bit(low) + Six * Nibble * Bit(carry)
        result == (IF subtract THEN binary - adjust ELSE binary + adjust) % Byte
    IN  [result |-> result, flags |-> BcdFlags(f, result, carry)]
=============================================================================
