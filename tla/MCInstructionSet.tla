-------------------------- MODULE MCInstructionSet ---------------------------
(* Words of three bits, and packed digits of two bits in base three, for the   *)
(* arithmetic; bytes of three bits for the loops and the procedures.           *)
EXTENDS InstructionSet

\* Binary chains and decimal ones, of every kind.
MCPrograms == Program

\* All bytes differ from their neighbours, a few stand out, or only two values.
Cells    == 0 .. 47
MCImages == {[b \in Cells |-> (5 * b + 3) % 8],
             [b \in Cells |-> IF b \in {22, 26, 35} THEN 6 ELSE b % 4],
             [b \in Cells |-> IF b % 3 = 0 THEN 0 ELSE 7]}

\* The same block, overlapping ones, and others, on both sides.
MCDistances == {-8, -6, -2, -1, 0, 1, 2, 4, 8}
=============================================================================
