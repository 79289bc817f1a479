------------------------------ MODULE MCComputer ------------------------------
(* Instructions of one and two cycles, frames of three and gaps of two, two    *)
(* drives.  A screen of two lines of two words, whose bytes have four bits.    *)
EXTENDS Computer

MCCosts == {1, 2}
MCMachineMasks == {0, 2, 7}

\* The nibbles that shift the motor along the drives.
MCDriveControls == {0, 1, 2, 3}

MCBanks == <<0, 8>>

\* The first line of the first bank has flash bits at any of its pixels.
MCImages ==
    {[c \in 0 .. 15 |-> CASE c = 0 -> a [] c = 1 -> b [] c = 2 -> d [] c = 3 -> e
                          [] OTHER -> (7 * c + 2) % 16] : a, d \in {0, 1, 6, 13}, b, e \in {2, 9}}

MCBytes == {0, 5, 10, 14}

\* Of the ROM, the register, both banks, nothing, and mirrors of the others.
MCAddresses == {1, 8, 16 + 2, 16 + 13, 40, 64 + 8, 64 + 16, 64 + 29}
=============================================================================
