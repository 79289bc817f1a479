-------------------------------- MODULE Tape --------------------------------
(***************************************************************************)
(* What the Microdrive controller promises about the loop of tape in the   *)
(* running drive, with the gaps, the polls and the offsets left out: the   *)
(* blocks go past the head one at a time and in the order in which they    *)
(* lie on the tape, the header of a sector, its record, the header of the  *)
(* next sector.  The end of a write moves the head one sector on.          *)
(***************************************************************************)
EXTENDS Naturals

CONSTANT MaxLength      \* sectors of the longest tape

VARIABLES
    length,             \* sectors of the tape in the running drive, 0 for none
    sector, block       \* what passes under the head

vars == <<length, sector, block>>

AtStart == sector = 0 /\ block = "header"

Init == length = 0 /\ AtStart

NextSector == (sector + 1) % length

\* The block under the head has passed.
Pass ==
    /\ length > 0
    /\ \/ block = "header" /\ block' = "record" /\ sector' = sector
       \/ block = "record" /\ block' = "header" /\ sector' = NextSector
    /\ length' = length

\* A sector has been written: the same place of the next sector follows.
Skip ==
    /\ length > 0
    /\ sector' = NextSector
    /\ UNCHANGED <<length, block>>

\* Another drive or another cartridge: a tape starts at its first header.
Rewind ==
    /\ length' \in 0 .. MaxLength
    /\ sector' = 0
    /\ block' = "header"

Next == Pass \/ Skip \/ Rewind

Spec == Init /\ [][Next]_vars
=============================================================================
