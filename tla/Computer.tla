------------------------------- MODULE Computer -------------------------------
(***************************************************************************)
(* What the page runs and what it shows: the loop over the processor and   *)
(* the interrupts (Machine), and the picture of the memory (ZX8301).  A    *)
(* behaviour is about one of the two; the other is at rest.                *)
(***************************************************************************)
EXTENDS Machine

CONSTANTS
    AddressCount, Addresses, RomSize, McStat, RamStart, Banks, ByteBits, WordsPerLine, Lines,
    Blank, Mode8, Bank, Images, Bytes, WriteBound

\* The ROM, the register and the memory do not share addresses, both screens are in the
\* memory, and a pixel of MODE 8 has two bits of a byte.
ASSUME PictureAssumption ==
    /\ {AddressCount, WordsPerLine, Lines, ByteBits} \subseteq Nat \ {0}
    /\ {RomSize, RamStart, Banks[1], Banks[2]} \cup Addresses \subseteq Nat
    /\ McStat \in 0 .. AddressCount - 1
    /\ RomSize <= RamStart
    /\ ByteBits % 2 = 0
    /\ \A image \in Images, b \in {1, 2} :
          /\ image \in [DOMAIN image -> Nat]
          /\ Banks[b] .. Banks[b] + 2 * (Lines * WordsPerLine) - 1 \subseteq DOMAIN image
          /\ DOMAIN image \subseteq 0 .. AddressCount - RamStart - 1
          /\ McStat - RamStart \notin DOMAIN image

VARIABLES unit, before, ram, displayControl, written, writes

Z == INSTANCE ZX8301

picture == <<before, ram, displayControl, written, writes>>

ComputerInit ==
    /\ unit \in {"loop", "picture"}
    /\ Init
    /\ IF unit = "picture" THEN Z!PictureInit
       ELSE before = << >> /\ ram = << >> /\ displayControl = {} /\ written = << >> /\ writes = 0

ComputerNext ==
    /\ \/ unit = "loop"    /\ Next          /\ UNCHANGED picture
       \/ unit = "picture" /\ Z!PictureNext /\ UNCHANGED vars
    /\ UNCHANGED unit

\* The fairness of Machine, of a machine that is not at rest.
ComputerSpec ==
    /\ ComputerInit
    /\ [][ComputerNext]_<<unit, vars, picture>>
    /\ WF_vars(BeginFrame)
    /\ SF_vars(FrameStep)
    /\ WF_vars(EndFrame)
----------------------------------------------------------------------------
\* What is shown and what is read is what the program wrote (ZX8301).
PictureIsMemory == unit = "picture" => Z!PictureIsMemory
=============================================================================
