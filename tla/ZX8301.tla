-------------------------------- MODULE ZX8301 --------------------------------
(***************************************************************************)
(* The picture of the QL: the bus through which a program writes           *)
(* (core/bus.js), with the addresses of which the low lines count, and the *)
(* display register and the conversion of the display memory to pixels     *)
(* (devices/zx8301.js).  A colour is the set of its components; a frame is *)
(* a sequence of lines of pixels.                                          *)
(***************************************************************************)
EXTENDS Integers, Sequences, FiniteSets

CONSTANTS
    AddressCount,       \* addresses that the address lines tell apart: 2^20
    Addresses,          \* addresses that a program uses, beyond the lines too
    RomSize,            \* the ROM is below
    McStat,             \* address of the display register
    RamStart, Banks,    \* start of the memory, and of its two screens in it
    ByteBits,           \* bits of a byte
    WordsPerLine, Lines,        \* size of the screen
    Blank, Mode8, Bank, \* bits of the display register that count: 1, 3 and 7
    Images,             \* contents of the memory
    Bytes,              \* values that are written
    WriteBound          \* bound of the model on the writes

VARIABLES
    before,             \* contents of the memory in the beginning
    ram, displayControl,
    written,            \* what was written last to each address
    writes              \* number of writes

pictureVars == <<before, ram, displayControl, written, writes>>

HasBit(value, bit) == (value \div 2 ^ bit) % 2 = 1
AllOnes == 2 ^ ByteBits - 1
Cells   == DOMAIN before

PictureInit ==
    /\ before \in Images
    /\ ram = before
    /\ displayControl = {}
    /\ written = << >>
    /\ writes = 0
----------------------------------------------------------------------------
(* The bus.                                                                *)

Normalized(address) == address % AddressCount

\* Of the ROM only that it is there is modelled.
RomByte(address) == address % 2

\* read8(); the register can only be written.
Read8(address) ==
    LET normalized == Normalized(address)
    IN  CASE normalized < RomSize -> RomByte(normalized)
          [] normalized >= RomSize /\ normalized - RamStart \in Cells -> ram[normalized - RamStart]
          [] OTHER -> AllOnes

\* write8(), to the register, to the memory or to nothing.
Write8(address, value) ==
    LET normalized == Normalized(address)
    IN  /\ writes < WriteBound /\ writes' = writes + 1
        /\ displayControl' = IF normalized = McStat
                               THEN {bit \in {Blank, Mode8, Bank} : HasBit(value, bit)}
                             ELSE displayControl
        /\ ram' = IF normalized - RamStart \in Cells
                    THEN [ram EXCEPT ![normalized - RamStart] = value] ELSE ram
        /\ written' = [a \in DOMAIN written \cup {Normalized(address)} |->
                          IF a = Normalized(address) THEN value ELSE written[a]]
        /\ UNCHANGED before

\* resetDevices(): the RESET instruction, or the machine.
ResetDevices ==
    /\ displayControl' = {}
    /\ written' = [a \in DOMAIN written \ {McStat} |-> written[a]]
    /\ UNCHANGED <<before, ram, writes>>

PictureNext ==
    \/ \E address \in Addresses, value \in Bytes : Write8(address, value)
    \/ ResetDevices
----------------------------------------------------------------------------
(* renderFrame()                                                           *)

Colour(red, green, blue) ==
    {c \in {"red", "green", "blue"} : CASE c = "red" -> red [] c = "green" -> green [] OTHER -> blue}

ScreenBase == RamStart + Banks[IF Bank \in displayControl THEN 2 ELSE 1]

\* The latch of the flash: whether it is on, and the colour it shows.
NotFlashing == [flashing |-> FALSE, colour |-> {}]

\* Mutant: a second flash bit begins another flash.
AfterPixel_Mut(latch, flash, colour) ==
    IF flash THEN [flashing |-> TRUE, colour |-> colour] ELSE latch

AfterPixel(latch, flash, colour) ==
    IF ~flash THEN latch
    ELSE IF latch.flashing THEN [latch EXCEPT !.flashing = FALSE]
    ELSE [flashing |-> TRUE, colour |-> colour]

\* The pixels of a word and the latch after them, in MODE 4 and in MODE 8.
Word4(high, low, state) ==
    [state EXCEPT !.pixels = @ \o [i \in 1 .. ByteBits |->
        LET bit == ByteBits - i
        IN  Colour(HasBit(low, bit), HasBit(high, bit), HasBit(low, bit) /\ HasBit(high, bit))]]

Word8(high, low, state, phase) ==
    LET after[i \in 0 .. ByteBits \div 2] ==
            IF i = 0 THEN state
            ELSE LET bit    == ByteBits - 2 * i
                     latch  == after[i - 1].latch
                     own    == Colour(HasBit(low, bit + 1), HasBit(high, bit + 1), HasBit(low, bit))
                     shown  == IF phase /\ latch.flashing THEN latch.colour ELSE own
                 IN  [pixels |-> after[i - 1].pixels \o <<shown, shown>>,
                      latch  |-> AfterPixel(latch, HasBit(high, bit), own)]
    IN  after[ByteBits \div 2]

\* A line begins without a flash.
Line(y, phase) ==
    LET after[w \in 0 .. WordsPerLine] ==
            IF w = 0 THEN [pixels |-> << >>, latch |-> NotFlashing]
            ELSE LET input == ScreenBase + 2 * (y * WordsPerLine + w - 1)
                     high  == Read8(input)
                     low   == Read8(input + 1)
                 IN  IF Mode8 \in displayControl THEN Word8(high, low, after[w - 1], phase)
                                                 ELSE Word4(high, low, after[w - 1])
    IN  after[WordsPerLine].pixels

Frame(phase) ==
    [y \in 0 .. Lines - 1 |->
        IF Blank \in displayControl THEN [x \in 1 .. ByteBits * WordsPerLine |-> {}]
                                    ELSE Line(y, phase)]
----------------------------------------------------------------------------
\* What the program has put at an address of the memory, and on the display register.
Stored(cell) ==
    IF RamStart + cell \in DOMAIN written THEN written[RamStart + cell] ELSE before[cell]

Selected(bit) == McStat \in DOMAIN written /\ HasBit(written[McStat], bit)

\* The bit of a plane, "high" or "low", that belongs to column x of line y.
PlaneBit(plane, x, y) ==
    LET word == (x - 1) \div ByteBits
        bit  == ByteBits - 1 - ((x - 1) % ByteBits)
        base == Banks[IF Selected(Bank) THEN 2 ELSE 1]
        cell == base + 2 * (y * WordsPerLine + word) + IF plane = "low" THEN 1 ELSE 0
    IN  HasBit(Stored(cell), bit)

\* MODE 8: a pixel has two columns, an odd and an even one.
OddColumn(x) == 2 * ((x - 1) \div 2) + 1
Flashes(x, y) == PlaneBit("high", OddColumn(x) + 1, y)
Own(x, y) ==
    Colour(PlaneBit("low", OddColumn(x), y), PlaneBit("high", OddColumn(x), y),
           PlaneBit("low", OddColumn(x) + 1, y))

\* Between a pixel with a flash bit and the next such pixel, which is the last,
\* the colour of the first comes in turns with that of each pixel.
FlashBits(x, y) == {w \in 1 .. OddColumn(x) - 1 : w % 2 = 1 /\ Flashes(w, y)}
LastOf(columns) == CHOOSE w \in columns : \A v \in columns : v <= w

Pixel(x, y, phase) ==
    IF Selected(Blank) THEN {}
    ELSE IF ~Selected(Mode8)
      THEN Colour(PlaneBit("low", x, y), PlaneBit("high", x, y),
                  PlaneBit("low", x, y) /\ PlaneBit("high", x, y))
    ELSE IF phase /\ Cardinality(FlashBits(x, y)) % 2 = 1 THEN Own(LastOf(FlashBits(x, y)), y)
    ELSE Own(x, y)

\* Every pixel shows what the program last wrote at any mirror of its bits, in the mode
\* and from the bank it last selected since the reset; a flash goes on over words,
\* begins and ends with a flash bit and never runs into the next line; and what is
\* read back is the ROM, what was written to the memory, or nothing.
PictureIsMemory ==
    /\ \A phase \in BOOLEAN :
          LET frame == Frame(phase)
          IN  \A y \in 0 .. Lines - 1, x \in 1 .. ByteBits * WordsPerLine :
                  frame[y][x] = Pixel(x, y, phase)
    /\ \A address \in Addresses :
          LET a == Normalized(address)
          IN  Read8(address) = IF a < RomSize THEN RomByte(a)
                               ELSE IF a - RamStart \in Cells THEN Stored(a - RamStart)
                               ELSE AllOnes
=============================================================================
