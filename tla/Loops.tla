-------------------------------- MODULE Loops --------------------------------
(***************************************************************************)
(* Loops as programs of the QL have them: an instruction that goes through *)
(* memory with the postincrement or the predecrement of address registers, *)
(* and the DBcc, or the comparison of the address and the branch, that     *)
(* closes the loop.  A loop changes every element of a block in place,     *)
(* copies a block to where it may overlap, adds two long numbers, adds up, *)
(* compares two blocks or seeks until a condition holds, or sends a        *)
(* register through every other byte.                                      *)
(***************************************************************************)
EXTENDS MC68008Instructions

CONSTANTS
    Images,         \* contents of memory to set out from
    Block,          \* address where the first block begins, or ends
    Distances,      \* of the second block from the first
    Repeats,        \* what the counter begins with
    Arguments,      \* what D1 begins with
    UpperWord,      \* of the counter, which DBcc leaves alone
    LongBound       \* bound of the model on the bytes of a long number

InPlace   == {"clr", "not", "neg", "tas", "scc", "or", "and", "eor", "add", "sub",
              "bset", "bclr", "bchg"}
TwoBlocks == {"copy", "copy down", "reverse", "chain", "compare"}
Kinds     == InPlace \cup TwoBlocks \cup {"walk", "sum", "adda", "check", "seek", "seek bit", "movep"}
Stops     == {"NE", "EQ", "CS", "GT"}

VARIABLES
    loop,           \* kind, size, condition of the DBcc and whether an operand is immediate
    first,          \* the state of the processor at the beginning
    cpu,
    index,          \* instructions of the body executed
    at              \* "body", "tail", "done", or "trapped" by a CHK

vars == <<loop, first, cpu, index, at>>

Downwards == loop.kind \in {"copy down", "chain"}

\* Through the block at A0 to the one at A1, or from the end of the one at A0 by an
\* index that the counter of the loop is.
Through(register) == Operand(IF Downwards THEN "-(An)" ELSE "(An)+", register, 0)
Source      == Through(0)
Destination == Through(1)
Indexed     == [mode |-> "d(An,Xn)", register |-> 0, extension |-> Values(1) - 1,
                index |-> [address |-> FALSE, register |-> 0, long |-> FALSE]]

\* Blocks at the same place, or no closer than so many bytes: two elements are the
\* same or do not overlap, and two long numbers likewise.
Apart(distance, bytes) == distance = 0 \/ distance >= bytes \/ -distance >= bytes

LoopsInit ==
    /\ loop \in [kind : Kinds, size : Sizes, condition : Stops \cup {"F"}, immediate : BOOLEAN]
    /\ loop.condition \in Stops <=> loop.kind \in {"compare", "seek", "seek bit"}
    /\ loop.kind = "seek bit" => loop.condition \in {"NE", "EQ"}
    /\ loop.immediate => loop.kind \in {"or", "and", "eor", "add", "sub"}
    /\ loop.size = 1 \/ loop.kind \notin {"tas", "scc", "bset", "bclr", "bchg", "seek bit", "reverse"}
    /\ loop.size > 1 \/ loop.kind \notin {"adda", "movep"}
    /\ loop.kind = "check" => loop.size = 2
    /\ \E memory \in Images, distance \in Distances, repeats \in Repeats,
          argument \in Arguments, x \in BOOLEAN :
         /\ distance = 0 \/ loop.kind \in TwoBlocks
         /\ loop.size = 1 \/ distance % 2 = 0
         /\ loop.kind = "chain" => (repeats + 1) * loop.size <= LongBound
         /\ Apart(distance, CASE loop.kind = "chain"   -> (repeats + 1) * loop.size
                              [] loop.kind = "reverse" -> repeats + 2
                              [] OTHER                 -> loop.size)
         /\ loop.kind = "reverse" => distance # 0
         /\ argument = 0 \/ loop.kind \notin TwoBlocks \cup {"clr", "not", "neg", "tas", "seek"}
         /\ first = [d |-> [r \in 0 .. 7 |-> CASE r = 0 -> UpperWord * Values(2) + repeats
                                               [] r = 1 -> argument [] OTHER -> 0],
                     a |-> [r \in 0 .. 7 |->
                              CASE r = 0 -> Block
                                [] r = 1 -> IF loop.kind = "walk"
                                              THEN Block + (repeats + 1) * loop.size
                                              ELSE Block + distance
                                [] OTHER -> 0],
                     pc |-> 0, memory |-> memory,
                     ccr |-> [x |-> x, n |-> FALSE, z |-> TRUE, v |-> FALSE, c |-> FALSE]]
    /\ cpu = first
    /\ index = 0
    /\ at = "body"

\* The instruction of the body.
Body(s) ==
    LET size == loop.size  kind == loop.kind
    IN  CASE kind \in {"copy", "copy down"} -> Move(s, size, Source, Destination)
          [] kind = "reverse" -> Move(s, size, Indexed, Destination)
          [] kind = "clr"     -> Clr(s, size, Source)
          [] kind \in {"not", "walk"} -> Complement(s, size, Source)
          [] kind = "neg"     -> Neg(s, size, Source)
          [] kind = "tas"     -> Tas(s, Source)
          [] kind = "scc"     -> Scc(s, "CS", Source)
          [] kind \in {"or", "and", "eor", "add", "sub"} ->
               IF loop.immediate THEN Immediate(s, kind, size, s.d[1], Source)
                                 ELSE Operate(s, kind, size, s.d[1], Source)
          [] kind \in {"bset", "bclr", "bchg"} -> BitOperation(s, kind, s.d[1], Source)
          [] kind = "seek"    -> Tst(s, size, Source)
          [] kind = "seek bit" -> BitOperation(s, "btst", s.d[1], Source)
          [] kind = "chain"   -> ExtendInMemory(s, size, FALSE, 0, 1)
          [] kind = "sum"     -> Into(s, "add", size, Source, 1)
          [] kind = "adda"    -> Adda(s, size, Source, 1)
          [] kind = "compare" -> Cmpm(s, size, 0, 1)
          [] kind = "check"   -> Chk(s, Source, 1)
          [] kind = "movep"   ->
               IF index = 0 THEN MovepOut(s, size, 1, Operand("d(An)", 0, 1))
                            ELSE MovepIn(s, size, 2, Operand("d(An)", 0, 1))

ExecuteBody ==
    /\ at = "body"
    /\ cpu' = Body(Fetched(cpu))
    /\ index' = index + 1
    /\ at' = IF loop.kind = "check" /\ ChkTraps(Fetched(cpu), Source, 1) THEN "trapped" ELSE "tail"
    /\ UNCHANGED <<loop, first>>

\* The loop is closed by a branch over the body and the opcode of the branch.
Back(s) == Of(2, -s.pc)

Closed(s) ==
    IF loop.kind = "walk"
      THEN LET compared == Fetched(Cmpa(s, 4, Operand("An", 1, 0), 0))
           IN  Bcc(compared, "NE", Back(compared))
    ELSE Dbcc(s, loop.condition, 0, Back(s))

ExecuteTail ==
    /\ at = "tail"
    /\ cpu' = Closed(Fetched(cpu))
    /\ at' = IF cpu'.pc = 0 THEN "body" ELSE "done"
    /\ UNCHANGED <<loop, first, index>>

LoopsNext == ExecuteBody \/ ExecuteTail
----------------------------------------------------------------------------
(* What the loops compute, without the processor.                          *)

Element(s, block, k) == NumberAt(s.memory, block + k * loop.size, loop.size)

\* A number as the set of its bits, and back.
BitSet(number) == {b \in 0 .. 4 * ByteBits - 1 : (number \div 2 ^ b) % 2 = 1}
Number(bits)   == MapThenSumSet(LAMBDA b : 2 ^ b, bits)

Changed(old) ==
    LET argument == Of(loop.size, first.d[1])
        bit      == first.d[1] % ByteBits
        whole    == 0 .. loop.size * ByteBits - 1
        In(number) == BitSet(number)
    IN  CASE loop.kind = "clr"  -> 0
          [] loop.kind \in {"not", "walk"} -> Number(whole \ In(old))
          [] loop.kind = "neg"  -> Of(loop.size, Values(loop.size) - old)
          [] loop.kind = "tas"  -> Number(In(old) \cup {ByteBits - 1})
          [] loop.kind = "scc"  -> 0
          [] loop.kind = "or"   -> Number(In(old) \cup In(argument))
          [] loop.kind = "and"  -> Number(In(old) \cap In(argument))
          [] loop.kind = "eor"  -> Number((In(old) \cup In(argument)) \ (In(old) \cap In(argument)))
          [] loop.kind = "add"  -> Of(loop.size, old + argument)
          [] loop.kind = "sub"  -> Of(loop.size, old - argument)
          [] loop.kind = "bset" -> Number(In(old) \cup {bit})
          [] loop.kind = "bclr" -> Number(In(old) \ {bit})
          [] loop.kind = "bchg" -> Number(IF bit \in In(old) THEN In(old) \ {bit}
                                                             ELSE In(old) \cup {bit})

Untouched(region) == \A b \in DOMAIN cpu.memory \ region : cpu.memory[b] = first.memory[b]

Bytes  == index * loop.size
Signed(number, size) == IF 2 * number >= Values(size) THEN number - Values(size) ELSE number
Where  == Block + IF Downwards THEN -Bytes ELSE Bytes       \* A0
Where1 == Where + first.a[1] - first.a[0]                   \* A1 of the second block

\* Every element passed is changed, and nothing else.
ChangedInPlace ==
    /\ \A k \in 0 .. index - 1 : Element(cpu, Block, k) = Changed(Element(first, Block, k))
    /\ Untouched(Block .. Where - 1)

\* A block is copied: forwards onto itself further up, it repeats its beginning.
Copied ==
    LET apart == first.a[1] - first.a[0]
        From(k) == IF Downwards THEN IF apart < 0 THEN -1 - ((-1 - k) % -apart) ELSE k
                   ELSE IF apart > 0 THEN k % apart ELSE k
        passed == IF Downwards THEN -Bytes .. -1 ELSE 0 .. Bytes - 1
    IN  /\ apart # 0 => \A k \in passed :
               cpu.memory[first.a[1] + k] = first.memory[Block + From(k)]
        /\ Untouched({first.a[1] + k : k \in passed})

\* A block of bytes is copied from its end.
Reversed ==
    LET last == first.d[0] % Values(2)
    IN  /\ \A k \in 0 .. index - 1 :
              cpu.memory[first.a[1] + k] = first.memory[Block - 1 + last - k]
        /\ Untouched(first.a[1] .. first.a[1] + index - 1)

\* Two numbers of many words are added in memory, in any pieces.
Added ==
    LET sum == NumberAt(first.memory, Where, Bytes) + NumberAt(first.memory, Where1, Bytes)
                  + (IF first.ccr.x THEN 1 ELSE 0)
        whole == Values(1) ^ Bytes
    IN  /\ NumberAt(cpu.memory, Where1, Bytes) = sum % whole
        /\ cpu.ccr.x <=> sum >= whole
        /\ cpu.ccr.z <=> sum % whole = 0
        /\ Untouched(Where1 .. first.a[1] - 1)

Compares(source, destination) ==
    CASE loop.condition = "NE" -> destination # source
      [] loop.condition = "EQ" -> destination = source
      [] loop.condition = "CS" -> destination < source
      [] loop.condition = "GT" -> Signed(destination, loop.size) > Signed(source, loop.size)

\* Of an element with that of the other block, with zero, or with a bit of D1.
Holds(k) ==
    LET element == Element(first, Block, k)
    IN  CASE loop.kind = "compare"  -> Compares(element, Element(first, first.a[1], k))
          [] loop.kind = "seek"     -> Compares(0, element)
          [] loop.kind = "seek bit" ->
               Compares(0, Number(BitSet(element) \cap {first.d[1] % ByteBits}))

\* The first element for which the condition holds ends the loop.
Found ==
    /\ \A k \in 0 .. index - 2 : ~Holds(k)
    /\ at = "done" => Holds(index - 1) \/ index = (first.d[0] % Values(2)) + 1
    /\ Untouched({})

Summed ==
    LET total == MapThenSumSet(LAMBDA k : Element(first, Block, k), 0 .. index - 1)
    IN  /\ cpu.d[1] \div Values(loop.size) = first.d[1] \div Values(loop.size)
        /\ (cpu.d[1] - first.d[1] - total) % Values(loop.size) = 0
        /\ Untouched({})

SummedWithSign ==
    LET total == MapThenSumSet(LAMBDA k : Signed(Element(first, Block, k), loop.size), 0 .. index - 1)
    IN  (cpu.a[1] - first.a[1] - total) % Values(4) = 0 /\ Untouched({})

\* A value within every bound passes; else the first bound that it does not keep is
\* told by the trap and by N.
Checked ==
    LET value == Signed(first.d[1] % Values(2), 2)
        Keeps(k) == 0 <= value /\ value <= Signed(Element(first, Block, k), 2)
    IN  /\ \A k \in 0 .. index - 2 : Keeps(k)
        /\ at = "trapped" <=> ~Keeps(index - 1)
        /\ at = "trapped" => (cpu.ccr.n <=> value < 0)
        /\ Untouched({})

\* A register goes through every other byte and comes back.
Sent ==
    LET Place(k) == Block + 1 + 2 * k
    IN  /\ \A k \in 0 .. loop.size - 1 :
              cpu.memory[Place(k)] = (first.d[1] \div Values(loop.size - 1 - k)) % Values(1)
        /\ Untouched({Place(k) : k \in 0 .. loop.size - 1})
        /\ index > 1 => cpu.d[2] = Of(loop.size, first.d[1])

\* The loop has run as often as its counter says, or as far as its end is.
Counts ==
    LET passes == (first.d[0] % Values(2)) + 1
    IN  /\ index <= passes
        /\ at = "done" => index = passes \/ loop.condition \in Stops
        /\ loop.kind \notin {"reverse", "movep"} => cpu.a[0] = Where
        /\ cpu.d[0] \div Values(2) = UpperWord

\* After any number of passes a loop has done to the block, or to the blocks, what
\* it is meant to, and to nothing else; whether blocks overlap, elements are bytes,
\* words or long words, and the counter begins at zero or not.
LoopsCompute ==
    index > 0 =>
        /\ Counts
        /\ loop.kind \in InPlace \cup {"walk"} => ChangedInPlace
        /\ loop.kind \in {"copy", "copy down"} => Copied
        /\ loop.kind = "reverse" => Reversed
        /\ loop.kind = "chain"   => Added
        /\ loop.condition \in Stops => Found
        /\ loop.kind = "sum"     => Summed
        /\ loop.kind = "adda"    => SummedWithSign
        /\ loop.kind = "check"   => Checked
        /\ loop.kind = "movep"   => Sent
=============================================================================
