-------------------------- MODULE IpcDriver_proofs ---------------------------
(***************************************************************************)
(* Proofs about the IPC link and the driver that uses it, for all widths   *)
(* of the fields and any number of keys.  First the link alone, with any   *)
(* program on the other end; then the numbers and the bits they become;    *)
(* then the two ends together, along the stream that goes between them.    *)
(***************************************************************************)
EXTENDS IpcDriver, SequenceTheorems, WellFoundedInduction, TLAPS

USE DEF BitSeq

\* A step of the link, whatever nibble is written.
AnyNext ==
    \/ \E nibble \in 0 .. 15 : WriteIpc(nibble)
    \/ \E key \in Keys : EnqueueKey(key)
    \/ SoundRunsOut
    \/ Reset

----------------------------------------------------------------------------
(* Lemmas about the operators.                                             *)

\* Numbers are converted to sequences of bits of the width asked for.
LEMMA NumberToBitsType ==
    ASSUME NEW value, NEW width \in Nat
    PROVE  NumberToBits(value, width) \in Seq(Bit)
<1>1. NumberToBits(value, width) \in [1 .. width -> Bit]
  BY DEF NumberToBits, Bit
<1> QED BY <1>1

\* The answer to the keyboard command is a sequence of bits.
LEMMA KeyBitsType ==
    ASSUME NEW keys \in Seq(Keys)
    PROVE  KeyBits(keys) \in Seq(Bit)
<1>1. BitsOfKeys(keys) \in Seq(Bit)
  <2>1. KeyWidth \in Nat \ {0} /\ Len(keys) * KeyWidth \in Nat
    BY WidthAssumption
  <2>2. ASSUME NEW i \in 1 .. Len(keys) * KeyWidth
        PROVE  BitsOfKeys(keys)[i] \in Bit
    <3>1. ((i - 1) % KeyWidth) + 1 \in 1 .. KeyWidth
      BY <2>1
    <3>2. NumberToBits(keys[((i - 1) \div KeyWidth) + 1], KeyWidth) \in [1 .. KeyWidth -> Bit]
      BY <2>1 DEF NumberToBits, Bit
    <3> QED BY <3>1, <3>2 DEF BitsOfKeys
  <2>3. BitsOfKeys(keys) \in [1 .. Len(keys) * KeyWidth -> Bit]
    BY <2>2 DEF BitsOfKeys
  <2> QED BY <2>1, <2>3
<1>2. NumberToBits(Len(keys), CountWidth) \in Seq(Bit)
  BY NumberToBitsType, WidthAssumption
<1> QED BY <1>1, <1>2 DEF KeyBits

\* Four bits make a command.
LEMMA CommandNumberType ==
    ASSUME NEW bits \in Seq(Bit), Len(bits) = CommandWidth
    PROVE  CommandNumber(bits) \in Commands
<1>1. Len(bits) = 4
  BY DEF CommandWidth
<1>2. \A n \in 1 .. Len(bits) : bits[n] \in Bit
  BY ElementOfSeq
<1>3. bits[1] \in Bit /\ bits[2] \in Bit /\ bits[3] \in Bit /\ bits[4] \in Bit
  BY <1>1, <1>2
<1> QED BY <1>3 DEF CommandNumber, Commands, Bit

\* One more bit of a command or of its arguments.
LEMMA AppendType ==
    ASSUME NEW bits \in Seq(Bit), NEW bit \in Bit
    PROVE  Append(bits, bit) \in Seq(Bit)
BY AppendProperties

\* The nibble written carries one bit.
LEMMA BitOfType == \A nibble \in 0 .. 15 : BitOf(nibble) \in Bit
BY DEF BitOf, Bit

\* Only some commands take arguments, and no command takes a negative number.
LEMMA ArgumentCountType ==
    ASSUME NEW c \in Commands
    PROVE  ArgumentCount(c) \in Nat
BY WidthAssumption DEF ArgumentCount, Commands

LEMMA QueueTypes ==
    ASSUME TypeOK
    PROVE  KeysToRead \in Seq(Keys) /\ KeysLeft \in Seq(Keys)
<1>1. KeysToRead \in Seq(Keys) /\ Len(KeysToRead) \in Nat
  BY WidthAssumption DEF TypeOK, LinkTypes, KeysToRead
<1> QED BY <1>1 DEF KeysLeft, TypeOK, LinkTypes

----------------------------------------------------------------------------
(* Type correctness.  The three kinds of bit are three steps; a complete    *)
(* command and a complete argument list are lemmas of their own.           *)

\* The answer of every command is a sequence of bits.
LEMMA StatusType == StatusBits \in Seq(Bit)
BY NumberToBitsType, WidthAssumption DEF StatusBits

\* A complete command leaves the link well typed.
LEMMA CommandTypes ==
    ASSUME TypeOK, NEW c \in Commands, StartIpcCommand(c),
           ipcCommandBits' = <<>>, ipcReturnBit' \in Bit
    PROVE  TypeOK'
<1> USE DEF LinkTypes
<1>1. LinkTypes'
  <2>1. CASE ReadKeyboard(c)
    <3>1. KeyBits(KeysToRead) \in Seq(Bit) /\ KeysLeft \in Seq(Keys)
      BY QueueTypes, KeyBitsType
    <3> QED BY <2>1, <3>1 DEF TypeOK, ReadKeyboard, Respond
  <2>2. CASE StopSoundCommand(c)
    BY <2>2 DEF TypeOK, StopSoundCommand, Respond
  <2>3. CASE Answer(c)
    <3>1. NumberToBits(0, SerialWidth) \in Seq(Bit) /\ NumberToBits(0, RandomWidth) \in Seq(Bit)
      BY NumberToBitsType, WidthAssumption
    <3>2. ipcResponseBits' \in Seq(Bit)
      BY <2>3, <3>1, StatusType DEF Answer, Respond
    <3> QED BY <2>3, <3>2 DEF TypeOK, Answer, Respond
  <2>4. CASE TakeArguments(c)
    BY <2>4, ArgumentCountType DEF TypeOK, TakeArguments, ExpectArguments
  <2> QED BY <2>1, <2>2, <2>3, <2>4 DEF StartIpcCommand
<1>2. SoundTypes'
  BY DEF TypeOK, SoundTypes, StartIpcCommand, ReadKeyboard, StopSoundCommand, Answer,
         TakeArguments, StopSound, sound
<1> QED BY <1>1, <1>2 DEF TypeOK

\* So does a complete list of arguments.
LEMMA ArgumentTypes ==
    ASSUME TypeOK, NEW bits, FinishIpcArguments(bits), ipcReturnBit' \in Bit,
           UNCHANGED <<ipcCommandBits, keyboardQueue>>
    PROVE  TypeOK'
<1>1. ipcResponseBits' \in Seq(Bit)
  <2>1. NumberToBits(0, StatusWidth) \in Seq(Bit)
        /\ NumberToBits(BitsToNumber(bits), TestWidth) \in Seq(Bit)
    BY NumberToBitsType, WidthAssumption
  <2> QED BY <2>1 DEF FinishIpcArguments
<1>2. LinkTypes'
  BY <1>1 DEF TypeOK, LinkTypes, FinishIpcArguments
<1>3. SoundTypes'
  BY DEF TypeOK, SoundTypes, FinishIpcArguments, StartSound, sound
<1> QED BY <1>2, <1>3 DEF TypeOK

\* Every step of the link keeps its state well typed.
LEMMA TypeStep ==
    ASSUME TypeOK, OneTransfer, [AnyNext]_vars
    PROVE  TypeOK'
<1>1. ASSUME NEW nibble \in 0 .. 15, WriteIpc(nibble)
      PROVE  TypeOK'
  <2>1. CASE Pulse(nibble)
    BY <2>1 DEF Pulse, vars, link, sound, TypeOK, LinkTypes, SoundTypes
  <2>2. CASE ReceiveIpcBit(BitOf(nibble))
    <3>1. PICK bit \in Bit : ReceiveIpcBit(bit)
      BY <2>2, BitOfType, WidthAssumption
    <3>2. CASE ReturnResponseBit
      <4>1. ipcResponseBits' \in Seq(Bit) /\ ipcReturnBit' \in Bit
        BY <3>2 DEF ReturnResponseBit, TypeOK, LinkTypes
      <4> QED BY <3>2, <4>1 DEF ReturnResponseBit, TypeOK, LinkTypes, SoundTypes, sound
    <3>3. CASE ReceiveArgumentBit(bit)
      <4>1. ipcReturnBit' \in Bit
        BY <3>3 DEF ReceiveArgumentBit, Bit
      <4>2. CASE ipcArgumentBitsRemaining = 1
        BY <3>3, <4>1, <4>2, ArgumentTypes DEF ReceiveArgumentBit
      <4>3. CASE ipcArgumentBitsRemaining # 1
        <5>1. /\ ipcArgumentBits' \in Seq(Bit)
              /\ ipcArgumentBitsRemaining' \in Nat
          <6>1. ipcArgumentBits' \in Seq(Bit)
            BY <3>3, <4>3, AppendType DEF ReceiveArgumentBit, TypeOK, LinkTypes
          <6>2. ipcArgumentBitsRemaining' \in Nat
            BY <3>3, <4>3 DEF ReceiveArgumentBit, TypeOK, LinkTypes
          <6> QED BY <6>1, <6>2
        <5>3. LinkTypes'
          BY <3>3, <4>1, <4>3, <5>1 DEF ReceiveArgumentBit, TypeOK, LinkTypes
        <5>2. SoundTypes'
          BY <3>3, <4>3 DEF ReceiveArgumentBit, TypeOK, SoundTypes, sound
        <5> QED BY <5>2, <5>3 DEF TypeOK
      <4> QED BY <4>2, <4>3
    <3>4. CASE ReceiveCommandBit(bit)
      <4>1. ipcReturnBit' \in Bit
        BY <3>4 DEF ReceiveCommandBit, Bit
      <4>2. PICK bits \in Seq(Bit) : bits = Append(ipcCommandBits, bit)
        BY AppendType DEF TypeOK, LinkTypes
      <4>3. CASE Len(bits) < CommandWidth
        <5>1. LinkTypes'
          BY <3>4, <4>1, <4>2, <4>3 DEF ReceiveCommandBit, TypeOK, LinkTypes
        <5>2. SoundTypes'
          BY <3>4, <4>2, <4>3 DEF ReceiveCommandBit, TypeOK, SoundTypes, sound
        <5> QED BY <5>1, <5>2 DEF TypeOK
      <4>4. CASE ~(Len(bits) < CommandWidth)
        <5>1. ipcCommandBits' = <<>> /\ StartIpcCommand(CommandNumber(bits))
          BY <3>4, <4>2, <4>4 DEF ReceiveCommandBit
        <5>2. Len(bits) = CommandWidth
          BY <4>2, <4>4 DEF TypeOK, LinkTypes, OneTransfer, CommandWidth
        <5>3. CommandNumber(bits) \in Commands
          BY <5>2, CommandNumberType
        <5> QED BY <4>1, <5>1, <5>3, CommandTypes
      <4> QED BY <4>3, <4>4
    <3> QED BY <3>1, <3>2, <3>3, <3>4 DEF ReceiveIpcBit
  <2> QED BY <1>1, <2>1, <2>2 DEF WriteIpc
<1>2. CASE \E key \in Keys : EnqueueKey(key)
  BY <1>2 DEF EnqueueKey, TypeOK, LinkTypes, SoundTypes, link, sound
<1>3. CASE SoundRunsOut
  BY <1>3 DEF SoundRunsOut, StopSound, TypeOK, LinkTypes, SoundTypes, link
<1>4. CASE Reset
  <2>1. LinkTypes'
    BY <1>4 DEF Reset, LinkTypes, Bit
  <2>2. SoundTypes'
    BY <1>4 DEF Reset, TypeOK, SoundTypes
  <2> QED BY <2>1, <2>2 DEF TypeOK
<1>5. CASE UNCHANGED vars
  BY <1>5 DEF vars, link, sound, TypeOK, LinkTypes, SoundTypes
<1> QED BY <1>1, <1>2, <1>3, <1>4, <1>5 DEF AnyNext

----------------------------------------------------------------------------
(* One transfer at a time.                                                 *)

\* Every step of the link leaves at most one transfer under way.
LEMMA TransferStep ==
    ASSUME TypeOK, OneTransfer, [AnyNext]_vars
    PROVE  OneTransfer'
<1>1. ASSUME NEW nibble \in 0 .. 15, WriteIpc(nibble)
      PROVE  OneTransfer'
  <2>1. CASE Pulse(nibble)
    BY <2>1 DEF Pulse, vars, link, OneTransfer
  <2>2. CASE ReceiveIpcBit(BitOf(nibble))
    <3>1. PICK bit \in Bit : ReceiveIpcBit(bit)
      BY <2>2, BitOfType, WidthAssumption
    <3>2. CASE ReturnResponseBit
      BY <3>2 DEF ReturnResponseBit, OneTransfer
    <3>3. CASE ReceiveArgumentBit(bit)
      <4>1. ipcCommand # NoCommand /\ ipcCommandBits = <<>>
        BY <3>3 DEF ReceiveArgumentBit, OneTransfer
      <4>2. CASE ipcArgumentBitsRemaining = 1
        BY <3>3, <4>1, <4>2 DEF ReceiveArgumentBit, FinishIpcArguments, OneTransfer, CommandWidth
      <4>3. CASE ipcArgumentBitsRemaining # 1
        <5>1. Len(ipcArgumentBits') = Len(ipcArgumentBits) + 1 /\ Len(ipcArgumentBits) \in Nat
          BY <3>1, <3>3, <4>3, AppendProperties, LenProperties
          DEF ReceiveArgumentBit, TypeOK, LinkTypes
        <5>2. ArgumentCount(ipcCommand) \in Nat
          BY <4>1, ArgumentCountType DEF TypeOK, LinkTypes
        <5>3. /\ ipcArgumentBitsRemaining' > 0
              /\ Len(ipcArgumentBits') + ipcArgumentBitsRemaining' = ArgumentCount(ipcCommand)
          BY <3>3, <4>1, <4>3, <5>1, <5>2 DEF ReceiveArgumentBit, OneTransfer, TypeOK, LinkTypes
        <5> QED BY <3>3, <4>1, <4>3, <5>3 DEF ReceiveArgumentBit, OneTransfer
      <4> QED BY <4>2, <4>3
    <3>4. CASE ReceiveCommandBit(bit)
      <4>1. ipcCommand = NoCommand /\ ipcArgumentBits = <<>>
        BY <3>4 DEF ReceiveCommandBit, OneTransfer
      <4>2. CASE Len(Append(ipcCommandBits, bit)) < CommandWidth
        BY <3>4, <4>1, <4>2 DEF ReceiveCommandBit, OneTransfer
      <4>3. CASE ~(Len(Append(ipcCommandBits, bit)) < CommandWidth)
        <5>1. PICK c \in Commands : StartIpcCommand(c)
          <6>1. PICK bits \in Seq(Bit) : bits = Append(ipcCommandBits, bit)
            BY <3>1, AppendType DEF TypeOK, LinkTypes
          <6>2. Len(bits) = CommandWidth
            BY <3>4, <4>3, <6>1 DEF TypeOK, LinkTypes, OneTransfer, CommandWidth
          <6>3. CommandNumber(bits) \in Commands
            BY <6>2, CommandNumberType
          <6> QED BY <3>4, <4>3, <6>1, <6>3 DEF ReceiveCommandBit
        <5>2. ipcCommandBits' = <<>>
          BY <3>4, <4>3 DEF ReceiveCommandBit
        <5>3. CASE TakeArguments(c)
          <6>1. ipcCommand' = c /\ c # NoCommand
            BY <5>3 DEF TakeArguments, ExpectArguments, Commands, NoCommand
          <6>2. /\ ipcArgumentBits' = <<>>
                /\ ipcArgumentBitsRemaining' = ArgumentCount(c)
                /\ ArgumentCount(c) > 0
                /\ ipcResponseBits' = <<>>
            BY <3>4, <5>3 DEF TakeArguments, ExpectArguments, ReceiveCommandBit
          <6>3. Len(ipcArgumentBits') + ipcArgumentBitsRemaining' = ArgumentCount(c)
            BY <6>2, ArgumentCountType
          <6> QED BY <5>2, <6>1, <6>2, <6>3 DEF OneTransfer, CommandWidth
        <5>4. CASE ~TakeArguments(c)
          <6>1. ipcCommand' = NoCommand
            BY <5>1, <5>4
            DEF StartIpcCommand, ReadKeyboard, StopSoundCommand, Answer, Respond
          <6>2. UNCHANGED <<ipcArgumentBits, ipcArgumentBitsRemaining>>
            BY <5>1, <5>4
            DEF StartIpcCommand, ReadKeyboard, StopSoundCommand, Answer, Respond
          <6> QED BY <3>4, <4>1, <5>2, <6>1, <6>2 DEF ReceiveCommandBit, OneTransfer, CommandWidth
        <5> QED BY <5>3, <5>4
      <4> QED BY <4>2, <4>3
    <3> QED BY <3>1, <3>2, <3>3, <3>4 DEF ReceiveIpcBit
  <2> QED BY <1>1, <2>1, <2>2 DEF WriteIpc
<1>2. CASE \E key \in Keys : EnqueueKey(key)
  BY <1>2 DEF EnqueueKey, OneTransfer, link
<1>3. CASE SoundRunsOut
  BY <1>3 DEF SoundRunsOut, OneTransfer, link
<1>4. CASE Reset
  BY <1>4 DEF Reset, OneTransfer, CommandWidth
<1>5. CASE UNCHANGED vars
  BY <1>5 DEF vars, link, OneTransfer
<1> QED BY <1>1, <1>2, <1>3, <1>4, <1>5 DEF AnyNext

----------------------------------------------------------------------------
(* The sound the host hears.                                               *)

\* Every step that changes the sound tells the host.
LEMMA SoundStep ==
    ASSUME TypeOK, HostHearsSound, [AnyNext]_vars
    PROVE  HostHearsSound'
<1>1. ASSUME NEW nibble \in 0 .. 15, WriteIpc(nibble)
      PROVE  HostHearsSound'
  <2>1. CASE UNCHANGED sound
    BY <2>1 DEF sound, HostHearsSound
  <2>2. ASSUME NEW bits, StartSound(bits)
        PROVE  HostHearsSound'
    BY <2>2 DEF StartSound, HostHearsSound
  <2>3. CASE StopSound("command")
    BY <2>3 DEF StopSound, HostHearsSound
  <2> QED BY <1>1, <2>1, <2>2, <2>3
          DEF WriteIpc, Pulse, vars, ReceiveIpcBit, ReturnResponseBit, ReceiveArgumentBit,
              ReceiveCommandBit, FinishIpcArguments, StartIpcCommand, ReadKeyboard,
              StopSoundCommand, Answer, TakeArguments
<1>2. CASE \E key \in Keys : EnqueueKey(key)
  BY <1>2 DEF EnqueueKey, HostHearsSound, sound
<1>3. CASE SoundRunsOut
  BY <1>3 DEF SoundRunsOut, StopSound, HostHearsSound
<1>4. CASE Reset
  BY <1>4 DEF Reset, HostHearsSound
<1>5. CASE UNCHANGED vars
  BY <1>5 DEF vars, sound, HostHearsSound
<1> QED BY <1>1, <1>2, <1>3, <1>4, <1>5 DEF AnyNext

----------------------------------------------------------------------------
(* The theorems about the link alone.                                      *)

\* The inductive invariant: types alone are not inductive, because the number
\* of a command is in range only when it has exactly four bits.
LinkInv == TypeOK /\ OneTransfer /\ HostHearsSound

LEMMA LinkInitially == Init => LinkInv
<1>1. Init => LinkTypes
  BY DEF Init, LinkTypes, Bit
<1>2. Init => SoundTypes /\ HostHearsSound
  BY DEF Init, SoundTypes, HostHearsSound
<1>3. Init => OneTransfer
  BY DEF Init, OneTransfer, CommandWidth
<1> QED
  BY <1>1, <1>2, <1>3 DEF LinkInv, TypeOK

LEMMA LinkInductive == LinkInv /\ [AnyNext]_vars => LinkInv'
BY TypeStep, TransferStep, SoundStep DEF LinkInv

LEMMA LinkHolds == Spec => []LinkInv
<1>1. [Next]_vars => [AnyNext]_vars
  BY WidthAssumption DEF Next, AnyNext
<1> QED
  BY <1>1, LinkInitially, LinkInductive, PTL DEF Spec

\* The state of the link is well typed, whatever nibbles the processor writes.
THEOREM TypeCorrect == Spec => []TypeOK
<1>1. LinkInv => TypeOK
  BY DEF LinkInv
<1> QED BY <1>1, LinkHolds, PTL

\* At most one transfer is under way, and its bits add up to what the command
\* asks for, for every width of the fields.
THEOREM TransferCorrect == Spec => []OneTransfer
<1>1. LinkInv => OneTransfer
  BY DEF LinkInv
<1> QED BY <1>1, LinkHolds, PTL

\* The events given to onSound and the status bit always agree.
THEOREM SoundCorrect == Spec => []HostHearsSound
<1>1. LinkInv => HostHearsSound
  BY DEF LinkInv
<1> QED BY <1>1, LinkHolds, PTL
----------------------------------------------------------------------------
(* Numbers and their bits.  An induction is an argument about the least    *)
(* counterexample: a set of natural numbers that is not empty has a least  *)
(* element.                                                                *)

LEMMA LeastElement ==
    ASSUME NEW S, S \subseteq Nat, S # {}
    PROVE  \E m \in S : \A k \in S : m <= k
<1> DEFINE R == OpToRel(<, Nat)
<1>1. IsWellFoundedOn(R, Nat)
  BY NatLessThanWellFounded
<1>2. \A k, m \in Nat : k < m => <<k, m>> \in R
  BY DEF OpToRel
<1> HIDE DEF R
<1>3. PICK m \in S : \A k \in S : ~(<<k, m>> \in R)
  BY <1>1, WFMin, Zenon
<1>4. ASSUME NEW k \in S
      PROVE  m <= k
  <2>1. ~(k < m)
    BY <1>2, <1>3, Zenon
  <2> QED BY <2>1
<1> QED
  BY <1>4

\* A function is the shifted value.
IsShifted(f, value, width) ==
    f = [k \in 0 .. width |-> IF k = 0 THEN value ELSE f[k - 1] \div 2]

LEMMA ShiftedExists ==
    ASSUME NEW value \in Nat, NEW width \in Nat
    PROVE  \E f : IsShifted(f, value, width)
<1> DEFINE S == {w \in Nat : ~ \E f : IsShifted(f, value, w)}
<1>1. SUFFICES ASSUME S # {} PROVE FALSE
  OBVIOUS
<1>2. PICK w \in S : \A k \in S : w <= k
  <2>1. S \subseteq Nat
    OBVIOUS
  <2> HIDE DEF S
  <2> QED BY <1>1, <2>1, LeastElement
<1>3. w # 0
  <2>1. SUFFICES ASSUME w = 0 PROVE FALSE
    OBVIOUS
  <2> DEFINE f == [k \in 0 .. 0 |-> value]
  <2>2. IsShifted(f, value, 0)
    BY DEF IsShifted
  <2> QED BY <2>1, <2>2
<1>4. w - 1 \in Nat /\ ~(w - 1 \in S)
  BY <1>2, <1>3
<1>5. PICK f : IsShifted(f, value, w - 1)
  BY <1>4
<1> DEFINE g == [k \in 0 .. w |-> IF k = w THEN f[w - 1] \div 2 ELSE f[k]]
<1>6. IsShifted(g, value, w)
  <2>1. ASSUME NEW k \in 0 .. w
        PROVE  g[k] = IF k = 0 THEN value ELSE g[k - 1] \div 2
    BY <1>3, <1>4, <1>5 DEF IsShifted
  <2>2. g = [k \in 0 .. w |-> g[k]]
    OBVIOUS
  <2> HIDE DEF g
  <2> QED BY <2>1, <2>2 DEF IsShifted
<1> QED
  BY <1>2, <1>6

\* What value >>> k is: half of value >>> (k - 1).
LEMMA ShiftedIsHalved ==
    ASSUME NEW value \in Nat, NEW width \in Nat
    PROVE  /\ Shifted(value, width)[0] = value
           /\ \A k \in 1 .. width :
                  Shifted(value, width)[k] = Shifted(value, width)[k - 1] \div 2
           /\ \A k \in 0 .. width : Shifted(value, width)[k] \in Nat
<1> DEFINE f == Shifted(value, width)
<1>1. IsShifted(f, value, width)
  <2>1. f = CHOOSE h : IsShifted(h, value, width)
    BY DEF Shifted, IsShifted
  <2> QED BY <2>1, ShiftedExists, Zenon
<1> HIDE DEF f
<1>2. f[0] = value /\ \A k \in 1 .. width : f[k] = f[k - 1] \div 2
  BY <1>1 DEF IsShifted
<1>3. \A k \in 0 .. width : f[k] \in Nat
  <2> DEFINE S == {k \in 0 .. width : f[k] \notin Nat}
  <2>1. SUFFICES ASSUME S # {} PROVE FALSE
    OBVIOUS
  <2>2. PICK m \in S : \A k \in S : m <= k
    <3>1. S \subseteq Nat
      OBVIOUS
    <3> HIDE DEF S
    <3> QED BY <2>1, <3>1, LeastElement
  <2>3. m # 0 /\ m - 1 \in 0 .. width /\ ~(m - 1 \in S)
    BY <1>2, <2>2
  <2>4. f[m - 1] \in Nat /\ f[m] = f[m - 1] \div 2
    BY <1>2, <2>2, <2>3
  <2>5. f[m] \in Nat
    BY <2>4
  <2> QED BY <2>2, <2>5
<1> QED
  BY <1>2, <1>3 DEF f

\* A smaller number fits where a larger one does.
LEMMA SmallerFits ==
    ASSUME NEW large \in Nat, NEW small \in 0 .. large, NEW width \in Nat, Fits(large, width)
    PROVE  Fits(small, width)
<1> DEFINE f == Shifted(large, width)
           g == Shifted(small, width)
<1>1. /\ f[0] = large /\ g[0] = small
      /\ \A k \in 1 .. width : f[k] = f[k - 1] \div 2 /\ g[k] = g[k - 1] \div 2
      /\ \A k \in 0 .. width : f[k] \in Nat /\ g[k] \in Nat
  BY ShiftedIsHalved
<1> HIDE DEF f, g
<1>2. \A k \in 0 .. width : g[k] <= f[k]
  <2> DEFINE S == {k \in 0 .. width : ~(g[k] <= f[k])}
  <2>1. SUFFICES ASSUME S # {} PROVE FALSE
    OBVIOUS
  <2>2. PICK m \in S : \A k \in S : m <= k
    <3>1. S \subseteq Nat
      OBVIOUS
    <3> HIDE DEF S
    <3> QED BY <2>1, <3>1, LeastElement
  <2>3. m # 0 /\ m - 1 \in 0 .. width /\ ~(m - 1 \in S)
    BY <1>1, <2>2
  <2>4. g[m - 1] <= f[m - 1] /\ g[m - 1] \in Nat /\ f[m - 1] \in Nat
    BY <1>1, <2>3
  <2>5. f[m] = f[m - 1] \div 2 /\ g[m] = g[m - 1] \div 2
    BY <1>1, <2>2, <2>3
  <2>6. g[m] <= f[m]
    BY <2>4, <2>5
  <2> QED BY <2>2, <2>6
<1>3. f[width] = 0
  BY DEF Fits, f
<1>4. g[width] \in Nat /\ g[width] <= 0
  BY <1>1, <1>2, <1>3
<1>5. g[width] = 0
  BY <1>4
<1> QED
  BY <1>5 DEF Fits, g

\* A function counts the bits up to n.
IsNumber(f, bits, n) ==
    f = [i \in 0 .. n |-> IF i = 0 THEN 0 ELSE 2 * f[i - 1] + bits[i]]

LEMMA NumberExists ==
    ASSUME NEW bits \in Seq(Bit)
    PROVE  \E f : IsNumber(f, bits, Len(bits))
<1> DEFINE S == {n \in 0 .. Len(bits) : ~ \E f : IsNumber(f, bits, n)}
<1>1. SUFFICES ASSUME S # {} PROVE FALSE
  <2>1. Len(bits) \in 0 .. Len(bits)
    OBVIOUS
  <2> QED BY <2>1
<1>2. PICK n \in S : \A k \in S : n <= k
  <2>1. S \subseteq Nat
    OBVIOUS
  <2> HIDE DEF S
  <2> QED BY <1>1, <2>1, LeastElement
<1>3. n # 0
  <2>1. SUFFICES ASSUME n = 0 PROVE FALSE
    OBVIOUS
  <2> DEFINE f == [i \in 0 .. 0 |-> 0]
  <2>2. IsNumber(f, bits, 0)
    BY DEF IsNumber
  <2> QED BY <1>2, <2>1, <2>2
<1>4. n - 1 \in 0 .. Len(bits) /\ ~(n - 1 \in S)
  BY <1>2, <1>3
<1>5. PICK f : IsNumber(f, bits, n - 1)
  BY <1>4
<1> DEFINE g == [i \in 0 .. n |-> IF i = n THEN 2 * f[n - 1] + bits[n] ELSE f[i]]
<1>6. IsNumber(g, bits, n)
  <2>1. ASSUME NEW i \in 0 .. n
        PROVE  g[i] = IF i = 0 THEN 0 ELSE 2 * g[i - 1] + bits[i]
    BY <1>3, <1>4, <1>5 DEF IsNumber
  <2>2. g = [i \in 0 .. n |-> g[i]]
    OBVIOUS
  <2> HIDE DEF g
  <2> QED BY <2>1, <2>2 DEF IsNumber
<1> QED
  BY <1>2, <1>6

\* The numbers that the first bits make up.
Counts(f, bits) ==
    /\ f[0] = 0
    /\ \A i \in 1 .. Len(bits) : f[i] = 2 * f[i - 1] + bits[i]
    /\ \A i \in 0 .. Len(bits) : f[i] \in Nat
    /\ BitsToNumber(bits) = f[Len(bits)]

LEMMA BitsAreCounted ==
    ASSUME NEW bits \in Seq(Bit)
    PROVE  \E f : Counts(f, bits)
<1> DEFINE f == CHOOSE h : IsNumber(h, bits, Len(bits))
           width == Len(bits)
<1>1. IsNumber(f, bits, width)
  BY NumberExists, Zenon
<1>2. BitsToNumber(bits) = f[width]
  BY DEF BitsToNumber, IsNumber
<1> HIDE DEF f
<1>3. width \in Nat /\ \A i \in 1 .. width : bits[i] \in Nat
  BY ElementOfSeq DEF Bit
<1> HIDE DEF width
<1>4. f[0] = 0 /\ \A i \in 1 .. width : f[i] = 2 * f[i - 1] + bits[i]
  BY <1>1, <1>3 DEF IsNumber
<1>5. \A i \in 0 .. width : f[i] \in Nat
  <2> DEFINE S == {i \in 0 .. width : f[i] \notin Nat}
  <2>1. SUFFICES ASSUME S # {} PROVE FALSE
    OBVIOUS
  <2>2. PICK m \in S : \A k \in S : m <= k
    <3>1. S \subseteq Nat
      OBVIOUS
    <3> HIDE DEF S
    <3> QED BY <2>1, <3>1, LeastElement
  <2>3. m # 0 /\ m - 1 \in 0 .. width /\ ~(m - 1 \in S)
    BY <1>3, <1>4, <2>2
  <2>4. f[m - 1] \in Nat /\ f[m] = 2 * f[m - 1] + bits[m] /\ bits[m] \in Nat
    BY <1>3, <1>4, <2>2, <2>3
  <2> QED BY <2>2, <2>4
<1> QED
  BY <1>2, <1>4, <1>5 DEF Counts, width

LEMMA NumberOfBitsType ==
    ASSUME NEW bits \in Seq(Bit)
    PROVE  BitsToNumber(bits) \in Nat
<1>1. PICK f : Counts(f, bits)
  BY BitsAreCounted
<1>2. Len(bits) \in 0 .. Len(bits)
  OBVIOUS
<1> QED
  BY <1>1, <1>2 DEF Counts

LEMMA NumberToBitsParts ==
    ASSUME NEW value, NEW width \in Nat
    PROVE  /\ NumberToBits(value, width) \in Seq(Bit)
           /\ Len(NumberToBits(value, width)) = width
           /\ \A i \in 1 .. width :
                  NumberToBits(value, width)[i]
                      = IF Shifted(value, width)[width - i] % 2 = 1 THEN 1 ELSE 0
<1> DEFINE bits == NumberToBits(value, width)
<1>1. bits \in [1 .. width -> Bit]
  BY DEF NumberToBits, Bit
<1>2. Len(bits) = width /\ bits \in Seq(Bit)
  <2> HIDE DEF bits
  <2> QED BY <1>1
<1> QED
  BY <1>2 DEF NumberToBits

\* bitsToNumber() undoes numberToBits(), of a number that fits.
LEMMA NumberComesBack ==
    ASSUME NEW value \in Nat, NEW width \in Nat, Fits(value, width)
    PROVE  BitsToNumber(NumberToBits(value, width)) = value
<1> DEFINE q == Shifted(value, width)
           bits == NumberToBits(value, width)
<1>1. /\ q[0] = value
      /\ \A k \in 1 .. width : q[k] = q[k - 1] \div 2
      /\ \A k \in 0 .. width : q[k] \in Nat
      /\ q[width] = 0
  BY ShiftedIsHalved DEF Fits
<1>2. /\ bits \in Seq(Bit) /\ Len(bits) = width
      /\ \A i \in 1 .. width : bits[i] = IF q[width - i] % 2 = 1 THEN 1 ELSE 0
  BY NumberToBitsParts
<1> HIDE DEF q, bits
<1>3. PICK f : Counts(f, bits)
  BY <1>2, BitsAreCounted
<1>4. /\ f[0] = 0
      /\ \A i \in 1 .. width : f[i] = 2 * f[i - 1] + bits[i]
      /\ BitsToNumber(bits) = f[width]
  BY <1>2, <1>3 DEF Counts
<1>5. \A i \in 0 .. width : f[i] = q[width - i]
  <2> DEFINE S == {i \in 0 .. width : f[i] # q[width - i]}
  <2>1. SUFFICES ASSUME S # {} PROVE FALSE
    OBVIOUS
  <2>2. PICK m \in S : \A k \in S : m <= k
    <3>1. S \subseteq Nat
      OBVIOUS
    <3> HIDE DEF S
    <3> QED BY <2>1, <3>1, LeastElement
  <2>3. m # 0 /\ m - 1 \in 0 .. width /\ ~(m - 1 \in S)
    BY <1>1, <1>4, <2>2
  <2>4. width - (m - 1) \in 1 .. width /\ width - m \in 0 .. width /\ m \in 1 .. width
    BY <2>2, <2>3
  <2>5. q[width - (m - 1)] = q[width - m] \div 2
    <3>1. (width - (m - 1)) - 1 = width - m
      BY <2>4
    <3> QED BY <1>1, <2>4, <3>1
  <2>6. f[m] = 2 * f[m - 1] + bits[m] /\ f[m - 1] = q[width - (m - 1)]
    BY <1>4, <2>2, <2>3, <2>4
  <2>7. bits[m] = (IF q[width - m] % 2 = 1 THEN 1 ELSE 0) /\ q[width - m] \in Nat
    BY <1>1, <1>2, <2>4
  <2>8. f[m] = q[width - m]
    BY <2>5, <2>6, <2>7
  <2> QED BY <2>2, <2>8
<1>6. f[width] = q[0]
  BY <1>5
<1> QED
  BY <1>1, <1>4, <1>6 DEF bits

\* And numberToBits() undoes bitsToNumber().
LEMMA BitsComeBack ==
    ASSUME NEW bits \in Seq(Bit)
    PROVE  NumberToBits(BitsToNumber(bits), Len(bits)) = bits
<1> DEFINE width == Len(bits)
           value == BitsToNumber(bits)
           q == Shifted(value, width)
           back == NumberToBits(value, width)
<1>1. PICK f : Counts(f, bits)
  BY BitsAreCounted
<1>2. /\ width \in Nat
      /\ \A i \in 1 .. width : f[i] = 2 * f[i - 1] + bits[i] /\ bits[i] \in {0, 1}
      /\ \A i \in 0 .. width : f[i] \in Nat
      /\ value = f[width]
  BY <1>1, ElementOfSeq DEF Counts, Bit
<1>3. /\ q[0] = value
      /\ \A k \in 1 .. width : q[k] = q[k - 1] \div 2
      /\ back \in Seq(Bit) /\ Len(back) = width
      /\ \A i \in 1 .. width : back[i] = IF q[width - i] % 2 = 1 THEN 1 ELSE 0
  <2>1. value \in Nat /\ width \in Nat
    BY <1>2, NumberOfBitsType
  <2>2. q[0] = value /\ \A k \in 1 .. width : q[k] = q[k - 1] \div 2
    <3> HIDE DEF value, width
    <3> QED BY <2>1, ShiftedIsHalved
  <2>3. /\ back \in Seq(Bit) /\ Len(back) = width
        /\ \A i \in 1 .. width : back[i] = IF q[width - i] % 2 = 1 THEN 1 ELSE 0
    <3> HIDE DEF value, width
    <3> QED BY <2>1, NumberToBitsParts
  <2> QED BY <2>2, <2>3
<1> HIDE DEF width, value, q, back
<1>4. \A k \in 0 .. width : q[k] = f[width - k]
  <2> DEFINE S == {k \in 0 .. width : q[k] # f[width - k]}
  <2>1. SUFFICES ASSUME S # {} PROVE FALSE
    OBVIOUS
  <2>2. PICK m \in S : \A k \in S : m <= k
    <3>1. S \subseteq Nat
      BY <1>2
    <3> HIDE DEF S
    <3> QED BY <2>1, <3>1, LeastElement
  <2>3. m # 0 /\ m - 1 \in 0 .. width /\ ~(m - 1 \in S)
    BY <1>2, <1>3, <2>2
  <2>4. width - (m - 1) \in 1 .. width /\ width - m \in 0 .. width /\ m \in 1 .. width
    BY <1>2, <2>2, <2>3
  <2>5. /\ f[width - (m - 1)] = 2 * f[width - m] + bits[width - (m - 1)]
        /\ bits[width - (m - 1)] \in {0, 1}
    <3>1. (width - (m - 1)) - 1 = width - m
      BY <1>2, <2>4
    <3> QED BY <1>2, <2>4, <3>1
  <2>6. q[m] = q[m - 1] \div 2 /\ q[m - 1] = f[width - (m - 1)] /\ f[width - m] \in Nat
    BY <1>2, <1>3, <2>2, <2>3, <2>4
  <2>7. q[m] = f[width - m]
    <3>1. PICK bit \in {0, 1} : q[m - 1] = 2 * f[width - m] + bit
      BY <2>5, <2>6, Zenon
    <3> QED BY <2>6, <3>1
  <2> QED BY <2>2, <2>7
<1>5. ASSUME NEW i \in 1 .. width
      PROVE  back[i] = bits[i]
  <2>1. width - i \in 0 .. width /\ width - (width - i) = i /\ i - 1 \in 0 .. width
    BY <1>2
  <2>2. q[width - i] = f[i]
    BY <1>4, <2>1
  <2>3. f[i] = 2 * f[i - 1] + bits[i] /\ bits[i] \in {0, 1} /\ f[i - 1] \in Nat
    BY <1>2, <2>1
  <2> QED BY <1>3, <2>2, <2>3
<1>6. back = bits
  BY <1>3, <1>5, SeqEqual DEF width
<1> QED
  BY <1>6 DEF back, value, width

\* Zero becomes zeros.
LEMMA ZeroBits ==
    ASSUME NEW width \in Nat
    PROVE  /\ Fits(0, width)
           /\ \A i \in 1 .. width : NumberToBits(0, width)[i] = 0
<1> DEFINE q == Shifted(0, width)
<1>1. q[0] = 0 /\ \A k \in 1 .. width : q[k] = q[k - 1] \div 2
  BY ShiftedIsHalved
<1> HIDE DEF q
<1>2. \A k \in 0 .. width : q[k] = 0
  <2> DEFINE S == {k \in 0 .. width : q[k] # 0}
  <2>1. SUFFICES ASSUME S # {} PROVE FALSE
    OBVIOUS
  <2>2. PICK m \in S : \A k \in S : m <= k
    <3>1. S \subseteq Nat
      OBVIOUS
    <3> HIDE DEF S
    <3> QED BY <2>1, <3>1, LeastElement
  <2>3. m # 0 /\ m - 1 \in 0 .. width /\ ~(m - 1 \in S)
    BY <1>1, <2>2
  <2> QED BY <1>1, <2>2, <2>3
<1>3. Fits(0, width)
  BY <1>2 DEF Fits, q
<1>4. ASSUME NEW i \in 1 .. width
      PROVE  NumberToBits(0, width)[i] = 0
  <2>1. q[width - i] = 0
    BY <1>2
  <2> QED BY <2>1, NumberToBitsParts DEF q
<1> QED
  BY <1>3, <1>4

\* The four bits of a command name it, and the last bit of a number is its parity.
LEMMA CommandBits ==
    ASSUME NEW c \in Commands
    PROVE  CommandNumber(NumberToBits(c, CommandWidth)) = c
<1> DEFINE q == Shifted(c, 4)
           bits == NumberToBits(c, 4)
<1>1. /\ q[0] = c /\ \A k \in 1 .. 4 : q[k] = q[k - 1] \div 2
      /\ \A i \in 1 .. 4 : bits[i] = IF q[4 - i] % 2 = 1 THEN 1 ELSE 0
  <2>1. c \in Nat /\ 4 \in Nat
    BY DEF Commands
  <2> QED BY <2>1, ShiftedIsHalved, NumberToBitsParts, Zenon
<1> HIDE DEF q, bits
<1>2. q[0] = c /\ q[1] = c \div 2 /\ q[2] = q[1] \div 2 /\ q[3] = q[2] \div 2
  BY <1>1
<1>3. /\ bits[1] = (IF q[3] % 2 = 1 THEN 1 ELSE 0) /\ bits[2] = (IF q[2] % 2 = 1 THEN 1 ELSE 0)
      /\ bits[3] = (IF q[1] % 2 = 1 THEN 1 ELSE 0) /\ bits[4] = (IF q[0] % 2 = 1 THEN 1 ELSE 0)
  BY <1>1
<1>4. CommandNumber(bits) = c
  BY <1>2, <1>3 DEF CommandNumber, Commands
<1> QED
  BY <1>4 DEF bits, CommandWidth

LEMMA LastBit ==
    ASSUME NEW value \in Nat, NEW width \in Nat \ {0}
    PROVE  NumberToBits(value, width)[width] = IF value % 2 = 1 THEN 1 ELSE 0
<1>1. width \in 1 .. width /\ width - width = 0
  OBVIOUS
<1>2. Shifted(value, width)[0] = value
  BY ShiftedIsHalved
<1>3. NumberToBits(value, width)[width]
          = IF Shifted(value, width)[width - width] % 2 = 1 THEN 1 ELSE 0
  BY <1>1, NumberToBitsParts
<1> QED
  BY <1>1, <1>2, <1>3
----------------------------------------------------------------------------
(* Keys and their bits.                                                    *)

\* The quotient and the remainder of a multiple and a rest.
LEMMA QuotientIs ==
    ASSUME NEW width \in Nat \ {0}, NEW n \in Nat, NEW rest \in 0 .. width - 1
    PROVE  (n * width + rest) \div width = n /\ (n * width + rest) % width = rest
<1> DEFINE a == n * width + rest
           q == a \div width
           r == a % width
<1>1. a \in Nat /\ n * width \in Nat
  OBVIOUS
<1>2. q \in Int /\ r \in 0 .. width - 1 /\ a = width * q + r
  <2> HIDE DEF a
  <2> QED BY <1>1
<1> HIDE DEF q, r
<1>3. (q - n) * width = rest - r
  <2>1. (q - n) * width = width * q - n * width
    BY <1>2
  <2> QED BY <1>1, <1>2, <2>1
<1>4. CASE q - n >= 1
  <2>1. (q - n - 1) * width >= 0 /\ (q - n - 1) * width = (q - n) * width - width
    BY <1>2, <1>4
  <2> QED BY <1>2, <1>3, <2>1
<1>5. CASE q - n <= -1
  <2>1. (n - q - 1) * width >= 0 /\ (n - q - 1) * width = (-((q - n) * width)) - width
    BY <1>2, <1>5
  <2> QED BY <1>2, <1>3, <2>1
<1>6. CASE q - n = 0
  BY <1>2, <1>3, <1>6 DEF q, r
<1> QED
  BY <1>2, <1>4, <1>5, <1>6

\* The bits of a key among those of all.
LEMMA BitsOfKey ==
    ASSUME NEW keys \in Seq(Keys), NEW k \in 1 .. Len(keys), NEW j \in 1 .. KeyWidth
    PROVE  /\ (k - 1) * KeyWidth + j \in 1 .. Len(keys) * KeyWidth
           /\ BitsOfKeys(keys)[(k - 1) * KeyWidth + j] = NumberToBits(keys[k], KeyWidth)[j]
<1> DEFINE i == (k - 1) * KeyWidth + j
<1>1. KeyWidth \in Nat \ {0} /\ k - 1 \in Nat /\ j - 1 \in 0 .. KeyWidth - 1 /\ Len(keys) \in Nat
  BY WidthAssumption
<1>2. i - 1 = (k - 1) * KeyWidth + (j - 1) /\ i \in Nat /\ i >= 1
  BY <1>1
<1>3. (i - 1) \div KeyWidth = k - 1 /\ (i - 1) % KeyWidth = j - 1
  <2>1. /\ ((k - 1) * KeyWidth + (j - 1)) \div KeyWidth = k - 1
        /\ ((k - 1) * KeyWidth + (j - 1)) % KeyWidth = j - 1
    BY <1>1, QuotientIs
  <2> HIDE DEF i
  <2> QED BY <1>2, <2>1
<1>4. i <= Len(keys) * KeyWidth
  <2>1. (Len(keys) - k) * KeyWidth >= 0
    BY <1>1
  <2>2. (Len(keys) - k) * KeyWidth = Len(keys) * KeyWidth - (k - 1) * KeyWidth - KeyWidth
    BY <1>1
  <2>3. (k - 1) * KeyWidth \in Int /\ Len(keys) * KeyWidth \in Int
    BY <1>1
  <2> QED BY <1>1, <2>1, <2>2, <2>3
<1>5. i \in 1 .. Len(keys) * KeyWidth
  <2>1. Len(keys) * KeyWidth \in Int
    BY <1>1
  <2> HIDE DEF i
  <2> QED BY <1>2, <1>4, <2>1
<1>6. ((i - 1) \div KeyWidth) + 1 = k /\ ((i - 1) % KeyWidth) + 1 = j
  <2> HIDE DEF i
  <2> QED BY <1>1, <1>3
<1>7. BitsOfKeys(keys)[i] = NumberToBits(keys[k], KeyWidth)[j]
  <2> HIDE DEF i
  <2>1. BitsOfKeys(keys)[i] =
          NumberToBits(keys[((i - 1) \div KeyWidth) + 1], KeyWidth)[((i - 1) % KeyWidth) + 1]
    BY <1>5 DEF BitsOfKeys
  <2> QED BY <1>6, <2>1
<1> QED
  BY <1>5, <1>7

LEMMA KeyBitsParts ==
    ASSUME NEW keys \in Seq(Keys), Len(keys) <= ReadLimit
    PROVE  /\ KeyBits(keys) \in Seq(Bit)
           /\ Len(KeyBits(keys)) = CountWidth + Len(keys) * KeyWidth
           /\ SubSeq(KeyBits(keys), 1, CountWidth) = NumberToBits(Len(keys), CountWidth)
           /\ BitsToNumber(SubSeq(KeyBits(keys), 1, CountWidth)) = Len(keys)
           /\ \A i \in 1 .. Len(keys) * KeyWidth :
                  KeyBits(keys)[CountWidth + i] = BitsOfKeys(keys)[i]
<1> DEFINE count == NumberToBits(Len(keys), CountWidth)
           bits == BitsOfKeys(keys)
           all3 == KeyBits(keys)
<1>1. CountWidth \in Nat \ {0} /\ Len(keys) * KeyWidth \in Nat /\ Len(keys) \in 0 .. ReadLimit
  BY WidthAssumption
<1>2. count \in Seq(Bit) /\ Len(count) = CountWidth
  BY <1>1, NumberToBitsParts
<1>3. bits \in Seq(Bit) /\ Len(bits) = Len(keys) * KeyWidth
  <2>1. KeyBits(keys) \in Seq(Bit)
    BY KeyBitsType
  <2>2. bits = [i \in 1 .. Len(keys) * KeyWidth |-> bits[i]]
    BY DEF BitsOfKeys
  <2>3. ASSUME NEW i \in 1 .. Len(keys) * KeyWidth
        PROVE  bits[i] \in Bit
    <3>1. KeyWidth \in Nat \ {0}
      BY WidthAssumption
    <3>2. ((i - 1) % KeyWidth) + 1 \in 1 .. KeyWidth
      BY <1>1, <3>1
    <3>3. NumberToBits(keys[((i - 1) \div KeyWidth) + 1], KeyWidth) \in [1 .. KeyWidth -> Bit]
      BY <3>1 DEF NumberToBits, Bit
    <3> QED BY <3>2, <3>3 DEF BitsOfKeys
  <2>4. bits \in [1 .. Len(keys) * KeyWidth -> Bit]
    <3> HIDE DEF bits
    <3> QED BY <2>2, <2>3
  <2> HIDE DEF bits
  <2> QED BY <1>1, <2>4
<1>4. all3 = count \o bits
  BY DEF KeyBits
<1> HIDE DEF count, bits, all3
<1>5. all3 \in Seq(Bit) /\ Len(all3) = CountWidth + Len(keys) * KeyWidth
  <2>1. all3 \in Seq(Bit) /\ Len(all3) = Len(count) + Len(bits)
    BY <1>2, <1>3, <1>4, ConcatProperties
  <2> QED BY <1>2, <1>3, <2>1
<1>6. SubSeq(all3, 1, CountWidth) = count
  <2> DEFINE part == SubSeq(all3, 1, CountWidth)
  <2>1. part \in Seq(Bit) /\ Len(part) = CountWidth
        /\ \A i \in 1 .. CountWidth : part[i] = all3[i]
    BY <1>1, <1>5
  <2>2. \A i \in 1 .. CountWidth : all3[i] = count[i]
    BY <1>1, <1>2, <1>3, <1>4
  <2> HIDE DEF part
  <2>3. part = count
    BY <1>2, <2>1, <2>2, SeqEqual
  <2> QED BY <2>3 DEF part
<1>7. BitsToNumber(count) = Len(keys)
  <2>1. ReadLimit \in Nat /\ Fits(ReadLimit, CountWidth)
    BY WidthAssumption
  <2>2. Fits(Len(keys), CountWidth)
    BY <1>1, <2>1, SmallerFits
  <2> QED BY <1>1, <2>2, NumberComesBack DEF count
<1>8. ASSUME NEW i \in 1 .. Len(keys) * KeyWidth
      PROVE  all3[CountWidth + i] = bits[i]
  BY <1>1, <1>2, <1>3, <1>4
<1> QED
  BY <1>5, <1>6, <1>7, <1>8 DEF all3, count, bits

\* The driver decodes the keys that the link has sent.
LEMMA KeysComeBack ==
    ASSUME NEW keys \in Seq(Keys), Len(keys) <= ReadLimit
    PROVE  DecodeKeys(KeyBits(keys)) = keys
<1> DEFINE b == KeyBits(keys)
           decoded == DecodeKeys(b)
<1>1. /\ b \in Seq(Bit) /\ Len(b) = CountWidth + Len(keys) * KeyWidth
      /\ \A i \in 1 .. Len(keys) * KeyWidth : b[CountWidth + i] = BitsOfKeys(keys)[i]
  BY KeyBitsParts
<1>2. CountWidth \in Nat \ {0} /\ KeyWidth \in Nat \ {0} /\ Len(keys) \in Nat
  BY WidthAssumption
<1>3. (Len(b) - CountWidth) \div KeyWidth = Len(keys)
  <2>1. Len(b) - CountWidth = Len(keys) * KeyWidth + 0 /\ 0 \in 0 .. KeyWidth - 1
    BY <1>1, <1>2
  <2> QED BY <1>2, <2>1, QuotientIs
<1>4. ASSUME NEW k \in 1 .. Len(keys)
      PROVE  SubSeq(b, CountWidth + (k - 1) * KeyWidth + 1, CountWidth + k * KeyWidth)
                 = NumberToBits(keys[k], KeyWidth)
  <2> DEFINE from == CountWidth + (k - 1) * KeyWidth
             part == SubSeq(b, from + 1, from + KeyWidth)
             bits == NumberToBits(keys[k], KeyWidth)
  <2>1. bits \in Seq(Bit) /\ Len(bits) = KeyWidth
    BY <1>2, NumberToBitsParts
  <2>2. /\ from \in Nat /\ from + KeyWidth <= Len(b)
        /\ CountWidth + k * KeyWidth = from + KeyWidth
    <3>1. (Len(keys) - k) * KeyWidth \in Nat /\ (k - 1) * KeyWidth \in Nat
      BY <1>2
    <3>2. (Len(keys) - k) * KeyWidth = Len(keys) * KeyWidth - k * KeyWidth
      BY <1>2
    <3>3. k * KeyWidth = (k - 1) * KeyWidth + KeyWidth
      BY <1>2
    <3> DEFINE before == (k - 1) * KeyWidth
               upto   == k * KeyWidth
               total  == Len(keys) * KeyWidth
               after  == (Len(keys) - k) * KeyWidth
    <3>4. /\ before \in Nat /\ after \in Nat /\ upto \in Int /\ total \in Int
          /\ after = total - upto /\ upto = before + KeyWidth
          /\ from = CountWidth + before /\ Len(b) = CountWidth + total
      BY <1>1, <1>2, <3>1, <3>2, <3>3
    <3> HIDE DEF from, before, upto, total, after
    <3> QED BY <1>2, <3>4 DEF upto
  <2>3. ASSUME NEW j \in 1 .. KeyWidth
        PROVE  b[from + j] = bits[j]
    <3> DEFINE i == (k - 1) * KeyWidth + j
    <3>1. i \in 1 .. Len(keys) * KeyWidth /\ BitsOfKeys(keys)[i] = bits[j]
      BY BitsOfKey
    <3>2. from + j = CountWidth + i
      BY <1>2
    <3> HIDE DEF i, from, bits
    <3> QED BY <1>1, <3>1, <3>2
  <2> HIDE DEF from, bits, b
  <2>4. part \in Seq(Bit) /\ Len(part) = KeyWidth
        /\ \A j \in 1 .. KeyWidth : part[j] = b[from + j]
    BY <1>1, <1>2, <2>2
  <2> HIDE DEF part
  <2>5. part = bits
    BY <2>1, <2>3, <2>4, SeqEqual
  <2> QED BY <2>2, <2>5 DEF part, from, bits
<1>5. ASSUME NEW k \in 1 .. Len(keys)
      PROVE  decoded[k] = keys[k]
  <2>1. keys[k] \in Nat /\ Fits(keys[k], KeyWidth)
    BY ElementOfSeq, WidthAssumption
  <2>2. BitsToNumber(NumberToBits(keys[k], KeyWidth)) = keys[k]
    BY <1>2, <2>1, NumberComesBack
  <2>3. decoded[k] = BitsToNumber(SubSeq(b, CountWidth + (k - 1) * KeyWidth + 1,
                                            CountWidth + k * KeyWidth))
    BY <1>3 DEF DecodeKeys
  <2> QED BY <1>4, <2>2, <2>3
<1>6. decoded = [k \in 1 .. Len(keys) |-> decoded[k]]
  BY <1>3 DEF DecodeKeys
<1>7. keys = [k \in 1 .. Len(keys) |-> keys[k]]
  OBVIOUS
<1> HIDE DEF decoded
<1>8. decoded = keys
  BY <1>5, <1>6, <1>7
<1> QED
  BY <1>8 DEF decoded
----------------------------------------------------------------------------
(* The two ends.  What the driver has sent and still has to send is the    *)
(* command with its arguments; what it has read and what the link still    *)
(* holds is the answer.                                                    *)

AtRest ==
    /\ ipcCommandBits = <<>>
    /\ ipcArgumentBitsRemaining = 0
    /\ ipcResponseBits = <<>>

\* The bits are the answer to the command: the status, which has not become false
\* since; the keys, at most ReadLimit of them; the byte of the test; or zeros.
IsAnswer(bits) ==
    /\ command = 1  => Len(bits) = StatusWidth /\ (bits[StatusWidth] = 1 => keyboardQueue # <<>>)
    /\ command = 8  => \E keys \in Seq(Keys) : Len(keys) <= ReadLimit /\ bits = KeyBits(keys)
    /\ command = 15 => bits = arguments /\ Len(bits) = TestWidth
    /\ command \notin {1, 8, 15} =>
           Len(bits) = ReplyLength(command, <<>>) /\ \A i \in 1 .. Len(bits) : bits[i] = 0

Idle == pc = "idle" => got = <<>> /\ (software # "other" => AtRest)

\* Some bits of the command, or of its arguments, are on the other side.
Underway ==
    \/ /\ ipcArgumentBitsRemaining = 0
       /\ ipcCommandBits \o out = NumberToBits(command, CommandWidth) \o arguments
    \/ /\ ipcArgumentBitsRemaining > 0
       /\ ipcCommand = command
       /\ ipcArgumentBits \o out = arguments

Sending ==
    pc = "send" =>
        /\ Len(arguments) = SentArguments(command)
        /\ out # <<>> /\ got = <<>> /\ ipcResponseBits = <<>>
        /\ Underway

Replying ==
    pc = "reply" =>
        /\ ipcCommandBits = <<>> /\ ipcArgumentBitsRemaining = 0
        /\ ipcResponseBits # <<>>
        /\ IsAnswer(got \o ipcResponseBits)

Answered == pc = "done" => AtRest /\ IsAnswer(got)

\* Only the driver takes keys, and it forgets that one waits before it does.
WaitingIsTrue ==
    /\ keyWaiting => keyboardQueue # <<>>
    /\ pc # "idle" /\ command = 8 => ~keyWaiting
    /\ software = "other" => pc = "idle" /\ ~keyWaiting

DriverTypes ==
    /\ software \in {"driver", "server", "other"}
    /\ pc \in {"idle", "send", "reply", "done"}
    /\ command \in Commands
    /\ arguments \in Seq(Bit) /\ out \in Seq(Bit) /\ got \in Seq(Bit)
    /\ keyWaiting \in BOOLEAN
    /\ pressed \in Seq(Keys) /\ delivered \in Seq(Keys)

Stream == Idle /\ Sending /\ Replying /\ Answered

IInv == LinkInv /\ DriverTypes /\ Stream /\ WaitingIsTrue /\ KeysInOrder

\* A bit goes from one sequence to the other.
LEMMA MoveBit ==
    ASSUME NEW s \in Seq(Bit), NEW t \in Seq(Bit), t # <<>>
    PROVE  /\ Head(t) \in Bit /\ Tail(t) \in Seq(Bit) /\ Len(Tail(t)) = Len(t) - 1
           /\ Append(s, Head(t)) \in Seq(Bit) /\ Len(Append(s, Head(t))) = Len(s) + 1
           /\ Append(s, Head(t)) \o Tail(t) = s \o t
<1>1. Head(t) \in Bit /\ Tail(t) \in Seq(Bit) /\ Len(Tail(t)) = Len(t) - 1
      /\ Len(t) \in Nat \ {0}
  BY HeadTailProperties, EmptySeq
<1>2. Append(s, Head(t)) \in Seq(Bit) /\ Len(Append(s, Head(t))) = Len(s) + 1
  BY <1>1, AppendProperties
<1> DEFINE a == Append(s, Head(t)) \o Tail(t)
           b == s \o t
<1>3. a \in Seq(Bit) /\ b \in Seq(Bit) /\ Len(a) = Len(b)
  BY <1>1, <1>2, ConcatProperties
<1>4. ASSUME NEW i \in 1 .. Len(b)
      PROVE  a[i] = b[i]
  <2>1. CASE i <= Len(s)
    BY <1>1, <1>2, <2>1
  <2>2. CASE i = Len(s) + 1
    BY <1>1, <1>2, <2>2
  <2>3. CASE i > Len(s) + 1
    BY <1>1, <1>2, <2>3
  <2> QED BY <2>1, <2>2, <2>3
<1> HIDE DEF a, b
<1>5. a = b
  BY <1>3, <1>4, SeqEqual
<1> QED
  BY <1>1, <1>2, <1>5 DEF a, b

\* Two ways to part the same bits at the same place.
LEMMA SameParts ==
    ASSUME NEW s \in Seq(Bit), NEW t \in Seq(Bit), NEW a \in Seq(Bit), NEW b \in Seq(Bit),
           s \o t = a \o b, Len(s) = Len(a)
    PROVE  s = a /\ t = b
<1>1. Len(t) = Len(b)
  BY ConcatProperties
<1>2. \A i \in 1 .. Len(s) : s[i] = a[i]
  <2> TAKE i \in 1 .. Len(s)
  <2>1. (s \o t)[i] = s[i] /\ (a \o b)[i] = a[i]
    OBVIOUS
  <2> QED BY <2>1
<1>3. \A i \in 1 .. Len(t) : t[i] = b[i]
  <2> TAKE i \in 1 .. Len(t)
  <2>1. Len(s) \in Nat /\ Len(t) \in Nat /\ Len(s) + i - Len(s) = i
        /\ Len(s) + i \in (Len(s) + 1) .. (Len(s) + Len(t))
    OBVIOUS
  <2>2. (s \o t)[Len(s) + i] = t[i]
    BY <2>1
  <2>3. (a \o b)[Len(s) + i] = b[i]
    BY <1>1, <2>1
  <2> QED BY <2>2, <2>3
<1> QED
  BY <1>1, <1>2, <1>3, SeqEqual

\* The keys that are read and those that stay are the keys that wait.
LEMMA QueueParts ==
    ASSUME TypeOK
    PROVE  /\ KeysToRead \in Seq(Keys) /\ KeysLeft \in Seq(Keys)
           /\ Len(KeysToRead) <= ReadLimit
           /\ keyboardQueue = KeysToRead \o KeysLeft
<1>1. keyboardQueue \in Seq(Keys) /\ ReadLimit \in Nat
  BY WidthAssumption DEF TypeOK, LinkTypes
<1>2. KeysToRead \in Seq(Keys) /\ Len(KeysToRead) <= ReadLimit
      /\ Len(KeysToRead) \in 0 .. Len(keyboardQueue)
      /\ KeysToRead = SubSeq(keyboardQueue, 1, Len(KeysToRead))
  BY <1>1 DEF KeysToRead
<1>3. KeysLeft \in Seq(Keys)
  BY QueueTypes
<1>4. keyboardQueue = KeysToRead \o KeysLeft
  BY <1>1, <1>2 DEF KeysLeft
<1> QED
  BY <1>2, <1>3, <1>4

\* The driver sends the arguments the link expects.
LEMMA ArgumentsAgree ==
    ASSUME NEW c \in Commands
    PROVE  SentArguments(c) = ArgumentCount(c) /\ ArgumentCount(c) \in Nat
BY ArgumentCountType DEF SentArguments, ArgumentCount, Commands

\* A bit that is written while the link has nothing to say is taken.
LEMMA BitIsTaken ==
    ASSUME NEW bit \in Bit, ipcResponseBits = <<>>, WriteIpc(12 + 2 * bit)
    PROVE  ReceiveArgumentBit(bit) \/ ReceiveCommandBit(bit)
<1>1. TransfersBit(12 + 2 * bit) /\ BitOf(12 + 2 * bit) = bit
  BY DEF TransfersBit, BitOf, Bit
<1> QED
  BY <1>1 DEF WriteIpc, Pulse, ReceiveIpcBit, ReturnResponseBit

LEMMA BitIsReturned ==
    ASSUME ipcResponseBits # <<>>, WriteIpc(14)
    PROVE  ReturnResponseBit
BY DEF WriteIpc, Pulse, TransfersBit, ReceiveIpcBit, ReceiveArgumentBit, ReceiveCommandBit

\* The driver knows when it has read the whole answer.
LEMMA ReplyIsMeasured ==
    ASSUME NEW bits \in Seq(Bit), NEW rest \in Seq(Bit), IsAnswer(bits \o rest),
           command \in Commands
    PROVE  Len(bits) = ReplyLength(command, bits) <=> rest = <<>>
<1> DEFINE whole == bits \o rest
<1>1. /\ whole \in Seq(Bit) /\ Len(whole) = Len(bits) + Len(rest)
      /\ Len(bits) \in Nat /\ Len(rest) \in Nat /\ (rest = <<>> <=> Len(rest) = 0)
  BY ConcatProperties, LenProperties, EmptySeq
<1>2. CASE command = 8
  <2>1. PICK keys \in Seq(Keys) : Len(keys) <= ReadLimit /\ whole = KeyBits(keys)
    BY <1>2 DEF IsAnswer
  <2>2. /\ Len(whole) = CountWidth + Len(keys) * KeyWidth
        /\ BitsToNumber(SubSeq(whole, 1, CountWidth)) = Len(keys)
    BY <2>1, KeyBitsParts
  <2>3. /\ CountWidth \in Nat \ {0} /\ KeyWidth \in Nat \ {0} /\ Len(keys) \in Nat
        /\ Len(keys) * KeyWidth \in Nat /\ KeyWidth * Len(keys) = Len(keys) * KeyWidth
    BY WidthAssumption
  <2>4. CASE Len(bits) < CountWidth
    <3>1. ReplyLength(command, bits) = CountWidth
      BY <1>2, <2>4 DEF ReplyLength
    <3>2. Len(rest) # 0
      <4> HIDE DEF whole
      <4> QED BY <1>1, <2>2, <2>3, <2>4
    <3> QED BY <1>1, <2>3, <2>4, <3>1, <3>2
  <2>5. CASE ~(Len(bits) < CountWidth)
    <3>1. SubSeq(whole, 1, CountWidth) = SubSeq(bits, 1, CountWidth)
      <4> DEFINE a == SubSeq(whole, 1, CountWidth)
                 b == SubSeq(bits, 1, CountWidth)
      <4>1. a \in Seq(Bit) /\ Len(a) = CountWidth /\ \A i \in 1 .. CountWidth : a[i] = whole[i]
        <5> HIDE DEF whole
        <5> QED BY <1>1, <2>3, <2>5
      <4>2. b \in Seq(Bit) /\ Len(b) = CountWidth /\ \A i \in 1 .. CountWidth : b[i] = bits[i]
        BY <1>1, <2>3, <2>5
      <4>3. \A i \in 1 .. CountWidth : whole[i] = bits[i]
        BY <1>1, <2>3, <2>5
      <4> HIDE DEF a, b, whole
      <4>4. a = b
        BY <4>1, <4>2, <4>3, SeqEqual
      <4> QED BY <4>4 DEF a, b
    <3>2. ReplyLength(command, bits) = CountWidth + KeyWidth * BitsToNumber(SubSeq(bits, 1, CountWidth))
      BY <1>2, <2>5 DEF ReplyLength
    <3>3. ReplyLength(command, bits) = Len(whole)
      <4> HIDE DEF whole
      <4> QED BY <2>2, <2>3, <3>1, <3>2
    <3> QED BY <1>1, <3>3
  <2> QED BY <2>4, <2>5
<1>3. CASE command # 8
  <2>1. ReplyLength(command, bits) = ReplyLength(command, <<>>)
    BY <1>3 DEF ReplyLength, Commands
  <2>2. Len(whole) = ReplyLength(command, <<>>)
    <3>1. CASE command = 1
      BY <3>1 DEF IsAnswer, ReplyLength
    <3>2. CASE command = 15
      BY <3>2 DEF IsAnswer, ReplyLength
    <3>3. CASE command \notin {1, 8, 15}
      BY <3>3 DEF IsAnswer
    <3> QED BY <1>3, <3>1, <3>2, <3>3
  <2> QED BY <1>1, <2>1, <2>2
<1> QED
  BY <1>2, <1>3

\* What a command that takes no arguments answers, at once.
LEMMA AnswerAtOnce ==
    ASSUME LinkInv, command \in Commands, ArgumentCount(command) = 0,
           StartIpcCommand(command), command' = command,
           ipcResponseBits = <<>>, ipcArgumentBitsRemaining = 0
    PROVE  /\ ipcArgumentBitsRemaining' = 0
           /\ IsAnswer(ipcResponseBits)'
           /\ ipcResponseBits' # <<>> <=> ReplyLength(command, <<>>) > 0
<1>1. TypeOK /\ ~TakeArguments(command)
  BY DEF LinkInv, TakeArguments
<1>2. CASE ReadKeyboard(command)
  <2>1. command = 8 /\ ipcResponseBits' = KeyBits(KeysToRead) /\ ipcArgumentBitsRemaining' = 0
    BY <1>2 DEF ReadKeyboard, Respond
  <2>2. KeysToRead \in Seq(Keys) /\ Len(KeysToRead) <= ReadLimit
    BY <1>1, QueueParts
  <2>3. IsAnswer(ipcResponseBits)'
    BY <2>1, <2>2 DEF IsAnswer
  <2>4. Len(ipcResponseBits') > 0
    <3> DEFINE n == Len(KeysToRead) * KeyWidth
    <3>1. Len(ipcResponseBits') = CountWidth + n
      BY <2>1, <2>2, KeyBitsParts
    <3>2. n \in Nat /\ CountWidth \in Nat \ {0}
      BY <2>2, WidthAssumption
    <3> HIDE DEF n
    <3> QED BY <3>1, <3>2
  <2>5. ReplyLength(command, <<>>) > 0
    BY <2>1, WidthAssumption DEF ReplyLength
  <2> QED BY <2>1, <2>3, <2>4, <2>5
<1>3. CASE StopSoundCommand(command)
  <2>1. command = 11 /\ ipcResponseBits' = <<>> /\ ipcArgumentBitsRemaining' = 0
    BY <1>3 DEF StopSoundCommand, Respond
  <2>2. ReplyLength(command, <<>>) = 0
    BY <2>1 DEF ReplyLength
  <2>3. IsAnswer(ipcResponseBits)'
    BY <2>1, <2>2 DEF IsAnswer, ReplyLength
  <2> QED BY <2>1, <2>2, <2>3
<1>4. CASE Answer(command)
  <2>1. /\ command \notin {8, 11, 9, 12, 13, 10, 15}
        /\ ipcArgumentBitsRemaining' = 0 /\ keyboardQueue' = keyboardQueue
        /\ ipcResponseBits' = IF command = 1 THEN StatusBits
               ELSE IF command \in {6, 7} THEN NumberToBits(0, SerialWidth)
               ELSE IF command = 14 THEN NumberToBits(0, RandomWidth)
               ELSE <<>>
    BY <1>4, WidthAssumption DEF Answer, Respond, ArgumentCount
  <2>2. CASE command = 1
    <3> DEFINE value == (IF keyboardQueue # <<>> THEN 1 ELSE 0) + (IF soundActive THEN 2 ELSE 0)
    <3>1. value \in Nat /\ (value % 2 = 1 <=> keyboardQueue # <<>>)
      OBVIOUS
    <3>2. StatusWidth \in Nat \ {0} /\ ipcResponseBits' = NumberToBits(value, StatusWidth)
      BY <2>1, <2>2, WidthAssumption DEF StatusBits
    <3> HIDE DEF value
    <3>3. Len(ipcResponseBits') = StatusWidth
      BY <3>2, NumberToBitsParts
    <3>4. ipcResponseBits'[StatusWidth] = 1 <=> keyboardQueue # <<>>
      BY <3>1, <3>2, LastBit
    <3>5. IsAnswer(ipcResponseBits)'
      BY <2>1, <2>2, <3>3, <3>4 DEF IsAnswer
    <3> QED BY <2>1, <2>2, <3>2, <3>3, <3>5 DEF ReplyLength
  <2>3. CASE command \in {6, 7, 14}
    <3> DEFINE width == IF command = 14 THEN RandomWidth ELSE SerialWidth
    <3>1. width \in Nat \ {0}
      BY WidthAssumption
    <3>2. ipcResponseBits' = NumberToBits(0, width)
      BY <2>1, <2>3
    <3>3. ReplyLength(command, <<>>) = width
      BY <2>3 DEF ReplyLength
    <3> HIDE DEF width
    <3>4. Len(ipcResponseBits') = width /\ \A i \in 1 .. width : ipcResponseBits'[i] = 0
      BY <3>1, <3>2, NumberToBitsParts, ZeroBits
    <3>5. ReplyLength(command', <<>>) = width
      BY <3>3
    <3>6. IsAnswer(ipcResponseBits)'
      BY <2>3, <3>4, <3>5 DEF IsAnswer
    <3> QED BY <2>1, <3>1, <3>3, <3>4, <3>6
  <2>4. CASE command \notin {1, 6, 7, 14}
    <3>1. ipcResponseBits' = <<>> /\ ReplyLength(command, <<>>) = 0
      BY <2>1, <2>4 DEF ReplyLength, Commands
    <3>2. ReplyLength(command', <<>>) = 0
      BY <3>1
    <3>3. IsAnswer(ipcResponseBits)'
      BY <2>1, <2>4, <3>1, <3>2 DEF IsAnswer
    <3> QED BY <2>1, <3>1, <3>3
  <2> QED BY <2>2, <2>3, <2>4
<1> QED
  BY <1>1, <1>2, <1>3, <1>4 DEF StartIpcCommand
----------------------------------------------------------------------------
(* Every action of the driver keeps the stream.  LinkInv is kept by every  *)
(* step of the link (LinkInductive).                                       *)

\* The link with a nibble of the driver.
LEMMA WriteKeepsLink ==
    ASSUME LinkInv, NEW nibble \in 0 .. 15, WriteIpc(nibble)
    PROVE  LinkInv'
BY LinkInductive DEF AnyNext

LEMMA NibbleOfBit == \A bit \in Bit : 12 + 2 * bit \in 0 .. 15
BY DEF Bit

LEMMA SendKeeps ==
    ASSUME IInv, NEW c \in Commands, NEW a \in Seq(Bit), Len(a) = SentArguments(c),
           Send(c, a), software # "other", software' = software
    PROVE  IInv'
<1>1. /\ AtRest /\ pc' = "send" /\ command' = c /\ arguments' = a /\ got' = <<>>
      /\ out' = NumberToBits(c, CommandWidth) \o a
      /\ keyWaiting' = (keyWaiting /\ c # 8)
      /\ UNCHANGED <<vars, pressed, delivered>>
      /\ pc = "idle"
  BY DEF Send, IInv, Stream, Idle
<1>2. LinkInv'
  BY <1>1, LinkInductive DEF IInv
<1>3. NumberToBits(c, CommandWidth) \in Seq(Bit) /\ Len(NumberToBits(c, CommandWidth)) = 4
  BY NumberToBitsParts DEF CommandWidth
<1>4. out' \in Seq(Bit) /\ out' # <<>>
  <2> DEFINE bits == NumberToBits(c, CommandWidth)
  <2>0. bits \in Seq(Bit) /\ Len(bits) = 4
    BY <1>3
  <2> HIDE DEF bits
  <2>1. bits \o a \in Seq(Bit) /\ Len(bits \o a) = Len(bits) + Len(a) /\ Len(a) \in Nat
    BY <2>0, ConcatProperties, LenProperties
  <2>2. bits \o a # <<>>
    BY <2>0, <2>1, LenProperties
  <2> QED BY <1>1, <2>1, <2>2 DEF bits
<1>5. DriverTypes'
  BY <1>1, <1>4, EmptySeq DEF DriverTypes, IInv
<1>6. Stream'
  <2>1. ipcCommandBits' \o out' = NumberToBits(c, CommandWidth) \o a
    BY <1>1, <1>4, ConcatEmptySeq DEF AtRest, vars, link
  <2>2. Underway'
    BY <1>1, <2>1 DEF Underway, AtRest, vars, link
  <2> QED BY <1>1, <1>4, <2>2 DEF Stream, Idle, Sending, Replying, Answered, AtRest, vars, link
<1>7. WaitingIsTrue'
  BY <1>1 DEF WaitingIsTrue, IInv, vars
<1>8. KeysInOrder'
  BY <1>1 DEF KeysInOrder, InFlight, IInv, vars
<1> QED
  BY <1>2, <1>5, <1>6, <1>7, <1>8 DEF IInv

\* One more bit of the command, the last one of which may start its answer, or of
\* the arguments, the last one of which may.
LEMMA CommandBitKeeps ==
    ASSUME IInv, SendBit, ReceiveCommandBit(Head(out)), software' = software
    PROVE  Stream' /\ WaitingIsTrue' /\ KeysInOrder'
<1> DEFINE bits == Append(ipcCommandBits, Head(out))
<1>1. /\ pc = "send" /\ out' = Tail(out)
      /\ pc' = IF out' # <<>> THEN "send"
               ELSE IF ReplyLength(command, <<>>) > 0 THEN "reply" ELSE "done"
      /\ UNCHANGED <<command, arguments, got, keyWaiting, pressed, delivered>>
  BY DEF SendBit
<1>2. /\ Len(arguments) = SentArguments(command) /\ out # <<>> /\ got = <<>>
      /\ ipcResponseBits = <<>> /\ ipcArgumentBitsRemaining = 0
      /\ ipcCommandBits \o out = NumberToBits(command, CommandWidth) \o arguments
  <2>1. ipcResponseBits = <<>> /\ ipcArgumentBitsRemaining = 0
    BY DEF ReceiveCommandBit
  <2>2. Len(arguments) = SentArguments(command) /\ out # <<>> /\ got = <<>> /\ Underway
    BY <1>1 DEF IInv, Stream, Sending
  <2>3. ipcCommandBits \o out = NumberToBits(command, CommandWidth) \o arguments
    BY <2>1, <2>2 DEF Underway
  <2> QED BY <2>1, <2>2, <2>3
<1>3. /\ command \in Commands /\ arguments \in Seq(Bit) /\ out \in Seq(Bit)
      /\ ipcCommandBits \in Seq(Bit) /\ Len(ipcCommandBits) < CommandWidth
      /\ LinkInv /\ TypeOK /\ software # "other"
  BY <1>1 DEF IInv, DriverTypes, LinkInv, TypeOK, LinkTypes, OneTransfer, WaitingIsTrue
<1>4. /\ bits \in Seq(Bit) /\ Len(bits) = Len(ipcCommandBits) + 1
      /\ out' \in Seq(Bit) /\ Len(out') = Len(out) - 1
      /\ bits \o out' = NumberToBits(command, CommandWidth) \o arguments
  BY <1>1, <1>2, <1>3, MoveBit
<1>5. /\ NumberToBits(command, CommandWidth) \in Seq(Bit)
      /\ Len(NumberToBits(command, CommandWidth)) = 4
  BY NumberToBitsParts DEF CommandWidth
<1>6. KeysInOrder /\ WaitingIsTrue /\ pressed = delivered \o <<>> \o keyboardQueue
  <2>1. InFlight = <<>>
    BY <1>1 DEF InFlight
  <2> QED BY <1>3, <2>1 DEF IInv, KeysInOrder
<1>7. CASE Len(bits) < CommandWidth
  <2>1. /\ ipcCommandBits' = bits
        /\ UNCHANGED <<ipcArgumentBitsRemaining, ipcResponseBits, keyboardQueue>>
    BY <1>7 DEF ReceiveCommandBit
  <2>2. out' # <<>>
    <3> DEFINE n == NumberToBits(command, CommandWidth)
    <3>0. n \in Seq(Bit) /\ Len(n) = 4 /\ bits \o out' = n \o arguments
      BY <1>4, <1>5
    <3> HIDE DEF n, bits
    <3>1. Len(n \o arguments) = Len(n) + Len(arguments) /\ Len(arguments) \in Nat
      BY <1>3, <3>0, ConcatProperties, LenProperties
    <3>2. Len(bits \o out') = Len(bits) + Len(out') /\ Len(bits) \in Nat /\ Len(out') \in Nat
      BY <1>4, ConcatProperties, LenProperties
    <3>3. Len(out') # 0
      BY <1>7, <3>0, <3>1, <3>2 DEF CommandWidth
    <3> QED BY <3>3, EmptySeq
  <2>3. Underway'
    BY <1>1, <1>2, <1>4, <2>1 DEF Underway
  <2>4. Stream'
    BY <1>1, <1>2, <2>1, <2>2, <2>3 DEF Stream, Idle, Sending, Replying, Answered
  <2>5. KeysInOrder'
    BY <1>1, <1>6, <2>1, <2>2 DEF KeysInOrder, InFlight
  <2> QED BY <1>1, <1>6, <2>1, <2>2, <2>4, <2>5 DEF WaitingIsTrue
<1>8. CASE ~(Len(bits) < CommandWidth)
  <2>1. Len(bits) = 4
    BY <1>3, <1>4, <1>8, LenProperties DEF CommandWidth
  <2>2. bits = NumberToBits(command, CommandWidth) /\ out' = arguments
    <3> HIDE DEF bits
    <3> QED BY <1>3, <1>4, <1>5, <2>1, SameParts
  <2>3. ipcCommandBits' = <<>> /\ StartIpcCommand(command)
    BY <1>3, <1>8, <2>2, CommandBits DEF ReceiveCommandBit
  <2>4. Len(arguments) = ArgumentCount(command) /\ ArgumentCount(command) \in Nat
    BY <1>2, <1>3, ArgumentsAgree
  <2>5. CASE ArgumentCount(command) > 0
    <3>1. TakeArguments(command)
      BY <2>3, <2>5
      DEF StartIpcCommand, ReadKeyboard, StopSoundCommand, Answer, ArgumentCount
    <3>2. /\ ipcCommand' = command /\ ipcArgumentBits' = <<>>
          /\ ipcArgumentBitsRemaining' > 0 /\ ipcResponseBits' = <<>>
          /\ keyboardQueue' = keyboardQueue
      BY <1>2, <2>5, <3>1 DEF TakeArguments, ExpectArguments
    <3>3. out' # <<>>
      BY <2>2, <2>4, <2>5, EmptySeq
    <3>4. ipcArgumentBits' \o out' = arguments
      BY <1>3, <2>2, <3>2, ConcatEmptySeq
    <3>5. Underway'
      BY <1>1, <3>2, <3>4 DEF Underway
    <3>6. Stream'
      BY <1>1, <1>2, <3>2, <3>3, <3>5 DEF Stream, Idle, Sending, Replying, Answered
    <3>7. KeysInOrder'
      BY <1>1, <1>6, <3>2, <3>3 DEF KeysInOrder, InFlight
    <3> QED BY <1>1, <1>6, <3>2, <3>3, <3>6, <3>7 DEF WaitingIsTrue
  <2>6. CASE ArgumentCount(command) = 0
    <3>1. out' = <<>>
      BY <1>3, <2>2, <2>4, <2>6, EmptySeq
    <3>2. /\ ipcArgumentBitsRemaining' = 0
          /\ IsAnswer(ipcResponseBits)'
          /\ ipcResponseBits' # <<>> <=> ReplyLength(command, <<>>) > 0
      BY <1>1, <1>2, <1>3, <2>3, <2>6, AnswerAtOnce
    <3>3. ipcResponseBits' \in Seq(Bit)
      <4>1. LinkInv'
        <5>1. Head(out) \in Bit /\ WriteIpc(12 + 2 * Head(out))
          BY <1>2, <1>3, MoveBit, EmptySeq DEF SendBit
        <5> QED BY <1>3, <5>1, NibbleOfBit, WriteKeepsLink
      <4> QED BY <4>1 DEF LinkInv, TypeOK, LinkTypes
    <3>4. got' \o ipcResponseBits' = ipcResponseBits'
      BY <1>1, <1>2, <3>3, ConcatEmptySeq
    <3>5. Stream'
      <4>1. pc' = "reply" => Replying'
        BY <2>3, <3>1, <3>2, <3>4, <1>1 DEF Replying
      <4>2. pc' = "done" => Answered'
        BY <1>1, <1>2, <2>3, <3>1, <3>2 DEF Answered, AtRest
      <4> QED BY <1>1, <3>1, <4>1, <4>2 DEF Stream, Idle, Sending, Replying, Answered
    <3>6. CASE command = 8
      <4>1. ipcResponseBits' = KeyBits(KeysToRead) /\ keyboardQueue' = KeysLeft
        BY <2>3, <3>6, WidthAssumption
        DEF StartIpcCommand, ReadKeyboard, Respond, StopSoundCommand, Answer, TakeArguments,
            ArgumentCount
      <4>2. /\ KeysToRead \in Seq(Keys) /\ KeysLeft \in Seq(Keys)
            /\ Len(KeysToRead) <= ReadLimit /\ keyboardQueue = KeysToRead \o KeysLeft
        BY <1>3, QueueParts
      <4>3. pc' = "reply"
        BY <1>1, <3>1, <3>6, WidthAssumption DEF ReplyLength
      <4>4. InFlight' = KeysToRead
        <5>1. DecodeKeys(ipcResponseBits') = KeysToRead
          BY <4>1, <4>2, KeysComeBack
        <5> QED BY <1>1, <3>4, <3>6, <4>3, <5>1 DEF InFlight
      <4>5. delivered \in Seq(Keys)
        BY DEF IInv, DriverTypes
      <4>6. pressed = delivered \o KeysToRead \o KeysLeft
        <5>1. delivered \o <<>> = delivered
          BY <4>5, ConcatEmptySeq
        <5>2. delivered \o (KeysToRead \o KeysLeft) = (delivered \o KeysToRead) \o KeysLeft
          BY <4>2, <4>5, ConcatAssociative
        <5> QED BY <1>6, <4>2, <5>1, <5>2
      <4>7. KeysInOrder'
        BY <1>1, <4>1, <4>4, <4>6 DEF KeysInOrder
      <4>8. WaitingIsTrue'
        BY <1>1, <1>3, <1>6, <3>6 DEF WaitingIsTrue
      <4> QED BY <3>5, <4>7, <4>8
    <3>7. CASE command # 8
      <4>1. keyboardQueue' = keyboardQueue
        BY <2>3, <3>7
        DEF StartIpcCommand, ReadKeyboard, StopSoundCommand, Answer, TakeArguments
      <4>2. KeysInOrder'
        BY <1>1, <1>6, <3>7, <4>1 DEF KeysInOrder, InFlight
      <4>3. WaitingIsTrue'
        BY <1>1, <1>3, <1>6, <3>7, <4>1 DEF WaitingIsTrue
      <4> QED BY <3>5, <4>2, <4>3
    <3> QED BY <3>6, <3>7
  <2> QED BY <2>4, <2>5, <2>6
<1> QED
  BY <1>7, <1>8

LEMMA ArgumentBitKeeps ==
    ASSUME IInv, SendBit, ReceiveArgumentBit(Head(out)), software' = software
    PROVE  Stream' /\ WaitingIsTrue' /\ KeysInOrder'
<1> DEFINE bits == Append(ipcArgumentBits, Head(out))
<1>1. /\ pc = "send" /\ out' = Tail(out)
      /\ pc' = IF out' # <<>> THEN "send"
               ELSE IF ReplyLength(command, <<>>) > 0 THEN "reply" ELSE "done"
      /\ UNCHANGED <<command, arguments, got, keyWaiting, pressed, delivered>>
  BY DEF SendBit
<1>2. /\ ipcResponseBits = <<>> /\ ipcArgumentBitsRemaining > 0
      /\ UNCHANGED <<ipcCommandBits, keyboardQueue>>
  BY DEF ReceiveArgumentBit
<1>3. Len(arguments) = SentArguments(command) /\ out # <<>> /\ got = <<>> /\ Underway
  BY <1>1 DEF IInv, Stream, Sending
<1>4. /\ command \in Commands /\ arguments \in Seq(Bit) /\ out \in Seq(Bit)
      /\ ipcArgumentBits \in Seq(Bit) /\ ipcArgumentBitsRemaining \in Nat
      /\ TypeOK /\ OneTransfer /\ software # "other"
  BY <1>1 DEF IInv, DriverTypes, LinkInv, TypeOK, LinkTypes, WaitingIsTrue
<1>5. /\ ipcCommand = command /\ ipcArgumentBits \o out = arguments
      /\ ipcCommandBits = <<>>
      /\ Len(ipcArgumentBits) + ipcArgumentBitsRemaining = ArgumentCount(command)
  <2>1. ipcCommand = command /\ ipcArgumentBits \o out = arguments
    BY <1>2, <1>3 DEF Underway
  <2>2. command # NoCommand
    BY <1>4 DEF Commands, NoCommand
  <2> QED BY <1>4, <2>1, <2>2 DEF OneTransfer
<1>6. /\ bits \in Seq(Bit) /\ Len(bits) = Len(ipcArgumentBits) + 1
      /\ out' \in Seq(Bit) /\ Len(out') = Len(out) - 1
      /\ bits \o out' = arguments
  BY <1>1, <1>3, <1>4, <1>5, MoveBit
<1>7. Len(out) = ipcArgumentBitsRemaining
  <2>1. Len(arguments) = Len(ipcArgumentBits) + Len(out)
    BY <1>4, <1>5, ConcatProperties
  <2>2. Len(arguments) = ArgumentCount(command)
    BY <1>3, <1>4, ArgumentsAgree
  <2> QED BY <1>4, <1>5, <2>1, <2>2, LenProperties
<1>8. InFlight = <<>> /\ WaitingIsTrue'
  BY <1>1, <1>2 DEF InFlight, IInv, WaitingIsTrue
<1>9. CASE ipcArgumentBitsRemaining = 1
  <2>1. out' = <<>>
    BY <1>6, <1>7, <1>9, EmptySeq
  <2>2. bits = arguments
    <3> HIDE DEF bits
    <3> QED BY <1>4, <1>6, <2>1, ConcatEmptySeq
  <2>3. FinishIpcArguments(arguments)
    BY <1>9, <2>2 DEF ReceiveArgumentBit
  <2>4. /\ ipcArgumentBitsRemaining' = 0
        /\ ipcResponseBits' = IF command = 9 THEN NumberToBits(0, StatusWidth)
               ELSE IF command = 15 THEN NumberToBits(BitsToNumber(arguments), TestWidth)
               ELSE <<>>
    BY <1>5, <2>3 DEF FinishIpcArguments
  <2>5. command \in {9, 10, 12, 13, 15}
    BY <1>4, <1>5, <1>9, LenProperties DEF ArgumentCount, Commands
  <2>6. /\ IsAnswer(ipcResponseBits)'
        /\ ipcResponseBits' # <<>> <=> ReplyLength(command, <<>>) > 0
        /\ ipcResponseBits' \in Seq(Bit)
    <3>1. CASE command = 9
      <4>1. StatusWidth \in Nat \ {0} /\ ipcResponseBits' = NumberToBits(0, StatusWidth)
        BY <2>4, <3>1, WidthAssumption
      <4>2. /\ Len(ipcResponseBits') = StatusWidth /\ ipcResponseBits' \in Seq(Bit)
            /\ \A i \in 1 .. StatusWidth : ipcResponseBits'[i] = 0
        BY <4>1, NumberToBitsParts, ZeroBits
      <4>3. ReplyLength(command, <<>>) = StatusWidth /\ ReplyLength(command', <<>>) = StatusWidth
        BY <1>1, <3>1 DEF ReplyLength
      <4>4. IsAnswer(ipcResponseBits)'
        BY <1>1, <3>1, <4>2, <4>3 DEF IsAnswer
      <4> QED BY <4>1, <4>2, <4>3, <4>4, EmptySeq
    <3>2. CASE command = 15
      <4>1. Len(arguments) = TestWidth /\ TestWidth \in Nat \ {0}
        BY <1>3, <3>2, WidthAssumption DEF SentArguments
      <4>2. ipcResponseBits' = arguments
        BY <1>4, <2>4, <3>2, <4>1, BitsComeBack
      <4>3. IsAnswer(ipcResponseBits)'
        BY <1>1, <3>2, <4>1, <4>2 DEF IsAnswer
      <4>4. ReplyLength(command, <<>>) = TestWidth
        BY <3>2 DEF ReplyLength
      <4> QED BY <1>4, <4>1, <4>2, <4>3, <4>4, EmptySeq
    <3>3. CASE command \in {10, 12, 13}
      <4>1. ipcResponseBits' = <<>>
        BY <2>4, <3>3
      <4>2. ReplyLength(command, <<>>) = 0 /\ ReplyLength(command', <<>>) = 0
        BY <1>1, <3>3 DEF ReplyLength
      <4>3. IsAnswer(ipcResponseBits)'
        BY <1>1, <3>3, <4>1, <4>2 DEF IsAnswer
      <4> QED BY <4>1, <4>2, <4>3, EmptySeq
    <3> QED BY <2>5, <3>1, <3>2, <3>3
  <2>7. got' \o ipcResponseBits' = ipcResponseBits'
    BY <1>1, <1>3, <2>6, ConcatEmptySeq
  <2>8. Stream'
    <3>1. pc' = "reply" => Replying'
      BY <1>1, <1>2, <1>5, <2>1, <2>4, <2>6, <2>7 DEF Replying
    <3>2. pc' = "done" => Answered'
      BY <1>1, <1>2, <1>3, <1>5, <2>1, <2>4, <2>6 DEF Answered, AtRest
    <3> QED BY <1>1, <2>1, <3>1, <3>2 DEF Stream, Idle, Sending, Replying, Answered
  <2>9. KeysInOrder'
    BY <1>1, <1>2, <1>8, <2>5 DEF IInv, KeysInOrder, InFlight
  <2> QED BY <1>8, <2>8, <2>9
<1>10. CASE ipcArgumentBitsRemaining # 1
  <2>1. /\ ipcArgumentBits' = bits
        /\ ipcArgumentBitsRemaining' = ipcArgumentBitsRemaining - 1
        /\ UNCHANGED <<ipcCommand, ipcResponseBits>>
    BY <1>10 DEF ReceiveArgumentBit
  <2>2. ipcArgumentBitsRemaining' > 0 /\ out' # <<>>
    BY <1>2, <1>4, <1>6, <1>7, <1>10, <2>1, EmptySeq
  <2>3. Underway'
    BY <1>1, <1>5, <1>6, <2>1, <2>2 DEF Underway
  <2>4. Stream'
    BY <1>1, <1>2, <1>3, <2>1, <2>2, <2>3 DEF Stream, Idle, Sending, Replying, Answered
  <2>5. KeysInOrder'
    BY <1>1, <1>2, <1>8, <2>2 DEF IInv, KeysInOrder, InFlight
  <2> QED BY <1>8, <2>4, <2>5
<1> QED
  BY <1>9, <1>10

LEMMA SendBitKeeps == ASSUME IInv, SendBit, software' = software PROVE IInv'
<1>1. /\ pc = "send" /\ out' = Tail(out)
      /\ pc' \in {"send", "reply", "done"}
      /\ UNCHANGED <<command, arguments, got, keyWaiting, pressed, delivered>>
  BY DEF SendBit
<1>2. out # <<>> /\ ipcResponseBits = <<>> /\ out \in Seq(Bit)
  BY <1>1 DEF IInv, Stream, Sending, DriverTypes
<1>3. Head(out) \in Bit /\ out' \in Seq(Bit)
  BY <1>1, <1>2, HeadTailProperties
<1>4. WriteIpc(12 + 2 * Head(out))
  BY DEF SendBit
<1>5. LinkInv'
  BY <1>3, <1>4, NibbleOfBit, WriteKeepsLink DEF IInv
<1>6. DriverTypes'
  BY <1>1, <1>3 DEF IInv, DriverTypes
<1>7. Stream' /\ WaitingIsTrue' /\ KeysInOrder'
  BY <1>2, <1>3, <1>4, BitIsTaken, CommandBitKeeps, ArgumentBitKeeps
<1> QED
  BY <1>5, <1>6, <1>7 DEF IInv

LEMMA ReadBitKeeps == ASSUME IInv, ReadBit, software' = software PROVE IInv'
<1>1. /\ pc = "reply"
      /\ got' = Append(got, ipcReturnBit')
      /\ pc' = IF Len(got') = ReplyLength(command, got') THEN "done" ELSE "reply"
      /\ UNCHANGED <<command, arguments, out, keyWaiting, pressed, delivered>>
      /\ WriteIpc(14)
  BY DEF ReadBit
<1>2. /\ ipcCommandBits = <<>> /\ ipcArgumentBitsRemaining = 0 /\ ipcResponseBits # <<>>
      /\ IsAnswer(got \o ipcResponseBits)
  BY <1>1 DEF IInv, Stream, Replying
<1>3. /\ ipcReturnBit' = Head(ipcResponseBits) /\ ipcResponseBits' = Tail(ipcResponseBits)
      /\ UNCHANGED <<ipcCommandBits, ipcArgumentBitsRemaining, keyboardQueue>>
  BY <1>1, <1>2, BitIsReturned DEF ReturnResponseBit
<1>4. LinkInv'
  BY <1>1, WriteKeepsLink DEF IInv
<1>5. got \in Seq(Bit) /\ ipcResponseBits \in Seq(Bit) /\ command \in Commands
  BY DEF IInv, DriverTypes, LinkInv, TypeOK, LinkTypes
<1>6. /\ got' \in Seq(Bit) /\ ipcResponseBits' \in Seq(Bit)
      /\ got' \o ipcResponseBits' = got \o ipcResponseBits
  BY <1>1, <1>2, <1>3, <1>5, MoveBit
<1>7. DriverTypes'
  BY <1>1, <1>6 DEF IInv, DriverTypes
<1>8. IsAnswer(got \o ipcResponseBits)'
  BY <1>1, <1>2, <1>3, <1>6 DEF IsAnswer
<1>9. Len(got') = ReplyLength(command, got') <=> ipcResponseBits' = <<>>
  <2>1. IsAnswer(got' \o ipcResponseBits')
    BY <1>2, <1>6
  <2> QED BY <1>5, <1>6, <2>1, ReplyIsMeasured
<1>10. Stream'
  <2>1. CASE ipcResponseBits' = <<>>
    <3>1. pc' = "done" /\ got' \o ipcResponseBits' = got'
      BY <1>1, <1>6, <1>9, <2>1, ConcatEmptySeq
    <3>2. IsAnswer(got)'
      BY <1>8, <3>1 DEF IsAnswer
    <3> QED BY <1>2, <1>3, <2>1, <3>1, <3>2 DEF Stream, Idle, Sending, Replying, Answered, AtRest
  <2>2. CASE ipcResponseBits' # <<>>
    <3>1. pc' = "reply"
      BY <1>1, <1>9, <2>2
    <3> QED BY <1>2, <1>3, <1>8, <2>2, <3>1 DEF Stream, Idle, Sending, Replying, Answered
  <2> QED BY <2>1, <2>2
<1>11. InFlight' = InFlight
  BY <1>1, <1>6 DEF InFlight
<1>12. WaitingIsTrue' /\ KeysInOrder'
  BY <1>1, <1>3, <1>11 DEF IInv, WaitingIsTrue, KeysInOrder
<1> QED
  BY <1>4, <1>7, <1>10, <1>12 DEF IInv

LEMMA DecodeKeeps == ASSUME IInv, Decode, software' = software PROVE IInv'
<1>1. /\ pc = "done" /\ pc' = "idle" /\ got' = <<>> /\ arguments' = <<>>
      /\ keyWaiting' = IF command = 1 THEN got[StatusWidth] = 1 ELSE keyWaiting
      /\ delivered' = IF command = 8 THEN delivered \o DecodeKeys(got) ELSE delivered
      /\ UNCHANGED <<vars, command, out, pressed>>
  BY DEF Decode
<1>2. AtRest /\ IsAnswer(got) /\ software # "other" /\ got \in Seq(Bit)
  BY <1>1 DEF IInv, Stream, Answered, WaitingIsTrue, DriverTypes
<1>3. LinkInv'
  BY <1>1, LinkInductive DEF IInv
<1>4. Stream'
  BY <1>1, <1>2 DEF Stream, Idle, Sending, Replying, Answered, AtRest, vars, link
<1>5. InFlight = IF command = 8 THEN DecodeKeys(got) ELSE <<>>
  <2>1. got \o ipcResponseBits = got
    BY <1>2, ConcatEmptySeq DEF AtRest
  <2> QED BY <1>1, <2>1 DEF InFlight
<1>6. InFlight \in Seq(Keys)
  <2>1. CASE command = 8
    <3>1. PICK keys \in Seq(Keys) : Len(keys) <= ReadLimit /\ got = KeyBits(keys)
      BY <1>2, <2>1 DEF IsAnswer
    <3> QED BY <1>5, <2>1, <3>1, KeysComeBack
  <2>2. CASE command # 8
    BY <1>5, <2>2, EmptySeq
  <2> QED BY <2>1, <2>2
<1>7. delivered \in Seq(Keys) /\ delivered' = delivered \o InFlight
  <2>1. delivered \in Seq(Keys)
    BY DEF IInv, DriverTypes
  <2> QED BY <1>1, <1>5, <2>1, ConcatEmptySeq
<1>8. DriverTypes'
  <2>1. delivered' \in Seq(Keys)
    BY <1>6, <1>7, ConcatProperties
  <2>2. keyWaiting' \in BOOLEAN
    BY <1>1 DEF IInv, DriverTypes
  <2> QED BY <1>1, <2>1, <2>2, EmptySeq DEF IInv, DriverTypes
<1>9. KeysInOrder'
  <2>1. InFlight' = <<>>
    BY <1>1 DEF InFlight
  <2>2. pressed = (delivered \o InFlight) \o keyboardQueue
    BY <1>2 DEF IInv, KeysInOrder
  <2>3. delivered' \o <<>> = delivered'
    BY <1>6, <1>7, ConcatProperties, ConcatEmptySeq
  <2> QED BY <1>1, <1>7, <2>1, <2>2, <2>3 DEF KeysInOrder, vars
<1>10. WaitingIsTrue'
  BY <1>1, <1>2 DEF WaitingIsTrue, IsAnswer, IInv, vars
<1> QED
  BY <1>3, <1>4, <1>8, <1>9, <1>10 DEF IInv

\* A key may be pressed at any time; it joins those that wait.
LEMMA PressKeyKeeps ==
    ASSUME IInv, NEW key \in Keys, PressKey(key), software' = software
    PROVE  IInv'
<1>1. /\ pressed' = Append(pressed, key)
      /\ keyboardQueue' = Append(keyboardQueue, key)
      /\ UNCHANGED <<link, sound, pc, command, arguments, out, got, keyWaiting, delivered>>
      /\ software # "other"
  BY DEF PressKey, EnqueueKey
<1>2. LinkInv'
  BY LinkInductive DEF PressKey, AnyNext, IInv
<1>3. /\ pressed \in Seq(Keys) /\ delivered \in Seq(Keys) /\ keyboardQueue \in Seq(Keys)
      /\ pressed' \in Seq(Keys) /\ keyboardQueue' # <<>>
  <2>1. pressed \in Seq(Keys) /\ delivered \in Seq(Keys)
    BY DEF IInv, DriverTypes
  <2>2. keyboardQueue \in Seq(Keys)
    BY DEF IInv, LinkInv, TypeOK, LinkTypes
  <2>3. pressed' \in Seq(Keys)
    BY <1>1, <2>1, AppendProperties
  <2>4. keyboardQueue' # <<>>
    BY <1>1, <2>2, AppendProperties, EmptySeq
  <2> QED BY <2>1, <2>2, <2>3, <2>4
<1>4. DriverTypes'
  BY <1>1, <1>3 DEF IInv, DriverTypes
<1>5. UNCHANGED <<ipcCommandBits, ipcArgumentBits, ipcArgumentBitsRemaining, ipcCommand,
                  ipcResponseBits, ipcReturnBit>>
  BY <1>1 DEF link
<1>6. ASSUME NEW bits, IsAnswer(bits)
      PROVE  IsAnswer(bits)'
  BY <1>1, <1>3, <1>6 DEF IsAnswer
<1>7. Stream'
  <2>1. Replying'
    <3>1. Replying
      BY DEF IInv, Stream
    <3> QED BY <1>1, <1>5, <1>6, <3>1 DEF Replying
  <2>2. Answered'
    <3>1. Answered
      BY DEF IInv, Stream
    <3> QED BY <1>1, <1>5, <1>6, <3>1 DEF Answered, AtRest
  <2>3. Idle' /\ Sending'
    BY <1>1, <1>5 DEF IInv, Stream, Idle, Sending, Underway, AtRest
  <2> QED BY <2>1, <2>2, <2>3 DEF Stream
<1>8. WaitingIsTrue'
  BY <1>1, <1>3 DEF IInv, WaitingIsTrue
<1>9. InFlight' = InFlight /\ InFlight \in Seq(Keys)
  <2>1. InFlight' = InFlight
    BY <1>1, <1>5 DEF InFlight
  <2>2. ASSUME command = 8, pc \in {"reply", "done"}
        PROVE  DecodeKeys(got \o ipcResponseBits) \in Seq(Keys)
    <3>1. IsAnswer(got \o ipcResponseBits)
      <4>1. CASE pc = "reply"
        BY <4>1 DEF IInv, Stream, Replying
      <4>2. CASE pc = "done"
        <5>1. got \o ipcResponseBits = got
          BY <4>2, ConcatEmptySeq DEF IInv, Stream, Answered, AtRest, DriverTypes
        <5> QED BY <4>2, <5>1 DEF IInv, Stream, Answered
      <4> QED BY <2>2, <4>1, <4>2
    <3>2. PICK keys \in Seq(Keys) : Len(keys) <= ReadLimit /\ got \o ipcResponseBits = KeyBits(keys)
      BY <2>2, <3>1 DEF IsAnswer
    <3> QED BY <3>2, KeysComeBack
  <2> QED BY <2>1, <2>2, EmptySeq DEF InFlight
<1>10. KeysInOrder'
  <2> DEFINE earlier == delivered \o InFlight
  <2>1. earlier \in Seq(Keys) /\ pressed = earlier \o keyboardQueue
    BY <1>1, <1>3, <1>9, ConcatProperties DEF IInv, KeysInOrder
  <2>2. Append(earlier \o keyboardQueue, key) = earlier \o Append(keyboardQueue, key)
    <3> HIDE DEF earlier
    <3>1. /\ Append(earlier \o keyboardQueue, key) = (earlier \o keyboardQueue) \o <<key>>
          /\ Append(keyboardQueue, key) = keyboardQueue \o <<key>>
      BY <1>3, <2>1, AppendIsConcat, ConcatProperties
    <3>2. <<key>> \in Seq(Keys)
      OBVIOUS
    <3> QED BY <1>3, <2>1, <3>1, <3>2, ConcatAssociative
  <2> HIDE DEF earlier
  <2>3. pressed' = earlier \o keyboardQueue'
    BY <1>1, <2>1, <2>2
  <2>4. delivered' \o InFlight' = earlier
    BY <1>1, <1>9 DEF earlier
  <2> QED BY <2>3, <2>4 DEF KeysInOrder
<1> QED
  BY <1>2, <1>4, <1>7, <1>8, <1>10 DEF IInv

\* Nothing of the stream changes when a sound runs out, nor when nothing happens.
LEMMA RestKeeps ==
    ASSUME IInv, LinkInv', UNCHANGED <<link, keyboardQueue, driver, software>>
    PROVE  IInv'
<1>1. UNCHANGED <<ipcCommandBits, ipcArgumentBits, ipcArgumentBitsRemaining, ipcCommand,
                  ipcResponseBits, keyboardQueue, pc, command, arguments, out, got,
                  keyWaiting, pressed, delivered, software>>
  BY DEF link, driver
<1>2. DriverTypes'
  BY <1>1 DEF IInv, DriverTypes
<1>3. Stream'
  BY <1>1 DEF IInv, Stream, Idle, Sending, Underway, Replying, Answered, AtRest, IsAnswer
<1>4. WaitingIsTrue' /\ KeysInOrder'
  BY <1>1 DEF IInv, WaitingIsTrue, KeysInOrder, InFlight
<1> QED
  BY <1>2, <1>3, <1>4 DEF IInv

LEMMA RestartKeeps == ASSUME IInv, Restart, software' = software PROVE IInv'
<1>1. LinkInv'
  BY LinkInductive DEF Restart, AnyNext, IInv
<1>2. DriverTypes'
  <2>1. software' \in {"driver", "server", "other"}
    BY DEF IInv, DriverTypes
  <2>2. pc' = "idle" /\ command' = 0 /\ keyWaiting' = FALSE
    BY DEF Restart
  <2>3. /\ arguments' = <<>> /\ out' = <<>> /\ got' = <<>>
        /\ pressed' = <<>> /\ delivered' = <<>>
    BY DEF Restart
  <2>4. 0 \in Commands
    BY DEF Commands
  <2>5. <<>> \in Seq(Bit) /\ <<>> \in Seq(Keys)
    OBVIOUS
  <2>6. keyWaiting' \in BOOLEAN
    BY <2>2
  <2> QED BY <2>1, <2>2, <2>3, <2>4, <2>5, <2>6 DEF DriverTypes
<1>3. Stream'
  BY DEF Restart, Reset, Stream, Idle, Sending, Replying, Answered, AtRest
<1>4. WaitingIsTrue'
  BY DEF Restart, WaitingIsTrue
<1>5. KeysInOrder'
  <2>1. /\ pressed' = <<>> /\ delivered' = <<>> /\ keyboardQueue' = <<>>
        /\ InFlight' = <<>>
    BY DEF Restart, Reset, InFlight
  <2> QED BY <2>1, ConcatEmptySeq, EmptySeq DEF KeysInOrder
<1> QED
  BY <1>1, <1>2, <1>3, <1>4, <1>5 DEF IInv

\* The driver does not run beside another program.
LEMMA OtherKeeps == ASSUME IInv, Other, software' = software PROVE IInv'
<1>1. /\ software = "other" /\ pc = "idle" /\ ~keyWaiting
      /\ UNCHANGED <<pc, command, arguments, out, got, keyWaiting, pressed, delivered>>
  BY DEF Other, driver, IInv, WaitingIsTrue
<1>2. LinkInv'
  BY LinkInductive, WidthAssumption DEF Other, AnyNext, IInv
<1>3. DriverTypes'
  BY <1>1 DEF IInv, DriverTypes
<1>4. Stream' /\ WaitingIsTrue' /\ KeysInOrder'
  BY <1>1 DEF IInv, Stream, Idle, Sending, Replying, Answered, WaitingIsTrue, KeysInOrder
<1> QED
  BY <1>2, <1>3, <1>4 DEF IInv
----------------------------------------------------------------------------
(* The theorems about the two ends.                                        *)

LEMMA Initially == DriverInit => IInv
<1> SUFFICES ASSUME DriverInit PROVE IInv
  OBVIOUS
<1>1. LinkInv
  BY LinkInitially DEF DriverInit
<1>2. DriverTypes
  <2>1. software \in {"driver", "server", "other"}
    BY DEF DriverInit
  <2>2. pc = "idle" /\ command = 0 /\ keyWaiting = FALSE
    BY DEF DriverInit, DriverIdle
  <2>3. /\ arguments = <<>> /\ out = <<>> /\ got = <<>>
        /\ pressed = <<>> /\ delivered = <<>>
    BY DEF DriverInit, DriverIdle
  <2>4. 0 \in Commands
    BY DEF Commands
  <2>5. <<>> \in Seq(Bit) /\ <<>> \in Seq(Keys)
    OBVIOUS
  <2>6. keyWaiting \in BOOLEAN
    BY <2>2
  <2> QED BY <2>1, <2>2, <2>3, <2>4, <2>5, <2>6 DEF DriverTypes
<1>3. Stream /\ WaitingIsTrue
  BY DEF DriverInit, DriverIdle, Init, Stream, Idle, Sending, Replying, Answered, AtRest,
         WaitingIsTrue
<1>4. KeysInOrder
  <2>1. pressed = <<>> /\ delivered = <<>> /\ keyboardQueue = <<>> /\ InFlight = <<>>
    BY DEF DriverInit, DriverIdle, Init, InFlight
  <2> QED BY <2>1, ConcatEmptySeq, EmptySeq DEF KeysInOrder
<1> QED
  BY <1>1, <1>2, <1>3, <1>4 DEF IInv

LEMMA Inductive == IInv /\ [DriverNext]_all => IInv'
<1> SUFFICES ASSUME IInv, [DriverNext]_all PROVE IInv'
  OBVIOUS
<1>1. CASE UNCHANGED all
  <2>1. UNCHANGED <<link, keyboardQueue, driver, software, vars>>
    BY <1>1 DEF all, vars
  <2>2. LinkInv'
    BY <2>1, LinkInductive DEF IInv
  <2> QED BY <2>1, <2>2, RestKeeps
<1>2. CASE DriverNext
  <2>1. software' = software
    BY <1>2 DEF DriverNext
  <2>2. CASE software = "driver" /\ SendAny
    <3>1. PICK c \in Commands : \E a \in [1 .. SentArguments(c) -> Bit] : Send(c, a)
      BY <2>2 DEF SendAny
    <3>2. PICK a \in [1 .. SentArguments(c) -> Bit] : Send(c, a)
      BY <3>1
    <3>3. SentArguments(c) \in Nat
      BY ArgumentsAgree
    <3>4. a \in Seq(Bit) /\ Len(a) = SentArguments(c)
      BY <3>3
    <3> QED BY <2>1, <2>2, <3>2, <3>4, SendKeeps
  <2>3. CASE software = "server" /\ Poll
    <3>1. PICK c \in {1, 8} : Send(c, <<>>)
      BY <2>3 DEF Poll
    <3>2. c \in Commands /\ SentArguments(c) = 0
      BY DEF Commands, SentArguments
    <3>3. <<>> \in Seq(Bit) /\ Len(<<>>) = 0
      OBVIOUS
    <3> QED BY <2>1, <2>3, <3>1, <3>2, <3>3, SendKeeps
  <2>4. CASE SendBit \/ ReadBit \/ Decode
    BY <2>1, <2>4, SendBitKeeps, ReadBitKeeps, DecodeKeeps
  <2>5. CASE Other \/ Restart
    BY <2>1, <2>5, OtherKeeps, RestartKeeps
  <2>6. ASSUME NEW key \in Keys, PressKey(key)
        PROVE  IInv'
    BY <2>1, <2>6, PressKeyKeeps
  <2>7. CASE Expire
    <3>1. LinkInv'
      BY <2>7, LinkInductive DEF Expire, AnyNext, IInv
    <3> QED BY <2>1, <2>7, <3>1, RestKeeps DEF Expire, SoundRunsOut
  <2> QED BY <1>2, <2>2, <2>3, <2>4, <2>5, <2>6, <2>7 DEF DriverNext, Serve
<1> QED
  BY <1>1, <1>2

\* The two ends agree about every bit that has gone between them.
THEOREM InvariantHolds == DriverSpec => []IInv
BY Initially, Inductive, PTL DEF DriverSpec

\* The driver and the link agree on where a command begins, for all widths of the
\* fields and whatever is sent.
THEOREM AlignedCorrect == DriverSpec => []Aligned
<1>1. IInv => Aligned
  BY DEF IInv, Stream, Idle, Answered, AtRest, Aligned
<1> QED
  BY <1>1, InvariantHolds, PTL

\* The keys arrive as they were pressed, for any number of keys in the buffer, in one
\* answer and in the bits of each.
THEOREM KeysCorrect == DriverSpec => []KeysInOrder
<1>1. IInv => KeysInOrder
  BY DEF IInv
<1> QED
  BY <1>1, InvariantHolds, PTL

\* What the driver has read is what the link answers to its command, and a key that
\* a status announced is there.
THEOREM AnswerCorrect == DriverSpec => []AnswerIsForCommand
<1>1. IInv => AnswerIsForCommand
  <2> SUFFICES ASSUME IInv PROVE AnswerIsForCommand
    OBVIOUS
  <2>1. pc = "done" => IsAnswer(got)
    BY DEF IInv, Stream, Answered
  <2>2. keyWaiting => keyboardQueue # <<>>
    BY DEF IInv, WaitingIsTrue
  <2> QED BY <2>1, <2>2 DEF AnswerIsForCommand, IsAnswer
<1> QED
  BY <1>1, InvariantHolds, PTL
=============================================================================
