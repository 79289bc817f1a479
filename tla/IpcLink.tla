------------------------------ MODULE IpcLink ------------------------------
(***************************************************************************)
(* The serial link between the processor and the IPC, as the ZX8302        *)
(* answers it (devices/zx8302.js): four bits of command, then the command's *)
(* arguments or its response, one bit for every write of the register, with *)
(* the keyboard buffer and the sound the commands reach.                   *)
(*                                                                         *)
(* The widths of the fields are constants, so that a small instance has    *)
(* short transfers; the commands and what follows each are those of the    *)
(* code.  The processor may write any nibble at any time.                  *)
(***************************************************************************)
EXTENDS Integers, Sequences

CONSTANTS
    StatusWidth,      \* bits of the status response: 8
    SerialWidth,      \* of a serial read: 8
    CountWidth,       \* of the number of keys: 4
    KeyWidth,         \* of one key, modifiers and keyrow: 4 + 8
    ReadLimit,        \* keys one command delivers: 7
    ShortArguments,   \* argument bits of the keyrow, baud and sensitivity commands: 4
    TestWidth,        \* argument and response bits of the test command: 8
    SoundArguments,   \* argument bits of the sound command: 64
    DurationBits,     \* which of them are the duration: 33 .. 48
    RandomWidth,      \* bits of the random response: 16
    Nibbles,          \* low nibbles the processor writes to the register
    Keys,             \* keys of the keyboard, as the numbers transferred
    QueueBound        \* bound of the model on the keyboard buffer; the code has none

CommandWidth == 4
Commands == 0 .. 15
NoCommand == -1

Bit == {0, 1}

VARIABLES
    ipcCommandBits,             \* bits of the command under way
    ipcArgumentBits,            \* bits of its arguments
    ipcArgumentBitsRemaining,   \* bits still to come
    ipcCommand,                 \* the command they belong to
    ipcResponseBits,            \* bits the processor has not read yet
    ipcReturnBit,               \* bit 7 of the status register
    keyboardQueue,
    soundActive,
    soundCyclesRemaining,       \* "none", "some" or "forever"
    soundEvent                  \* the last event given to onSound

link  == <<ipcCommandBits, ipcArgumentBits, ipcArgumentBitsRemaining, ipcCommand,
           ipcResponseBits, ipcReturnBit>>
sound == <<soundActive, soundCyclesRemaining, soundEvent>>
vars  == <<link, keyboardQueue, sound>>

----------------------------------------------------------------------------
\* value >>> k, for k up to the width.
Shifted(value, width) ==
    LET shifted[k \in 0 .. width] == IF k = 0 THEN value ELSE shifted[k - 1] \div 2
    IN  shifted

\* Mutant: least significant bit first.
NumberToBits_Mut(value, width) == [i \in 1 .. width |-> Shifted(value, width)[i - 1] % 2]

\* numberToBits and bitsToNumber: most significant bit first.
NumberToBits(value, width) ==
    [i \in 1 .. width |-> IF Shifted(value, width)[width - i] % 2 = 1 THEN 1 ELSE 0]
BitsToNumber(bits) ==
    LET number[i \in 0 .. Len(bits)] == IF i = 0 THEN 0 ELSE 2 * number[i - 1] + bits[i]
    IN  number[Len(bits)]
Fits(value, width) == Shifted(value, width)[width] = 0

ASSUME WidthAssumption ==
    /\ {StatusWidth, SerialWidth, CountWidth, KeyWidth, ReadLimit, ShortArguments,
        TestWidth, SoundArguments, RandomWidth} \subseteq Nat \ {0}
    /\ StatusWidth >= 2
    /\ Fits(ReadLimit, CountWidth)
    /\ DurationBits \subseteq 1 .. SoundArguments
    /\ Nibbles \subseteq 0 .. 15
    /\ Keys \subseteq Nat /\ \A key \in Keys : Fits(key, KeyWidth)
    /\ QueueBound \in Nat

CommandNumber(bits) == 8 * bits[1] + 4 * bits[2] + 2 * bits[3] + bits[4]

Init ==
    /\ ipcCommandBits = <<>>
    /\ ipcArgumentBits = <<>>
    /\ ipcArgumentBitsRemaining = 0
    /\ ipcCommand = NoCommand
    /\ ipcResponseBits = <<>>
    /\ ipcReturnBit = 0
    /\ keyboardQueue = <<>>
    /\ soundActive = FALSE
    /\ soundCyclesRemaining = "none"
    /\ soundEvent = "none"

Reset ==
    /\ ipcCommandBits' = <<>>
    /\ ipcArgumentBits' = <<>>
    /\ ipcArgumentBitsRemaining' = 0
    /\ ipcCommand' = NoCommand
    /\ ipcResponseBits' = <<>>
    /\ ipcReturnBit' = 0
    /\ keyboardQueue' = <<>>
    /\ soundActive' = FALSE
    /\ soundCyclesRemaining' = "none"
    /\ soundEvent' = IF soundActive THEN "stop" ELSE soundEvent

----------------------------------------------------------------------------
(* What a complete command does.                                           *)

\* setIpcResponse()
Respond(bits) ==
    /\ ipcResponseBits' = bits
    /\ ipcCommand' = NoCommand
    /\ UNCHANGED <<ipcArgumentBits, ipcArgumentBitsRemaining>>

\* expectIpcArguments()
ExpectArguments(command, count) ==
    /\ ipcCommand' = command
    /\ ipcArgumentBits' = <<>>
    /\ ipcArgumentBitsRemaining' = count
    /\ UNCHANGED ipcResponseBits

\* Mutant: the baud rate is taken for a command without arguments.
ArgumentCount_Mut(command) ==
    CASE command \in {9, 12} -> ShortArguments
      [] command = 10        -> SoundArguments
      [] command = 15        -> TestWidth
      [] OTHER               -> 0

\* Arguments a command takes, or 0.
ArgumentCount(command) ==
    CASE command \in {9, 12, 13} -> ShortArguments
      [] command = 10            -> SoundArguments
      [] command = 15            -> TestWidth
      [] OTHER                   -> 0

\* Mutant: only the stop command is passed on.
StopSound_Mut(reason) ==
    /\ soundActive' = FALSE
    /\ soundCyclesRemaining' = "none"
    /\ soundEvent' = IF reason = "command" THEN "stop" ELSE soundEvent

\* stopSound(): the stop command is passed on even when nothing sounds.
StopSound(reason) ==
    /\ soundActive' = FALSE
    /\ soundCyclesRemaining' = "none"
    /\ soundEvent' = IF soundActive \/ reason = "command" THEN "stop" ELSE soundEvent

StatusBits ==
    NumberToBits((IF keyboardQueue # <<>> THEN 1 ELSE 0) + (IF soundActive THEN 2 ELSE 0),
                 StatusWidth)

\* Mutant: keys are delivered when there are enough of them.
KeysToRead_Mut == SubSeq(keyboardQueue, 1, IF Len(keyboardQueue) < ReadLimit THEN 0 ELSE ReadLimit)

\* The keys one read delivers, at most ReadLimit of them.
KeysToRead ==
    SubSeq(keyboardQueue, 1, IF Len(keyboardQueue) < ReadLimit THEN Len(keyboardQueue)
                                                               ELSE ReadLimit)

\* Mutant: the keys that are delivered stay in the buffer.
KeysLeft_Mut == keyboardQueue

KeysLeft == SubSeq(keyboardQueue, Len(KeysToRead) + 1, Len(keyboardQueue))

\* Their bits, key after key, and their number before them.
BitsOfKeys(keys) ==
    [i \in 1 .. Len(keys) * KeyWidth |->
        NumberToBits(keys[((i - 1) \div KeyWidth) + 1], KeyWidth)[((i - 1) % KeyWidth) + 1]]

KeyBits(keys) == NumberToBits(Len(keys), CountWidth) \o BitsOfKeys(keys)

ReadKeyboard(command) ==
    /\ command = 8
    /\ Respond(KeyBits(KeysToRead))
    /\ keyboardQueue' = KeysLeft
    /\ UNCHANGED sound

StopSoundCommand(command) ==
    /\ command = 11
    /\ StopSound("command")
    /\ Respond(<<>>)
    /\ UNCHANGED keyboardQueue

\* The commands that are answered at once, or not at all.
Answer(command) ==
    /\ ArgumentCount(command) = 0
    /\ command \notin {8, 11}
    /\ Respond(IF command = 1 THEN StatusBits
               ELSE IF command \in {6, 7} THEN NumberToBits(0, SerialWidth)
               ELSE IF command = 14 THEN NumberToBits(0, RandomWidth)
               ELSE <<>>)
    /\ UNCHANGED <<keyboardQueue, sound>>

TakeArguments(command) ==
    /\ ArgumentCount(command) > 0
    /\ ExpectArguments(command, ArgumentCount(command))
    /\ UNCHANGED <<keyboardQueue, sound>>

StartIpcCommand(command) ==
    \/ ReadKeyboard(command)
    \/ StopSoundCommand(command)
    \/ Answer(command)
    \/ TakeArguments(command)

----------------------------------------------------------------------------
(* What the last argument bit does.                                        *)

\* A duration of zero is endless.
StartSound(bits) ==
    /\ soundActive' = TRUE
    /\ soundCyclesRemaining' = IF \A i \in DurationBits : bits[i] = 0
                                 THEN "forever" ELSE "some"
    /\ soundEvent' = "start"

\* Mutant: the command is remembered after its last argument.
FinishIpcArguments_Mut(bits) ==
    /\ ipcArgumentBits' = <<>>
    /\ ipcArgumentBitsRemaining' = 0
    /\ IF ipcCommand = 10 THEN StartSound(bits) ELSE UNCHANGED sound
    /\ UNCHANGED <<ipcCommand, ipcResponseBits>>

FinishIpcArguments(bits) ==
    /\ ipcArgumentBits' = <<>>
    /\ ipcArgumentBitsRemaining' = 0
    /\ ipcCommand' = NoCommand
    /\ ipcResponseBits' = IF ipcCommand = 9 THEN NumberToBits(0, StatusWidth)
                          ELSE IF ipcCommand = 15 THEN NumberToBits(BitsToNumber(bits), TestWidth)
                          ELSE <<>>
    /\ IF ipcCommand = 10 THEN StartSound(bits) ELSE UNCHANGED sound

----------------------------------------------------------------------------
(* receiveIpcBit(): a write of %110x transfers one bit, any other is a     *)
(* pulse on the line.                                                      *)

TransfersBit(nibble) == nibble \in {12, 14}

BitOf(nibble) == (nibble \div 2) % 2

Pulse(nibble) == ~TransfersBit(nibble) /\ UNCHANGED vars

ReturnResponseBit ==
    /\ ipcResponseBits # <<>>
    /\ ipcReturnBit' = Head(ipcResponseBits)
    /\ ipcResponseBits' = Tail(ipcResponseBits)
    /\ UNCHANGED <<ipcCommandBits, ipcArgumentBits, ipcArgumentBitsRemaining, ipcCommand,
                   keyboardQueue, sound>>

ReceiveArgumentBit(bit) ==
    /\ ipcResponseBits = <<>>
    /\ ipcArgumentBitsRemaining > 0
    /\ IF ipcArgumentBitsRemaining = 1
         THEN FinishIpcArguments(Append(ipcArgumentBits, bit))
         ELSE /\ ipcArgumentBits' = Append(ipcArgumentBits, bit)
              /\ ipcArgumentBitsRemaining' = ipcArgumentBitsRemaining - 1
              /\ UNCHANGED <<ipcCommand, ipcResponseBits, sound>>
    /\ ipcReturnBit' = 0
    /\ UNCHANGED <<ipcCommandBits, keyboardQueue>>

ReceiveCommandBit(bit) ==
    /\ ipcResponseBits = <<>>
    /\ ipcArgumentBitsRemaining = 0
    /\ LET bits == Append(ipcCommandBits, bit) IN
       IF Len(bits) < CommandWidth
         THEN /\ ipcCommandBits' = bits
              /\ UNCHANGED <<ipcArgumentBits, ipcArgumentBitsRemaining, ipcCommand,
                             ipcResponseBits, keyboardQueue, sound>>
         ELSE /\ ipcCommandBits' = <<>>
              /\ StartIpcCommand(CommandNumber(bits))
    /\ ipcReturnBit' = 0

ReceiveIpcBit(bit) ==
    \/ ReturnResponseBit
    \/ ReceiveArgumentBit(bit)
    \/ ReceiveCommandBit(bit)

WriteIpc(nibble) ==
    \/ Pulse(nibble)
    \/ TransfersBit(nibble) /\ ReceiveIpcBit(BitOf(nibble))

----------------------------------------------------------------------------
EnqueueKey(key) ==
    /\ Len(keyboardQueue) < QueueBound
    /\ keyboardQueue' = Append(keyboardQueue, key)
    /\ UNCHANGED <<link, sound>>

\* The cycles of a sound run out in some tick.
SoundRunsOut ==
    /\ soundActive
    /\ soundCyclesRemaining = "some"
    /\ StopSound("duration")
    /\ UNCHANGED <<link, keyboardQueue>>

Next ==
    \/ \E nibble \in Nibbles : WriteIpc(nibble)
    \/ \E key \in Keys : EnqueueKey(key)
    \/ SoundRunsOut
    \/ Reset

Spec == Init /\ [][Next]_vars
----------------------------------------------------------------------------
BitSeq == Seq(Bit)

LinkTypes ==
    /\ ipcCommandBits \in BitSeq
    /\ ipcArgumentBits \in BitSeq
    /\ ipcArgumentBitsRemaining \in Nat
    /\ ipcCommand \in Commands \cup {NoCommand}
    /\ ipcResponseBits \in BitSeq
    /\ ipcReturnBit \in Bit
    /\ keyboardQueue \in Seq(Keys)

SoundTypes ==
    /\ soundActive \in BOOLEAN
    /\ soundCyclesRemaining \in {"none", "some", "forever"}
    /\ soundEvent \in {"none", "start", "stop"}

TypeOK == LinkTypes /\ SoundTypes

\* One transfer at a time: a bit is always of the response, of the arguments or
\* of the command, never of two of them, and the bits that have come and those
\* still to come add up to what the command asks for.  A command that forgot
\* its argument count, or answered before its last argument, would shift every
\* transfer that follows.
OneTransfer ==
    /\ Len(ipcCommandBits) < CommandWidth
    /\ ipcResponseBits # <<>> =>
          ipcCommandBits = <<>> /\ ipcArgumentBitsRemaining = 0 /\ ipcCommand = NoCommand
    /\ IF ipcCommand = NoCommand
         THEN ipcArgumentBitsRemaining = 0 /\ ipcArgumentBits = <<>>
         ELSE /\ ipcArgumentBitsRemaining > 0
              /\ ipcCommandBits = <<>>
              /\ Len(ipcArgumentBits) + ipcArgumentBitsRemaining = ArgumentCount(ipcCommand)

\* The host hears what the status bit says: the last event given to onSound is
\* a start exactly while the sound is active, whether it ended by a command, by
\* its duration or by a reset, and a sound that is active can still end.
HostHearsSound ==
    /\ soundActive <=> soundEvent = "start"
    /\ soundActive <=> soundCyclesRemaining # "none"
=============================================================================
