------------------------------ MODULE IpcDriver ------------------------------
(***************************************************************************)
(* The link and the driver in the ROM that uses it, which is not part of   *)
(* this repository: it is modelled from the transfers of                   *)
(* tests/zx8302.test.js (transferValue, readValue, command).  It sends a   *)
(* command with its arguments, reads the bits of the answer, and decodes   *)
(* the keys.  The user presses keys and resets the machine meanwhile.      *)
(* The machine may also run the keyboard server alone, or another program, *)
(* which writes any nibble at any time.                                    *)
(***************************************************************************)
EXTENDS IpcLink

CONSTANT PressBound     \* bound of the model on the keys pressed

VARIABLES
    software,       \* what the processor runs: "driver", "server" or "other"
    pc,             \* "idle", "send", "reply" or "done"
    command, arguments,
    out,            \* bits still to send
    got,            \* bits of the answer
    keyWaiting,     \* the last status said so, and no key was read since
    pressed,        \* the keys pressed, in order (history)
    delivered       \* the keys decoded, in order (history)

driver == <<pc, command, arguments, out, got, keyWaiting, pressed, delivered>>
all    == <<vars, driver, software>>

DriverIdle ==
    /\ pc = "idle"
    /\ command = 0
    /\ arguments = <<>>
    /\ out = <<>>
    /\ got = <<>>
    /\ keyWaiting = FALSE
    /\ pressed = <<>>
    /\ delivered = <<>>

DriverInit == Init /\ DriverIdle /\ software \in {"driver", "server", "other"}

\* Argument bits the driver sends with command c.
SentArguments(c) ==
    CASE c \in {9, 12, 13} -> ShortArguments
      [] c = 10            -> SoundArguments
      [] c = 15            -> TestWidth
      [] OTHER             -> 0

\* Bits the driver reads after command c, of which it has read the bits b.
ReplyLength(c, b) ==
    CASE c \in {1, 9}  -> StatusWidth
      [] c \in {6, 7}  -> SerialWidth
      [] c = 8         -> IF Len(b) < CountWidth THEN CountWidth
                          ELSE CountWidth + KeyWidth * BitsToNumber(SubSeq(b, 1, CountWidth))
      [] c = 14        -> RandomWidth
      [] c = 15        -> TestWidth
      [] OTHER         -> 0

\* The keys in the bits of an answer to the keyboard command.
DecodeKeys(b) ==
    [k \in 1 .. (Len(b) - CountWidth) \div KeyWidth |->
        BitsToNumber(SubSeq(b, CountWidth + (k - 1) * KeyWidth + 1, CountWidth + k * KeyWidth))]

Send(c, a) ==
    /\ pc = "idle"
    /\ pc' = "send"
    /\ command' = c
    /\ arguments' = a
    /\ out' = NumberToBits(c, CommandWidth) \o a
    /\ got' = <<>>
    /\ keyWaiting' = (keyWaiting /\ c # 8)
    /\ UNCHANGED <<vars, pressed, delivered>>

SendBit ==
    /\ pc = "send"
    /\ WriteIpc(12 + 2 * Head(out))
    /\ out' = Tail(out)
    /\ pc' = IF out' # <<>> THEN "send"
             ELSE IF ReplyLength(command, <<>>) > 0 THEN "reply" ELSE "done"
    /\ UNCHANGED <<command, arguments, got, keyWaiting, pressed, delivered>>

ReadBit ==
    /\ pc = "reply"
    /\ WriteIpc(14)
    /\ got' = Append(got, ipcReturnBit')
    /\ pc' = IF Len(got') = ReplyLength(command, got') THEN "done" ELSE "reply"
    /\ UNCHANGED <<command, arguments, out, keyWaiting, pressed, delivered>>

Decode ==
    /\ pc = "done"
    /\ pc' = "idle"
    /\ keyWaiting' = IF command = 1 THEN got[StatusWidth] = 1 ELSE keyWaiting
    /\ delivered' = IF command = 8 THEN delivered \o DecodeKeys(got) ELSE delivered
    /\ got' = <<>>
    /\ arguments' = <<>>
    /\ UNCHANGED <<vars, command, out, pressed>>

PressKey(key) ==
    /\ software # "other"
    /\ Len(pressed) < PressBound
    /\ EnqueueKey(key)
    /\ pressed' = Append(pressed, key)
    /\ UNCHANGED <<pc, command, arguments, out, got, keyWaiting, delivered>>

Expire == SoundRunsOut /\ UNCHANGED driver

Restart ==
    /\ Reset
    /\ pc' = "idle"
    /\ command' = 0
    /\ arguments' = <<>>
    /\ out' = <<>>
    /\ got' = <<>>
    /\ keyWaiting' = FALSE
    /\ pressed' = <<>>
    /\ delivered' = <<>>

SendAny == \E c \in Commands : \E a \in [1 .. SentArguments(c) -> Bit] : Send(c, a)

\* The keyboard server: it asks for the status and, when a key waits, for the
\* keys.
Poll == IF keyWaiting THEN Send(8, <<>>) ELSE Send(1, <<>>)

Serve ==
    \/ software = "driver" /\ SendAny
    \/ software = "server" /\ Poll
    \/ SendBit
    \/ ReadBit
    \/ Decode

\* Another program sends commands without their arguments and leaves answers half
\* read; the keys it gets are not counted.
Other ==
    /\ software = "other"
    /\ \/ \E nibble \in Nibbles : WriteIpc(nibble)
       \/ \E key \in Keys : EnqueueKey(key)
    /\ UNCHANGED driver

DriverNext ==
    /\ \/ Serve
       \/ Other
       \/ \E key \in Keys : PressKey(key)
       \/ Expire
       \/ Restart
    /\ UNCHANGED software

\* The server polls at every frame interrupt, for as long as the emulator runs.
DriverSpec == DriverInit /\ [][DriverNext]_all
                         /\ WF_all(software = "server" /\ Serve /\ UNCHANGED software)
----------------------------------------------------------------------------
\* The stream stays aligned: whatever was sent, with whatever arguments, the
\* link is at rest when the driver has read the answer, so that the next
\* command is taken for a command.
Aligned ==
    software # "other" /\ pc \in {"idle", "done"} =>
        /\ ipcCommandBits = <<>>
        /\ ipcArgumentBitsRemaining = 0
        /\ ipcResponseBits = <<>>

\* The keys on their way, in the answer that is being read.
InFlight ==
    IF command = 8 /\ pc \in {"reply", "done"} THEN DecodeKeys(got \o ipcResponseBits)
                                               ELSE <<>>

\* No key is lost, duplicated or overtaken, also when more are waiting than one
\* answer carries and when keys are pressed while an answer is read.
KeysInOrder == software # "other" => pressed = delivered \o InFlight \o keyboardQueue

\* The answer is the answer to the command: the test command returns the byte
\* it was given, the unimplemented ones return zeros, and a status that said a key
\* waits still holds when the driver acts on it, eight bits and a turn later.
AnswerIsForCommand ==
    /\ pc = "done" =>
          /\ command = 15 => got = arguments
          /\ command \in {6, 7, 9, 14} => \A i \in 1 .. Len(got) : got[i] = 0
    /\ keyWaiting /\ pc \in {"idle", "send"} /\ command # 8 => keyboardQueue # <<>>

\* Every key that is pressed reaches the server, unless the machine is reset.
EveryKeyArrives ==
    \A n \in 1 .. PressBound :
        (software = "server" /\ Len(pressed) >= n) ~> (Len(delivered) >= n \/ Len(pressed) < n)
=============================================================================
