------------------------- MODULE SoundOutput_proofs -------------------------
(***************************************************************************)
(* Proofs about the sound of the QL: of the way to the loudspeaker, for    *)
(* every set of sounds and every length of the port, and of what the       *)
(* synthesizer makes of a sound, for every set of sounds, number of        *)
(* pitches, rate of samples and length of a sound.                         *)
(***************************************************************************)
EXTENDS SoundOutput, SequenceTheorems, TLAPS

USE SoundAssumption

----------------------------------------------------------------------------
(* What the messages that are on their way will make of the synthesizer.   *)

\* A start and a stop decide what sounds, whatever came before them.
IsCommand(message) == message.type # "pause"

Sounding(message) == IF message.type = "start" THEN message.sound ELSE None

\* heard is what a synthesizer that sounds now will sound when messages have
\* arrived, if no sound comes to its end meanwhile: what the last command says.
Reaches(messages, now, heard) ==
    \/ /\ \A i \in 1 .. Len(messages) : ~IsCommand(messages[i])
       /\ heard = now
    \/ \E i \in 1 .. Len(messages) :
         /\ IsCommand(messages[i])
         /\ heard = Sounding(messages[i])
         /\ \A j \in i + 1 .. Len(messages) : ~IsCommand(messages[j])

\* heard may be what the synthesizer comes to: it is the sound of the IPC or
\* none, and not none when that is endless and the way is open.
Agreed(heard) ==
    /\ heard # None => enabled /\ heard = ipcSound
    /\ nodes > 0 /\ enabled /\ ipcSound \in Endless => heard = ipcSound

----------------------------------------------------------------------------
(* The inductive invariant.                                                *)

\* The bridge remembers the sound of the IPC, and does so while it is enabled.
PendingIsActive ==
    /\ pendingSound \in {None, ipcSound}
    /\ enabled => pendingSound = ipcSound

\* Without a node there is no port and no synthesizer.
SilentUntilReady == nodes = 0 => port = <<>> /\ synthSound = None

\* A context that is awaited belongs to a node.
ResumesNode == resuming => nodes > 0

PortAgrees == \A heard \in Sounds \cup {None} : Reaches(port, synthSound, heard) => Agreed(heard)

IInv == OneNode /\ PendingIsActive /\ SilentUntilReady /\ ResumesNode /\ PortAgrees

----------------------------------------------------------------------------
(* Lemmas about messages on their way.                                     *)

\* When nothing is on its way, what sounds stays.
LEMMA NothingReaches ==
    ASSUME NEW now, NEW heard, Reaches(<<>>, now, heard)
    PROVE  heard = now
BY DEF Reaches

\* One more message: a command decides, a pause changes nothing.
LEMMA OneMoreReaches ==
    ASSUME NEW messages \in Seq(Messages), NEW message \in Messages, NEW now, NEW heard,
           Reaches(Append(messages, message), now, heard)
    PROVE  IF IsCommand(message) THEN heard = Sounding(message)
                                 ELSE Reaches(messages, now, heard)
<1> DEFINE longer == Append(messages, message)
           n      == Len(messages)
<1>1. /\ n \in Nat
      /\ Len(longer) = n + 1
      /\ longer[n + 1] = message
      /\ \A i \in 1 .. n : longer[i] = messages[i]
  OBVIOUS
<1>2. Reaches(longer, now, heard)
  OBVIOUS
<1> HIDE DEF longer, n
<1>3. CASE IsCommand(message)
  <2>1. PICK i \in 1 .. n + 1 :
          /\ IsCommand(longer[i])
          /\ heard = Sounding(longer[i])
          /\ \A j \in i + 1 .. n + 1 : ~IsCommand(longer[j])
    BY <1>1, <1>2, <1>3 DEF Reaches
  <2>2. i = n + 1
    BY <1>1, <1>3, <2>1
  <2> QED BY <1>1, <1>3, <2>1, <2>2
<1>4. CASE ~IsCommand(message)
  <2>1. CASE \A i \in 1 .. n + 1 : ~IsCommand(longer[i])
    <3>1. heard = now
      BY <1>1, <1>2, <2>1 DEF Reaches
    <3>2. \A i \in 1 .. n : ~IsCommand(messages[i])
      BY <1>1, <2>1
    <3> QED BY <1>4, <3>1, <3>2 DEF Reaches, n
  <2>2. CASE ~ \A i \in 1 .. n + 1 : ~IsCommand(longer[i])
    <3>1. PICK i \in 1 .. n + 1 :
            /\ IsCommand(longer[i])
            /\ heard = Sounding(longer[i])
            /\ \A j \in i + 1 .. n + 1 : ~IsCommand(longer[j])
      BY <1>1, <1>2, <2>2 DEF Reaches
    <3>2. i \in 1 .. n
      BY <1>1, <1>4, <3>1
    <3>3. \A j \in i + 1 .. n : ~IsCommand(messages[j])
      BY <1>1, <3>1, <3>2
    <3> QED BY <1>1, <1>4, <3>1, <3>2, <3>3 DEF Reaches, n
  <2> QED BY <2>1, <2>2
<1> QED BY <1>3, <1>4

\* A message arrives: what the synthesizer comes to is what it came to before.
LEMMA ArrivalReaches ==
    ASSUME NEW messages \in Seq(Messages), messages # <<>>, NEW now, NEW next, NEW heard,
           next = IF IsCommand(Head(messages)) THEN Sounding(Head(messages)) ELSE now,
           Reaches(Tail(messages), next, heard)
    PROVE  Reaches(messages, now, heard)
<1> DEFINE rest == Tail(messages)
           n    == Len(messages)
<1>1. /\ n \in Nat \ {0}
      /\ Len(rest) = n - 1
      /\ Head(messages) = messages[1]
      /\ \A i \in 1 .. n - 1 : rest[i] = messages[i + 1]
  OBVIOUS
<1>2. Reaches(rest, next, heard)
  OBVIOUS
<1> HIDE DEF rest, n
<1>3. CASE \A i \in 1 .. n - 1 : ~IsCommand(rest[i])
  <2>1. heard = next
    BY <1>1, <1>2, <1>3 DEF Reaches
  <2>2. \A j \in 2 .. n : ~IsCommand(messages[j])
    <3> SUFFICES ASSUME NEW j \in 2 .. n PROVE ~IsCommand(messages[j])
      OBVIOUS
    <3>1. j - 1 \in 1 .. n - 1 /\ (j - 1) + 1 = j
      BY <1>1
    <3> QED BY <1>1, <1>3, <3>1
  <2>3. CASE IsCommand(messages[1])
    <3>1. heard = Sounding(messages[1])
      BY <1>1, <2>1, <2>3
    <3>2. 1 \in 1 .. n /\ 1 + 1 = 2
      BY <1>1
    <3> QED BY <2>2, <2>3, <3>1, <3>2 DEF Reaches, n
  <2>4. CASE ~IsCommand(messages[1])
    <3>1. \A j \in 1 .. n : ~IsCommand(messages[j])
      BY <1>1, <2>2, <2>4
    <3>2. heard = now
      BY <1>1, <2>1, <2>4
    <3> QED BY <3>1, <3>2 DEF Reaches, n
  <2> QED BY <2>3, <2>4
<1>4. CASE ~ \A i \in 1 .. n - 1 : ~IsCommand(rest[i])
  <2>1. PICK i \in 1 .. n - 1 :
          /\ IsCommand(rest[i])
          /\ heard = Sounding(rest[i])
          /\ \A j \in i + 1 .. n - 1 : ~IsCommand(rest[j])
    BY <1>1, <1>2, <1>4 DEF Reaches
  <2>2. i + 1 \in 1 .. n /\ rest[i] = messages[i + 1]
    BY <1>1, <2>1
  <2>3. \A j \in (i + 1) + 1 .. n : ~IsCommand(messages[j])
    <3> SUFFICES ASSUME NEW j \in (i + 1) + 1 .. n PROVE ~IsCommand(messages[j])
      OBVIOUS
    <3>1. j - 1 \in i + 1 .. n - 1 /\ (j - 1) + 1 = j /\ j - 1 \in 1 .. n - 1
      BY <1>1, <2>1
    <3> QED BY <1>1, <2>1, <3>1
  <2> QED BY <2>1, <2>2, <2>3 DEF Reaches, n
<1> QED BY <1>3, <1>4

----------------------------------------------------------------------------
(* Lemmas about the methods of the bridge.                                 *)

LEMMA MessageTypes ==
    /\ \A heard \in Sounds : StartMessage(heard) \in Messages
    /\ StopMessage \in Messages
    /\ \A value \in BOOLEAN : PauseMessage(value) \in Messages
BY DEF Messages, StartMessage, StopMessage, PauseMessage

LEMMA MessageCommands ==
    /\ \A heard \in Sounds : /\ IsCommand(StartMessage(heard))
                             /\ Sounding(StartMessage(heard)) = heard
    /\ IsCommand(StopMessage) /\ Sounding(StopMessage) = None
    /\ \A value \in BOOLEAN : ~IsCommand(PauseMessage(value))
BY DEF IsCommand, Sounding, StartMessage, StopMessage, PauseMessage

LEMMA MessageType ==
    ASSUME NEW message \in Messages
    PROVE  /\ message.type \in {"start", "stop", "pause"}
           /\ message.type = "start" => message.sound \in Sounds
           /\ message.type = "pause" => message.paused \in BOOLEAN
           /\ Sounding(message) \in Sounds \cup {None}
BY DEF Messages, StopMessage, Sounding

LEMMA AppendMessage ==
    ASSUME NEW messages \in Seq(Messages), NEW message \in Messages
    PROVE  /\ messages \o <<message>> = Append(messages, message)
           /\ Append(messages, message) \in Seq(Messages)
OBVIOUS

\* resume() asks for one initialisation at most, and posts one pause at most.
LEMMA ResumeStep ==
    ASSUME OneNode, NEW on \in BOOLEAN, Resume(on)
    PROVE  /\ paused' \in BOOLEAN
           /\ initializing' \in Nat
           /\ initializing' + nodes <= 1
           /\ resuming' \in BOOLEAN /\ silenced' \in BOOLEAN
           /\ resuming' => resuming \/ nodes > 0
           /\ port' = port \/ (nodes # 0 /\ port' = Append(port, PauseMessage(FALSE)))
<1>1. /\ {paused, resuming, silenced, contextRunning, failed} \subseteq BOOLEAN
      /\ initializing \in Nat /\ nodes \in Nat /\ initializing + nodes <= 1
      /\ port \in Seq(Messages)
  BY DEF OneNode, TypeOK
<1>2. CASE ~on \/ failed
  BY <1>1, <1>2 DEF Resume
<1>3. CASE ~(~on \/ failed) /\ nodes = 0
  <2>1. paused' = FALSE /\ silenced' = FALSE /\ Initialize /\ UNCHANGED <<resuming, port>>
    BY <1>3 DEF Resume
  <2>2. initializing' \in Nat /\ initializing' + nodes <= 1
    BY <1>1, <1>3, <2>1 DEF Initialize
  <2> QED BY <1>1, <2>1, <2>2
<1>4. CASE ~(~on \/ failed) /\ nodes # 0
  <2>1. /\ paused' = FALSE /\ silenced' = FALSE
        /\ resuming' = (resuming \/ ~contextRunning)
        /\ port' = port \o IF contextRunning THEN ResumeMessages ELSE <<>>
        /\ UNCHANGED initializing
    BY <1>4 DEF Resume
  <2>2. nodes > 0 /\ paused' \in BOOLEAN /\ resuming' \in BOOLEAN
    <3>1. nodes > 0
      BY <1>1, <1>4
    <3>2. (resuming \/ ~contextRunning) \in BOOLEAN
      OBVIOUS
    <3> QED BY <2>1, <3>1, <3>2
  <2>3. CASE contextRunning
    <3>1. port' = port \o <<PauseMessage(FALSE)>>
      BY <2>1, <2>3 DEF ResumeMessages
    <3>2. port' = Append(port, PauseMessage(FALSE))
      BY <1>1, <3>1, AppendMessage, MessageTypes
    <3> QED BY <1>1, <1>4, <2>1, <3>2, <2>2
  <2>4. CASE ~contextRunning
    <3>1. port' = port \o <<>>
      BY <2>1, <2>4
    <3>2. port' = port
      BY <1>1, <3>1
    <3> QED BY <1>1, <2>1, <3>2, <2>2
  <2> QED BY <2>3, <2>4
<1> QED BY <1>2, <1>3, <1>4

\* What an action knows of the state before it.
LEMMA TypeFacts ==
    ASSUME OneNode
    PROVE  /\ running \in BOOLEAN /\ enabled \in BOOLEAN /\ failed \in BOOLEAN
           /\ paused \in BOOLEAN /\ contextRunning \in BOOLEAN /\ resuming \in BOOLEAN
           /\ synthPaused \in BOOLEAN /\ silenced \in BOOLEAN
           /\ ipcSound \in Sounds \cup {None} /\ pendingSound \in Sounds \cup {None}
           /\ synthSound \in Sounds \cup {None}
           /\ initializing \in Nat /\ nodes \in Nat /\ initializing + nodes <= 1
           /\ port \in Seq(Messages)
BY DEF OneNode, TypeOK

\* Messages posted by a handler: none without a node.
LEMMA PostOne ==
    ASSUME OneNode, NEW message \in Messages, Post(<<message>>)
    PROVE  IF nodes = 0 THEN port' = port ELSE port' = Append(port, message)
BY TypeFacts, AppendMessage DEF Post

LEMMA PostNone ==
    ASSUME OneNode, Post(<<>>)
    PROVE  port' = port
BY TypeFacts DEF Post

LEMMA PostTwo ==
    ASSUME OneNode, NEW first \in Messages, NEW second \in Messages, Post(<<first>> \o <<second>>)
    PROVE  IF nodes = 0 THEN port' = port ELSE port' = Append(Append(port, first), second)
<1>1. port \o (<<first>> \o <<second>>) = Append(Append(port, first), second)
  BY TypeFacts
<1>2. port' = IF nodes > 0 THEN port \o (<<first>> \o <<second>>) ELSE port
  BY DEF Post
<1>3. port' = IF nodes > 0 THEN Append(Append(port, first), second) ELSE port
  BY <1>1, <1>2
<1> QED BY <1>3, TypeFacts

----------------------------------------------------------------------------
(* Lemmas about what the synthesizer comes to.                             *)

\* Pauses change nothing.
LEMMA PausesKeepAgreement ==
    ASSUME OneNode, SilentUntilReady, PortAgrees,
           UNCHANGED <<enabled, ipcSound, nodes, synthSound>>,
           \/ port' = port
           \/ nodes # 0 /\ \E value \in BOOLEAN : port' = Append(port, PauseMessage(value))
    PROVE  SilentUntilReady' /\ PortAgrees'
<1>1. SilentUntilReady'
  BY DEF SilentUntilReady
<1>2. ASSUME NEW heard \in Sounds \cup {None}, Reaches(port, synthSound, heard)'
      PROVE  Agreed(heard)'
  <2>1. Reaches(port', synthSound, heard)
    BY <1>2
  <2>2. Reaches(port, synthSound, heard)
    <3>1. CASE port' = port
      BY <2>1, <3>1
    <3>2. CASE \E value \in BOOLEAN : port' = Append(port, PauseMessage(value))
      <4>1. PICK value \in BOOLEAN : port' = Append(port, PauseMessage(value))
        BY <3>2
      <4>2. Reaches(Append(port, PauseMessage(value)), synthSound, heard)
        BY <2>1, <4>1
      <4>3. PauseMessage(value) \in Messages /\ ~IsCommand(PauseMessage(value))
        BY MessageTypes, MessageCommands
      <4> QED BY <4>2, <4>3, OneMoreReaches, TypeFacts
    <3> QED BY <3>1, <3>2
  <2>3. Agreed(heard)
    BY <2>2 DEF PortAgrees
  <2> QED BY <2>3 DEF Agreed
<1>3. PortAgrees'
  BY <1>2 DEF PortAgrees
<1> QED BY <1>1, <1>3

\* A command that says what may sound settles it, with a pause after it or not.
LEMMA CommandDecides ==
    ASSUME NEW messages \in Seq(Messages), NEW command \in Messages, IsCommand(command),
           Agreed(Sounding(command))',
           port' = Append(messages, command)
    PROVE  PortAgrees'
<1>1. ASSUME NEW heard \in Sounds \cup {None}, Reaches(port', synthSound', heard)
      PROVE  heard = Sounding(command)
  <2>1. Reaches(Append(messages, command), synthSound', heard)
    BY <1>1
  <2> QED BY <2>1, OneMoreReaches
<1> QED BY <1>1 DEF PortAgrees

LEMMA CommandAndPauseDecide ==
    ASSUME NEW messages \in Seq(Messages), NEW command \in Messages, IsCommand(command),
           Agreed(Sounding(command))',
           NEW value \in BOOLEAN,
           port' = Append(Append(messages, command), PauseMessage(value))
    PROVE  PortAgrees'
<1> DEFINE longer == Append(messages, command)
<1>1. longer \in Seq(Messages)
  BY AppendMessage
<1>2. ASSUME NEW heard \in Sounds \cup {None}, Reaches(port', synthSound', heard)
      PROVE  heard = Sounding(command)
  <2>1. Reaches(Append(longer, PauseMessage(value)), synthSound', heard)
    BY <1>2
  <2>2. Reaches(longer, synthSound', heard)
    <3> HIDE DEF longer
    <3> QED BY <1>1, <2>1, OneMoreReaches, MessageTypes, MessageCommands
  <2> QED BY <2>2, OneMoreReaches
<1> QED BY <1>2 DEF PortAgrees

\* Nothing on its way and nothing sounding: there is nothing to disagree with when
\* no endless sound is asked for, or nobody can play it.
LEMMA SilenceAgrees ==
    ASSUME port' = <<>>, synthSound' = None,
           nodes' > 0 /\ enabled' => ipcSound' \notin Endless
    PROVE  PortAgrees'
<1>1. ASSUME NEW heard \in Sounds \cup {None}, Reaches(port', synthSound', heard)
      PROVE  heard = None
  BY <1>1, NothingReaches
<1>2. Agreed(None)'
  BY DEF Agreed
<1> QED BY <1>1, <1>2 DEF PortAgrees

----------------------------------------------------------------------------
(* Each task keeps the invariant.                                          *)

LEMMA Initially == Init => IInv
<1> SUFFICES ASSUME Init PROVE IInv
  OBVIOUS
<1>1. OneNode
  <2>1. port \in Seq(Messages)
    BY DEF Init
  <2>2. /\ {running, enabled, failed, paused, contextRunning, resuming, silenced, synthPaused}
              \subseteq BOOLEAN
        /\ {ipcSound, pendingSound, synthSound} \subseteq Sounds \cup {None}
    BY DEF Init
  <2>3. initializing = 0 /\ nodes = 0
    BY DEF Init
  <2> QED BY <2>1, <2>2, <2>3 DEF OneNode, TypeOK
<1>2. PendingIsActive
  BY DEF Init, PendingIsActive
<1>3. SilentUntilReady
  BY DEF Init, SilentUntilReady
<1>4. ResumesNode
  BY DEF Init, ResumesNode
<1>5. PortAgrees
  BY NothingReaches DEF Init, PortAgrees, Agreed
<1> QED BY <1>1, <1>2, <1>3, <1>4, <1>5 DEF IInv

\* Tasks that end in resume(), or only pause, leave what sounds to others.
LEMMA RunControlKeeps ==
    ASSUME IInv, StartExecution \/ StopExecution \/ Gesture
    PROVE  IInv'
<1> USE DEF IInv
<1>1. /\ UNCHANGED <<ipcSound, enabled, failed, pendingSound, nodes, contextRunning, synth>>
      /\ running' \in BOOLEAN /\ paused' \in BOOLEAN /\ resuming' \in BOOLEAN
      /\ silenced' \in BOOLEAN
      /\ initializing' \in Nat /\ initializing' + nodes <= 1
      /\ resuming' => resuming \/ nodes > 0
      /\ \/ port' = port
         \/ nodes # 0 /\ \E value \in BOOLEAN : port' = Append(port, PauseMessage(value))
  <2>1. CASE StartExecution
    BY <2>1, ResumeStep, TypeFacts DEF StartExecution
  <2>2. CASE StopExecution
    <3>1. /\ running' = FALSE /\ paused' = TRUE
          /\ Post(<<PauseMessage(TRUE)>>)
          /\ UNCHANGED <<ipcSound, enabled, failed, pendingSound, initializing, nodes,
                         contextRunning, resuming, silenced, synth>>
      BY <2>2 DEF StopExecution
    <3>2. IF nodes = 0 THEN port' = port ELSE port' = Append(port, PauseMessage(TRUE))
      BY <3>1, PostOne, MessageTypes
    <3> QED BY <3>1, <3>2, TypeFacts
  <2>3. CASE Gesture
    BY <2>3, ResumeStep, TypeFacts DEF Gesture, machine
  <2> QED BY <2>1, <2>2, <2>3
<1>2. UNCHANGED <<synthSound, synthPaused>>
  BY <1>1 DEF synth
<1>3. port' \in Seq(Messages)
  BY <1>1, TypeFacts, AppendMessage, MessageTypes
<1>4. OneNode'
  BY <1>1, <1>2, <1>3, TypeFacts DEF OneNode, TypeOK
<1>5. PendingIsActive'
  BY <1>1 DEF PendingIsActive
<1>6. ResumesNode'
  BY <1>1 DEF ResumesNode
<1>7. SilentUntilReady' /\ PortAgrees'
  BY <1>1, <1>2, PausesKeepAgreement
<1> QED BY <1>4, <1>5, <1>6, <1>7

LEMMA ResetMachineKeeps ==
    ASSUME IInv, ResetMachine
    PROVE  IInv'
<1> USE DEF IInv
<1>1. /\ running' = FALSE /\ ipcSound' = None /\ paused' = TRUE
      /\ pendingSound' = IF ipcSound # None THEN None ELSE pendingSound
      /\ Post(<<PauseMessage(TRUE)>> \o IF ipcSound # None THEN <<StopMessage>> ELSE <<>>)
      /\ UNCHANGED <<enabled, failed, initializing, nodes, contextRunning, resuming, silenced>>
      /\ UNCHANGED <<synthSound, synthPaused>>
  BY DEF ResetMachine, synth
<1>2. pendingSound' = None
  BY <1>1 DEF PendingIsActive
<1>3. PendingIsActive' /\ ResumesNode'
  BY <1>1, <1>2 DEF PendingIsActive, ResumesNode
<1>4. CASE ipcSound # None
  <2>1. IF nodes = 0 THEN port' = port
                     ELSE port' = Append(Append(port, PauseMessage(TRUE)), StopMessage)
    <3>1. Post(<<PauseMessage(TRUE)>> \o <<StopMessage>>)
      BY <1>1, <1>4
    <3> QED BY <3>1, PostTwo, MessageTypes
  <2>2. Append(port, PauseMessage(TRUE)) \in Seq(Messages)
    BY TypeFacts, AppendMessage, MessageTypes
  <2>3. port' \in Seq(Messages)
    BY <2>1, <2>2, TypeFacts, AppendMessage, MessageTypes
  <2>4. OneNode'
    BY <1>1, <1>2, <2>3, TypeFacts DEF OneNode, TypeOK
  <2>5. SilentUntilReady'
    BY <1>1, <2>1 DEF SilentUntilReady
  <2>6. PortAgrees'
    <3>1. CASE nodes = 0
      <4>1. port' = <<>> /\ synthSound' = None /\ nodes' = 0
        BY <1>1, <2>1, <3>1 DEF SilentUntilReady
      <4> QED BY <4>1, SilenceAgrees
    <3>2. CASE nodes # 0
      <4>1. Agreed(Sounding(StopMessage))'
        BY <1>1, MessageCommands DEF Agreed
      <4> QED BY <2>1, <2>2, <3>2, <4>1, CommandDecides, MessageTypes, MessageCommands
    <3> QED BY <3>1, <3>2
  <2> QED BY <1>3, <2>4, <2>5, <2>6
<1>5. CASE ipcSound = None
  <2>1. IF nodes = 0 THEN port' = port ELSE port' = Append(port, PauseMessage(TRUE))
    <3>1. Post(<<PauseMessage(TRUE)>> \o <<>>)
      BY <1>1, <1>5
    <3>2. Post(<<PauseMessage(TRUE)>>)
      BY <3>1
    <3> QED BY <3>2, PostOne, MessageTypes
  <2>2. port' \in Seq(Messages)
    BY <2>1, TypeFacts, AppendMessage, MessageTypes
  <2>3. OneNode'
    BY <1>1, <1>2, <2>2, TypeFacts DEF OneNode, TypeOK
  <2>4. SilentUntilReady' /\ PortAgrees'
    BY <1>1, <1>5, <2>1, PausesKeepAgreement
  <2> QED BY <1>3, <2>3, <2>4
<1> QED BY <1>4, <1>5

LEMMA SoundStartsKeeps ==
    ASSUME IInv, NEW heard \in Sounds, SoundStarts(heard)
    PROVE  IInv'
<1> USE DEF IInv
<1>1. /\ ipcSound' = heard /\ pendingSound' = heard
      /\ Post(StartMessages(heard))
      /\ UNCHANGED <<running, enabled, failed, paused, initializing, nodes, contextRunning,
                     resuming, silenced>>
      /\ UNCHANGED <<synthSound, synthPaused>>
  BY DEF SoundStarts, HandleStart, synth
<1>2. PendingIsActive' /\ ResumesNode'
  BY <1>1 DEF PendingIsActive, ResumesNode
<1>3. CASE enabled
  <2>1. Post(<<StartMessage(heard)>>)
    BY <1>1, <1>3 DEF StartMessages
  <2>2. IF nodes = 0 THEN port' = port ELSE port' = Append(port, StartMessage(heard))
    BY <2>1, PostOne, MessageTypes
  <2>3. port' \in Seq(Messages)
    BY <2>2, TypeFacts, AppendMessage, MessageTypes
  <2>4. OneNode'
    BY <1>1, <2>3, TypeFacts DEF OneNode, TypeOK
  <2>5. SilentUntilReady'
    BY <1>1, <2>2 DEF SilentUntilReady
  <2>6. PortAgrees'
    <3>1. CASE nodes = 0
      <4>1. port' = <<>> /\ synthSound' = None /\ nodes' = 0
        BY <1>1, <2>2, <3>1 DEF SilentUntilReady
      <4> QED BY <4>1, SilenceAgrees
    <3>2. CASE nodes # 0
      <4>1. Agreed(Sounding(StartMessage(heard)))'
        BY <1>1, <1>3, MessageCommands DEF Agreed
      <4> QED BY <2>2, <3>2, <4>1, CommandDecides, MessageTypes, MessageCommands, TypeFacts
    <3> QED BY <3>1, <3>2
  <2> QED BY <1>2, <2>4, <2>5, <2>6
<1>4. CASE ~enabled
  <2>1. port' = port
    BY <1>1, <1>4, PostNone DEF StartMessages
  <2>2. OneNode'
    BY <1>1, <2>1, TypeFacts DEF OneNode, TypeOK
  <2>3. SilentUntilReady'
    BY <1>1, <2>1 DEF SilentUntilReady
  <2>4. PortAgrees'
    BY <1>1, <1>4, <2>1 DEF PortAgrees, Agreed
  <2> QED BY <1>2, <2>2, <2>3, <2>4
<1> QED BY <1>3, <1>4, TypeFacts

\* A stop reaches what sounds, and what waits to sound.
LEMMA StopKeeps ==
    ASSUME IInv, HandleStop, ipcSound' = None \/ enabled' = FALSE,
           ipcSound' \in Sounds \cup {None}, enabled' \in BOOLEAN,
           UNCHANGED <<running, failed, paused, initializing, nodes, contextRunning, resuming,
                       silenced, synthSound, synthPaused>>
    PROVE  IInv'
<1> USE DEF IInv
<1>1. pendingSound' = None
  BY DEF HandleStop, PendingAfterStop
<1>2. IF nodes = 0 THEN port' = port ELSE port' = Append(port, StopMessage)
  BY PostOne, MessageTypes DEF HandleStop
<1>3. port' \in Seq(Messages)
  BY <1>2, TypeFacts, AppendMessage, MessageTypes
<1>4. OneNode'
  BY <1>1, <1>3, TypeFacts DEF OneNode, TypeOK
<1>5. PendingIsActive' /\ ResumesNode'
  BY <1>1 DEF PendingIsActive, ResumesNode
<1>6. SilentUntilReady'
  BY <1>2 DEF SilentUntilReady
<1>7. PortAgrees'
  <2>1. CASE nodes = 0
    <3>1. port' = <<>> /\ synthSound' = None /\ nodes' = 0
      BY <1>2, <2>1 DEF SilentUntilReady
    <3> QED BY <3>1, SilenceAgrees
  <2>2. CASE nodes # 0
    <3>1. Agreed(Sounding(StopMessage))'
      BY MessageCommands DEF Agreed
    <3> QED BY <1>2, <2>2, <3>1, CommandDecides, MessageTypes, MessageCommands, TypeFacts
  <2> QED BY <2>1, <2>2
<1> QED BY <1>4, <1>5, <1>6, <1>7

LEMMA SoundOnKeeps ==
    ASSUME IInv, SoundOn
    PROVE  IInv'
<1> USE DEF IInv
<1> DEFINE start  == Append(port, StartMessage(ipcSound))
           before == IF ipcSound # None /\ nodes > 0 THEN start ELSE port
<1>1. /\ ~enabled /\ enabled' = TRUE
      /\ pendingSound' = IF ipcSound # None THEN ipcSound ELSE pendingSound
      /\ silenced' \in BOOLEAN
      /\ UNCHANGED <<running, ipcSound, failed, nodes, contextRunning, synthSound, synthPaused>>
  BY TypeFacts DEF SoundOn, ActiveSound, machine, synth
<1>2. before \in Seq(Messages)
  BY TypeFacts, AppendMessage, MessageTypes
<1>3. /\ paused' \in BOOLEAN /\ resuming' \in BOOLEAN
      /\ initializing' \in Nat /\ initializing' + nodes <= 1
      /\ resuming' => resuming \/ nodes > 0
      /\ port' = before \/ (nodes > 0 /\ port' = Append(before, PauseMessage(FALSE)))
  <2> DEFINE started == IF ActiveSound # None /\ nodes > 0 THEN <<StartMessage(ActiveSound)>>
                                                           ELSE <<>>
  <2>1. port \o started = before
    <3>1. CASE ipcSound # None /\ nodes > 0
      BY <3>1, TypeFacts, AppendMessage, MessageTypes DEF ActiveSound
    <3>2. CASE ~(ipcSound # None /\ nodes > 0)
      BY <3>2, TypeFacts DEF ActiveSound
    <3> QED BY <3>1, <3>2
  <2>2. IF running /\ nodes > 0
          THEN /\ paused' = FALSE
               /\ resuming' = (resuming \/ ~contextRunning)
               /\ port' = port \o started \o IF contextRunning THEN ResumeMessages ELSE <<>>
               /\ UNCHANGED initializing
          ELSE /\ paused' = (paused /\ ~running)
               /\ port' = port \o started
               /\ IF running THEN Initialize ELSE UNCHANGED initializing
               /\ UNCHANGED resuming
    BY DEF SoundOn
  <2> HIDE DEF started, before
  <2>3. CASE running /\ nodes > 0
    <3>1. port' = port \o started \o IF contextRunning THEN ResumeMessages ELSE <<>>
      BY <2>2, <2>3
    <3>2. port' = before \o IF contextRunning THEN ResumeMessages ELSE <<>>
      BY <2>1, <3>1
    <3>3. CASE contextRunning
      <4>1. port' = before \o <<PauseMessage(FALSE)>>
        BY <3>2, <3>3 DEF ResumeMessages
      <4>2. port' = Append(before, PauseMessage(FALSE))
        BY <1>2, <4>1, AppendMessage, MessageTypes
      <4> QED BY <2>2, <2>3, <4>2, TypeFacts
    <3>4. CASE ~contextRunning
      <4>1. port' = before \o <<>>
        BY <3>2, <3>4
      <4>2. port' = before
        BY <1>2, <4>1
      <4> QED BY <2>2, <2>3, <4>2, TypeFacts
    <3> QED BY <3>3, <3>4
  <2>4. CASE ~(running /\ nodes > 0)
    <3>1. /\ paused' = (paused /\ ~running)
          /\ port' = before
          /\ IF running THEN Initialize ELSE UNCHANGED initializing
          /\ UNCHANGED resuming
      BY <2>1, <2>2, <2>4
    <3>2. initializing' \in Nat /\ initializing' + nodes <= 1
      BY <2>4, <3>1, TypeFacts DEF Initialize
    <3> QED BY <3>1, <3>2, TypeFacts
  <2> QED BY <2>3, <2>4
<1>4. port' \in Seq(Messages)
  BY <1>2, <1>3, AppendMessage, MessageTypes
<1>5. OneNode'
  BY <1>1, <1>3, <1>4, TypeFacts DEF OneNode, TypeOK
<1>6. PendingIsActive' /\ ResumesNode'
  BY <1>1, <1>3 DEF PendingIsActive, ResumesNode
<1>7. SilentUntilReady'
  BY <1>1, <1>3 DEF SilentUntilReady
<1>8. PortAgrees'
  <2>1. CASE nodes = 0
    <3>1. port' = <<>> /\ synthSound' = None /\ nodes' = 0
      BY <1>1, <1>3, <2>1 DEF SilentUntilReady
    <3> QED BY <3>1, SilenceAgrees
  <2>2. CASE nodes # 0 /\ ipcSound # None
    <3>1. before = start /\ ipcSound \in Sounds
      BY <2>2, TypeFacts
    <3>2. PICK c \in Messages : c = StartMessage(ipcSound)
      BY <3>1, MessageTypes
    <3>3. IsCommand(c) /\ Agreed(Sounding(c))'
      BY <1>1, <3>1, <3>2, MessageCommands DEF Agreed
    <3> HIDE DEF before
    <3>4. CASE port' = before
      <4>1. port' = Append(port, c)
        BY <3>1, <3>2, <3>4
      <4> QED BY <3>3, <4>1, CommandDecides, TypeFacts
    <3>5. CASE port' = Append(before, PauseMessage(FALSE))
      <4>1. port' = Append(Append(port, c), PauseMessage(FALSE))
        BY <3>1, <3>2, <3>5
      <4> QED BY <3>3, <4>1, CommandAndPauseDecide, TypeFacts
    <3> QED BY <1>3, <3>4, <3>5
  <2>3. CASE nodes # 0 /\ ipcSound = None
    <3>1. before = port
      BY <2>3
    <3>2. ASSUME NEW heard \in Sounds \cup {None}, Reaches(port, synthSound, heard)
          PROVE  heard = None
      BY <1>1, <3>2 DEF PortAgrees, Agreed
    <3>3. ASSUME NEW heard \in Sounds \cup {None}, Reaches(port', synthSound', heard)
          PROVE  heard = None
      <4>1. Reaches(port', synthSound, heard)
        BY <1>1, <3>3
      <4>2. CASE port' = port
        BY <3>2, <4>1, <4>2
      <4>3. CASE port' = Append(port, PauseMessage(FALSE))
        <5>1. Reaches(Append(port, PauseMessage(FALSE)), synthSound, heard)
          BY <4>1, <4>3
        <5>2. Reaches(port, synthSound, heard)
          BY <5>1, OneMoreReaches, TypeFacts, MessageTypes, MessageCommands
        <5> QED BY <3>2, <5>2
      <4> HIDE DEF before
      <4> QED BY <1>3, <3>1, <4>2, <4>3
    <3>4. Agreed(None)'
      BY <1>1, <2>3 DEF Agreed
    <3> QED BY <3>3, <3>4 DEF PortAgrees
  <2> QED BY <2>1, <2>2, <2>3
<1> QED BY <1>5, <1>6, <1>7, <1>8

\* The pending sound is the first message of a new node, and nothing is before it.
LEMMA InitializeSucceedsKeeps ==
    ASSUME IInv, InitializeSucceeds
    PROVE  IInv'
<1> USE DEF IInv
<1>1. /\ initializing' = initializing - 1
      /\ nodes' = nodes + 1
      /\ contextRunning' = TRUE
      /\ port' = port \o PendingMessages \o <<PauseMessage(paused)>> \o ResumeMessages
      /\ UNCHANGED <<running, ipcSound, enabled, failed, paused, pendingSound, resuming,
                     silenced, synthSound, synthPaused>>
  BY DEF InitializeSucceeds, machine, synth
<1>2. initializing = 1 /\ nodes = 0 /\ port = <<>> /\ synthSound = None
  BY TypeFacts DEF InitializeSucceeds, SilentUntilReady
<1> DEFINE before == PendingMessages
<1>3. before \in Seq(Messages)
  BY TypeFacts, MessageTypes DEF PendingMessages
<1>4. port' = Append(Append(before, PauseMessage(paused)), PauseMessage(FALSE))
  <2>1. port' = <<>> \o before \o <<PauseMessage(paused)>> \o <<PauseMessage(FALSE)>>
    BY <1>1, <1>2 DEF ResumeMessages
  <2>2. <<>> \o before = before
    BY <1>3
  <2> HIDE DEF before
  <2>3. port' = (before \o <<PauseMessage(paused)>>) \o <<PauseMessage(FALSE)>>
    BY <2>1, <2>2
  <2>4. before \o <<PauseMessage(paused)>> = Append(before, PauseMessage(paused))
    BY <1>3, TypeFacts, MessageTypes, AppendMessage
  <2>5. Append(before, PauseMessage(paused)) \in Seq(Messages)
    BY <1>3, TypeFacts, MessageTypes, AppendMessage
  <2> QED BY <2>3, <2>4, <2>5, MessageTypes, AppendMessage
<1>5. PauseMessage(paused) \in Messages /\ ~IsCommand(PauseMessage(paused))
  BY TypeFacts, MessageTypes, MessageCommands
<1>6. Append(before, PauseMessage(paused)) \in Seq(Messages) /\ port' \in Seq(Messages)
  <2> HIDE DEF before
  <2> QED BY <1>3, <1>4, <1>5, AppendMessage, MessageTypes
<1>7. OneNode'
  BY <1>1, <1>2, <1>6, TypeFacts DEF OneNode, TypeOK
<1>8. PendingIsActive' /\ ResumesNode'
  BY <1>1, <1>2 DEF PendingIsActive, ResumesNode
<1>9. SilentUntilReady'
  BY <1>1, <1>2 DEF SilentUntilReady
<1>10. ASSUME NEW heard \in Sounds \cup {None}, Reaches(port', synthSound', heard)
       PROVE  Reaches(before, None, heard)
  <2> HIDE DEF before
  <2>1. Reaches(Append(Append(before, PauseMessage(paused)), PauseMessage(FALSE)), None, heard)
    BY <1>1, <1>2, <1>4, <1>10
  <2>2. Reaches(Append(before, PauseMessage(paused)), None, heard)
    BY <1>6, <2>1, OneMoreReaches, MessageTypes, MessageCommands
  <2> QED BY <1>3, <1>5, <2>2, OneMoreReaches
<1>11. PortAgrees'
  <2>1. CASE enabled /\ ipcSound # None
    <3>1. pendingSound = ipcSound /\ ipcSound \in Sounds
      BY <2>1, TypeFacts DEF PendingIsActive
    <3>2. before = Append(<<>>, StartMessage(ipcSound))
      BY <2>1, <3>1 DEF PendingMessages
    <3>3. ASSUME NEW heard \in Sounds \cup {None}, Reaches(port', synthSound', heard)
          PROVE  heard = ipcSound
      <4>1. Reaches(Append(<<>>, StartMessage(ipcSound)), None, heard)
        BY <1>10, <3>2, <3>3
      <4>2. <<>> \in Seq(Messages)
        OBVIOUS
      <4> QED BY <3>1, <4>1, <4>2, OneMoreReaches, MessageTypes, MessageCommands
    <3>4. Agreed(ipcSound)'
      BY <1>1, <2>1 DEF Agreed
    <3> QED BY <1>1, <3>3, <3>4 DEF PortAgrees
  <2>2. CASE ~(enabled /\ ipcSound # None)
    <3>1. before = <<>>
      BY <2>2 DEF PendingMessages, PendingIsActive
    <3>2. ASSUME NEW heard \in Sounds \cup {None}, Reaches(port', synthSound', heard)
          PROVE  heard = None
      BY <1>10, <3>1, <3>2, NothingReaches
    <3>3. Agreed(None)'
      BY <1>1, <2>2 DEF Agreed
    <3> QED BY <3>2, <3>3 DEF PortAgrees
  <2> QED BY <2>1, <2>2
<1> QED BY <1>7, <1>8, <1>9, <1>11

LEMMA InitializeFailsKeeps ==
    ASSUME IInv, InitializeFails
    PROVE  IInv'
<1> USE DEF IInv
<1>1. /\ initializing' = initializing - 1
      /\ failed' = TRUE /\ enabled' = FALSE
      /\ UNCHANGED <<running, ipcSound, paused, pendingSound, nodes, contextRunning, resuming,
                     silenced, port, synthSound, synthPaused>>
  BY DEF InitializeFails, machine, synth
<1>2. initializing = 1 /\ nodes = 0 /\ port = <<>> /\ synthSound = None
  BY TypeFacts DEF InitializeFails, SilentUntilReady
<1>3. OneNode'
  <2>1. initializing' = 0 /\ nodes' = 0
    BY <1>1, <1>2
  <2>2. port' \in Seq(Messages)
    BY <1>1, TypeFacts
  <2>3. /\ {running, enabled, failed, paused, contextRunning, resuming, silenced, synthPaused}'
              \subseteq BOOLEAN
        /\ {ipcSound, pendingSound, synthSound}' \subseteq Sounds \cup {None}
    BY <1>1, TypeFacts
  <2> QED BY <2>1, <2>2, <2>3 DEF OneNode, TypeOK
<1>4. PendingIsActive' /\ ResumesNode'
  BY <1>1 DEF PendingIsActive, ResumesNode
<1>5. SilentUntilReady'
  BY <1>1, <1>2 DEF SilentUntilReady
<1>6. PortAgrees'
  BY <1>1, <1>2, SilenceAgrees
<1> QED BY <1>3, <1>4, <1>5, <1>6

\* The browser, and a promise of the context.
LEMMA ContextKeeps ==
    ASSUME IInv, BrowserSuspends \/ ContextResumes
    PROVE  IInv'
<1> USE DEF IInv
<1>1. /\ UNCHANGED <<running, ipcSound, enabled, failed, paused, pendingSound, initializing,
                     nodes, synthSound, synthPaused>>
      /\ contextRunning' \in BOOLEAN /\ resuming' \in BOOLEAN /\ silenced' \in BOOLEAN
      /\ resuming' => resuming
      /\ \/ port' = port
         \/ nodes # 0 /\ \E value \in BOOLEAN : port' = Append(port, PauseMessage(value))
  <2>1. CASE BrowserSuspends
    BY <2>1, TypeFacts DEF BrowserSuspends, machine, synth
  <2>2. CASE ContextResumes
    <3>1. port' = port \o <<PauseMessage(FALSE)>>
      BY <2>2 DEF ContextResumes, ResumeMessages
    <3>2. port' = Append(port, PauseMessage(FALSE))
      BY <3>1, AppendMessage, MessageTypes, TypeFacts
    <3>3. nodes # 0
      BY <2>2, TypeFacts DEF ContextResumes, ResumesNode
    <3> QED BY <2>2, <3>2, <3>3 DEF ContextResumes, machine, synth
  <2> QED BY <2>1, <2>2
<1>2. port' \in Seq(Messages)
  BY <1>1, TypeFacts, AppendMessage, MessageTypes
<1>3. OneNode'
  BY <1>1, <1>2, TypeFacts DEF OneNode, TypeOK
<1>4. PendingIsActive' /\ ResumesNode'
  BY <1>1 DEF PendingIsActive, ResumesNode
<1>5. SilentUntilReady' /\ PortAgrees'
  BY <1>1, PausesKeepAgreement
<1> QED BY <1>3, <1>4, <1>5

\* A message arrives: the synthesizer comes to what it came to before.
LEMMA DeliverKeeps ==
    ASSUME IInv, Deliver
    PROVE  IInv'
<1> USE DEF IInv
<1>1. /\ port # <<>> /\ port' = Tail(port)
      /\ UNCHANGED <<running, ipcSound, enabled, failed, paused, pendingSound, initializing,
                     nodes, contextRunning, resuming, silenced>>
  BY DEF Deliver, machine, bridge
<1> DEFINE message == Head(port)
<1>2. message \in Messages /\ port' \in Seq(Messages)
  BY <1>1, TypeFacts
<1>3. /\ synthSound' = IF IsCommand(message) THEN Sounding(message) ELSE synthSound
      /\ synthPaused' \in BOOLEAN
  <2>1. CASE message.type = "start" /\ synthSound' = message.sound /\ synthPaused' = FALSE
    BY <2>1 DEF IsCommand, Sounding
  <2>2. CASE message.type = "stop" /\ synthSound' = None /\ synthPaused' = FALSE
    BY <2>2 DEF IsCommand, Sounding
  <2>3. CASE message.type = "pause" /\ synthPaused' = message.paused /\ UNCHANGED synthSound
    BY <1>2, <2>3, MessageType DEF IsCommand
  <2> QED BY <2>1, <2>2, <2>3 DEF Deliver
<1>4. OneNode'
  <2>1. synthSound' \in Sounds \cup {None}
    BY <1>2, <1>3, MessageType, TypeFacts
  <2> QED BY <1>1, <1>2, <1>3, <2>1, TypeFacts DEF OneNode, TypeOK
<1>5. PendingIsActive' /\ ResumesNode'
  BY <1>1 DEF PendingIsActive, ResumesNode
<1>6. SilentUntilReady'
  BY <1>1 DEF SilentUntilReady
<1>7. ASSUME NEW heard \in Sounds \cup {None}, Reaches(port', synthSound', heard)
      PROVE  Agreed(heard)'
  <2>1. Reaches(Tail(port), synthSound', heard)
    BY <1>1, <1>7
  <2>2. Reaches(port, synthSound, heard)
    BY <1>1, <1>3, <2>1, ArrivalReaches, TypeFacts
  <2>3. Agreed(heard)
    BY <2>2 DEF PortAgrees
  <2> QED BY <1>1, <2>3 DEF Agreed
<1>8. PortAgrees'
  BY <1>7 DEF PortAgrees
<1> QED BY <1>4, <1>5, <1>6, <1>8

\* A sound that comes to its end was not an endless one.
LEMMA RenderEndsKeeps ==
    ASSUME IInv, RenderEnds
    PROVE  IInv'
<1> USE DEF IInv
<1>1. /\ synthSound \in Sounds \ Endless /\ synthSound' = None /\ synthPaused' = FALSE
      /\ UNCHANGED <<running, ipcSound, enabled, failed, paused, pendingSound, initializing,
                     nodes, contextRunning, resuming, silenced, port>>
  BY DEF RenderEnds, machine, bridge
<1>2. OneNode'
  BY <1>1, TypeFacts DEF OneNode, TypeOK
<1>3. PendingIsActive' /\ ResumesNode' /\ SilentUntilReady'
  BY <1>1 DEF PendingIsActive, ResumesNode, SilentUntilReady
<1>4. ASSUME NEW heard \in Sounds \cup {None}, Reaches(port, None, heard)
      PROVE  Agreed(heard)'
  <2>1. CASE Reaches(port, synthSound, heard)
    BY <1>1, <2>1 DEF PortAgrees, Agreed
  <2>2. CASE ~Reaches(port, synthSound, heard)
    <3>1. heard = None /\ \A i \in 1 .. Len(port) : ~IsCommand(port[i])
      BY <1>4, <2>2 DEF Reaches
    <3>2. Reaches(port, synthSound, synthSound)
      BY <3>1 DEF Reaches
    <3>3. Agreed(synthSound)
      BY <1>1, <3>2 DEF PortAgrees
    <3> QED BY <1>1, <3>1, <3>3 DEF Agreed
  <2> QED BY <2>1, <2>2
<1>5. PortAgrees'
  BY <1>1, <1>4 DEF PortAgrees
<1> QED BY <1>2, <1>3, <1>5

LEMMA Inductive == IInv /\ [Next]_vars => IInv'
<1> SUFFICES ASSUME IInv, [Next]_vars PROVE IInv'
  OBVIOUS
<1>1. CASE StartExecution \/ StopExecution \/ Gesture
  BY <1>1, RunControlKeeps
<1>2. CASE ResetMachine
  BY <1>2, ResetMachineKeeps
<1>3. CASE \E heard \in Sounds : SoundStarts(heard)
  BY <1>3, SoundStartsKeeps
<1>4. CASE SoundStops
  <2>1. enabled' \in BOOLEAN /\ ipcSound' \in Sounds \cup {None}
    BY <1>4, TypeFacts DEF SoundStops, IInv
  <2> QED BY <1>4, <2>1, StopKeeps DEF SoundStops, synth
<1>5. CASE SoundOff
  <2>1. HandleStop
    BY <1>5 DEF SoundOff, HandleStop, PendingAfterStop
  <2>2. enabled' \in BOOLEAN /\ ipcSound' \in Sounds \cup {None}
    BY <1>5, TypeFacts DEF SoundOff, machine, IInv
  <2> QED BY <1>5, <2>1, <2>2, StopKeeps DEF SoundOff, machine, synth
<1>6. CASE SoundOn
  BY <1>6, SoundOnKeeps
<1>7. CASE InitializeSucceeds
  BY <1>7, InitializeSucceedsKeeps
<1>8. CASE InitializeFails
  BY <1>8, InitializeFailsKeeps
<1>9. CASE BrowserSuspends \/ ContextResumes
  BY <1>9, ContextKeeps
<1>10. CASE Deliver
  BY <1>10, DeliverKeeps
<1>11. CASE RenderEnds
  BY <1>11, RenderEndsKeeps
<1>12. CASE UNCHANGED vars
  BY <1>12 DEF vars, machine, bridge, synth, IInv, OneNode, TypeOK, PendingIsActive,
               SilentUntilReady, ResumesNode, PortAgrees, Agreed
<1> QED
  BY <1>1, <1>2, <1>3, <1>4, <1>5, <1>6, <1>7, <1>8, <1>9, <1>10, <1>11, <1>12 DEF Next, Page

THEOREM InvariantHolds == Spec => []IInv
BY Initially, Inductive, PTL DEF Spec

\* What the page and the worklet do with messages is what the way of a sound says.
LEMMA OutputIsWay == OutputSpec => Spec
<1>1. OutputInit => Init
  BY DEF OutputInit
<1>2. [OutputNext]_<<unit, vars, synthesis>> => [Next]_vars
  <2> SUFFICES ASSUME [OutputNext]_<<unit, vars, synthesis>> PROVE [Next]_vars
    OBVIOUS
  <2> QED BY Zenon DEF OutputNext
<1> QED
  BY <1>1, <1>2, PTL DEF OutputSpec, Spec

----------------------------------------------------------------------------
(* What follows.                                                           *)

\* However many gestures ask for the sound while the worklet is being loaded, one
\* context and one node are made (initialize() of ql-audio.js).
THEOREM OneNodeCorrect == OutputSpec => []OneNode
<1>1. IInv => OneNode
  BY DEF IInv
<1> QED BY <1>1, InvariantHolds, OutputIsWay, PTL

\* When every message has arrived, the loudspeaker and the IPC agree: whatever was
\* started, stopped, switched off or reset meanwhile (handleIpcEvent(), setEnabled(),
\* resume() and pause() of ql-audio.js).
THEOREM SoundCorrect == OutputSpec => []SoundFollowsMachine
<1>1. IInv => SoundFollowsMachine
  <2> SUFFICES ASSUME IInv, Quiet PROVE SoundFollowsMachine
    BY DEF SoundFollowsMachine
  <2>1. Reaches(port, synthSound, synthSound)
    BY DEF Quiet, Reaches
  <2>2. synthSound \in Sounds \cup {None}
    BY TypeFacts DEF IInv
  <2>3. Agreed(synthSound)
    BY <2>1, <2>2 DEF IInv, PortAgrees
  <2> QED BY <2>3 DEF SoundFollowsMachine, Agreed
<1> QED BY <1>1, InvariantHolds, OutputIsWay, PTL
----------------------------------------------------------------------------
(* What the synthesizer makes of a sound.  First, quotients.               *)

\* A number is its quotient times the divisor and its remainder.
LEMMA QuotientOf ==
    ASSUME NEW a \in Nat, NEW b \in Nat \ {0}
    PROVE  /\ a \div b \in Nat /\ a % b \in 0 .. b - 1
           /\ a = (a \div b) * b + (a % b)
<1>1. a \div b \in Int /\ a % b \in 0 .. b - 1 /\ a = b * (a \div b) + (a % b)
  OBVIOUS
<1>2. a \div b \in Nat
  OBVIOUS
<1> QED
  BY <1>1, <1>2

\* A quotient and a remainder put together and taken apart again.
LEMMA PutTogetherAgain ==
    ASSUME NEW b \in Nat \ {0}, NEW q \in Int, NEW r \in 0 .. b - 1
    PROVE  (q * b + r) \div b = q /\ (q * b + r) % b = r
<1>1. (q * b + r) \div b = q
  OBVIOUS
<1>2. (q * b + r) % b = r
  OBVIOUS
<1> QED
  BY <1>1, <1>2

\* A smaller factor makes no larger product.
LEMMA Multiples ==
    ASSUME NEW n \in Nat, NEW a \in Int, NEW b \in Int, a <= b
    PROVE  a * n <= b * n
<1>1. (b - a) * n \in Nat /\ (b - a) * n = b * n - a * n
  OBVIOUS
<1>2. a * n \in Int /\ b * n \in Int
  OBVIOUS
<1> QED
  BY <1>1, <1>2

\* One more: the quotient goes on when the remainder is the last.
LEMMA OneMore ==
    ASSUME NEW i \in Nat, NEW w \in Nat \ {0}
    PROVE  /\ i \div w \in Nat /\ i % w \in 0 .. w - 1
           /\ (i + 1) % w = IF (i % w) + 1 = w THEN 0 ELSE (i % w) + 1
           /\ (i + 1) \div w = IF (i % w) + 1 = w THEN (i \div w) + 1 ELSE i \div w
<1> DEFINE q == i \div w
           k == i % w
<1>1. q \in Nat /\ k \in 0 .. w - 1 /\ i = q * w + k
  BY QuotientOf
<1> HIDE DEF q, k
<1>2. CASE k + 1 = w
  <2> DEFINE n == q + 1
  <2>1. n \in Int /\ 0 \in 0 .. w - 1 /\ i + 1 = n * w + 0
    <3>1. (q + 1) * w = q * w + w /\ q * w \in Int
      BY <1>1
    <3> QED BY <1>1, <1>2, <3>1
  <2> HIDE DEF n
  <2>2. (n * w + 0) % w = 0 /\ (n * w + 0) \div w = n
    BY <2>1, PutTogetherAgain
  <2>3. (i + 1) % w = 0 /\ (i + 1) \div w = n
    BY <2>1, <2>2, Zenon
  <2> QED BY <1>1, <1>2, <2>3 DEF k, n, q
<1>3. CASE k + 1 # w
  <2> DEFINE n == k + 1
  <2>1. n \in 0 .. w - 1 /\ i + 1 = q * w + n
    <3>1. q * w \in Int
      BY <1>1
    <3> QED BY <1>1, <1>3, <3>1
  <2> HIDE DEF n
  <2>2. (q * w + n) % w = n /\ (q * w + n) \div w = q
    BY <1>1, <2>1, PutTogetherAgain
  <2>3. (i + 1) % w = n /\ (i + 1) \div w = q
    BY <2>1, <2>2, Zenon
  <2> QED BY <1>1, <1>3, <2>3 DEF k, n, q
<1> QED
  BY <1>2, <1>3

\* The number of times that b fits in a, begun.
LEMMA CeilingFacts ==
    ASSUME NEW a \in Nat, NEW b \in Nat \ {0}, NEW c, c = Synth!Ceiling(a, b)
    PROVE  /\ c \in Nat /\ a <= c * b /\ (c - 1) * b < a
           /\ \A k \in Nat : k * b < a <=> k < c
<1> DEFINE n == a + b - 1
           r == n % b
<1>1. n \in Nat /\ c = n \div b
  BY DEF Synth!Ceiling
<1> HIDE DEF n
<1>2. c \in Nat /\ r \in 0 .. b - 1 /\ n = c * b + r
  BY <1>1, QuotientOf
<1> HIDE DEF r
<1>3. a = c * b + r - b + 1 /\ c * b \in Int
  BY <1>1, <1>2 DEF n
<1>4. a <= c * b
  BY <1>2, <1>3
<1>5. (c - 1) * b < a
  <2>1. (c - 1) * b = c * b - b
    BY <1>2
  <2> QED BY <1>2, <1>3, <2>1
<1>6. ASSUME NEW k \in Nat
      PROVE  k * b < a <=> k < c
  <2>0. k * b \in Int /\ (c - 1) * b \in Int /\ c * b \in Int
    BY <1>2
  <2>1. CASE k < c
    <3>1. k * b <= (c - 1) * b
      BY <1>2, <2>1, Multiples
    <3> QED BY <1>5, <2>0, <2>1, <3>1
  <2>2. CASE ~(k < c)
    <3>1. c * b <= k * b
      BY <1>2, <2>2, Multiples
    <3> QED BY <1>4, <2>0, <2>2, <3>1
  <2> QED BY <2>1, <2>2
<1> QED
  BY <1>2, <1>4, <1>5, <1>6
----------------------------------------------------------------------------
(* The places of the steps of a pitch.                                     *)

\* A number of steps in turns, sweeps and steps.
IsPlace(w, st, n, q, v, k) ==
    /\ q \in Nat /\ v \in 0 .. w /\ k \in 0 .. st - 1
    /\ n = q * ((w + 1) * st) + (v * st + k)

\* One more of b.
LEMMA OneTimesMore == ASSUME NEW a \in Int, NEW b \in Int PROVE (a + 1) * b = a * b + b
OBVIOUS

\* The place is given by the quotients that the specification of a pitch has.
LEMMA PlaceIsOne ==
    ASSUME NEW w \in Nat, NEW st \in Nat \ {0}, NEW n, NEW q, NEW v, NEW k,
           IsPlace(w, st, n, q, v, k)
    PROVE  n \div ((w + 1) * st) = q /\ (n % ((w + 1) * st)) \div st = v /\ n % st = k
<1> DEFINE m == v * st + k
           turn == (w + 1) * st
<1>1. q \in Nat /\ v \in 0 .. w /\ k \in 0 .. st - 1 /\ n = q * turn + m
  BY DEF IsPlace
<1>2. turn \in Nat \ {0} /\ m \in 0 .. turn - 1
  <2>1. v * st <= w * st
    BY <1>1, Multiples
  <2>2. w * st \in Nat /\ v * st \in Nat /\ (w + 1) * st = w * st + st
    BY <1>1
  <2> QED BY <1>1, <2>1, <2>2
<1>3. m \div st = v
  BY <1>1, PutTogetherAgain
<1>4. n % st = k
  <2> DEFINE p == q * (w + 1) + v
  <2>1. (q * (w + 1) + v) * st = q * ((w + 1) * st) + v * st
    BY <1>1
  <2>2. p \in Int /\ n = p * st + k
    <3>1. q * ((w + 1) * st) \in Int /\ v * st \in Int
      BY <1>1
    <3> QED BY <1>1, <2>1, <3>1
  <2> HIDE DEF p
  <2>3. (p * st + k) % st = k
    BY <1>1, <2>2, PutTogetherAgain
  <2> QED BY <2>2, <2>3, Zenon
<1> HIDE DEF m, turn
<1>5. n \div turn = q /\ n % turn = m
  <2>1. (q * turn + m) \div turn = q /\ (q * turn + m) % turn = m
    <3>1. q \in Int
      BY <1>1
    <3> QED BY <1>2, <3>1, PutTogetherAgain
  <2> QED BY <1>1, <2>1, Zenon
<1>6. (n % turn) \div st = v
  BY <1>3, <1>5, Zenon
<1> QED
  BY <1>4, <1>5, <1>6, Zenon DEF turn

\* Every number has a place.
LEMMA PlaceOf ==
    ASSUME NEW w \in Nat, NEW st \in Nat \ {0}, NEW n \in Nat
    PROVE  \E q, v, k : IsPlace(w, st, n, q, v, k)
<1> DEFINE turn == (w + 1) * st
           m == n % turn
           q == n \div turn
           v == m \div st
           k == m % st
<1>1. turn \in Nat \ {0}
  <2>1. w * st \in Nat /\ (w + 1) * st = w * st + st
    OBVIOUS
  <2> QED BY <2>1
<1> HIDE DEF turn
<1>2. q \in Nat /\ m \in 0 .. turn - 1 /\ n = q * turn + m
  BY <1>1, QuotientOf
<1>3. m \in Nat
  BY <1>1, <1>2
<1> HIDE DEF m, q
<1>4. v \in Nat /\ k \in 0 .. st - 1 /\ m = v * st + k
  BY <1>3, QuotientOf
<1> HIDE DEF v, k
<1>5. v \in 0 .. w
  <2> SUFFICES ASSUME w + 1 <= v PROVE FALSE
    BY <1>4
  <2>1. (w + 1) * st <= v * st
    BY <1>4, Multiples
  <2>2. v * st \in Int /\ turn = (w + 1) * st
    BY <1>4 DEF turn
  <2> QED BY <1>1, <1>2, <1>4, <2>1, <2>2
<1>6. IsPlace(w, st, n, q, v, k)
  BY <1>2, <1>4, <1>5, Zenon DEF IsPlace, turn
<1> QED
  BY <1>6

\* The next step: of the same sweep, the first of the next, or of the next turn.
LEMMA NextPlace ==
    ASSUME NEW w \in Nat, NEW st \in Nat \ {0}, NEW n \in Nat, NEW q, NEW v, NEW k,
           IsPlace(w, st, n, q, v, k)
    PROVE  /\ k + 1 # st => IsPlace(w, st, n + 1, q, v, k + 1)
           /\ k + 1 = st /\ v # w => IsPlace(w, st, n + 1, q, v + 1, 0)
           /\ k + 1 = st /\ v = w => IsPlace(w, st, n + 1, q + 1, 0, 0)
<1> DEFINE turn == (w + 1) * st
           a == q * turn
           b == v * st
<1>1. /\ q \in Nat /\ v \in 0 .. w /\ k \in 0 .. st - 1 /\ n = a + (b + k)
      /\ v \in Nat /\ k \in Nat
  BY DEF IsPlace
<1>2. turn \in Nat /\ (v + 1) * st = b + st /\ 0 * st = 0
  BY <1>1
<1>3. a \in Int /\ (q + 1) * turn = a + turn
  <2> HIDE DEF turn
  <2> QED BY <1>1, <1>2
<1>4. b \in Int
  BY <1>1
<1>5. ASSUME k + 1 # st PROVE IsPlace(w, st, n + 1, q, v, k + 1)
  <2> HIDE DEF a, b
  <2>1. k + 1 \in 0 .. st - 1 /\ n + 1 = a + (b + (k + 1))
    BY <1>1, <1>3, <1>4, <1>5
  <2> QED BY <1>1, <2>1, Zenon DEF IsPlace, a, b, turn
<1>6. ASSUME k + 1 = st, v # w PROVE IsPlace(w, st, n + 1, q, v + 1, 0)
  <2> HIDE DEF a, b
  <2>1. v + 1 \in 0 .. w /\ 0 \in 0 .. st - 1
    BY <1>1, <1>6
  <2>2. n + 1 = a + ((v + 1) * st + 0)
    BY <1>1, <1>2, <1>3, <1>4, <1>6
  <2> QED BY <1>1, <2>1, <2>2, Zenon DEF IsPlace, a, turn
<1>7. ASSUME k + 1 = st, v = w PROVE IsPlace(w, st, n + 1, q + 1, 0, 0)
  <2>1. turn = b + st
    BY <1>2, <1>7
  <2> HIDE DEF a, b, turn
  <2>2. q + 1 \in Nat /\ 0 \in 0 .. w /\ 0 \in 0 .. st - 1
    BY <1>1
  <2>3. n + 1 = (q + 1) * turn + (0 * st + 0)
    BY <1>1, <1>2, <1>3, <1>4, <1>7, <2>1
  <2> QED BY <2>2, <2>3, Zenon DEF IsPlace, turn
<1> QED
  BY <1>5, <1>6, <1>7

\* A turn is complete from the first turn on.
LEMMA PastTurn ==
    ASSUME NEW w \in Nat, NEW st \in Nat \ {0}, NEW n \in Nat, NEW q, NEW v, NEW k,
           IsPlace(w, st, n, q, v, k)
    PROVE  n >= (w + 1) * st <=> q # 0
<1> DEFINE turn == (w + 1) * st
<1>1. turn \in Nat \ {0}
  <2>1. w * st \in Nat /\ (w + 1) * st = w * st + st
    OBVIOUS
  <2> QED BY <2>1
<1>2. n \div turn = q /\ q \in Nat
  BY PlaceIsOne DEF IsPlace
<1> HIDE DEF turn
<1> DEFINE r == n % turn
           p == q * turn
<1>3. r \in 0 .. turn - 1 /\ n = p + r
  BY <1>1, <1>2, QuotientOf
<1>4. p \in Int /\ (q = 0 => p = 0) /\ (q # 0 => turn <= p)
  <2>1. CASE q = 0
    BY <1>1, <2>1
  <2>2. CASE q # 0
    <3>1. 1 * turn <= q * turn
      BY <1>1, <1>2, <2>2, Multiples
    <3> QED BY <1>1, <1>2, <2>2, <3>1
  <2> QED BY <2>1, <2>2
<1> HIDE DEF r, p
<1>5. n >= turn <=> q # 0
  BY <1>1, <1>2, <1>3, <1>4
<1> QED
  BY <1>5 DEF turn
----------------------------------------------------------------------------
(* The inductive invariant of the synthesizer.                             *)

\* The steps from one turn to the next, the pitches that a sound sweeps from and to,
\* and how far a sweep goes.
TurnOf(s) == (s.wrap + 1) * Synth!Steps(s)
FromOf(s) == IF s.step < 0 THEN s.pitch2 ELSE s.pitch
ToOf(s)   == IF s.step < 0 THEN s.pitch ELSE s.pitch2
ReachOf(s) == Synth!Steps(s) * s.step

\* After n steps of the pitch: whether it goes back, in which sweep since it turned,
\* and where that began.
GoesBack(s, n)  == s.wrap # Forever /\ (n \div TurnOf(s)) % 2 = 1
SweepOf(s, n)   == (n % TurnOf(s)) \div Synth!Steps(s)
Heading(s, n)   == IF GoesBack(s, n) THEN -1 ELSE 1
SweepFrom(s, n) ==
    IF s.wrap = Forever THEN FromOf(s)
    ELSE IF GoesBack(s, n)
      THEN IF SweepOf(s, n) = 0 THEN FromOf(s) + ReachOf(s) ELSE ToOf(s)
    ELSE IF SweepOf(s, n) = 0 /\ n >= TurnOf(s) /\ s.wrap > 0 THEN ToOf(s) - ReachOf(s)
    ELSE FromOf(s)

\* A synthesizer that sweeps: direction, wraps that are left, and pitch.
Sweeping(s, n, y) ==
    /\ y.direction = Heading(s, n)
    /\ y.wrapRemaining = IF s.wrap = Forever THEN Forever ELSE s.wrap - SweepOf(s, n)
    /\ y.currentPitch = SweepFrom(s, n) + (n % Synth!Steps(s)) * (s.step * Heading(s, n))

\* The pitch after n steps.
PitchGoes(s, n, y) ==
    /\ y.direction \in {1, -1} /\ y.wrapRemaining \in Int /\ y.currentPitch \in Int
    /\ s.step = 0 => y.currentPitch = s.pitch
    /\ s.step = Wild => y.currentPitch = Synth!Pitch(s.pitch2 + n * Wild)
    /\ s.step \notin {0, Wild} /\ Synth!Fits(s) => Sweeping(s, n, y)

\* What is left of the sound.
TimeGoes(s, p, y) ==
    IF s.duration = 0 THEN y.remaining = 0
    ELSE /\ y.remaining = Synth!Units(s.duration) - p * RateTicks
         /\ 0 < y.remaining

\* What is left of the interval: it begins with a sample, and ends with the sound
\* if that ends before.
IntervalGoes(s, p, n, y) ==
    LET size == Synth!SamplesOf(s.interval)
        left == Synth!Units(s.interval) - (p % size) * RateTicks
    IN  IF s.interval = 0 THEN n = 0
        ELSE /\ n = p \div size
             /\ 0 < left
             /\ \/ y.pitchRemaining = left
                \/ s.duration # 0 /\ y.pitchRemaining = y.remaining /\ y.remaining < left

\* The fields of a synthesizer.
IsSynthesizer(y) ==
    y = [remaining |-> y.remaining, pitchRemaining |-> y.pitchRemaining,
         direction |-> y.direction, wrapRemaining |-> y.wrapRemaining,
         currentPitch |-> y.currentPitch, random |-> y.random, fuzz |-> y.fuzz,
         halfCycle |-> y.halfCycle]

\* The length of the wave.
WaveGoes(y) == y.halfCycle = Synth!HalfCycle(y.currentPitch, y.random, y.fuzz)

\* Nothing sounds; or the synthesizer is where its sound, the samples of it and the
\* steps of its pitch put it.
SynthInv ==
    /\ played \in Nat /\ advances \in Nat
    /\ \/ sound = Synth!NoSound /\ synthesizer = Synth!NoSound
       \/ /\ sound \in SynthSounds /\ IsSynthesizer(synthesizer)
          /\ TimeGoes(sound, played, synthesizer)
          /\ IntervalGoes(sound, played, advances, synthesizer)
          /\ PitchGoes(sound, advances, synthesizer)
          /\ WaveGoes(synthesizer)
----------------------------------------------------------------------------
(* Sweeps.                                                                 *)

\* The constants and the parameters of a sound, as numbers.
LEMMA SynthTypes ==
    /\ PitchCount \in Nat \ {0} /\ RateSamples \in Nat \ {0} /\ RateTicks \in Nat \ {0}
    /\ Forever \in Nat \ {0} /\ Wild \in Int /\ Wild < 0
BY SynthAssumption

LEMMA SoundType ==
    ASSUME NEW s \in SynthSounds
    PROVE  /\ s.pitch \in 0 .. PitchCount - 1 /\ s.pitch2 \in 0 .. PitchCount - 1
           /\ s.step \in Int /\ s.wrap \in 0 .. Forever /\ s.interval \in Nat /\ s.duration \in Nat
           /\ s # Synth!NoSound
<1>1. s \in [pitch : 0 .. PitchCount - 1, pitch2 : 0 .. PitchCount - 1, step : Int, wrap : 0 .. Forever,
             interval : Nat, duration : Nat, randomness : Nat, fuzziness : Nat]
  BY SynthAssumption
<1>2. s.duration \in Nat
  BY <1>1
<1>3. s # Synth!NoSound
  <2>1. Synth!NoSound.duration = -1
    BY DEF Synth!NoSound
  <2> QED BY <1>2, <2>1
<1> QED
  BY <1>1, <1>3

\* A pitch that is strictly between the two.
Between(s, c) == s.pitch < c /\ c < s.pitch2

\* From one end, or from where the last sweep ended, towards the other.
LEMMA SweepInside ==
    ASSUME NEW p \in Int, NEW q \in Int, NEW size \in Nat \ {0}, NEW st \in Nat \ {0},
           IF p < q THEN (st - 1) * size < q - p /\ q - p <= st * size ELSE st = 1,
           NEW j \in 1 .. st,
           NEW e \in {p + j * size, p + st * size - j * size,
                      q - j * size, q - st * size + j * size}
    PROVE  /\ (p < e /\ e < q) <=> j # st
           /\ e \in Int
           /\ \/ p <= e /\ e <= p + st * size
              \/ q - st * size <= e /\ e <= q
<1> DEFINE x == j * size
           r == st * size
<1>1. x \in Int /\ r \in Int /\ (j = st => x = r) /\ size <= x /\ x <= r
  <2>1. 1 * size <= j * size /\ j * size <= st * size
    BY Multiples
  <2> QED BY <2>1
<1>2. j # st => x <= r - size
  <2> SUFFICES ASSUME j # st PROVE x <= r - size
    OBVIOUS
  <2>1. j * size <= (st - 1) * size
    BY Multiples
  <2>2. (st - 1) * size = st * size - size
    OBVIOUS
  <2> QED BY <2>1, <2>2
<1>3. IF p < q THEN r - size < q - p /\ q - p <= r ELSE st = 1
  <2>1. (st - 1) * size = st * size - size
    OBVIOUS
  <2> QED BY <2>1
<1>4. e \in {p + x, p + r - x, q - x, q - r + x}
  OBVIOUS
<1> HIDE DEF x, r
<1>5. (p < e /\ e < q) <=> j # st
  BY <1>1, <1>2, <1>3, <1>4
<1>6. /\ e \in Int
      /\ \/ p <= e /\ e <= p + r
         \/ q - r <= e /\ e <= q
  BY <1>1, <1>3, <1>4
<1> QED
  BY <1>5, <1>6 DEF r

\* The steps of a sweep are the least that reach the other pitch.
LEMMA StepsReach ==
    ASSUME NEW s \in SynthSounds, s.step # 0,
           NEW size, size = IF s.step < 0 THEN -s.step ELSE s.step,
           NEW st, st = Synth!Steps(s)
    PROVE  /\ size \in Nat \ {0} /\ st \in Nat \ {0}
           /\ IF s.pitch < s.pitch2
                THEN (st - 1) * size < s.pitch2 - s.pitch /\ s.pitch2 - s.pitch <= st * size
              ELSE st = 1
<1>1. s.pitch \in Int /\ s.pitch2 \in Int /\ s.step \in Int
  BY SoundType, SynthTypes
<1>2. size \in Nat \ {0}
  BY <1>1
<1>3. CASE s.pitch < s.pitch2
  <2> DEFINE a == s.pitch2 - s.pitch
  <2>1. a \in Nat /\ 0 < a
    BY <1>1, <1>3
  <2>2. st = Synth!Ceiling(a, size)
    BY <1>3 DEF Synth!Steps
  <2> HIDE DEF a
  <2>3. st \in Nat /\ a <= st * size /\ (st - 1) * size < a /\ (0 * size < a <=> 0 < st)
    BY <1>2, <2>1, <2>2, CeilingFacts
  <2>4. st \in Nat \ {0}
    BY <1>2, <2>1, <2>3
  <2> QED BY <1>2, <1>3, <2>3, <2>4 DEF a
<1>4. CASE ~(s.pitch < s.pitch2)
  BY <1>2, <1>4 DEF Synth!Steps
<1> QED
  BY <1>3, <1>4

\* Where a sweep goes: the steps before its last are between the pitches, and fit.
LEMMA SweepGoes ==
    ASSUME NEW s \in SynthSounds, s.step # 0, Synth!Fits(s), NEW n \in Nat,
           NEW st, st = Synth!Steps(s), NEW j \in 1 .. st,
           NEW e, e = SweepFrom(s, n) + j * (s.step * Heading(s, n))
    PROVE  /\ Between(s, e) <=> j # st
           /\ e \in 0 .. PitchCount - 1
<1> DEFINE size == IF s.step < 0 THEN -s.step ELSE s.step
           p == s.pitch
           q == s.pitch2
           x == j * size
           r == st * size
<1>1. p \in 0 .. PitchCount - 1 /\ q \in 0 .. PitchCount - 1 /\ s.step \in Int /\ PitchCount \in Nat
  BY SoundType, SynthTypes
<1>2. /\ size \in Nat \ {0} /\ st \in Nat \ {0}
      /\ IF p < q THEN (st - 1) * size < q - p /\ q - p <= st * size ELSE st = 1
  BY StepsReach
<1>3. x \in Int /\ r \in Int
  <2> HIDE DEF size
  <2> QED BY <1>2
<1>4. s.step \in {size, -size} /\ (s.step = size <=> ~(s.step < 0))
  BY <1>1
<1>5. /\ j * (s.step * 1) \in {x, -x} /\ (j * (s.step * 1) = IF s.step < 0 THEN -x ELSE x)
      /\ j * (s.step * (-1)) = IF s.step < 0 THEN x ELSE -x
      /\ ReachOf(s) = IF s.step < 0 THEN -r ELSE r
  <2>1. CASE s.step < 0
    <3>1. j * (s.step * 1) = -(j * (-s.step)) /\ j * (s.step * (-1)) = j * (-s.step)
          /\ st * s.step = -(st * (-s.step))
      BY <1>1, <1>2
    <3> QED BY <2>1, <3>1 DEF ReachOf
  <2>2. CASE ~(s.step < 0)
    <3>1. j * (s.step * 1) = j * s.step /\ j * (s.step * (-1)) = -(j * s.step)
      BY <1>1, <1>2
    <3> QED BY <1>1, <2>2, <3>1 DEF ReachOf
  <2> QED BY <2>1, <2>2
<1>6. /\ FromOf(s) = IF s.step < 0 THEN q ELSE p
      /\ ToOf(s) = IF s.step < 0 THEN p ELSE q
  BY DEF FromOf, ToOf
<1>7. p + r \in 0 .. PitchCount - 1 /\ q - r \in 0 .. PitchCount - 1
  <2>1. /\ FromOf(s) + ReachOf(s) \in 0 .. PitchCount - 1
        /\ ToOf(s) - ReachOf(s) \in 0 .. PitchCount - 1
    BY DEF Synth!Fits, FromOf, ToOf, ReachOf
  <2> QED BY <1>1, <1>3, <1>5, <1>6, <2>1
<1>8. /\ GoesBack(s, n) => /\ Heading(s, n) = -1
                           /\ SweepFrom(s, n) \in {FromOf(s) + ReachOf(s), ToOf(s)}
      /\ ~GoesBack(s, n) => /\ Heading(s, n) = 1
                            /\ SweepFrom(s, n) \in {FromOf(s), ToOf(s) - ReachOf(s)}
  BY DEF Heading, SweepFrom, GoesBack
<1>9. e \in {p + x, p + r - x, q - x, q - r + x}
  <2> DEFINE a == j * (s.step * 1)
             b == j * (s.step * (-1))
             f == SweepFrom(s, n)
  <2>1. CASE GoesBack(s, n)
    <3>1. e = f + b
      BY <1>8, <2>1
    <3> HIDE DEF x, r, size, p, q, a, f
    <3>2. f \in {FromOf(s) + ReachOf(s), ToOf(s)}
      BY <1>8, <2>1 DEF f
    <3>3. b = IF s.step < 0 THEN x ELSE -x
      BY <1>5
    <3> HIDE DEF b
    <3>4. p \in Int /\ q \in Int
      BY <1>1 DEF p, q
    <3>5. CASE s.step < 0
      <4>1. f \in {q - r, p} /\ b = x
        BY <1>5, <1>6, <3>2, <3>3, <3>5
      <4> QED BY <1>3, <3>1, <3>4, <4>1
    <3>6. CASE ~(s.step < 0)
      <4>1. f \in {p + r, q} /\ b = -x
        BY <1>5, <1>6, <3>2, <3>3, <3>6
      <4> QED BY <1>3, <3>1, <3>4, <4>1
    <3> QED BY <3>5, <3>6
  <2>2. CASE ~GoesBack(s, n)
    <3>1. e = f + a
      BY <1>8, <2>2
    <3> HIDE DEF x, r, size, p, q, b, f
    <3>2. f \in {FromOf(s), ToOf(s) - ReachOf(s)}
      BY <1>8, <2>2 DEF f
    <3>3. a = IF s.step < 0 THEN -x ELSE x
      BY <1>5
    <3> HIDE DEF a
    <3> QED BY <1>1, <1>3, <1>5, <1>6, <3>1, <3>2, <3>3
  <2> QED BY <2>1, <2>2
<1>10. /\ (p < e /\ e < q) <=> j # st
       /\ e \in Int
       /\ \/ p <= e /\ e <= p + r
          \/ q - r <= e /\ e <= q
  <2>1. p \in Int /\ q \in Int
    BY <1>1
  <2> HIDE DEF p, q, size
  <2> QED BY <1>2, <1>9, <2>1, SweepInside
<1>11. e \in 0 .. PitchCount - 1
  <2> HIDE DEF p, q, r
  <2> QED BY <1>1, <1>3, <1>7, <1>10
<1> QED
  BY <1>10, <1>11 DEF Between

\* advancePitch(), field by field.
LEMMA AdvancedParts ==
    ASSUME NEW y, IsSynthesizer(y), NEW z, z = Synth!Advanced(y),
           NEW c, c = Synth!Pitch(y.currentPitch + sound.step * y.direction)
    PROVE  /\ IsSynthesizer(z)
           /\ z.remaining = y.remaining /\ z.pitchRemaining = y.pitchRemaining
           /\ z.random = y.random /\ z.fuzz = y.fuzz /\ z.halfCycle = y.halfCycle
           /\ sound.step = 0 => z = y
           /\ sound.step # 0 /\ sound.step = Wild =>
                /\ z.currentPitch = Synth!Pitch(y.currentPitch + PitchCount + Wild)
                /\ z.direction = y.direction /\ z.wrapRemaining = y.wrapRemaining
           /\ sound.step \notin {0, Wild} =>
                /\ Between(sound, c) =>
                     /\ z.currentPitch = c
                     /\ z.direction = y.direction /\ z.wrapRemaining = y.wrapRemaining
                /\ ~Between(sound, c) /\ y.wrapRemaining > 0 =>
                     /\ z.currentPitch = IF sound.step * y.direction < 0 THEN sound.pitch2
                                         ELSE sound.pitch
                     /\ z.direction = y.direction
                     /\ z.wrapRemaining = IF y.wrapRemaining = Forever THEN Forever
                                          ELSE y.wrapRemaining - 1
                /\ ~Between(sound, c) /\ ~(y.wrapRemaining > 0) =>
                     /\ z.currentPitch = c
                     /\ z.direction = -y.direction
                     /\ z.wrapRemaining = sound.wrap
<1>1. CASE sound.step = 0
  BY <1>1 DEF Synth!Advanced
<1>2. CASE sound.step # 0 /\ sound.step = Wild
  <2>1. z = [y EXCEPT !.currentPitch = Synth!Pitch(@ + PitchCount + Wild)]
    BY <1>2 DEF Synth!Advanced
  <2> QED BY <1>2, <2>1 DEF IsSynthesizer
<1>3. CASE sound.step \notin {0, Wild} /\ Between(sound, c)
  <2>1. z = [y EXCEPT !.currentPitch = c]
    BY <1>3 DEF Synth!Advanced, Between
  <2> QED BY <1>3, <2>1 DEF IsSynthesizer
<1>4. CASE sound.step \notin {0, Wild} /\ ~Between(sound, c) /\ y.wrapRemaining > 0
  <2>1. z = [y EXCEPT !.currentPitch = IF sound.step * y.direction < 0 THEN sound.pitch2
                                       ELSE sound.pitch,
                      !.wrapRemaining = IF @ = Forever THEN @ ELSE @ - 1]
    BY <1>4 DEF Synth!Advanced, Between
  <2> QED BY <1>4, <2>1 DEF IsSynthesizer
<1>5. CASE sound.step \notin {0, Wild} /\ ~Between(sound, c) /\ ~(y.wrapRemaining > 0)
  <2>1. z = [y EXCEPT !.currentPitch = c, !.wrapRemaining = sound.wrap, !.direction = -@]
    BY <1>5 DEF Synth!Advanced, Between, Synth!NewWraps
  <2> QED BY <1>5, <2>1 DEF IsSynthesizer
<1> QED
  BY <1>1, <1>2, <1>3, <1>4, <1>5

\* Where a sweep is, by its place.
LEMMA SweepByPlace ==
    ASSUME NEW s \in SynthSounds, s.step # 0, NEW n \in Nat, NEW q, NEW v, NEW k,
           IsPlace(s.wrap, Synth!Steps(s), n, q, v, k)
    PROVE  /\ n % Synth!Steps(s) = k /\ SweepOf(s, n) = v
           /\ GoesBack(s, n) <=> s.wrap # Forever /\ q % 2 = 1
           /\ Heading(s, n) = IF s.wrap # Forever /\ q % 2 = 1 THEN -1 ELSE 1
           /\ SweepFrom(s, n) =
                IF s.wrap = Forever THEN FromOf(s)
                ELSE IF q % 2 = 1 THEN IF v = 0 THEN FromOf(s) + ReachOf(s) ELSE ToOf(s)
                ELSE IF v = 0 /\ q # 0 /\ s.wrap > 0 THEN ToOf(s) - ReachOf(s) ELSE FromOf(s)
<1> DEFINE w == s.wrap
           st == Synth!Steps(s)
<1>1. w \in Nat /\ st \in Nat \ {0}
  BY SoundType, SynthTypes, StepsReach
<1>2. n \div TurnOf(s) = q /\ SweepOf(s, n) = v /\ n % st = k
  <2>1. n \div ((w + 1) * st) = q /\ (n % ((w + 1) * st)) \div st = v /\ n % st = k
    <3> HIDE DEF w, st
    <3>1. IsPlace(w, st, n, q, v, k)
      BY DEF w, st
    <3> QED BY <1>1, <3>1, PlaceIsOne
  <2> QED BY <2>1, Zenon DEF TurnOf, SweepOf
<1>3. n >= TurnOf(s) <=> q # 0
  <2>1. n >= (w + 1) * st <=> q # 0
    <3> HIDE DEF w, st
    <3>1. IsPlace(w, st, n, q, v, k)
      BY DEF w, st
    <3> QED BY <1>1, <3>1, PastTurn
  <2> QED BY <2>1, Zenon DEF TurnOf
<1>4. GoesBack(s, n) <=> s.wrap # Forever /\ q % 2 = 1
  BY <1>2, Zenon DEF GoesBack
<1>5. Heading(s, n) = IF s.wrap # Forever /\ q % 2 = 1 THEN -1 ELSE 1
  BY <1>4, Zenon DEF Heading
<1>6. SweepFrom(s, n) =
        IF s.wrap = Forever THEN FromOf(s)
        ELSE IF q % 2 = 1 THEN IF v = 0 THEN FromOf(s) + ReachOf(s) ELSE ToOf(s)
        ELSE IF v = 0 /\ q # 0 /\ s.wrap > 0 THEN ToOf(s) - ReachOf(s) ELSE FromOf(s)
  <2>1. CASE s.wrap = Forever
    BY <2>1, Zenon DEF SweepFrom
  <2>2. CASE s.wrap # Forever
    <3>1. GoesBack(s, n) <=> q % 2 = 1
      BY <1>4, <2>2
    <3>2. CASE q % 2 = 1
      BY <1>2, <2>2, <3>1, <3>2, Zenon DEF SweepFrom
    <3>3. CASE ~(q % 2 = 1)
      <4>1. SweepFrom(s, n) = IF SweepOf(s, n) = 0 /\ n >= TurnOf(s) /\ s.wrap > 0
                              THEN ToOf(s) - ReachOf(s) ELSE FromOf(s)
        BY <2>2, <3>1, <3>3, Zenon DEF SweepFrom
      <4> QED BY <1>2, <1>3, <2>2, <3>3, <4>1, Zenon
    <3> QED BY <3>2, <3>3
  <2> QED BY <2>1, <2>2
<1> QED
  BY <1>2, <1>4, <1>5, <1>6

\* A step of a pitch that sweeps: on, from one end again, or round.
LEMMA SweepAdvances ==
    ASSUME sound \in SynthSounds, sound.step \notin {0, Wild}, Synth!Fits(sound),
           NEW n \in Nat, NEW y, IsSynthesizer(y), Sweeping(sound, n, y),
           NEW z, z = Synth!Advanced(y)
    PROVE  Sweeping(sound, n + 1, z)
<1> DEFINE w == sound.wrap
           st == Synth!Steps(sound)
           h == Heading(sound, n)
           a == SweepFrom(sound, n)
           d == sound.step * h
           c == Synth!Pitch(y.currentPitch + sound.step * y.direction)
           F == FromOf(sound)
           T == ToOf(sound)
           R == ReachOf(sound)
<1>1. /\ sound.step \in Int /\ sound.step # 0 /\ w \in 0 .. Forever /\ w \in Nat
      /\ PitchCount \in Nat \ {0} /\ Forever \in Nat \ {0}
      /\ sound.pitch \in Int /\ sound.pitch2 \in Int
  BY SoundType, SynthTypes
<1>2. st \in Nat \ {0}
  BY <1>1, StepsReach
<1>3. PICK q, v, k : IsPlace(w, st, n, q, v, k)
  BY <1>1, <1>2, PlaceOf, Zenon
<1>4. q \in Nat /\ v \in 0 .. w /\ k \in 0 .. st - 1
  BY <1>3 DEF IsPlace
<1>5. /\ n % st = k /\ SweepOf(sound, n) = v
      /\ h = IF w # Forever /\ q % 2 = 1 THEN -1 ELSE 1
      /\ a = IF w = Forever THEN F
             ELSE IF q % 2 = 1 THEN IF v = 0 THEN F + R ELSE T
             ELSE IF v = 0 /\ q # 0 /\ w > 0 THEN T - R ELSE F
  BY <1>1, <1>3, SweepByPlace
<1>6. F \in Int /\ T \in Int /\ R \in Int /\ h \in {1, -1} /\ a \in Int /\ d \in Int
  <2>1. F \in Int /\ T \in Int /\ R \in Int /\ h \in {1, -1}
    BY <1>1, <1>2, <1>5 DEF FromOf, ToOf, ReachOf
  <2>2. a \in Int
    <3> HIDE DEF F, T, R, a, h
    <3> QED BY <1>5, <2>1
  <2>3. d \in Int
    <3> HIDE DEF h
    <3> QED BY <1>1, <2>1
  <2> QED BY <2>1, <2>2, <2>3
<1>7. /\ y.direction = h /\ y.currentPitch = a + k * d
      /\ y.wrapRemaining = IF w = Forever THEN Forever ELSE w - v
  BY <1>5, Zenon DEF Sweeping
<1>8. c = a + (k + 1) * d /\ (Between(sound, c) <=> k + 1 # st)
  <2> DEFINE e == a + (k + 1) * d
  <2>1. k + 1 \in 1 .. st
    BY <1>2, <1>4
  <2>2. e \in 0 .. PitchCount - 1 /\ (Between(sound, e) <=> k + 1 # st)
    <3> DEFINE j == k + 1
    <3> HIDE DEF j
    <3>1. j \in 1 .. st
      BY <2>1 DEF j
    <3>2. /\ Between(sound, a + j * d) <=> j # st
          /\ a + j * d \in 0 .. PitchCount - 1
      BY <1>1, <3>1, SweepGoes
    <3> QED BY <3>2 DEF j
  <2>3. y.currentPitch + sound.step * y.direction = e
    <3> HIDE DEF a, d
    <3>1. sound.step * y.direction = d
      BY <1>7 DEF d
    <3>2. (k + 1) * d = k * d + d /\ k * d \in Int
      BY <1>4, <1>6
    <3> QED BY <1>6, <1>7, <3>1, <3>2
  <2> HIDE DEF e
  <2>4. e % PitchCount = e
    BY <1>1, <2>2
  <2>5. c = e
    BY <2>3, <2>4, Zenon DEF Synth!Pitch
  <2> QED BY <2>2, <2>5 DEF e
<1> DEFINE far == IF sound.step * y.direction < 0 THEN sound.pitch2 ELSE sound.pitch
<1>9. /\ Between(sound, c) =>
           z.currentPitch = c /\ z.direction = h /\ z.wrapRemaining = y.wrapRemaining
      /\ ~Between(sound, c) /\ y.wrapRemaining > 0 =>
           /\ z.currentPitch = far /\ z.direction = h
           /\ z.wrapRemaining = IF y.wrapRemaining = Forever THEN Forever
                                ELSE y.wrapRemaining - 1
      /\ ~Between(sound, c) /\ ~(y.wrapRemaining > 0) =>
           z.currentPitch = c /\ z.direction = -h /\ z.wrapRemaining = w
  <2>1. y.direction = h
    BY <1>7
  <2> HIDE DEF h, c
  <2>2. c = Synth!Pitch(y.currentPitch + sound.step * y.direction)
    BY DEF c
  <2> QED BY <2>1, <2>2, AdvancedParts
<1>10. ASSUME NEW p, NEW u, NEW i, IsPlace(w, st, n + 1, p, u, i),
              z.direction = (IF w # Forever /\ p % 2 = 1 THEN -1 ELSE 1),
              z.wrapRemaining = (IF w = Forever THEN Forever ELSE w - u),
              z.currentPitch =
                (IF w = Forever THEN F
                 ELSE IF p % 2 = 1 THEN IF u = 0 THEN F + R ELSE T
                 ELSE IF u = 0 /\ p # 0 /\ w > 0 THEN T - R ELSE F)
                + i * (sound.step * z.direction)
       PROVE  Sweeping(sound, n + 1, z)
  <2> DEFINE m == n + 1
  <2>1. m \in Nat
    OBVIOUS
  <2> HIDE DEF m
  <2>2. /\ m % st = i /\ SweepOf(sound, m) = u
        /\ Heading(sound, m) = IF w # Forever /\ p % 2 = 1 THEN -1 ELSE 1
        /\ SweepFrom(sound, m) =
             IF w = Forever THEN F
             ELSE IF p % 2 = 1 THEN IF u = 0 THEN F + R ELSE T
             ELSE IF u = 0 /\ p # 0 /\ w > 0 THEN T - R ELSE F
    <3>1. IsPlace(w, st, m, p, u, i)
      BY <1>10 DEF m
    <3> QED BY <1>1, <2>1, <3>1, SweepByPlace
  <2>3. Sweeping(sound, m, z)
    BY <1>10, <2>2, Zenon DEF Sweeping
  <2> QED BY <2>3 DEF m
<1>11. CASE k + 1 # st
  <2>1. IsPlace(w, st, n + 1, q, v, k + 1)
    BY <1>1, <1>2, <1>3, <1>11, NextPlace
  <2>2. z.currentPitch = a + (k + 1) * (sound.step * z.direction) /\ z.direction = h
    BY <1>8, <1>9, <1>11, Zenon
  <2>3. z.wrapRemaining = IF w = Forever THEN Forever ELSE w - v
    BY <1>7, <1>8, <1>9, <1>11, Zenon
  <2> HIDE DEF w, st, h, a, F, T, R
  <2> QED BY <1>5, <1>10, <2>1, <2>2, <2>3, Zenon
<1>12. CASE k + 1 = st /\ w = Forever
  <2>1. h = 1 /\ y.wrapRemaining = Forever /\ Forever > 0
    BY <1>1, <1>5, <1>7, <1>12
  <2>2. far = F
    BY <1>1, <1>7, <2>1 DEF FromOf
  <2>3. z.currentPitch = F /\ z.direction = 1 /\ z.wrapRemaining = Forever
    BY <1>8, <1>9, <1>12, <2>1, <2>2, Zenon
  <2>4. \E p, u : IsPlace(w, st, n + 1, p, u, 0)
    <3>1. CASE v # w
      BY <1>1, <1>2, <1>3, <1>12, <3>1, NextPlace, Zenon
    <3>2. CASE v = w
      <4>1. IsPlace(w, st, n + 1, q + 1, 0, 0)
        BY <1>1, <1>2, <1>3, <1>12, <3>2, NextPlace, Zenon
      <4> QED BY <4>1, Zenon
    <3> QED BY <3>1, <3>2
  <2>5. PICK p, u : IsPlace(w, st, n + 1, p, u, 0)
    BY <2>4
  <2>6. F + 0 * (sound.step * 1) = F
    <3> HIDE DEF F
    <3> QED BY <1>1, <1>6
  <2> HIDE DEF w, st, F, T, R
  <2> QED BY <1>10, <1>12, <2>3, <2>5, <2>6, Zenon
<1>13. CASE k + 1 = st /\ w # Forever /\ v # w
  <2>1. IsPlace(w, st, n + 1, q, v + 1, 0)
    BY <1>1, <1>2, <1>3, <1>13, NextPlace, Zenon
  <2>2. /\ y.wrapRemaining = w - v /\ w - v > 0 /\ w - v # Forever
        /\ w - v - 1 = w - (v + 1) /\ v + 1 # 0
    BY <1>1, <1>4, <1>7, <1>13
  <2>3. z.currentPitch = far /\ z.direction = h /\ z.wrapRemaining = w - (v + 1)
    BY <1>8, <1>9, <1>13, <2>2, Zenon
  <2>4. far = IF q % 2 = 1 THEN T ELSE F
    <3>1. CASE q % 2 = 1
      <4>1. h = -1
        BY <1>5, <1>13, <3>1
      <4> QED BY <1>1, <1>7, <3>1, <4>1 DEF ToOf
    <3>2. CASE q % 2 # 1
      <4>1. h = 1
        BY <1>5, <1>13, <3>2
      <4> QED BY <1>1, <1>7, <3>2, <4>1 DEF FromOf
    <3> QED BY <3>1, <3>2
  <2>5. far + 0 * (sound.step * h) = far
    <3>1. far \in Int
      BY <1>1
    <3> HIDE DEF far, h
    <3> QED BY <1>1, <1>6, <3>1
  <2> HIDE DEF w, st, F, T, R, far, h
  <2>6. z.currentPitch = (IF q % 2 = 1 THEN T ELSE F) + 0 * (sound.step * z.direction)
    BY <2>3, <2>4, <2>5, Zenon
  <2> QED BY <1>5, <1>10, <1>13, <2>1, <2>2, <2>3, <2>6, Zenon
<1>14. CASE k + 1 = st /\ w # Forever /\ v = w
  <2>1. IsPlace(w, st, n + 1, q + 1, 0, 0)
    BY <1>1, <1>2, <1>3, <1>14, NextPlace, Zenon
  <2>2. y.wrapRemaining = w - v /\ ~(w - v > 0) /\ w - 0 = w
    BY <1>1, <1>4, <1>7, <1>14
  <2>3. z.currentPitch = c /\ z.direction = -h /\ z.wrapRemaining = w - 0
    BY <1>8, <1>9, <1>14, <2>2, Zenon
  <2>4. ((q + 1) % 2 = 1 <=> ~(q % 2 = 1)) /\ q + 1 # 0
    BY <1>4
  <2>5. c = a + st * d
    BY <1>8, <1>14, Zenon
  <2>6. st * (sound.step * 1) = R /\ st * (sound.step * (-1)) = -R
    <3>1. st * (sound.step * (-1)) = -(st * sound.step)
      BY <1>1, <1>2
    <3> QED BY <1>1, <1>2, <3>1 DEF ReachOf
  <2> DEFINE e == IF (q + 1) % 2 = 1 THEN F + R ELSE IF w > 0 THEN T - R ELSE F
  <2>7. c = e
    <3>1. CASE q % 2 = 1
      <4>1. d = sound.step * (-1) /\ a = IF v = 0 THEN F + R ELSE T
        BY <1>5, <1>14, <3>1
      <4> HIDE DEF F, T, R, a, d, c
      <4>2. c = (IF v = 0 THEN F + R ELSE T) + (-R)
        BY <2>5, <2>6, <4>1, Zenon
      <4>3. v = 0 <=> ~(w > 0)
        BY <1>1, <1>4, <1>14
      <4> QED BY <1>6, <2>4, <3>1, <4>2, <4>3
    <3>2. CASE ~(q % 2 = 1)
      <4>1. v = 0 => ~(w > 0)
        BY <1>1, <1>4, <1>14
      <4>2. d = sound.step * 1 /\ a = F
        BY <1>5, <1>14, <3>2, <4>1
      <4> HIDE DEF F, T, R, a, d, c
      <4>3. c = F + R
        BY <2>5, <2>6, <4>2, Zenon
      <4> QED BY <2>4, <3>2, <4>3
    <3> QED BY <3>1, <3>2
  <2>8. e \in Int /\ -h = IF (q + 1) % 2 = 1 THEN -1 ELSE 1
    <3>1. e \in Int
      <4> HIDE DEF F, T, R
      <4> QED BY <1>6
    <3>2. -h = IF (q + 1) % 2 = 1 THEN -1 ELSE 1
      BY <1>5, <1>14, <2>4
    <3> QED BY <3>1, <3>2
  <2>9. e + 0 * (sound.step * (-h)) = e
    <3> HIDE DEF e, h
    <3> QED BY <1>1, <1>6, <2>8
  <2> HIDE DEF w, st, F, T, R, h, c
  <2>10. z.currentPitch = e + 0 * (sound.step * z.direction)
    BY <2>3, <2>7, <2>9, Zenon
  <2>11. z.direction = IF (q + 1) % 2 = 1 THEN -1 ELSE 1
    BY <2>3, <2>8, Zenon
  <2> QED BY <1>10, <1>14, <2>1, <2>3, <2>4, <2>10, <2>11, Zenon
<1> QED
  BY <1>11, <1>12, <1>13, <1>14

\* A step of the pitch, whatever its kind.
LEMMA PitchAdvances ==
    ASSUME sound \in SynthSounds, NEW n \in Nat, NEW y, IsSynthesizer(y),
           PitchGoes(sound, n, y), NEW z, z = Synth!Advanced(y)
    PROVE  PitchGoes(sound, n + 1, z)
<1> DEFINE c == Synth!Pitch(y.currentPitch + sound.step * y.direction)
<1>1. /\ sound.step \in Int /\ sound.wrap \in Nat /\ PitchCount \in Nat \ {0}
      /\ sound.pitch \in Int /\ sound.pitch2 \in Int /\ Wild \in Int /\ Wild < 0
      /\ Forever \in Nat
  BY SoundType, SynthTypes
<1>2. y.direction \in {1, -1} /\ y.wrapRemaining \in Int /\ y.currentPitch \in Int
  BY Zenon DEF PitchGoes
<1>3. c \in Int
  <2> DEFINE e == y.currentPitch + sound.step * y.direction
  <2>1. e \in Int
    BY <1>1, <1>2
  <2> HIDE DEF e
  <2>2. e % PitchCount \in Int
    BY <1>1, <2>1
  <2> QED BY <2>2 DEF e, Synth!Pitch
<1>4. CASE sound.step = 0
  <2>1. z = y
    BY <1>4, AdvancedParts
  <2>2. sound.step # Wild
    BY <1>1, <1>4
  <2> QED BY <1>4, <2>1, <2>2, Zenon DEF PitchGoes
<1>5. CASE sound.step # 0 /\ sound.step = Wild
  <2> DEFINE m == PitchCount
             x == sound.pitch2 + n * Wild
             r == x % m
             u == r + m + Wild
  <2>1. /\ z.currentPitch = Synth!Pitch(y.currentPitch + PitchCount + Wild)
        /\ z.direction = y.direction /\ z.wrapRemaining = y.wrapRemaining
    BY <1>5, AdvancedParts
  <2>2. y.currentPitch = r
    BY <1>5, Zenon DEF PitchGoes, Synth!Pitch
  <2>3. x \in Int /\ x + Wild = sound.pitch2 + (n + 1) * Wild
    <3>1. (n + 1) * Wild = n * Wild + Wild /\ n * Wild \in Int
      BY <1>1
    <3> QED BY <1>1, <3>1
  <2> HIDE DEF x
  <2>4. (x + Wild) % m = u % m /\ u % m \in Int
    <3> DEFINE q == x \div m
               p == u \div m
               t == u % m
               k == q - 1 + p
    <3>1. q \in Int /\ r \in 0 .. m - 1 /\ x = m * q + r
      BY <1>1, <2>3
    <3>2. u \in Int
      BY <1>1, <3>1
    <3> HIDE DEF q, r
    <3> HIDE DEF u
    <3>3. p \in Int /\ t \in 0 .. m - 1 /\ u = m * p + t
      BY <1>1, <3>2
    <3> HIDE DEF p, t
    <3>4. k \in Int /\ x + Wild = k * m + t
      <4>1. (q - 1 + p) * m = m * q - m + m * p
        BY <1>1, <3>1, <3>3
      <4>2. m * q \in Int /\ m * p \in Int
        BY <1>1, <3>1, <3>3
      <4>3. x + Wild = m * q + (u - m)
        BY <1>1, <3>1, <4>2 DEF u
      <4> QED BY <1>1, <3>1, <3>3, <4>1, <4>2, <4>3
    <3> HIDE DEF k
    <3>5. (k * m + t) % m = t
      BY <1>1, <3>3, <3>4, PutTogetherAgain
    <3>6. (x + Wild) % m = t
      BY <3>4, <3>5, Zenon
    <3> QED BY <1>1, <3>3, <3>6 DEF t
  <2>5. z.currentPitch = (x + Wild) % m
    <3>1. z.currentPitch = u % m
      BY <2>1, <2>2, Zenon DEF Synth!Pitch
    <3> HIDE DEF u
    <3> QED BY <2>4, <3>1, Zenon
  <2>6. z.currentPitch = Synth!Pitch(sound.pitch2 + (n + 1) * Wild) /\ z.currentPitch \in Int
    BY <2>3, <2>4, <2>5, Zenon DEF Synth!Pitch
  <2> QED BY <1>2, <1>5, <2>1, <2>6, Zenon DEF PitchGoes
<1>6. CASE sound.step \notin {0, Wild}
  <2>1. z.direction \in {1, -1} /\ z.wrapRemaining \in Int /\ z.currentPitch \in Int
    <3> HIDE DEF c
    <3>1. c = Synth!Pitch(y.currentPitch + sound.step * y.direction)
      BY DEF c
    <3>2. CASE Between(sound, c)
      <4>1. z.currentPitch = c /\ z.direction = y.direction /\ z.wrapRemaining = y.wrapRemaining
        BY <1>6, <3>1, <3>2, AdvancedParts
      <4> QED BY <1>2, <1>3, <4>1
    <3>3. CASE ~Between(sound, c) /\ y.wrapRemaining > 0
      <4>1. /\ z.currentPitch = IF sound.step * y.direction < 0 THEN sound.pitch2 ELSE sound.pitch
            /\ z.direction = y.direction
            /\ z.wrapRemaining = IF y.wrapRemaining = Forever THEN Forever ELSE y.wrapRemaining - 1
        BY <1>6, <3>1, <3>3, AdvancedParts
      <4> QED BY <1>1, <1>2, <4>1
    <3>4. CASE ~Between(sound, c) /\ ~(y.wrapRemaining > 0)
      <4>1. z.currentPitch = c /\ z.direction = -y.direction /\ z.wrapRemaining = sound.wrap
        BY <1>6, <3>1, <3>4, AdvancedParts
      <4> QED BY <1>1, <1>2, <1>3, <4>1
    <3> QED BY <3>2, <3>3, <3>4
  <2>2. ASSUME Synth!Fits(sound) PROVE Sweeping(sound, n + 1, z)
    <3>1. Sweeping(sound, n, y)
      BY <1>6, <2>2, Zenon DEF PitchGoes
    <3> QED BY <1>6, <2>2, <3>1, SweepAdvances
  <2>3. sound.step # 0 /\ sound.step # Wild
    BY <1>6
  <2> QED BY <2>1, <2>2, <2>3, Zenon DEF PitchGoes
<1> QED
  BY <1>4, <1>5, <1>6

\* The pitch that a sound should have.
LEMMA PitchIsIt ==
    ASSUME NEW s \in SynthSounds, NEW n \in Nat, NEW y, PitchGoes(s, n, y),
           Synth!Fits(s) \/ s.step = Wild
    PROVE  y.currentPitch = Synth!PitchAfter(s, n)
<1>1. /\ s.step \in Int /\ s.wrap \in Nat /\ s.pitch \in Int /\ s.pitch2 \in Int
      /\ Wild \in Int /\ Wild < 0
  BY SoundType, SynthTypes
<1>2. CASE s.step = 0
  BY <1>2, Zenon DEF PitchGoes, Synth!PitchAfter
<1>3. CASE s.step # 0 /\ s.step = Wild
  BY <1>3, Zenon DEF PitchGoes, Synth!PitchAfter
<1>4. CASE s.step # 0 /\ s.step # Wild
  <2> DEFINE st == Synth!Steps(s)
             k == n % st
             f == FromOf(s)
             t == ToOf(s)
  <2>1. y.currentPitch = SweepFrom(s, n) + k * (s.step * Heading(s, n))
    <3>1. Sweeping(s, n, y)
      BY <1>4, Zenon DEF PitchGoes
    <3> QED BY <3>1, Zenon DEF Sweeping
  <2>2. st \in Nat \ {0}
    BY <1>4, StepsReach
  <2>3. f \in Int /\ t \in Int
    BY <1>1 DEF FromOf, ToOf
  <2>4. k \in Int
    <3> HIDE DEF st
    <3> QED BY <2>2
  <2>5. Synth!PitchAfter(s, n) =
          IF s.wrap = Forever THEN f + k * s.step
          ELSE IF GoesBack(s, n)
            THEN IF SweepOf(s, n) = 0 THEN f + (st - k) * s.step ELSE t - k * s.step
          ELSE IF SweepOf(s, n) = 0 /\ n >= TurnOf(s) /\ s.wrap > 0
            THEN t - (st - k) * s.step
          ELSE f + k * s.step
    <3>1. Synth!PitchAfter(s, n) =
          IF s.wrap = Forever THEN f + k * s.step
          ELSE IF (n \div TurnOf(s)) % 2 = 1
            THEN IF SweepOf(s, n) = 0 THEN f + (st - k) * s.step ELSE t - k * s.step
          ELSE IF SweepOf(s, n) = 0 /\ n >= TurnOf(s) /\ s.wrap > 0
            THEN t - (st - k) * s.step
          ELSE f + k * s.step
      BY <1>4, Zenon DEF Synth!PitchAfter, FromOf, ToOf, TurnOf, SweepOf
    <3>2. CASE s.wrap = Forever
      BY <3>1, <3>2, Zenon
    <3>3. CASE s.wrap # Forever
      <4>1. GoesBack(s, n) <=> (n \div TurnOf(s)) % 2 = 1
        BY <3>3, Zenon DEF GoesBack
      <4> QED BY <3>1, <3>3, <4>1, Zenon
    <3> QED BY <3>2, <3>3
  <2> HIDE DEF k, st, f, t
  <2>6. /\ (st - k) * s.step = st * s.step - k * s.step /\ k * s.step \in Int /\ st * s.step \in Int
        /\ k * (s.step * 1) = k * s.step /\ k * (s.step * (-1)) = -(k * s.step)
    BY <1>1, <2>2, <2>4
  <2> DEFINE a == k * s.step
             r == st * s.step
  <2>7. ReachOf(s) = r
    BY DEF ReachOf, st
  <2>8. CASE s.wrap = Forever
    <3>1. ~GoesBack(s, n)
      BY <2>8, Zenon DEF GoesBack
    <3>2. SweepFrom(s, n) = f /\ Heading(s, n) = 1
      BY <2>8, <3>1, Zenon DEF SweepFrom, Heading, f
    <3> QED BY <2>1, <2>5, <2>6, <2>8, <3>2, Zenon
  <2>9. CASE s.wrap # Forever /\ GoesBack(s, n)
    <3>1. /\ Heading(s, n) = -1
          /\ SweepFrom(s, n) = IF SweepOf(s, n) = 0 THEN f + r ELSE t
      BY <2>7, <2>9, Zenon DEF SweepFrom, Heading, f, t
    <3>2. y.currentPitch = (IF SweepOf(s, n) = 0 THEN f + r ELSE t) + (-a)
      BY <2>1, <2>6, <3>1, Zenon
    <3>3. Synth!PitchAfter(s, n) = IF SweepOf(s, n) = 0 THEN f + (r - a) ELSE t - a
      BY <2>5, <2>6, <2>9, Zenon
    <3>4. a \in Int /\ r \in Int
      BY <2>6
    <3> HIDE DEF a, r
    <3> QED BY <2>3, <3>2, <3>3, <3>4
  <2>10. CASE s.wrap # Forever /\ ~GoesBack(s, n)
    <3> DEFINE Other == SweepOf(s, n) = 0 /\ n >= TurnOf(s) /\ s.wrap > 0
    <3>1. Heading(s, n) = 1 /\ SweepFrom(s, n) = IF Other THEN t - r ELSE f
      BY <2>7, <2>10, Zenon DEF SweepFrom, Heading, f, t
    <3>2. y.currentPitch = (IF Other THEN t - r ELSE f) + a
      BY <2>1, <2>6, <3>1, Zenon
    <3>3. Synth!PitchAfter(s, n) = IF Other THEN t - (r - a) ELSE f + a
      BY <2>5, <2>6, <2>10, Zenon
    <3>4. a \in Int /\ r \in Int
      BY <2>6
    <3> HIDE DEF a, r, Other
    <3> QED BY <2>3, <3>2, <3>3, <3>4
  <2> QED BY <2>8, <2>9, <2>10
<1> QED
  BY <1>2, <1>3, <1>4

----------------------------------------------------------------------------
(* Samples.                                                                *)

\* The samples of an interval or a duration.
LEMMA SamplesFacts ==
    ASSUME NEW ticks \in Nat, NEW size, size = Synth!SamplesOf(ticks),
           NEW units, units = Synth!Units(ticks)
    PROVE  /\ size \in Nat /\ units \in Nat /\ (ticks # 0 => size # 0 /\ units # 0)
           /\ (ticks = 0 => units = 0)
           /\ \A k \in Nat : k * RateTicks < units <=> k < size
<1>1. RateTicks \in Nat \ {0} /\ RateSamples \in Nat \ {0}
  BY SynthTypes
<1>2. units = ticks * RateSamples
  BY DEF Synth!Units
<1>3. units \in Nat /\ (ticks = 0 => units = 0)
  BY <1>1, <1>2
<1>4. ticks # 0 => units # 0
  <2> SUFFICES ASSUME ticks # 0 PROVE units # 0
    OBVIOUS
  <2>1. 1 * RateSamples <= ticks * RateSamples
    BY <1>1, Multiples
  <2> QED BY <1>1, <1>2, <2>1
<1>5. size = Synth!Ceiling(units, RateTicks)
  BY DEF Synth!SamplesOf
<1>6. size \in Nat /\ \A k \in Nat : k * RateTicks < units <=> k < size
  BY <1>1, <1>3, <1>5, CeilingFacts
<1>7. ticks # 0 => size # 0
  <2>1. 0 * RateTicks < units <=> 0 < size
    BY <1>6
  <2> QED BY <1>1, <1>3, <1>4, <1>6, <2>1
<1> QED
  BY <1>3, <1>4, <1>6, <1>7

\* The invariant while a sound sounds.
SoundGoes(s, p, n, y) ==
    /\ s \in SynthSounds /\ IsSynthesizer(y)
    /\ TimeGoes(s, p, y) /\ IntervalGoes(s, p, n, y) /\ PitchGoes(s, n, y) /\ WaveGoes(y)

\* Before its first step a pitch is in the first place.
LEMMA FirstPlace ==
    ASSUME NEW w \in Nat, NEW st \in Nat \ {0}
    PROVE  IsPlace(w, st, 0, 0, 0, 0)
<1>1. (w + 1) * st \in Int /\ 0 * ((w + 1) * st) = 0 /\ 0 * st = 0
  OBVIOUS
<1> QED
  BY <1>1 DEF IsPlace

\* A sound begins at its first pitch, with the whole of its duration.
LEMMA StartSounds ==
    ASSUME NEW s \in SynthSounds, Synth!Start(s)
    PROVE  SoundGoes(s, 0, 0, synthesizer')
<1> DEFINE first == IF s.step < 0 THEN s.pitch2 ELSE s.pitch
           y == synthesizer'
           time == Synth!Units(s.duration)
           size == Synth!SamplesOf(s.interval)
           units == Synth!Units(s.interval)
<1>1. y = [remaining |-> time, pitchRemaining |-> Synth!PitchDuration(s, time),
           direction |-> 1, wrapRemaining |-> s.wrap, currentPitch |-> first,
           random |-> 0, fuzz |-> 0, halfCycle |-> Synth!HalfCycle(first, 0, 0)]
  BY Zenon DEF Synth!Start
<1>2. /\ y.remaining = time /\ y.pitchRemaining = Synth!PitchDuration(s, time)
      /\ y.direction = 1 /\ y.wrapRemaining = s.wrap /\ y.currentPitch = first
      /\ y.random = 0 /\ y.fuzz = 0 /\ y.halfCycle = Synth!HalfCycle(first, 0, 0)
      /\ IsSynthesizer(y)
  <2> HIDE DEF first, time
  <2> QED BY <1>1 DEF IsSynthesizer
<1> HIDE DEF y
<1>3. /\ s.step \in Int /\ s.wrap \in 0 .. Forever /\ s.interval \in Nat /\ s.duration \in Nat
      /\ s.pitch \in 0 .. PitchCount - 1 /\ s.pitch2 \in 0 .. PitchCount - 1
      /\ Wild \in Int /\ Wild < 0 /\ Forever \in Nat /\ PitchCount \in Nat \ {0}
      /\ RateTicks \in Nat \ {0}
  BY SoundType, SynthTypes
<1>4. /\ time \in Nat /\ (s.duration = 0 => time = 0) /\ (s.duration # 0 => time # 0)
      /\ size \in Nat /\ units \in Nat /\ (s.interval # 0 => size # 0 /\ units # 0)
  BY <1>3, SamplesFacts
<1> HIDE DEF time, size, units
<1>5. TimeGoes(s, 0, y)
  <2>1. time = time - 0 * RateTicks
    BY <1>3, <1>4
  <2>2. CASE s.duration = 0
    BY <1>2, <1>4, <2>2 DEF TimeGoes
  <2>3. CASE s.duration # 0
    BY <1>2, <1>4, <2>1, <2>3 DEF TimeGoes, time
  <2> QED BY <2>2, <2>3
<1>6. IntervalGoes(s, 0, 0, y)
  <2>1. CASE s.interval = 0
    BY <2>1, Zenon DEF IntervalGoes
  <2>2. CASE s.interval # 0
    <3>1. 0 = 0 \div size /\ 0 % size = 0
      BY <1>4, <2>2
    <3>2. units - 0 * RateTicks = units /\ 0 < units
      BY <1>3, <1>4, <2>2
    <3>3. y.pitchRemaining = IF s.duration # 0 /\ time < units THEN time ELSE units
      BY <1>2, Zenon DEF Synth!PitchDuration, units
    <3>4. \/ y.pitchRemaining = units
          \/ s.duration # 0 /\ y.pitchRemaining = y.remaining /\ y.remaining < units
      BY <1>2, <3>3, Zenon
    <3>5. units - (0 % size) * RateTicks = units
      BY <3>1, <3>2, Zenon
    <3> QED BY <2>2, <3>1, <3>2, <3>4, <3>5, Zenon DEF IntervalGoes, size, units
  <2> QED BY <2>1, <2>2
<1>7. PitchGoes(s, 0, y)
  <2>1. y.direction \in {1, -1} /\ y.wrapRemaining \in Int /\ y.currentPitch \in Int
    BY <1>2, <1>3
  <2>2. s.step = 0 => y.currentPitch = s.pitch
    BY <1>2, <1>3
  <2>3. s.step = Wild => y.currentPitch = Synth!Pitch(s.pitch2 + 0 * Wild)
    <3> SUFFICES ASSUME s.step = Wild PROVE y.currentPitch = Synth!Pitch(s.pitch2 + 0 * Wild)
      OBVIOUS
    <3>1. y.currentPitch = s.pitch2
      BY <1>2, <1>3
    <3>2. s.pitch2 + 0 * Wild = s.pitch2
      BY <1>3
    <3>3. s.pitch2 % PitchCount = s.pitch2
      BY <1>3
    <3> QED BY <3>1, <3>2, <3>3, Zenon DEF Synth!Pitch
  <2>4. ASSUME s.step # 0 PROVE Sweeping(s, 0, y)
    <3> DEFINE w == s.wrap
               st == Synth!Steps(s)
    <3>1. w \in Nat /\ st \in Nat \ {0}
      BY <1>3, <2>4, StepsReach
    <3>2. IsPlace(w, st, 0, 0, 0, 0)
      <4> HIDE DEF w, st
      <4> QED BY <3>1, FirstPlace
    <3>3. /\ 0 % st = 0 /\ SweepOf(s, 0) = 0
          /\ Heading(s, 0) = IF w # Forever /\ 0 % 2 = 1 THEN -1 ELSE 1
          /\ SweepFrom(s, 0) =
                IF w = Forever THEN FromOf(s)
                ELSE IF 0 % 2 = 1 THEN IF 0 = 0 THEN FromOf(s) + ReachOf(s) ELSE ToOf(s)
                ELSE IF 0 = 0 /\ 0 # 0 /\ w > 0 THEN ToOf(s) - ReachOf(s) ELSE FromOf(s)
      <4> DEFINE zero == 0
      <4>1. zero \in Nat
        OBVIOUS
      <4> HIDE DEF zero
      <4>2. IsPlace(w, st, zero, zero, zero, zero)
        BY <3>2 DEF zero
      <4> QED BY <2>4, <4>1, <4>2, SweepByPlace, Zenon DEF zero
    <3>4. Heading(s, 0) = 1 /\ SweepFrom(s, 0) = FromOf(s)
      BY <3>3
    <3>5. first + 0 * (s.step * 1) = first /\ w - 0 = w
      BY <1>3
    <3>6. y.currentPitch = SweepFrom(s, 0) + (0 % st) * (s.step * Heading(s, 0))
      BY <1>2, <3>3, <3>4, <3>5, Zenon DEF FromOf
    <3>7. y.wrapRemaining = IF w = Forever THEN Forever ELSE w - SweepOf(s, 0)
      BY <1>2, <3>3, <3>5, Zenon
    <3> QED BY <1>2, <3>4, <3>6, <3>7, Zenon DEF Sweeping
  <2>5. s.step \notin {0, Wild} => s.step # 0
    OBVIOUS
  <2> QED BY <2>1, <2>2, <2>3, <2>4, <2>5, Zenon DEF PitchGoes
<1>8. WaveGoes(y)
  BY <1>2, Zenon DEF WaveGoes
<1> QED
  BY <1>2, <1>5, <1>6, <1>7, <1>8, Zenon DEF SoundGoes, y

\* One sample goes by.
LEMMA CountedParts ==
    ASSUME NEW y, IsSynthesizer(y), NEW z, z = Synth!Counted(y)
    PROVE  /\ IsSynthesizer(z)
           /\ z.remaining = IF sound.duration = 0 THEN y.remaining ELSE y.remaining - RateTicks
           /\ z.pitchRemaining = IF sound.interval = 0 THEN y.pitchRemaining
                                 ELSE y.pitchRemaining - RateTicks
           /\ z.direction = y.direction /\ z.wrapRemaining = y.wrapRemaining
           /\ z.currentPitch = y.currentPitch
           /\ z.random = y.random /\ z.fuzz = y.fuzz /\ z.halfCycle = y.halfCycle
<1>1. z = [y EXCEPT !.remaining = IF sound.duration = 0 THEN @ ELSE @ - RateTicks,
                    !.pitchRemaining = IF sound.interval = 0 THEN @ ELSE @ - RateTicks]
  BY DEF Synth!Counted, Synth!WithoutEnd
<1> DEFINE a == IF sound.duration = 0 THEN y.remaining ELSE y.remaining - RateTicks
           b == IF sound.interval = 0 THEN y.pitchRemaining ELSE y.pitchRemaining - RateTicks
<1>2. z = [y EXCEPT !.remaining = a, !.pitchRemaining = b]
  BY <1>1
<1> HIDE DEF a, b
<1>3. /\ IsSynthesizer(z) /\ z.remaining = a /\ z.pitchRemaining = b
      /\ z.direction = y.direction /\ z.wrapRemaining = y.wrapRemaining
      /\ z.currentPitch = y.currentPitch
      /\ z.random = y.random /\ z.fuzz = y.fuzz /\ z.halfCycle = y.halfCycle
  BY <1>2 DEF IsSynthesizer
<1> QED
  BY <1>3 DEF a, b

\* What is left after a sample: of the sound, and of the interval if it goes on.
LEMMA TimeLeft ==
    ASSUME NEW s \in SynthSounds, NEW p \in Nat, NEW n \in Nat, NEW y, NEW z,
           TimeGoes(s, p, y), IntervalGoes(s, p, n, y),
           z.remaining = (IF s.duration = 0 THEN y.remaining ELSE y.remaining - RateTicks),
           z.pitchRemaining = (IF s.interval = 0 THEN y.pitchRemaining
                               ELSE y.pitchRemaining - RateTicks),
           ~(s.duration # 0 /\ z.remaining <= 0)
    PROVE  /\ TimeGoes(s, p + 1, z)
           /\ ~(s.interval # 0 /\ z.pitchRemaining <= 0) => IntervalGoes(s, p + 1, n, z)
           /\ s.interval # 0 /\ z.pitchRemaining <= 0 =>
                \A x : /\ x.remaining = z.remaining
                       /\ x.pitchRemaining = Synth!PitchDuration(s, z.remaining)
                       => IntervalGoes(s, p + 1, n + 1, x)
<1> DEFINE time == Synth!Units(s.duration)
           units == Synth!Units(s.interval)
           size == Synth!SamplesOf(s.interval)
           k == p % size
           part == k * RateTicks
           left == units - part
           past == p * RateTicks
<1>1. s.interval \in Nat /\ s.duration \in Nat /\ RateTicks \in Nat \ {0}
  BY SoundType, SynthTypes
<1>2. /\ time \in Nat /\ size \in Nat /\ units \in Nat
      /\ (s.interval # 0 => size # 0 /\ units # 0)
      /\ \A j \in Nat : j * RateTicks < units <=> j < size
  BY <1>1, SamplesFacts
<1> HIDE DEF time, units, size
<1>3. past \in Int /\ (p + 1) * RateTicks = past + RateTicks
  BY <1>1
<1>4. /\ y.remaining \in Int /\ z.remaining \in Int
      /\ s.duration # 0 => /\ y.remaining = time - past /\ z.remaining = y.remaining - RateTicks
                           /\ 0 < z.remaining
      /\ s.duration = 0 => y.remaining = 0 /\ z.remaining = 0
  <2>1. CASE s.duration = 0
    BY <2>1 DEF TimeGoes
  <2>2. CASE s.duration # 0
    <3>1. y.remaining = time - past
      BY <2>2, Zenon DEF TimeGoes, time
    <3>2. y.remaining \in Int
      BY <1>2, <1>3, <3>1
    <3>3. z.remaining = y.remaining - RateTicks
      BY <2>2
    <3> QED BY <1>1, <2>2, <3>1, <3>2, <3>3
  <2> QED BY <2>1, <2>2
<1>5. TimeGoes(s, p + 1, z)
  <2>1. CASE s.duration = 0
    BY <1>4, <2>1, Zenon DEF TimeGoes
  <2>2. CASE s.duration # 0
    <3>1. z.remaining = time - (p + 1) * RateTicks
      BY <1>1, <1>2, <1>3, <1>4, <2>2
    <3> QED BY <1>4, <2>2, <3>1, Zenon DEF TimeGoes, time
  <2> QED BY <2>1, <2>2
<1>6. CASE s.interval = 0
  BY <1>5, <1>6, Zenon DEF IntervalGoes
<1>7. CASE s.interval # 0
  <2> DEFINE h == k + 1
  <2>1. size \in Nat \ {0}
    BY <1>2, <1>7
  <2>2. /\ k \in 0 .. size - 1 /\ p \div size \in Nat
        /\ (p + 1) % size = IF h = size THEN 0 ELSE h
        /\ (p + 1) \div size = IF h = size THEN (p \div size) + 1 ELSE p \div size
    BY <2>1, OneMore
  <2>3. /\ n = p \div size /\ 0 < left
        /\ \/ y.pitchRemaining = left
           \/ s.duration # 0 /\ y.pitchRemaining = y.remaining /\ y.remaining < left
    BY <1>7, Zenon DEF IntervalGoes, size, units
  <2> HIDE DEF k
  <2>4. h \in Nat /\ h <= size
    BY <2>1, <2>2
  <2>5. part \in Int /\ h * RateTicks = part + RateTicks
    <3>1. k \in Nat
      BY <2>1, <2>2
    <3> QED BY <1>1, <3>1
  <2>6. h * RateTicks < units <=> h < size
    <3> HIDE DEF h
    <3> QED BY <1>2, <2>4
  <2> HIDE DEF part
  <2>7. h = size <=> left - RateTicks <= 0
    BY <1>1, <1>2, <2>4, <2>5, <2>6
  <2>8. z.pitchRemaining = y.pitchRemaining - RateTicks
    BY <1>7
  <2>9. /\ y.pitchRemaining = left => z.pitchRemaining = left - RateTicks
        /\ y.pitchRemaining # left =>
             /\ s.duration # 0 /\ z.pitchRemaining = z.remaining
             /\ z.remaining < left - RateTicks /\ 0 < z.pitchRemaining /\ h # size
    <3>1. ASSUME y.pitchRemaining # left
          PROVE  /\ s.duration # 0 /\ z.pitchRemaining = z.remaining
                 /\ z.remaining < left - RateTicks /\ 0 < z.pitchRemaining /\ h # size
      <4>1. s.duration # 0 /\ y.pitchRemaining = y.remaining /\ y.remaining < left
        BY <2>3, <3>1
      <4>2. z.pitchRemaining = z.remaining
        BY <1>4, <2>8, <4>1
      <4>3. z.remaining < left - RateTicks /\ 0 < z.remaining
        BY <1>1, <1>2, <1>4, <2>5, <4>1
      <4>4. ~(left - RateTicks <= 0)
        BY <1>1, <1>2, <1>4, <2>5, <4>3
      <4> QED BY <2>7, <4>1, <4>2, <4>3, <4>4
    <3> QED BY <2>8, <3>1
  <2>10. ASSUME h # size PROVE IntervalGoes(s, p + 1, n, z)
    <3>1. n = (p + 1) \div size /\ (p + 1) % size = h
      BY <2>2, <2>3, <2>10
    <3> DEFINE rest == units - ((p + 1) % size) * RateTicks
    <3>2. units - h * RateTicks = left - RateTicks
      BY <1>1, <1>2, <2>5
    <3>3. rest = left - RateTicks
      BY <3>1, <3>2, Zenon
    <3>4. left - RateTicks \in Int /\ 0 < left - RateTicks
      BY <1>1, <1>2, <2>5, <2>7, <2>10
    <3> HIDE DEF rest, left
    <3>5. /\ 0 < rest
          /\ \/ z.pitchRemaining = rest
             \/ s.duration # 0 /\ z.pitchRemaining = z.remaining /\ z.remaining < rest
      BY <2>9, <3>3, <3>4
    <3> QED BY <1>7, <3>1, <3>5, Zenon DEF IntervalGoes, size, units, rest
  <2>11. z.pitchRemaining <= 0 <=> h = size
    <3>1. CASE y.pitchRemaining = left
      BY <2>7, <2>9, <3>1
    <3>2. CASE y.pitchRemaining # left
      BY <1>4, <2>9, <3>2
    <3> QED BY <3>1, <3>2
  <2>12. ASSUME h = size, NEW x, x.remaining = z.remaining,
                x.pitchRemaining = Synth!PitchDuration(s, z.remaining)
         PROVE  IntervalGoes(s, p + 1, n + 1, x)
    <3>1. n + 1 = (p + 1) \div size /\ (p + 1) % size = 0
      BY <2>2, <2>3, <2>12
    <3>2. units - 0 * RateTicks = units /\ 0 < units
      BY <1>1, <1>2, <1>7
    <3>3. units - ((p + 1) % size) * RateTicks = units
      BY <3>1, <3>2, Zenon
    <3>4. x.pitchRemaining = IF s.duration # 0 /\ z.remaining < units THEN z.remaining ELSE units
      BY <2>12, Zenon DEF Synth!PitchDuration, units
    <3>5. \/ x.pitchRemaining = units
          \/ s.duration # 0 /\ x.pitchRemaining = x.remaining /\ x.remaining < units
      BY <2>12, <3>4, Zenon
    <3> QED BY <1>7, <3>1, <3>2, <3>3, <3>5, Zenon DEF IntervalGoes, size, units
  <2> QED BY <1>5, <1>7, <2>10, <2>11, <2>12, Zenon
<1> QED
  BY <1>6, <1>7

\* A sample ends the sound, or counts, and may bring a step of the pitch.
LEMMA SampleKeeps ==
    ASSUME played \in Nat, advances \in Nat, NEW y,
           SoundGoes(sound, played, advances, y), Synth!AfterSample(Synth!Counted(y))
    PROVE  /\ advances' \in Nat
           /\ \/ sound' = Synth!NoSound /\ synthesizer' = Synth!NoSound
              \/ SoundGoes(sound', played + 1, advances', synthesizer')
<1> DEFINE z == Synth!Counted(y)
<1>1. /\ sound \in SynthSounds /\ IsSynthesizer(y)
      /\ TimeGoes(sound, played, y) /\ IntervalGoes(sound, played, advances, y)
      /\ PitchGoes(sound, advances, y) /\ WaveGoes(y)
  BY Zenon DEF SoundGoes
<1>2. /\ IsSynthesizer(z)
      /\ z.remaining = IF sound.duration = 0 THEN y.remaining ELSE y.remaining - RateTicks
      /\ z.pitchRemaining = IF sound.interval = 0 THEN y.pitchRemaining
                            ELSE y.pitchRemaining - RateTicks
      /\ z.direction = y.direction /\ z.wrapRemaining = y.wrapRemaining
      /\ z.currentPitch = y.currentPitch
      /\ z.random = y.random /\ z.fuzz = y.fuzz /\ z.halfCycle = y.halfCycle
  BY <1>1, CountedParts
<1>3. PitchGoes(sound, advances, z) /\ WaveGoes(z)
  BY <1>1, <1>2, Zenon DEF PitchGoes, Sweeping, WaveGoes
<1>4. Synth!AfterSample(z)
  OBVIOUS
<1> HIDE DEF z
<1>5. CASE sound.duration # 0 /\ z.remaining <= 0
  BY <1>4, <1>5, Zenon DEF Synth!AfterSample, Synth!WithoutEnd
<1>6. CASE ~(sound.duration # 0 /\ z.remaining <= 0)
  <2>1. /\ TimeGoes(sound, played + 1, z)
        /\ ~(sound.interval # 0 /\ z.pitchRemaining <= 0) =>
             IntervalGoes(sound, played + 1, advances, z)
        /\ sound.interval # 0 /\ z.pitchRemaining <= 0 =>
                \A x : /\ x.remaining = z.remaining
                       /\ x.pitchRemaining = Synth!PitchDuration(sound, z.remaining)
                       => IntervalGoes(sound, played + 1, advances + 1, x)
    BY <1>1, <1>2, <1>6, TimeLeft, Zenon
  <2>2. /\ sound' = sound
        /\ IF sound.interval # 0 /\ z.pitchRemaining <= 0
             THEN /\ \E random \in Synth!Offsets(sound.randomness) :
                        synthesizer' = Synth!AdvancePitch(z, random)
                  /\ advances' = advances + 1
           ELSE synthesizer' = z /\ advances' = advances
    BY <1>4, <1>6, Zenon DEF Synth!AfterSample, Synth!WithoutEnd
  <2>3. CASE sound.interval # 0 /\ z.pitchRemaining <= 0
    <3>1. PICK random : synthesizer' = Synth!AdvancePitch(z, random)
      BY <2>2, <2>3
    <3> DEFINE a == Synth!Advanced(z)
               x == synthesizer'
    <3>2. x = [a EXCEPT !.random = random,
                        !.halfCycle = Synth!HalfCycle(a.currentPitch, random, z.fuzz),
                        !.pitchRemaining = Synth!PitchDuration(sound, z.remaining)]
      BY <3>1, Zenon DEF Synth!AdvancePitch
    <3>3. /\ IsSynthesizer(a) /\ a.remaining = z.remaining /\ a.fuzz = z.fuzz
      BY <1>2, AdvancedParts
    <3>4. PitchGoes(sound, advances + 1, a)
      BY <1>1, <1>2, <1>3, PitchAdvances
    <3> HIDE DEF a, x
    <3>5. /\ IsSynthesizer(x)
          /\ x.remaining = a.remaining /\ x.direction = a.direction
          /\ x.wrapRemaining = a.wrapRemaining /\ x.currentPitch = a.currentPitch
          /\ x.fuzz = a.fuzz /\ x.random = random
          /\ x.halfCycle = Synth!HalfCycle(a.currentPitch, random, z.fuzz)
          /\ x.pitchRemaining = Synth!PitchDuration(sound, z.remaining)
      BY <3>2, <3>3 DEF IsSynthesizer
    <3>6. PitchGoes(sound, advances + 1, x) /\ WaveGoes(x)
      BY <3>3, <3>4, <3>5, Zenon DEF PitchGoes, Sweeping, WaveGoes
    <3>7. TimeGoes(sound, played + 1, x)
      BY <2>1, <3>3, <3>5, Zenon DEF TimeGoes
    <3>8. IntervalGoes(sound, played + 1, advances + 1, x)
      BY <2>1, <2>3, <3>3, <3>5, Zenon
    <3>9. advances' = advances + 1 /\ advances + 1 \in Nat
      BY <2>2, <2>3
    <3> QED BY <1>1, <2>2, <3>5, <3>6, <3>7, <3>8, <3>9, Zenon DEF SoundGoes, x
  <2>4. CASE ~(sound.interval # 0 /\ z.pitchRemaining <= 0)
    <3>1. synthesizer' = z /\ advances' = advances
      BY <2>2, <2>4
    <3> QED BY <1>1, <1>2, <1>3, <2>1, <2>2, <2>4, <3>1, Zenon DEF SoundGoes
  <2> QED BY <2>3, <2>4
<1> QED
  BY <1>5, <1>6

\* Every step of the synthesizer keeps the invariant.
LEMMA SynthStep == SynthInv /\ [Synth!SynthNext]_synthesis => SynthInv'
<1> SUFFICES ASSUME SynthInv, [Synth!SynthNext]_synthesis PROVE SynthInv'
  OBVIOUS
<1>1. /\ played \in Nat /\ advances \in Nat
      /\ \/ sound = Synth!NoSound /\ synthesizer = Synth!NoSound
         \/ SoundGoes(sound, played, advances, synthesizer)
  BY Zenon DEF SynthInv, SoundGoes
<1>2. SUFFICES /\ played' \in Nat /\ advances' \in Nat
               /\ \/ sound' = Synth!NoSound /\ synthesizer' = Synth!NoSound
                  \/ SoundGoes(sound', played', advances', synthesizer')
  BY Zenon DEF SynthInv, SoundGoes
<1>3. ASSUME NEW s \in SynthSounds, Synth!Start(s)
      PROVE  /\ played' \in Nat /\ advances' \in Nat
             /\ SoundGoes(sound', played', advances', synthesizer')
  <2>1. sound' = s /\ played' = 0 /\ advances' = 0
    BY <1>3, Zenon DEF Synth!Start
  <2>2. SoundGoes(s, 0, 0, synthesizer')
    BY <1>3, StartSounds
  <2>3. 0 \in Nat
    OBVIOUS
  <2> QED BY <2>1, <2>2, <2>3, Zenon
<1>4. CASE Synth!Stop
  BY <1>1, <1>4, Zenon DEF Synth!Stop
<1>5. CASE Synth!SetPaused
  BY <1>1, <1>5, Zenon DEF Synth!SetPaused
<1>6. CASE Synth!Sample
  <2>1. sound # Synth!NoSound /\ played' = played + 1 /\ played + 1 \in Nat
    BY <1>1, <1>6 DEF Synth!Sample
  <2>2. SoundGoes(sound, played, advances, synthesizer)
    BY <1>1, <2>1
  <2>3. \E y : SoundGoes(sound, played, advances, y) /\ Synth!AfterSample(Synth!Counted(y))
    <3>1. CASE Synth!AfterSample(Synth!Counted(synthesizer))
      BY <2>2, <3>1
    <3>2. ASSUME NEW fuzz, Synth!AfterSample(Synth!Counted(Synth!HalfCycleOver(synthesizer, fuzz)))
          PROVE  \E y : /\ SoundGoes(sound, played, advances, y)
                        /\ Synth!AfterSample(Synth!Counted(y))
      <4> DEFINE y == Synth!HalfCycleOver(synthesizer, fuzz)
                 old == synthesizer
      <4>1. IsSynthesizer(old)
        BY <2>2, Zenon DEF SoundGoes
      <4>2. y = [old EXCEPT !.fuzz = fuzz,
                            !.halfCycle = Synth!HalfCycle(old.currentPitch, old.random, fuzz)]
        BY Zenon DEF Synth!HalfCycleOver
      <4>3. Synth!AfterSample(Synth!Counted(y))
        BY <3>2
      <4> HIDE DEF y, old
      <4>4. /\ IsSynthesizer(y)
            /\ y.remaining = old.remaining /\ y.pitchRemaining = old.pitchRemaining
            /\ y.direction = old.direction /\ y.wrapRemaining = old.wrapRemaining
            /\ y.currentPitch = old.currentPitch /\ y.random = old.random /\ y.fuzz = fuzz
            /\ y.halfCycle = Synth!HalfCycle(old.currentPitch, old.random, fuzz)
        BY <4>1, <4>2 DEF IsSynthesizer
      <4>5. /\ sound \in SynthSounds
            /\ TimeGoes(sound, played, old) /\ IntervalGoes(sound, played, advances, old)
            /\ PitchGoes(sound, advances, old)
        BY <2>2, Zenon DEF SoundGoes, old
      <4>6. PitchGoes(sound, advances, y) /\ WaveGoes(y)
        BY <4>4, <4>5, Zenon DEF PitchGoes, Sweeping, WaveGoes
      <4>7. TimeGoes(sound, played, y) /\ IntervalGoes(sound, played, advances, y)
        BY <4>4, <4>5, Zenon DEF TimeGoes, IntervalGoes
      <4> QED BY <4>3, <4>4, <4>5, <4>6, <4>7, Zenon DEF SoundGoes
    <3> QED BY <1>6, <3>1, <3>2, Zenon DEF Synth!Sample
  <2>4. PICK y : SoundGoes(sound, played, advances, y) /\ Synth!AfterSample(Synth!Counted(y))
    BY <2>3
  <2>5. /\ advances' \in Nat
        /\ \/ sound' = Synth!NoSound /\ synthesizer' = Synth!NoSound
           \/ SoundGoes(sound', played + 1, advances', synthesizer')
    BY <1>1, <2>4, SampleKeeps
  <2> QED BY <2>1, <2>5, Zenon
<1>7. CASE UNCHANGED synthesis
  BY <1>1, <1>7, Zenon DEF synthesis
<1> QED
  BY <1>3, <1>4, <1>5, <1>6, <1>7, Zenon DEF Synth!SynthNext

\* The shape of a sound follows.
LEMMA ShapeFollows == SynthInv => SoundIsShaped
<1> SUFFICES ASSUME SynthInv PROVE Synth!SoundIsShaped
  BY Zenon DEF SoundIsShaped
<1>0. CASE sound = Synth!NoSound
  <2>1. sound \notin SynthSounds
    BY <1>0, SoundType, Zenon
  <2> QED BY <1>0, <2>1, Zenon DEF SynthInv, Synth!SoundIsShaped
<1> SUFFICES ASSUME sound # Synth!NoSound PROVE Synth!SoundIsShaped
  BY <1>0
<1>1. /\ played \in Nat /\ advances \in Nat /\ sound \in SynthSounds
      /\ TimeGoes(sound, played, synthesizer)
      /\ IntervalGoes(sound, played, advances, synthesizer)
      /\ PitchGoes(sound, advances, synthesizer) /\ WaveGoes(synthesizer)
  BY Zenon DEF SynthInv
<1>2. ~Synth!WithoutEnd =>
         /\ played < Synth!SamplesOf(sound.duration)
         /\ synthesizer.remaining = Synth!Units(sound.duration) - played * RateTicks
  <2> SUFFICES ASSUME sound.duration # 0
               PROVE  /\ played < Synth!SamplesOf(sound.duration)
                      /\ synthesizer.remaining = Synth!Units(sound.duration) - played * RateTicks
    BY Zenon DEF Synth!WithoutEnd
  <2> DEFINE units == Synth!Units(sound.duration)
             size == Synth!SamplesOf(sound.duration)
  <2>1. synthesizer.remaining = units - played * RateTicks /\ 0 < synthesizer.remaining
    BY <1>1, Zenon DEF TimeGoes
  <2>2. sound.duration \in Nat /\ RateTicks \in Nat
    BY <1>1, SoundType, SynthTypes
  <2>3. units \in Nat /\ \A k \in Nat : k * RateTicks < units <=> k < size
    BY <2>2, SamplesFacts
  <2> HIDE DEF units, size
  <2>4. played * RateTicks \in Int
    BY <1>1, <2>2
  <2>5. played * RateTicks < units
    BY <2>1, <2>3, <2>4
  <2>6. played < size
    BY <1>1, <2>3, <2>5
  <2> QED BY <2>1, <2>6 DEF units, size
<1>3. advances = IF sound.interval = 0 THEN 0 ELSE played \div Synth!SamplesOf(sound.interval)
  BY <1>1, Zenon DEF IntervalGoes
<1>4. Synth!Fits(sound) \/ sound.step = Wild
        => synthesizer.currentPitch = Synth!PitchAfter(sound, advances)
  BY <1>1, PitchIsIt
<1>5. synthesizer.halfCycle =
        Synth!HalfCycle(synthesizer.currentPitch, synthesizer.random, synthesizer.fuzz)
  BY <1>1, Zenon DEF WaveGoes
<1> QED
  BY <1>2, <1>3, <1>4, <1>5, Zenon DEF Synth!SoundIsShaped

\* A sound with a duration ends with it and no other does by itself; after every
\* interval its pitch is what its parameters say; the wave has the length of the pitch
\* and of the offsets in force; and pauses, stops and other sounds do not change that
\* (start(), stop(), render() and advancePitch() of ql-sound.js).
THEOREM ShapeCorrect == OutputSpec => []SoundIsShaped
<1>1. OutputInit => SynthInv
  <2>1. 0 \in Nat
    OBVIOUS
  <2> QED BY <2>1, Zenon DEF OutputInit, Synth!SynthInit, SynthInv
<1>2. SynthInv /\ [OutputNext]_<<unit, vars, synthesis>> => SynthInv'
  <2> SUFFICES ASSUME SynthInv, [OutputNext]_<<unit, vars, synthesis>> PROVE SynthInv'
    OBVIOUS
  <2>1. [Synth!SynthNext]_synthesis
    BY Zenon DEF OutputNext
  <2> QED BY <2>1, SynthStep
<1> QED
  BY <1>1, <1>2, ShapeFollows, PTL DEF OutputSpec
=============================================================================
