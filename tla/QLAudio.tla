------------------------------ MODULE QLAudio ------------------------------
(***************************************************************************)
(* The way of a sound from the IPC to the loudspeaker: the run control of  *)
(* the page (main.js), the Web Audio bridge (ui/ql-audio.js), the message  *)
(* port and the synthesizer in the audio worklet (ui/ql-sound-worklet.js,  *)
(* devices/ql-sound.js).                                                   *)
(*                                                                         *)
(* A click, an animation frame and the settling of a promise are tasks of  *)
(* the browser: each is one action, with the microtasks it queues.  The    *)
(* messages of the port and the samples of the worklet are asynchronous.   *)
(***************************************************************************)
EXTENDS Naturals, Sequences

CONSTANTS
    Sounds,     \* the sounds the program starts
    Endless,    \* those of them without a duration
    None,
    Stepping,   \* whether the step button is used
    PortBound   \* bound of the model on the messages in the port

ASSUME SoundAssumption ==
    /\ Endless \subseteq Sounds
    /\ None \notin Sounds
    /\ Stepping \in BOOLEAN
    /\ PortBound \in Nat

VARIABLES
    running,        \* main.js: frames are being run
    ipcSound,       \* zx8302.sound
    enabled, failed, paused, pendingSound,      \* fields of QLAudio
    initializing,   \* initialisations under way: this.initializing
    nodes,          \* worklet nodes made: this.node
    contextRunning, \* this.context.state = "running"
    resuming,       \* some resume() awaits context.resume()
    silenced,       \* history: the browser suspended the context, and no resume() came since
    port,           \* messages to the worklet
    synthSound, synthPaused     \* the synthesizer; None when it is not active

machine == <<running, ipcSound>>
bridge  == <<enabled, failed, paused, pendingSound, initializing, nodes, contextRunning,
             resuming, silenced>>
synth   == <<synthSound, synthPaused>>
vars    == <<machine, bridge, port, synth>>

StartMessage(sound) == [type |-> "start", sound |-> sound]
StopMessage         == [type |-> "stop"]
PauseMessage(value) == [type |-> "pause", paused |-> value]

Messages ==
    [type : {"start"}, sound : Sounds] \cup {StopMessage} \cup [type : {"pause"}, paused : BOOLEAN]

\* The handlers post only when there is a node.
Post(messages) == port' = IF nodes > 0 THEN port \o messages ELSE port

Init ==
    /\ running = FALSE
    /\ ipcSound = None
    /\ enabled \in BOOLEAN          \* remembered from the last visit
    /\ failed = FALSE
    /\ paused = TRUE
    /\ pendingSound = None
    /\ initializing = 0
    /\ nodes = 0
    /\ contextRunning = FALSE
    /\ resuming = FALSE
    /\ silenced = FALSE
    /\ port = <<>>
    /\ synthSound = None
    /\ synthPaused = FALSE
----------------------------------------------------------------------------
(* Methods of QLAudio, as parts of the tasks below.                        *)

\* Mutant: every call starts an initialisation of its own.
Initialize_Mut == initializing' = initializing + 1

\* initialize(): the call that finds one under way awaits the same promise.
Initialize == initializing' = IF initializing > 0 THEN initializing ELSE 1

\* Mutant: a bridge that is ready is not told to go on.
ResumeMessages_Mut == <<>>

ResumeMessages == <<PauseMessage(FALSE)>>

\* resume(): nothing when the sound is off; otherwise it goes on at once when
\* the context runs, and awaits the initialisation or the context when not.
Resume(on) ==
    IF ~on \/ failed THEN UNCHANGED <<paused, initializing, resuming, silenced, port>>
    ELSE /\ paused' = FALSE
         /\ silenced' = FALSE
         /\ IF nodes = 0
              THEN Initialize /\ UNCHANGED <<resuming, port>>
              ELSE /\ resuming' = (resuming \/ ~contextRunning)
                   /\ port' = port \o IF contextRunning THEN ResumeMessages ELSE <<>>
                   /\ UNCHANGED initializing

StartMessages(sound) == IF enabled THEN <<StartMessage(sound)>> ELSE <<>>

\* handleIpcEvent(), for a start and for a stop.
HandleStart(sound) ==
    /\ pendingSound' = sound
    /\ Post(StartMessages(sound))

\* Mutant: a stop does not reach a sound that waits for the initialisation.
PendingAfterStop_Mut == pendingSound

PendingAfterStop == None

HandleStop ==
    /\ pendingSound' = PendingAfterStop
    /\ Post(<<StopMessage>>)
----------------------------------------------------------------------------
(* Tasks of the page.                                                      *)

Room == Len(port) + 3 <= PortBound

\* startExecution()
StartExecution ==
    /\ Room
    /\ ~running
    /\ running' = TRUE
    /\ Resume(enabled)
    /\ UNCHANGED <<ipcSound, enabled, failed, pendingSound, nodes, contextRunning, synth>>

\* stop(): the button, a STOP instruction or an error.
StopExecution ==
    /\ Room
    /\ running
    /\ running' = FALSE
    /\ paused' = TRUE
    /\ Post(<<PauseMessage(TRUE)>>)
    /\ UNCHANGED <<ipcSound, enabled, failed, pendingSound, initializing, nodes,
                   contextRunning, resuming, silenced, synth>>

\* resetMachine(): stop(), then the devices; a sound that is active ends.
ResetMachine ==
    /\ Room
    /\ running' = FALSE
    /\ ipcSound' = None
    /\ paused' = TRUE
    /\ pendingSound' = IF ipcSound # None THEN None ELSE pendingSound
    /\ Post(<<PauseMessage(TRUE)>> \o IF ipcSound # None THEN <<StopMessage>> ELSE <<>>)
    /\ UNCHANGED <<enabled, failed, initializing, nodes, contextRunning, resuming, silenced,
                   synth>>

\* Instructions are executed by the frames of a machine that runs, and one by
\* one by the step button when it does not.
Executes == running \/ Stepping

\* An instruction ends a sound command.
SoundStarts(sound) ==
    /\ Room
    /\ Executes
    /\ ipcSound' = sound
    /\ HandleStart(sound)
    /\ UNCHANGED <<running, enabled, failed, paused, initializing, nodes, contextRunning,
                   resuming, silenced, synth>>

\* An instruction ends a stop command, or the duration of the sound runs out.
SoundStops ==
    /\ Room
    /\ Executes
    /\ ipcSound' = None
    /\ HandleStop
    /\ UNCHANGED <<running, enabled, failed, paused, initializing, nodes, contextRunning,
                   resuming, silenced, synth>>

\* The button passes the sound that is active to setEnabled().
ActiveSound == ipcSound

\* The sound button, on: setEnabled(), and resume() when the machine runs.
SoundOn ==
    /\ Room
    /\ ~enabled
    /\ ~failed
    /\ enabled' = TRUE
    /\ LET started == IF ActiveSound # None /\ nodes > 0 THEN <<StartMessage(ActiveSound)>>
                                                         ELSE <<>>
       IN  IF running /\ nodes > 0
             THEN /\ paused' = FALSE
                  /\ resuming' = (resuming \/ ~contextRunning)
                  /\ port' = port \o started
                                  \o IF contextRunning THEN ResumeMessages ELSE <<>>
                  /\ UNCHANGED initializing
             ELSE /\ paused' = (paused /\ ~running)
                  /\ port' = port \o started
                  /\ IF running THEN Initialize ELSE UNCHANGED initializing
                  /\ UNCHANGED resuming
    /\ pendingSound' = IF ActiveSound # None THEN ActiveSound ELSE pendingSound
    /\ silenced' = (silenced /\ ~running)
    /\ UNCHANGED <<machine, failed, nodes, contextRunning, synth>>

\* The sound button, off.
SoundOff ==
    /\ Room
    /\ enabled
    /\ enabled' = FALSE
    /\ pendingSound' = None
    /\ Post(<<StopMessage>>)
    /\ UNCHANGED <<machine, failed, paused, initializing, nodes, contextRunning, resuming,
                   silenced, synth>>

\* A key or a click on the screen, while the machine runs.
Gesture ==
    /\ Room
    /\ running
    /\ Resume(enabled)
    /\ UNCHANGED <<machine, enabled, failed, pendingSound, nodes, contextRunning, synth>>
----------------------------------------------------------------------------
(* Promises, and what the browser does to the context.                     *)

PendingMessages ==
    IF pendingSound # None /\ enabled THEN <<StartMessage(pendingSound)>> ELSE <<>>

\* The worklet module is loaded: the node is made and told of the pending sound
\* and of the pause, and the calls of resume() that waited go on.
InitializeSucceeds ==
    /\ initializing > 0
    /\ initializing' = initializing - 1
    /\ nodes' = nodes + 1
    /\ contextRunning' = TRUE
    /\ port' = port \o PendingMessages \o <<PauseMessage(paused)>> \o ResumeMessages
    /\ UNCHANGED <<machine, enabled, failed, paused, pendingSound, resuming, silenced, synth>>

InitializeFails ==
    /\ initializing > 0
    /\ initializing' = initializing - 1
    /\ failed' = TRUE
    /\ enabled' = FALSE
    /\ UNCHANGED <<machine, paused, pendingSound, nodes, contextRunning, resuming, silenced,
                   port, synth>>

\* The browser may suspend a context, for a policy of its own; nothing listens to that.
BrowserSuspends ==
    /\ contextRunning
    /\ contextRunning' = FALSE
    /\ silenced' = TRUE
    /\ UNCHANGED <<machine, enabled, failed, paused, pendingSound, initializing, nodes,
                   resuming, port, synth>>

ContextResumes ==
    /\ resuming
    /\ resuming' = FALSE
    /\ silenced' = FALSE
    /\ contextRunning' = TRUE
    /\ port' = port \o ResumeMessages
    /\ UNCHANGED <<machine, enabled, failed, paused, pendingSound, initializing, nodes, synth>>
----------------------------------------------------------------------------
(* The worklet.                                                            *)

\* start() and stop() leave the pause, setPaused() sets it.
Deliver ==
    /\ port # <<>>
    /\ port' = Tail(port)
    /\ LET message == Head(port) IN
       \/ /\ message.type = "start"
          /\ synthSound' = message.sound
          /\ synthPaused' = FALSE
       \/ /\ message.type = "stop"
          /\ synthSound' = None
          /\ synthPaused' = FALSE
       \/ /\ message.type = "pause"
          /\ synthPaused' = message.paused
          /\ UNCHANGED synthSound
    /\ UNCHANGED <<machine, bridge>>

\* render() comes to the last sample of a sound.
RenderEnds ==
    /\ synthSound \in Sounds \ Endless
    /\ ~synthPaused
    /\ synthSound' = None
    /\ synthPaused' = FALSE
    /\ UNCHANGED <<machine, bridge, port>>
----------------------------------------------------------------------------
Page ==
    \/ StartExecution
    \/ StopExecution
    \/ ResetMachine
    \/ \E sound \in Sounds : SoundStarts(sound)
    \/ SoundStops
    \/ SoundOn
    \/ SoundOff
    \/ Gesture

Next ==
    \/ Page
    \/ InitializeSucceeds
    \/ InitializeFails
    \/ BrowserSuspends
    \/ ContextResumes
    \/ Deliver
    \/ RenderEnds

\* Promises settle and messages arrive; the user need not do anything.
Fairness ==
    /\ WF_vars(InitializeSucceeds \/ InitializeFails)
    /\ WF_vars(ContextResumes)
    /\ WF_vars(Deliver)

Spec == Init /\ [][Next]_vars /\ Fairness
----------------------------------------------------------------------------
TypeOK ==
    /\ {running, enabled, failed, paused, contextRunning, resuming, silenced, synthPaused}
          \subseteq BOOLEAN
    /\ {ipcSound, pendingSound, synthSound} \subseteq Sounds \cup {None}
    /\ initializing \in Nat
    /\ nodes \in Nat
    /\ port \in Seq(Messages)

\* However many gestures ask for it while the worklet is being loaded, one
\* context and one node are made: a second one would sound beside the first
\* and no message would stop it.
OneNode == TypeOK /\ initializing + nodes <= 1

Quiet == port = <<>> /\ initializing = 0

\* When every message has arrived, the synthesizer sounds what the IPC sounds,
\* whatever was started, stopped, switched off or reset while the worklet was being
\* loaded: no sound hangs, with the sound off nothing sounds, and an endless sound is
\* not lost, also when it began while the sound was off or being loaded.
SoundFollowsMachine ==
    Quiet =>
        /\ synthSound # None => enabled /\ synthSound = ipcSound
        /\ enabled /\ nodes > 0 /\ ipcSound \in Endless => synthSound = ipcSound

\* A machine that goes on running with the sound on comes to be heard: there is a node,
\* its context runs and the synthesizer is not paused, whenever the sound was switched on,
\* the worklet was loaded or the browser suspended the context before.  Only a suspension
\* after which nobody pressed a key, clicked or started the machine keeps it silent.
RunningIsHeard ==
    (running /\ enabled) ~> \/ ~running
                            \/ ~enabled
                            \/ silenced
                            \/ nodes > 0 /\ contextRunning /\ ~synthPaused

\* What docs/ARCHITECTURE.md says: the pause of the emulator freezes the sound.
PauseFreezesSound ==
    Quiet /\ ~resuming /\ ~running => synthSound = None \/ synthPaused
=============================================================================
