----------------------------- MODULE SoundOutput -----------------------------
(***************************************************************************)
(* The sound of the QL: the way of a sound from the IPC to the worklet     *)
(* (QLAudio), and what the synthesizer makes of it, whatever messages come *)
(* (QLSoundSynthesizer).  A behaviour is about one of the two; the other   *)
(* is at rest.                                                             *)
(***************************************************************************)
EXTENDS QLAudio, Integers

CONSTANTS SynthSounds, PitchCount, RateSamples, RateTicks, Forever, Wild, NoEffect, SampleBound

ASSUME SynthAssumption ==
    /\ {PitchCount, RateSamples, RateTicks, Forever} \subseteq Nat \ {0}
    /\ Wild \in Int /\ Wild < 0
    /\ SynthSounds \subseteq
         [pitch : 0 .. PitchCount - 1, pitch2 : 0 .. PitchCount - 1,
          step : Int, wrap : 0 .. Forever,
          interval : Nat, duration : Nat, randomness : Nat, fuzziness : Nat]

VARIABLES unit, sound, synthesizer, held, played, advances

Synth == INSTANCE QLSoundSynthesizer

synthesis == <<sound, synthesizer, held, played, advances>>

OutputInit ==
    /\ unit \in {"way", "synthesizer"}
    /\ Init /\ Synth!SynthInit

OutputNext ==
    /\ \/ unit = "way"         /\ Next             /\ UNCHANGED synthesis
       \/ unit = "synthesizer" /\ Synth!SynthNext  /\ UNCHANGED vars
    /\ UNCHANGED unit

OutputSpec ==
    /\ OutputInit
    /\ [][OutputNext]_<<unit, vars, synthesis>>
    /\ Fairness
----------------------------------------------------------------------------
\* A sound has its length, and its pitch goes the way of its parameters, whatever
\* comes between its samples (QLSoundSynthesizer).
SoundIsShaped == Synth!SoundIsShaped
=============================================================================
