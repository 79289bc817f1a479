-------------------------- MODULE QLSoundSynthesizer --------------------------
(***************************************************************************)
(* The synthesizer of the worklet (ql-sound.js): a sound lasts so many     *)
(* ticks, and after every interval its pitch goes on by a step between two *)
(* pitches, from one of which it comes back to the other so many times, to *)
(* "wrap", before it turns round.  Samples are rendered one by one; the    *)
(* messages of the page come between them.  A sample is RateTicks of the   *)
(* units of which a tick of the QL is RateSamples; of the square wave only *)
(* the length of its half cycle is kept.                                   *)
(***************************************************************************)
EXTENDS Integers

CONSTANTS
    SynthSounds,    \* sounds that are asked for
    PitchCount,     \* pitches there are: 256
    RateSamples, RateTicks,     \* samples to a tick, as a quotient
    Forever,        \* the wrap of a sound that never turns round: 15
    Wild,           \* the step that is not held between the pitches: -8
    NoEffect,          \* the largest randomness and fuzziness without effect: 7
    SampleBound     \* bound of the model on the samples of a sound

VARIABLES
    sound,              \* the sound asked for, or None when nothing sounds
    synthesizer,        \* the fields that change while it sounds
    held,               \* paused
    played, advances    \* samples of the sound, and steps of its pitch, so far

synthVars == <<sound, synthesizer, held, played, advances>>

NoSound == [duration |-> -1]

\* Units of time that an interval or a duration takes; a duration of zero has no end.
Units(ticks) == ticks * RateSamples
WithoutEnd      == sound.duration = 0

\* pitchDurationSamples(), for a sound with intervals.
PitchDuration(s, remaining) ==
    IF s.duration # 0 /\ remaining < Units(s.interval) THEN remaining ELSE Units(s.interval)

Pitch(number) == number % PitchCount

\* updateHalfCycle() and qlPitchFrequency(): as long as the pitch corrected.
HalfCycle(pitch, random, fuzz) == (Pitch(pitch + random + fuzz) + PitchCount - 1) % PitchCount

\* randomAdjust(), fuzzAdjust()
Offsets(strength) == 0 .. (IF strength > NoEffect THEN 2 ^ (strength - NoEffect) ELSE 1) - 1
----------------------------------------------------------------------------
SynthInit ==
    /\ sound = NoSound
    /\ synthesizer = NoSound
    /\ held = FALSE
    /\ played = 0
    /\ advances = 0

\* start()
Start(s) ==
    LET first == IF s.step < 0 THEN s.pitch2 ELSE s.pitch
    IN  /\ sound' = s
        /\ synthesizer' =
             [remaining |-> Units(s.duration), pitchRemaining |-> PitchDuration(s, Units(s.duration)),
              direction |-> 1, wrapRemaining |-> s.wrap, currentPitch |-> first,
              random |-> 0, fuzz |-> 0, halfCycle |-> HalfCycle(first, 0, 0)]
        /\ held' = FALSE
        /\ played' = 0
        /\ advances' = 0

\* stop(): also at the last sample of a sound.
Stop ==
    /\ sound' = NoSound
    /\ synthesizer' = NoSound
    /\ held' = FALSE
    /\ UNCHANGED <<played, advances>>

SetPaused ==
    /\ held' \in BOOLEAN
    /\ UNCHANGED <<sound, synthesizer, played, advances>>

\* Mutant: the turn does not begin a new count of the wraps.
NewWraps_Mut(y) == y.wrapRemaining

NewWraps(y) == sound.wrap

\* advancePitch(), the pitch.
Advanced(y) ==
    LET step      == sound.step * y.direction
        candidate == Pitch(y.currentPitch + step)
    IN  IF sound.step = 0 THEN y
        ELSE IF sound.step = Wild
          THEN [y EXCEPT !.currentPitch = Pitch(@ + PitchCount + Wild)]
        ELSE IF sound.pitch < candidate /\ candidate < sound.pitch2
          THEN [y EXCEPT !.currentPitch = candidate]
        ELSE IF y.wrapRemaining > 0
          THEN [y EXCEPT !.currentPitch = IF step < 0 THEN sound.pitch2 ELSE sound.pitch,
                         !.wrapRemaining = IF @ = Forever THEN @ ELSE @ - 1]
        ELSE [y EXCEPT !.currentPitch = candidate, !.wrapRemaining = NewWraps(y),
                       !.direction = -@]

\* advancePitch(), with randomAdjust() and what comes after.
AdvancePitch(y, random) ==
    LET next == Advanced(y)
    IN  [next EXCEPT !.random = random,
                     !.halfCycle = HalfCycle(next.currentPitch, random, y.fuzz),
                     !.pitchRemaining = PitchDuration(sound, y.remaining)]

\* render(), one sample: the half cycle may be over, with fuzzAdjust(), and then the
\* sound, or else the interval.
HalfCycleOver(y, fuzz) ==
    [y EXCEPT !.fuzz = fuzz, !.halfCycle = HalfCycle(y.currentPitch, y.random, fuzz)]

Counted(y) ==
    [y EXCEPT !.remaining      = IF WithoutEnd THEN @ ELSE @ - RateTicks,
              !.pitchRemaining = IF sound.interval = 0 THEN @ ELSE @ - RateTicks]

AfterSample(y) ==
    IF ~WithoutEnd /\ y.remaining <= 0
      THEN /\ sound' = NoSound
           /\ synthesizer' = NoSound
           /\ UNCHANGED advances
    ELSE /\ IF sound.interval # 0 /\ y.pitchRemaining <= 0
              THEN /\ \E random \in Offsets(sound.randomness) : synthesizer' = AdvancePitch(y, random)
                   /\ advances' = advances + 1
            ELSE synthesizer' = y /\ UNCHANGED advances
         /\ UNCHANGED sound

Sample ==
    /\ sound # NoSound /\ ~held
    /\ played < SampleBound
    /\ played' = played + 1
    /\ \/ AfterSample(Counted(synthesizer))
       \/ \E fuzz \in Offsets(sound.fuzziness) : AfterSample(Counted(HalfCycleOver(synthesizer, fuzz)))
    /\ UNCHANGED held

SynthNext ==
    \/ \E s \in SynthSounds : Start(s)
    \/ Stop
    \/ SetPaused
    \/ Sample
----------------------------------------------------------------------------
Ceiling(a, b) == (a + b - 1) \div b

\* The samples of an interval: each begins with a whole sample.
SamplesOf(ticks) == Ceiling(Units(ticks), RateTicks)

\* Steps from one pitch to the other, or past it.
Steps(s) ==
    LET size == IF s.step < 0 THEN -s.step ELSE s.step
    IN  IF s.step # 0 /\ s.pitch < s.pitch2 THEN Ceiling(s.pitch2 - s.pitch, size) ELSE 1

\* The pitch after n steps.  It sweeps from the first pitch on, and comes back to it
\* at every wrap; it turns round where the last sweep ends, goes back on its own
\* steps, and then sweeps from the other pitch, until it turns again.
PitchAfter(s, n) ==
    LET steps == Steps(s)
        from  == IF s.step < 0 THEN s.pitch2 ELSE s.pitch
        to    == IF s.step < 0 THEN s.pitch ELSE s.pitch2
        turn  == (s.wrap + 1) * steps
        k     == n % steps
        back  == (n \div turn) % 2 = 1
        sweep == (n % turn) \div steps
    IN  IF s.step = 0 THEN s.pitch
        ELSE IF s.step = Wild THEN Pitch(s.pitch2 + n * Wild)
        ELSE IF s.wrap = Forever THEN from + k * s.step
        ELSE IF back
          THEN IF sweep = 0 THEN from + (steps - k) * s.step ELSE to - k * s.step
        ELSE IF sweep = 0 /\ n >= turn /\ s.wrap > 0 THEN to - (steps - k) * s.step
        ELSE from + k * s.step

\* The sweeps of a sound stay within the numbers of the pitches.
Fits(s) ==
    LET reach == Steps(s) * s.step
        from  == IF s.step < 0 THEN s.pitch2 ELSE s.pitch
        to    == IF s.step < 0 THEN s.pitch ELSE s.pitch2
    IN  {from + reach, to - reach} \subseteq 0 .. PitchCount - 1

\* A sound with a duration ends with it and no other does by itself, its pitch is what
\* its parameters say after every interval, and the wave has the length of the pitch
\* and of the offsets in force; pauses, stops and other sounds do not change it.
SoundIsShaped ==
    IF sound = NoSound THEN synthesizer = NoSound
    ELSE /\ ~WithoutEnd => /\ played < SamplesOf(sound.duration)
                        /\ synthesizer.remaining = Units(sound.duration) - played * RateTicks
         /\ advances = IF sound.interval = 0 THEN 0 ELSE played \div SamplesOf(sound.interval)
         /\ Fits(sound) \/ sound.step = Wild
              => synthesizer.currentPitch = PitchAfter(sound, advances)
         /\ synthesizer.halfCycle =
              HalfCycle(synthesizer.currentPitch, synthesizer.random, synthesizer.fuzz)
=============================================================================
