---------------------------- MODULE MCSoundOutput ----------------------------
(* One endless sound and one with a duration on the way to the worklet; in     *)
(* the worklet, sounds of every shape between two pitches of 32, at two and a  *)
(* half samples to a tick.                                                     *)
EXTENDS SoundOutput

MCSounds == {"endless", "short"}
MCEndless == {"endless"}

MCWild == -8

\* Equal pitches, and others that steps meet or pass; intervals with and without an
\* end of the sound; wraps; and random pitches.
MCSynthSounds ==
    LET Shapes(pitches, intervals, durations, steps, wraps, strengths) ==
            [pitch : {9}, pitch2 : pitches, interval : intervals, duration : durations,
             step : steps, wrap : wraps, randomness : strengths, fuzziness : strengths]
    IN  Shapes({12, 16}, {0, 1, 2}, {0, 7}, {MCWild, -3, 0, 1}, {0}, {0})
        \cup Shapes({9, 12, 16}, {1}, {0}, {-3, 1, 4}, {0, 1, 2, 15}, {0})
        \cup Shapes({16}, {1}, {7}, {3}, {0}, {7, 9})
=============================================================================
