CONSTANTS
    Sounds <- MCSounds
    Endless <- MCEndless
    None = None
    Stepping = FALSE
    PortBound = 7
    SynthSounds <- MCSynthSounds
    PitchCount = 32
    RateSamples = 5
    RateTicks = 2
    Forever = 15
    Wild <- MCWild
    NoEffect = 7
    SampleBound = 60

SPECIFICATION OutputSpec

INVARIANTS
    PauseFreezesSound
