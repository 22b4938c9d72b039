CONSTANTS
    PollMs = 2
    BlinkHalfMs = 3
    GlitchEveryN = 2
    Top = 15
    Taps <- MCTaps
    Seed <- MCSeed

SPECIFICATION Spec

INVARIANTS
    TypeOK
    NeverZero

PROPERTIES
    ImplementsBlinker
    EveryGlyphRecurs
