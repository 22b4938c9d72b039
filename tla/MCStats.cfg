CONSTANTS
    Cap = 4
    RankNum = 3
    RankDen = 4
    StallMs = 2
    Micros = 2
    U64 = 32
    MaxCalls = 7
    Reading <- MCReading

SPECIFICATION Spec

\* The machine is shut down after the drain.
CHECK_DEADLOCK FALSE

INVARIANTS
    TypeOK
    WindowIsRecent
    MeanBelowMax
    PercentileRank
