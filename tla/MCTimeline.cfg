CONSTANTS
    Event <- MCEvent
    Channel <- MCChannel
    Cost <- MCCost
    Budget = 4
    N = 3
    FrameMod = 2
    NONE = NONE
    MaxPushes = 7
    MaxRefreshes = 3

SPECIFICATION Spec

INVARIANTS
    TypeOK
    QrDescribesOneMoment

PROPERTIES
    RingImplementsTrail
    QrMovesForward
