CONSTANTS
    LastRow = 10
    RingCap = 3
    Key <- MCKey
    Printable <- MCPrintable
    PasteTarget <- MCTarget
    PasteBufferLen = 2
    RetryDotCount = 2
    RetryNudgeAfter = 1
    SilentPolls = 2
    CountdownS = 1
    WrongPasteLimit = 2
    start_row = 2
    MaxKeys = 6
    PreLen = 2
    PostLen = 1
    PacePolls = 2
    ToastPolls = 3
    DwellPolls = 2
    BlinkPolls = 2
    GlitchEveryN = 1
    ModeKey <- MCModeKey
    ModeList <- MCModeList
    FirstMode = "small"

SPECIFICATION Spec

INVARIANTS
    TypeOK
    NoGhostText
    RepaintIsFaithful
    QrCoversTranscript
    ToastTellsTheMode
    CycleLedger

PROPERTIES
    BootPlaysOn
    CycleEnds
    DigestCatchesUp
    ToastExpires
