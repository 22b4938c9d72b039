CONSTANTS
    LastRow = 10
    RingCap = 1
    Key <- MCKey
    Printable <- MCPrintable
    PasteTarget <- MCTarget
    PasteBufferLen = 2
    RetryDotCount = 1
    RetryNudgeAfter = 1
    SilentPolls = 1
    CountdownS = 1
    WrongPasteLimit = 1
    start_row = 2
    MaxKeys = 5
    PreLen = 2
    PostLen = 1
    PacePolls = 2
    ToastPolls = 3
    DwellPolls = 2
    BlinkPolls = 2
    GlitchEveryN = 2
    ModeKey <- MCModeKey
    ModeList <- MCModeList
    FirstMode = "small"

SPECIFICATION Spec

INVARIANT DrainedBeforeShutdown
