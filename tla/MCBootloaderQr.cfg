CONSTANTS
    LastRow = 9
    RingCap = 100
    Key <- MCKey
    Printable <- MCPrintable
    PasteTarget <- MCTarget
    PasteBufferLen = 3
    RetryDotCount = 3
    RetryNudgeAfter = 2
    SilentPolls = 3
    CountdownS = 2
    WrongPasteLimit = 3
    start_row = 1
    MaxKeys = 6

SPECIFICATION Spec

INVARIANT QrMatchesScreen
