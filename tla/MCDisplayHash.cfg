CONSTANTS
    ModeLists <- MCShipped

SPECIFICATION Spec

INVARIANT
    HashCoversEveryMode
