CONSTANTS
    ModeLists <- MCShipped

SPECIFICATION Spec

INVARIANT
    DigestCollidesWithNoText
