CONSTANTS
    ModeLists <- MCModeLists

SPECIFICATION Spec

INVARIANTS
    TypeOK
    NearestIsBest
    WidgetsApart
    TextStaysClear
    HashCoversRest
