SPECIFICATION FairSpec
CONSTANTS
    Buffer = 1
    MaxTexts = 3
    MaxCalls = 2
CHECK_DEADLOCK FALSE
INVARIANTS
    InOrder
    StatsTellTheTruth
    CallsArrive
PROPERTIES
    ErrorEndsStream
    StreamEnds
    WrapEndsOnCancel
