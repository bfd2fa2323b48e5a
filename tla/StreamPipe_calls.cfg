SPECIFICATION Spec
CONSTANTS
    Buffer = 1
    MaxTexts = 1
    MaxCalls = 2
CHECK_DEADLOCK FALSE
INVARIANTS
    EveryCallArrives
