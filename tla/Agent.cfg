SPECIFICATION FairSpec
CONSTANTS
    Configs <- MCConfigs
    Histories <- MCHistories
    MaxCalls = 3
    Chunks <- ChatChunks
    MaxPieces = 2
CHECK_DEADLOCK FALSE
INVARIANTS
    RequestsAreValid
    WireIsPaired
    NoToolLeftRunning
    FirstErrorIsTheCause
PROPERTIES
    AgentEnds
