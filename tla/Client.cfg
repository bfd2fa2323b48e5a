SPECIFICATION CircuitSpec
CONSTANTS
    c1 = c1
    c2 = c2
    Callers <- MCCallers
    Chain <- MCChain
    Configured <- MCConfigured
    Reliable <- MCReliable
    Lacks <- LacksSome
    Operations <- AllMethods
    Answers <- MCAnswers
    MaxRetries = 1
    CancelAllowed = TRUE
    MaxFailures = 1
    ResetTimeout = 1
    HalfOpenRequests = 2
SYMMETRY CallerSymmetry
INVARIANTS
    SendsBounded
    CountedOnce
    ReliableProviderServes
    NothingAfterFinalAnswer
PROPERTIES
    CircuitsAreCircuits
