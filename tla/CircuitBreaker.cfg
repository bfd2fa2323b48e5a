SPECIFICATION FairSpec
CONSTANTS
    c1 = c1
    c2 = c2
    c3 = c3
    Callers <- MCCallers
    Outcomes <- MCOutcomes
    MaxFailures = 3
    ResetTimeout = 2
    HalfOpenRequests = 2
INVARIANTS
    ClosedCountsStreak
PROPERTIES
    ImplementsGate
    ClosesAfterRecovery
