SPECIFICATION FairSpec
CONSTANTS
    Routes <- MCRoutes
    Kinds <- MCKinds
    MaxRetries = 1
    HttpErrors <- MCHttpErrors
CHECK_DEADLOCK FALSE
INVARIANTS
    TasksAccounted
    EndIsTrue
PROPERTIES
    ReportedMovesForward
    PollingEnds
