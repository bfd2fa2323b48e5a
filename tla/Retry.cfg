SPECIFICATION RetrySpec
CONSTANTS
    Outcomes <- MCOutcomes
    Hints <- MCHints
    MaxRetries = 37
CHECK_DEADLOCK FALSE
INVARIANTS
    EveryRetryWaits
    CancelEndsLoop
