SPECIFICATION ClientSpec
CONSTANTS
    c1 = c1
    c2 = c2
    Callers <- MCCallers
    PipeCapacity = 1
    MaxCalls = 2
    MaxMessages = 2
    MaxExchanges = 3
    MaxEvents = 2
CHECK_DEADLOCK FALSE
INVARIANTS
    PendingIsExact
    NoLostResponse
    SessionIsKept
PROPERTIES
    ImplementsTransport
    EveryCallReturns
    PipeIsDrained
