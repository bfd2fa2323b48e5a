SPECIFICATION Spec
CONSTANTS
    Calls = {1, 2}
    Chain <- MCChain
    Policies <- MCPolicies
    Requests <- MCRequests
    SizeOf <- MCSizeOf
    Nil = Nil
CHECK_DEADLOCK FALSE
INVARIANTS
    CallerUntouched
    EachProviderAfresh
    AuditIsExact
    ReportsHideText
