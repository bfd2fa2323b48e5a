SPECIFICATION FairSpec
CONSTANTS
    c1 = c1
    c2 = c2
    c3 = c3
    Callers <- MCCallers
    Rate = 2
    Second = 6
INVARIANTS
    TokensConserved
    NoSleepOnToken
PROPERTIES
    SomebodyGetsThrough
