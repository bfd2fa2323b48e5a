SPECIFICATION FairCacheSpec
CONSTANTS
    c1 = c1
    c2 = c2
    k1 = k1
    k2 = k2
    k3 = k3
    Callers <- MCCallers
    Cursors <- MCCursors
    MaxPages = 3
    MaxVersion = 2
CHECK_DEADLOCK FALSE
INVARIANTS
    StaleOnlyIfOvertaken
PROPERTIES
    FetchEnds
