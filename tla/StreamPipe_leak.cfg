SPECIFICATION FairSpec
CONSTANTS
    Buffer = 1
    MaxTexts = 4
    MaxCalls = 0
CHECK_DEADLOCK FALSE
PROPERTIES
    ChannelCloses
