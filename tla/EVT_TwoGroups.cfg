SPECIFICATION FairSpec
CONSTANTS
    NumGroups = 2
    Size = 2
CHECK_DEADLOCK FALSE
PROPERTY EveryTesterComesThrough
