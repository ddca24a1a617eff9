CONSTANTS
    Reads = {1, 2, 3}
    QueryPage = 2
    ListLimit = 5
    ReadLimits <- MCListLimits
SPECIFICATION SpineReadsSpec
INVARIANT ListsTheMostRecent
CHECK_DEADLOCK FALSE
