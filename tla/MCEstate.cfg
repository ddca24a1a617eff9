CONSTANTS
    Patterns = {"pool", "Pool"}
    Fold <- MCFold
    Teachers = {"t1", "t2"}
    Importer = "imp"
    MaxPuts = 4
    KnownLimits <- MCKnownLimits
    CardPage = 2
    Procs = {"a", "b"}
    MaxAdds = 3
    Reads = {1, 2}
    QueryPage = 1
    ListLimit = 2
    ReadLimits <- MCReadLimits
    Groups <- MCGroups
    Ages = {0, 301}
    MaxTries = 2
    PanLength = 3
    MaxCards = 2
    MaxScored = 2
    Budgets <- MCBudgets
    MaxTime = 4
    Durations = {1, 3}
    Txns = {1}
    MaxReceive = 2
    ChaosLimits <- MCChaosLimits
    Runs = {1, 2}
    Window = 1
    DrillLimits <- MCDrillLimits
SPECIFICATION EstateSpec
INVARIANTS
    EstateTypeOK
    LatestTeachingStays
    ImportRestores
    ExportHoldsWhatStayed
    StoreSurvivesKill
    ListMissesNothing
    ReportsAddUp
    AnswersAreTrue
    SecondOnlyUnseen
    ScrubTellsSlips
    CommittedIsAccounted
    NotificationsStop
    ProbeLeavesNothing
    CleanWhenOver
    PassesAreApart
PROPERTIES
    TeachingCollapses
    LagEnds
    CrashloopCrashes
    LedgerSettles
    BrokerComesBack
CHECK_DEADLOCK FALSE
