\* Two jobs whose studies may hang, a crash, a stop or a failing commit.
SPECIFICATION FairWorker
CONSTANTS
    MaxJobs = 2
    Actions = {}
    NoAction = NoAction
    CostValues = {0}
    AgeCap = 3
    MaxThreads = 3
    JobTimeout = 1
    SweepMargin = 1
    BootMaxAge = 2
    BudgetEnabled = FALSE
    DailyUsd = 1
    MaxFaults = 1
PROPERTIES ImplementsFairLifecycle
