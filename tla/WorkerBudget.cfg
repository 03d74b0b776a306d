\* Three studies of one dollar under a limit of one dollar, two threads.
SPECIFICATION WorkerSpec
CONSTANTS
    MaxJobs = 3
    Actions = {}
    NoAction = NoAction
    CostValues = {0, 1}
    AgeCap = 3
    MaxThreads = 2
    JobTimeout = 1
    SweepMargin = 1
    BootMaxAge = 2
    BudgetEnabled = TRUE
    DailyUsd = 1
    MaxFaults = 0
INVARIANT BudgetOvershoot
