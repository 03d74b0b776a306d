\* Two jobs, an abandoned thread next to the current one, two faults.
SPECIFICATION WorkerSpec
CONSTANTS
    MaxJobs = 2
    Actions = {a1, a2}
    NoAction = NoAction
    CostValues = {0}
    AgeCap = 4
    MaxThreads = 2
    JobTimeout = 1
    SweepMargin = 1
    BootMaxAge = 3
    BudgetEnabled = FALSE
    DailyUsd = 1
    MaxFaults = 2
SYMMETRY Symmetry
INVARIANTS WorkerTypeOK OneExecutor DoneIsDelivered ResultBelongsToAction NoOvertaking
PROPERTIES ImplementsLifecycle SweepOnlyOverdue
