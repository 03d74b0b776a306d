\* Two rows of a light alert, a runaway thread next to its successor, no fault.
SPECIFICATION PipelineSpec
CONSTANTS
    MaxJobs = 2
    Actions = {1, 2}
    NoAction = 0
    CostValues = {0}
    AgeCap = 3
    MaxThreads = 2
    JobTimeout = 1
    SweepMargin = 1
    BootMaxAge = 2
    BudgetEnabled = FALSE
    DailyUsd = 1
    MaxFaults = 0
    Kind <- LightKind
    BriefOf <- LightBrief
    Malformed = {}
    Bots = {bot}
    Consoles = {}
    MaxArtifacts = 0
    MaxHandlerFaults = 0
INVARIANTS ResultFromRecordedJob NoBriefWithoutApproval DeclinedNeverStudied
PROPERTIES ResultIsFinal
