\* A refinement in front of a study, which may hang.
SPECIFICATION FairPipeline
CONSTANTS
    MaxJobs = 1
    Actions = {1, 2}
    NoAction = 0
    CostValues = {0}
    AgeCap = 3
    MaxThreads = 2
    JobTimeout = 1
    SweepMargin = 1
    BootMaxAge = 2
    BudgetEnabled = FALSE
    DailyUsd = 1
    MaxFaults = 0
    Kind <- QueueKind
    BriefOf <- QueueBrief
    Malformed = {}
    Bots = {bot}
    Consoles = {}
    MaxArtifacts = 1
    MaxHandlerFaults = 0
PROPERTIES AcceptedIsEnqueued LapsedIsClosed AcceptedIsAnswered
