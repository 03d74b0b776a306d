\* Two tickers on one light alert, one of them unusable, a backtest, two responders, one fault.
SPECIFICATION GateSpec
CONSTANTS
    MaxJobs = 3
    Actions = {1, 2, 3}
    NoAction = 0
    CostValues = {0}
    AgeCap = 0
    Kind <- AlertKind
    BriefOf <- AlertBrief
    Malformed = {2}
    Bots = {bot}
    Consoles = {console}
    MaxArtifacts = 3
    MaxHandlerFaults = 1
INVARIANTS GateTypeOK NoStudyWithoutApproval DuplicatesNeedFaults DispatchIsConsistent
