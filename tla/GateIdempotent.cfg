\* One crash between the two commits of a dispatch.
SPECIFICATION GateSpec
CONSTANTS
    MaxJobs = 4
    Actions = {1, 2, 3}
    NoAction = 0
    CostValues = {0}
    AgeCap = 0
    Kind <- AlertKind
    BriefOf <- AlertBrief
    Malformed = {}
    Bots = {bot}
    Consoles = {console}
    MaxArtifacts = 1
    MaxHandlerFaults = 1
INVARIANT AtMostOneStudy
