\* One instance of every component that shares no state with another.
SPECIFICATION ServicesSpec
CONSTANTS
    Parts = {"triage", "adapters", "watchlist", "availability", "study", "delivery", "log", "backtest"}
    Streams <- OneThenTwo
    Items = {1, 2, 3, 4}
    Text <- TwinText
    ExtId <- TwinExtId
    NoId = "none"
    Similar <- SameText
    Unreadable = {}
    Consumers = {c0, c1}
    Batch = 2
    MaxEntries = 8
    MaxDeliveries = 2
    MaxFaults = 1
    Sources = {"feed"}
    Kinds <- AnyKind
    Source <- OneFeed
    Stamp <- ItemStamp
    Page <- WidePage
    MaxAborts = 2
    Watchable = {1, 2}
    Ttl = 1
    MaxNow = 3
    Calls = {1, 2}
    Threshold = 2
    PerDay = 1
    Days = 2
    CountCap = 3
    FallbackModes = {"none", "api"}
    MaxStops = 1
    MaxStoreFaults = 1
    MaxUnresolved = 1
    MaxOvertaken = 1
    Runs = {r1, r2}
    Plans <- AnalystPlans
    Rounds = 1
    RiskRounds = 1
    RecurLimit = 13
    Checkpointing = {TRUE, FALSE}
    MaxAttempts = 1
    MaxBriefs = 3
    MaxRoots = 1
    Channels <- EmailCliTelegram
    DigestChannels <- CliThenEmail
    Disabled = {}
    Modes = {"event_alert", "morning_digest"}
    MaxDepth = 1
    MaxAnswers = 1
    MaxMishaps = 2
    Writers = {w1, w2}
    Subjects = {"monday", "tuesday"}
    TickerOf <- OneTicker
    MaxResolved = 1
    MaxAppends = 2
    MaxDeaths = 1
    Openers = {o1}
    Sweepers = {s1}
    RowsEach <- TwoAndOne
    MaxDied = 1
SYMMETRY ServicesSymmetry
INVARIANTS AckedLeavesTrace DuplicateOfScored TickersFollow
    PassedIsPublished RepublishedAfterAbort CuratedNeverExpires FallbackWithinBudget
    RecordIsWhole EveryChannelRecorded OneOfferEach ChainIsCapped
    NothingForgotten OneOutcomeEach
