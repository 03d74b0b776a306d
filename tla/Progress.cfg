\* What has to come to an end, under the fairness of each component.
SPECIFICATION FairServices
CONSTANTS
    Parts = {"sensing", "availability", "backtest"}
    Streams <- OneThenTwo
    Items = {1, 2}
    Text <- OwnText
    ExtId <- OwnId
    NoId = 0
    Similar <- SameText
    Unreadable = {2}
    Consumers = {c0}
    Batch = 1
    MaxEntries = 4
    MaxDeliveries = 2
    MaxFaults = 0
    Sources = {"feed"}
    Kinds <- Pollers
    Source <- OneFeed
    Stamp <- ItemStamp
    Page <- WidePage
    MaxAborts = 1
    Watchable = {1, 2}
    Ttl = 1
    MaxNow = 3
    Calls = {1, 2}
    Threshold = 2
    PerDay = 1
    Days = 1
    CountCap = 3
    FallbackModes = {"none", "api"}
    MaxStops = 1
    MaxStoreFaults = 0
    MaxUnresolved = 1
    MaxOvertaken = 1
    Runs = {r1}
    Plans <- AnalystPlans
    Rounds = 1
    RiskRounds = 1
    RecurLimit = 13
    Checkpointing = {TRUE, FALSE}
    MaxAttempts = 1
    MaxBriefs = 3
    MaxRoots = 1
    Channels <- EmailCliTelegram
    DigestChannels <- CliThenEmail
    Disabled = {}
    Modes = {"event_alert", "morning_digest"}
    MaxDepth = 1
    MaxAnswers = 1
    MaxMishaps = 2
    Writers = {w1, w2}
    Subjects = {"monday", "tuesday"}
    TickerOf <- OneTicker
    MaxResolved = 1
    MaxAppends = 2
    MaxDeaths = 1
    Openers = {o1}
    Sweepers = {s1}
    RowsEach <- OneEach
    MaxDied = 1
PROPERTIES AllIsTraced OutageEngages DueIsMatured
