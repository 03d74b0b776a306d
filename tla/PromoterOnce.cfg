\* As Promoter: a commit that fails after a ticker was alerted, or a midnight in between.
SPECIFICATION PromoterSpec
CONSTANTS
    Events = {1, 2}
    Tickers = {1, 2}
    Names <- OverlapNames
    AutoTickers = {2}
    Modes = {"gate", "legacy"}
    BatchSize = 2
    MaxPending = 1
    MaxPerDay = 1
    DayLength = 2
    UtcMidnight = 1
    Cooldown = 1
    MaxFaults = 1
INVARIANT AlertedOncePerDay
