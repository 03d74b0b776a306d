\* One poller of each kind with two items, batches of two, no fault.
SPECIFICATION SensingSpec
CONSTANTS
    Items = {1, 2}
    Text <- OwnText
    ExtId <- OwnId
    NoId = 0
    Similar <- OwnSimilar
    Unreadable = {}
    Consumers = {c0}
    Batch = 2
    MaxEntries = 4
    MaxDeliveries = 2
    MaxFaults = 0
    Sources = {"poll"}
    Kinds <- EveryKind
    Source <- PolledAndPushed
    Stamp <- ItemStamp
    Page <- WidePage
    MaxAborts = 0
PROPERTY DeferredIsScored
