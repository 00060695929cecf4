CONSTANTS
    Caller = {c1, c2}
    Method = "sample.ping"
    PipeSize = 2
    MaxTicks = 1
    chat = chat
    sample = sample
    other = other
    Plugin = {chat, sample, other}
    KindsOf <- MCKindsOf
    Sources <- MCSources
SPECIFICATION MCSpec
CHECK_DEADLOCK FALSE
INVARIANTS
    TypeOK
    PendingIsInFlight
    OwnAnswer
    FollowsPrecedence
PROPERTIES
    StartReturns
    EveryPluginEnds
