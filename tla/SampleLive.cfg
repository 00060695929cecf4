CONSTANTS
    Method = "sample.ping"
    Caller = {c1, c2}
    PipeSize = 4
    MaxTicks = 1
SPECIFICATION FairSpec
PROPERTIES HeardCallsReturn TicksAreLogged
