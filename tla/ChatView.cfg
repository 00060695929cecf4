CONSTANTS
    NoRoom = NoRoom
    Room = {den, hall}
    Message = {m1, m2}
    Text = {hi, hey}
    MaxBreaks = 2
SPECIFICATION Spec
SYMMETRY Interchangeable
VIEW Relevant
INVARIANTS TypeOK TempsAreUnderWay SentIsShown NoDoubles NothingElseIsMissed
CHECK_DEADLOCK FALSE
