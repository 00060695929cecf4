CONSTANTS
    Request = {q1}
    Name = {"admin", "ann", "ben"}
    Admin = "admin"
    Member = "ann"
    Sections = {TRUE}
    MaxVersion = 1
    MaxSecret = 2
    MaxCrashes = 1
SPECIFICATION Spec
CHECK_DEADLOCK FALSE
INVARIANT BootstrapRunsOnce
