CONSTANTS
    Request = {q1, q2}
    Name = {"admin", "ann", "ben"}
    Admin = "admin"
    Member = "ann"
    Sections = {TRUE, FALSE}
    MaxVersion = 2
    MaxSecret = 1
    MaxCrashes = 0
SPECIFICATION Spec
CHECK_DEADLOCK FALSE
INVARIANT ReportedIsSaved
