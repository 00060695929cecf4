CONSTANTS
    Request = {q1, q2}
    Name = {"admin", "ann", "ben"}
    Admin = "admin"
    Member = "ann"
    Sections = {TRUE, FALSE}
    MaxVersion = 2
    MaxSecret = 3
    MaxCrashes = 2
SPECIFICATION Spec
CHECK_DEADLOCK FALSE
INVARIANTS TypeOK UniqueAccounts FileIsThePast OneConfiguration AckedIsSaved
