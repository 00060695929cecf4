CONSTANTS
    alice = alice
    bob = bob
    tab1 = tab1
    tab2 = tab2
    hall = hall
    diary = diary
    Absent = Absent
    Socket = {tab1, tab2}
    User = {alice, bob}
    Room = {hall, diary}
    Capacity = 1
    Owner <- MCOwner
    Access <- MCAccess
SPECIFICATION FairSpec
INVARIANTS
    TypeOK
    CountIsSockets
    ZeroIsDebouncing
    NoPhantomOnline
    NoGhostMembers
    RoomConfidentiality
PROPERTIES
    ClosedUserGoesOffline
    PromiseKept
    PromiseKeptFairly
