\* Requests that wait for each other's rows and numbers while the grid, the rooms and
\* the workers move; no symmetry, for liveness.
CONSTANTS
    BookingCount = 2
    RoomCount = 2
    Types = {"standard"}
    TypeOf <- OneType
    Horizon = 1
    Grids <- OpenOrTight
    HoldKinds = {"running"}
    StaffSets = {"AVAILABLE"}
    Clerks = {c1, c2}
    Ops = {"create", "confirm", "assign", "swap", "lock", "cancel", "noShow"}
    MaxRequests = 2
    Starts <- OwnRoomStarts
    NumberAttempts = 5
    Null = Null
SPECIFICATION FairSpec
INVARIANT NumbersUnique
PROPERTIES EveryRequestEnds RefusedForCause
CHECK_DEADLOCK FALSE
