\* Check-in races cancellation.
CONSTANTS
    BookingCount = 1
    RoomCount = 1
    Types = {"standard"}
    TypeOf <- OneType
    Horizon = 1
    Grids <- OnlyOpen
    HoldKinds = {"none"}
    StaffSets = {}
    Clerks = {c1, c2}
    Ops = {"checkIn", "cancel"}
    MaxRequests = 2
    Starts <- LegalStarts
    NumberAttempts = 5
    Null = Null
SPECIFICATION Spec
PROPERTY TerminalStatesFinal
SYMMETRY ClerkSymmetry
CHECK_DEADLOCK FALSE
