\* Two clerks confirm bookings of one room.
CONSTANTS
    BookingCount = 2
    RoomCount = 1
    Types = {"standard"}
    TypeOf <- OneType
    Horizon = 1
    Grids <- OnlyOpen
    HoldKinds = {"none"}
    StaffSets = {}
    Clerks = {c1, c2}
    Ops = {"confirm"}
    MaxRequests = 2
    Starts <- LegalStarts
    NumberAttempts = 5
    Null = Null
SPECIFICATION Spec
INVARIANT NoDoubleBooking
SYMMETRY ClerkSymmetry
CHECK_DEADLOCK FALSE
