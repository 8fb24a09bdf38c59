\* Two requests at once, of the handlers that probe or move guests, from every
\* table of two bookings of one room that serial requests can leave.
CONSTANTS
    BookingCount = 2
    RoomCount = 2
    Types = {"standard"}
    TypeOf <- OneType
    Horizon = 2
    Grids <- OnlyOpen
    HoldKinds = {"none"}
    StaffSets = {}
    Clerks = {c1, c2}
    Ops = {"update", "extend", "confirm", "move", "checkIn", "checkOut", "swap"}
    MaxRequests = 2
    Starts <- ContestedStarts
    NumberAttempts = 5
    Null = Null
SPECIFICATION Spec
INVARIANT TypeOK
PROPERTIES SerialWhenIsolated ClashOnlyWithChangedRow
SYMMETRY ClerkSymmetry
CHECK_DEADLOCK FALSE
