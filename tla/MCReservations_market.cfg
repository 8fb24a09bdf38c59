\* Two bookings and two rooms, one of each type, over two nights: a grid that tightens
\* and eases, rooms out of order, what the booking form shows of both.
CONSTANTS
    BookingCount = 2
    RoomCount = 2
    Types = {"standard", "suite"}
    TypeOf <- LastIsSuite
    Horizon = 2
    Grids <- OpenOrTight
    HoldKinds = {"none"}
    StaffSets = {"OUT_OF_ORDER"}
    Null = Null
SPECIFICATION Spec
INVARIANTS RoomsKnown AvailabilityNeverFlatters
PROPERTY CommitsWithinCapacity
CHECK_DEADLOCK FALSE
