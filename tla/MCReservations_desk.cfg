\* Two bookings and two rooms of one type over two nights, a grid that tightens and
\* eases, rooms cleaned, enquiries with a deadline, and the calendar the bookings draw.
CONSTANTS
    BookingCount = 2
    RoomCount = 2
    Types = {"standard"}
    TypeOf <- OneType
    Horizon = 2
    Grids <- OpenOrTight
    HoldKinds = {"running"}
    StaffSets = {"AVAILABLE"}
    Null = Null
SPECIFICATION Spec
INVARIANTS TypeOK NoDoubleBooking TotalAgreesWithDates OnOneList
PROPERTIES StatusFollowsMap PinnedRoomKept CalendarKept
CHECK_DEADLOCK FALSE
