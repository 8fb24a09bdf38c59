\* One small hotel of each component; the initial state chooses which.
CONSTANTS
    Stays = {"b1"}
    RoomTotal = 2
    HasAccount = {"b1"}
    Tax = 1
    Sources = {"s1"}
    Lines = {1}
    Keys = {"k1"}
    Sums = {2}
    PayMethods = {"CARD"}
    Desks = {"d1", "d2"}
    Shifts = {1}
    DeskOperations = {"source", "PAYMENT", "REFUND", "checkout", "discount"}
    MaxCash = 1
    Trips = {"t1"}
    Drivers = {"d1", "d2"}
    Vehicles = {"v1"}
    Callers = {"c1", "c2"}
    BookingCount = 2
    RoomCount = 2
    Types = {"standard"}
    TypeOf <- AllStandard
    Horizon = 2
    Grids <- OnlyOpen
    HoldKinds = {"none"}
    StaffSets = {}
    Starts <- TwoInTurn
    DeskOps = {"checkIn", "checkOut", "move", "swap"}
    Staff = {"s1", "a1"}
    Supervisors = {"s1"}
    MaxTasks = 2
    HandTasks = FALSE
    MaxOrders = 0
    Entries = {"x", "p"}
    KindOf <- KindOfEntry
    Amounts = {1}
    Todos = {}
    Clerks = {"c1", "c2"}
    Tables = {"t1"}
    Dishes = {"m1"}
    DiningOrders = {1, 2}
    Items = {1}
    Surcharge = 1
    Waiters = {"w1", "w2"}
    RestaurantOperations = {"create", "add", "bill", "settle"}
    InitialStock = 1
    StockItems = {"a", "b"}
    PurchaseOrders = {"p1"}
    LinesOf <- LinesOfOrder
    Recipes <- Bills
    Movers = {"c1", "c2"}
    MaxOnHand = 1
    Plans = {"p"}
    Names = {"n1"}
    StayLimits = {2, 3}
    Fees = {"f"}
    Calculations = {"PERCENT", "FIXED"}
    Values = {20000}
    Editors = {"e1", "e2"}
    Quotes <- OneQuote
    Null = Null
INIT HotelInit
NEXT HotelNext
INVARIANTS HotelTypeOK GuestAccountsAddUp OrdersSettleOnce StartedTripHasDriver
INVARIANTS OnHandIsTheLedger RowsAgree TermsAgree BooksFollowTheQueue OwedWorkIsShown NoRoomStranded
CHECK_DEADLOCK FALSE
