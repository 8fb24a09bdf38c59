\* One small instance of each component; the initial state chooses which.
CONSTANTS
    Orders = {"rzp", "cf"}
    ProviderOf <- EachGateway
    Cashes = {"cash"}
    Handlers = {"h1", "h2", "w"}
    Worker = "w"
    Refunds = {1, 2}
    Limit = 1
    MayCrash = TRUE
    Amount = 2
    MaxAttempts = 2
    MaxNow = 1
    MaxNumber = 2
    Sold = {"b1"}
    Types = {"dbl"}
    TypeOf <- OneType
    RoomCount <- TwoRooms
    Runs = {"r1", "r2"}
    Manual = TRUE
    MaxFailures = 2
    MaxCrashes = 1
    MaxDeliveries = 2
    MaxHour = 1
    MaxStays = 2
    Nights = {1}
    Base = 100
    MaxPrice = 150
    FloorPrice = 105
    HandPrices = {110}
    Deltas = {5000}
    Overrides = {"o"}
    OverrideOf <- OneDear
    Rules = {"x"}
    Terms <- TwoTerms
    Rooms = 1
    HourlyRun = "w"
    Demands = {"d"}
    Staff = {"h", "n"}
    Founders <- OneFounder
    Emails = {"e1", "e2"}
    OtherRoles = {"RECEPTIONIST"}
    Stopped = {"BLOCKED"}
    Callers = {"c1", "c2"}
    Days <- PlanDays
    Price <- PlanPrice
    PropertyLimit <- PlanLimit
    NoticeDays = 1
    GraceDays = 1
    SuspendDays = 2
    WarningDays = {}
    ExtensionDays = 1
    Keys = {"k"}
    Properties = {}
    Clients = {"c1", "c2"}
    Operations = {"settle", "extend"}
    MaxDay = 4
    MaxEnd = 6
    Devices = {"d1", "d2"}
    PersonOf <- HisDevices
    AudienceOf <- AnOwner
    Slots = {1, 2}
    Calls = {}
    Codes = {"c1", "c2"}
    MaxOtps = 1
    MaxTokens = 2
    MaxGuesses = 1
    Lossy = TRUE
    Impersonations = {"s1"}
    Targets = {"o1", "o2"}
    Visitors = {"q1", "q2"}
    Lifetime = 1
    LastTick = 2
    Facts = {"e1"}
    OnceFacts = {}
    ChannelsOf <- ByPhone
    Announcements = {"a"}
    Notifiers = {"c1"}
    Drains = {"w1", "w2"}
    Phones = {"p"}
    MAX_ATTEMPTS = 2
    MaxRows = 1
    MaxStops = 1
    MaxAsks = 1
    Stays = {"s1"}
    Guests = {"g"}
    GuestOf <- HisNumber
    Threads = {1, 2}
    Messages = {1, 2}
    Writers = {}
    Inbound = {"in"}
    StayWorker = "w"
    Readers = {"r"}
    MaxDeaths = 1
    Tickets = {"t"}
    Posts = {1, 2, 3}
    Answerers = {"p", "q"}
    Null = Null
INIT PlatformInit
NEXT PlatformNext
INVARIANTS PlatformTypeOK SettlementsAreWhole RefundsAddUp SubscriptionsHold AccessEndsForCause
INVARIANTS SentOnceUnlessCut GuestsAreAnswered BookedOnceUnlessRaced PricesStand ServedByApproval
CHECK_DEADLOCK FALSE
