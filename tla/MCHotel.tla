------------------------------ MODULE MCHotel ------------------------------
(***************************************************************************)
(* The house services of one hotel, for TLC: accounts and drawer, tables,  *)
(* treatments, trips, stock, terms and quotes, rooms and galleries, the    *)
(* public page, guest links, key cards, registers and housekeeping.        *)
(*                                                                         *)
(* These components share no row, or share it in a module that extends the *)
(* other (Restaurant and Spa post on Folio, BookingEngine reads what       *)
(* PropertyConfig writes).  So a run plays one small hotel of one          *)
(* component at a time: the initial state chooses the scene, which never   *)
(* changes, and what is not of the scene is Null.  The accounts, the       *)
(* orders, the trips, the stock, the terms, the registers and the          *)
(* housekeeping are extended, so that their properties are checked as they *)
(* are stated and proved: their tables rest as they start.                 *)
(***************************************************************************)
EXTENDS Restaurant, Transport, Housekeeping, Registers, Inventory, RatePlans

VARIABLES
    scene,
    raced,
    service, appointments, bills, spaDesk,
    crossed,
    rooms, types, catalogue, roomCount, drifted, edits, roomDesks,
    inserted, photos, request, tangled,
    settings, policies, addons, coupons, drafts,
    stays,
    visits,
    bursts,
    links, sending, day,
    cards, bookings, desks, clock, marks

\* The order p1 is for one of each item, and bills use one or both.
LinesOfOrder == [p \in {"p1"} |-> <<"a", "b">>]
Bills == {<<"a">>, <<"b", "a">>}

OneQuote == {[price |-> 100, nights |-> 1, guests |-> 1, inclusive |-> TRUE, fees |-> <<>>]}
SomeFees ==
    LET by == [basis : {"PER_ROOM", "PER_GUEST"}, period : {"PER_NIGHT", "PER_STAY"}]
    IN  {[calculation |-> c[1], value |-> c[2], basis |-> b.basis, period |-> b.period] :
            c \in {<<"PERCENT", 1250>>, <<"FIXED", 50>>}, b \in by}
AllQuotes ==
    [price : {0, 99, 333}, nights : 0 .. 3, guests : {0, 1, 3}, inclusive : BOOLEAN,
     fees : {<<>>} \cup {<<a>> : a \in SomeFees} \cup {<<a, b>> : a, b \in SomeFees}]

\* A rates grid that restricts nothing.
Rule(cap, least, most, shut) ==
    [cap |-> cap, minLos |-> least, maxLos |-> most, stopSell |-> shut,
     closedToArrival |-> shut, closedToDeparture |-> shut]
OpenGrid(kinds, n, last) == [t \in kinds |-> [d \in 0 .. last |-> Rule(n, 0, last + 1, FALSE)]]

\* As many guests who follow one another in room 1, a night each.
InTurn(n) ==
    {[b \in Bookings |->
        IF b > n THEN NoRow
        ELSE [status |-> "CONFIRMED", type |-> "standard", room |-> 1, ci |-> b - 1, co |-> b,
              nights |-> 1, locked |-> FALSE, hold |-> "none"]]}

\* The rooms, their types and the grid of the housekeeping scenes.
TwoInTurn == InTurn(2)
AllStandard == [r \in Rooms |-> "standard"]
OnlyOpen == {OpenGrid({"standard"}, 2, 2)}

KindOfEntry == [x |-> "expense", p |-> "purchase", l |-> "lead", v |-> "event"]

-----------------------------------------------------------------------------
(* The components and the small hotels they run in. *)

\* One desk that charges, takes off, voids and exempts.
Ledger == INSTANCE Folio WITH
    Stays <- {"b1"}, RoomTotal <- 2, HasAccount <- {"b1"}, Tax <- 1, Sources <- {},
    Lines <- {1}, Keys <- {"k1", "k2"}, Sums <- {1, 2}, PayMethods <- {"CARD"},
    Desks <- {"d1"}, Shifts <- {1},
    DeskOperations <- {"charge", "discount", "void", "exempt", "PAYMENT", "checkout"},
    MaxCash <- 1

\* Two desks at one drawer.
Drawer == INSTANCE Folio WITH
    Stays <- {"b1"}, RoomTotal <- 2, HasAccount <- {"b1"}, Tax <- 1, Sources <- {},
    Lines <- {}, Keys <- {"k1"}, Sums <- {1}, PayMethods <- {"CASH"},
    Desks <- {"d1", "d2"}, Shifts <- {1},
    DeskOperations <- {"PAYMENT", "movement", "shift"}, MaxCash <- 1

\* Two desks that take payments on the account of a company, and its own.
Company == INSTANCE Folio WITH
    Stays <- {"b1"}, RoomTotal <- 2, HasAccount <- {"b1"}, Tax <- 1, Sources <- {},
    Lines <- {}, Keys <- {"k1"}, Sums <- {1}, PayMethods <- {"CORPORATE"},
    Desks <- {"d1", "d2"}, Shifts <- {1},
    DeskOperations <- {"PAYMENT", "shift", "account"}, MaxCash <- 1

\* Two waiters at one order.
Table == INSTANCE Restaurant WITH
    Stays <- {"b1"}, RoomTotal <- 2, HasAccount <- {"b1"}, Tax <- 1, Sources <- {1},
    Lines <- {1}, Keys <- {"k1"}, Sums <- {1}, PayMethods <- {}, Desks <- {"d1"},
    Shifts <- {1}, DeskOperations <- {}, MaxCash <- 1, Tables <- {"t1"}, Dishes <- {"m1"},
    DiningOrders <- {1}, Items <- {1}, Surcharge <- 1, Waiters <- {"w1", "w2"},
    RestaurantOperations <- {"create", "add", "kot", "bill", "settle", "cancel", "rebate"},
    InitialStock <- 1

\* Two waiters, two orders for one table.
TwoOrders == INSTANCE Restaurant WITH
    Stays <- {"b1"}, RoomTotal <- 2, HasAccount <- {"b1"}, Tax <- 1, Sources <- {1, 2},
    Lines <- {1, 2}, Keys <- {"k1"}, Sums <- {1}, PayMethods <- {}, Desks <- {"d1"},
    Shifts <- {1}, DeskOperations <- {}, MaxCash <- 1, Tables <- {"t1"}, Dishes <- {"m1"},
    DiningOrders <- {1, 2}, Items <- {1}, Surcharge <- 1, Waiters <- {"w1", "w2"},
    RestaurantOperations <- {"create", "add", "bill", "settle"}, InitialStock <- 1

\* Tables and dishes come and go under an order.
Floor == INSTANCE Restaurant WITH
    Stays <- {"b1"}, RoomTotal <- 2, HasAccount <- {"b1"}, Tax <- 1, Sources <- {1},
    Lines <- {1}, Keys <- {"k1"}, Sums <- {1}, PayMethods <- {}, Desks <- {"d1"},
    Shifts <- {1}, DeskOperations <- {}, MaxCash <- 1, Tables <- {"t1"}, Dishes <- {"m1"},
    DiningOrders <- {1}, Items <- {1}, Surcharge <- 1, Waiters <- {"w1"},
    RestaurantOperations <- {"create", "add", "kot", "table", "menu"}, InitialStock <- 1

\* Two desks at one appointment.
SpaDay == INSTANCE Spa WITH
    Stays <- {"b1", "b2"}, RoomTotal <- 2, HasAccount <- {"b1"}, Tax <- 1,
    Sources <- {"a1", "a2"}, Lines <- {1, 2}, Keys <- {"k1"}, Sums <- {1},
    PayMethods <- {}, Desks <- {"d1"}, Shifts <- {1}, DeskOperations <- {}, MaxCash <- 1,
    Appointments <- {"a1"}, Price <- 2, Therapists <- {"t1"}, SpaDesks <- {"w1", "w2"}

\* Quotes of up to three nights and guests, with up to two fees; a quote changes
\* nothing.
QuoteDesk == INSTANCE RatePlans WITH Quotes <- AllQuotes

\* Two desks that number, move and drop rooms and types.
Numbering == INSTANCE Rooms WITH
    RoomRows <- {1, 2}, TypeRows <- {1}, Numbers <- {"101", "102"}, Names <- {"deluxe"},
    Heads <- {1}, Amenities <- {}, Desks <- {"d1", "d2"},
    RoomOperations <- {"bulk", "remove", "type", "create", "move", "drop"},
    desk <- roomDesks

\* Two desks that make and drop room types.
TypeDesk == INSTANCE Rooms WITH
    RoomRows <- {1}, TypeRows <- {1, 2}, Numbers <- {"101"}, Names <- {"deluxe"},
    Heads <- {1}, Amenities <- {"wifi"}, Desks <- {"d1", "d2"},
    RoomOperations <- {"type", "bulk", "drop", "amenity"},
    desk <- roomDesks

\* Two desks that give a room its own type, beds and amenities.
Beds == INSTANCE Rooms WITH
    RoomRows <- {1}, TypeRows <- {1}, Numbers <- {"101"}, Names <- {"deluxe"},
    Heads <- {1, 2}, Amenities <- {"wifi"}, Desks <- {"d1", "d2"},
    RoomOperations <- {"create", "edit", "amenity", "specs"},
    desk <- roomDesks

\* Two people at the galleries of a type and of a room.
Gallery == INSTANCE RoomPhotos WITH
    TypeGalleries <- {"t"}, RoomGalleries <- {"r"}, TypeOf <- [r \in {"r"} |-> "t"],
    Photos <- {1, 2, 3}, MaxPhotos <- 2, Uploaders <- {"u1", "u2"}

\* Two editors of the settings, add-ons and coupons of two hotels.
Settings == INSTANCE BookingEngine WITH
    Hotels <- {"h1", "h2"}, Slugs <- {"s"}, Policies <- {}, Kinds <- {"CANCEL"},
    AddOns <- {"a"}, Coupons <- {"c"}, UseLimits <- {1}, Editors <- {"e1", "e2"},
    Guests <- {}, RoomsOnSale <- 1, HoldMinutes <- BOOLEAN

\* Two editors of two policies of a kind.
PolicyDesk == INSTANCE BookingEngine WITH
    Hotels <- {}, Slugs <- {"s"}, Policies <- {"p1", "p2"}, Kinds <- {"CANCEL"},
    AddOns <- {}, Coupons <- {}, UseLimits <- {1}, Editors <- {"e1", "e2"}, Guests <- {},
    RoomsOnSale <- 1, HoldMinutes <- BOOLEAN

\* Two guests of the public page, one coupon, one room left.
CouponPage == INSTANCE BookingEngine WITH
    Hotels <- {"h1"}, Slugs <- {"s"}, Policies <- {}, Kinds <- {"CANCEL"}, AddOns <- {},
    Coupons <- {"c"}, UseLimits <- {1}, Editors <- {"e1"}, Guests <- {"g1", "g2"},
    RoomsOnSale <- 1, HoldMinutes <- BOOLEAN

\* Two guests of the public page and an add-on.
ExtrasPage == INSTANCE BookingEngine WITH
    Hotels <- {"h1"}, Slugs <- {"s"}, Policies <- {}, Kinds <- {"CANCEL"}, AddOns <- {"a"},
    Coupons <- {}, UseLimits <- {1}, Editors <- {"e1"}, Guests <- {"g1", "g2"},
    RoomsOnSale <- 1, HoldMinutes <- BOOLEAN

\* Two desks that send the link of one stay, and a guest who opens it.
LinkDesks == INSTANCE GuestJourney WITH
    Stays <- {"s1"}, Tokens <- {1, 2}, Desks <- {"d1", "d2"}, Visitors <- {"v1"},
    Services <- {}, Notes <- {}, LastDay <- 2

\* One desk, and a guest who uses all of the page.
GuestLink == INSTANCE GuestJourney WITH
    Stays <- {"s1"}, Tokens <- {1, 2}, Desks <- {"d1"}, Visitors <- {"v1"},
    Services <- {"spa"}, Notes <- {"n"}, LastDay <- 2

\* Two desks that cut cards for one stay.
CardDesk == INSTANCE KeyCards WITH
    CardStays <- {"s"}, Cards <- {1, 2, 3}, CardDesks <- {"d1", "d2"}, NUMBER_RETRIES <- 2,
    LastDay <- 1

\* A desk, and a stay that may go on for a day.
LongStay == INSTANCE KeyCards WITH
    CardStays <- {"s"}, Cards <- {1, 2}, CardDesks <- {"d1"}, NUMBER_RETRIES <- 2,
    LastDay <- 2

\* Two clerks, an event and a task of it.
EventDesk == INSTANCE Registers WITH Entries <- {"v"}, Todos <- {"t"}

\* Two clerks and a lead.
LeadDesk == INSTANCE Registers WITH Entries <- {"l"}, Amounts <- {1, 2}

\* A guest, and staff who set rooms READY by hand.
HandBoard == INSTANCE Housekeeping WITH Starts <- InTurn(1), StaffSets <- {"READY"}

\* Two work orders on the rooms, two technicians at once.
Repairs == INSTANCE Housekeeping WITH
    Starts <- InTurn(1), StaffSets <- {}, DeskOps <- {}, MaxTasks <- 0, MaxOrders <- 2

\* A work order on a room that a guest comes to and leaves, and its clean.
Errands == INSTANCE Housekeeping WITH
    Starts <- InTurn(1), StaffSets <- {}, DeskOps <- {"checkIn", "checkOut"}, MaxTasks <- 1,
    MaxOrders <- 1

\* A work order and a task raised by hand.
Chores == INSTANCE Housekeeping WITH
    Starts <- InTurn(1), StaffSets <- {}, DeskOps <- {}, MaxTasks <- 1, HandTasks <- TRUE,
    MaxOrders <- 1

\* Tasks raised by hand, and those of a departure.
Spare == INSTANCE Housekeeping WITH
    Starts <- InTurn(1), StaffSets <- {}, DeskOps <- {"checkIn", "checkOut"}, MaxTasks <- 1,
    HandTasks <- TRUE

-----------------------------------------------------------------------------
(* One component is on the stage, the variables of the others rest. *)

Parked(on) ==
    /\ IF "folio" \in on THEN TRUE ELSE FolioInit
    /\ IF "transport" \in on THEN TRUE ELSE TransportInit
    /\ IF "house" \in on THEN TRUE ELSE Init
    /\ IF "restaurant" \in on THEN TRUE ELSE RestaurantInit
    /\ IF "raced" \in on THEN TRUE ELSE raced = Null
    /\ IF "spa" \in on THEN TRUE
       ELSE service = Null /\ appointments = Null /\ bills = Null /\ spaDesk = Null
    /\ IF "crossed" \in on THEN TRUE ELSE crossed = Null
    /\ IF "inventory" \in on THEN TRUE ELSE InventoryInit
    /\ IF "plans" \in on THEN TRUE ELSE PlansInit
    /\ IF "rooms" \in on THEN TRUE
       ELSE /\ rooms = Null /\ types = Null /\ catalogue = Null /\ roomCount = Null
            /\ drifted = Null /\ edits = Null /\ roomDesks = Null
    /\ IF "photos" \in on THEN TRUE
       ELSE inserted = Null /\ photos = Null /\ request = Null /\ tangled = Null
    /\ IF "config" \in on THEN TRUE
       ELSE /\ settings = Null /\ policies = Null /\ addons = Null
            /\ coupons = Null /\ drafts = Null
    /\ IF "stays" \in on THEN TRUE ELSE stays = Null
    /\ IF "visits" \in on THEN TRUE ELSE visits = Null
    /\ IF "bursts" \in on THEN TRUE ELSE bursts = Null
    /\ IF "journey" \in on THEN TRUE ELSE links = Null /\ sending = Null /\ day = Null
    /\ IF "cards" \in on THEN TRUE
       ELSE cards = Null /\ bookings = Null /\ desks = Null /\ clock = Null /\ marks = Null
    /\ IF "registers" \in on THEN TRUE ELSE RegistersInit

Resting(on) ==
    /\ scene' = scene
    /\ IF "folio" \in on THEN TRUE ELSE UNCHANGED folioVars
    /\ IF "transport" \in on THEN TRUE ELSE UNCHANGED transportVars
    /\ IF "house" \in on THEN TRUE ELSE UNCHANGED allVars
    /\ IF "restaurant" \in on THEN TRUE ELSE UNCHANGED restaurantVars
    /\ IF "raced" \in on THEN TRUE ELSE UNCHANGED raced
    /\ IF "spa" \in on THEN TRUE ELSE UNCHANGED <<service, appointments, bills, spaDesk>>
    /\ IF "crossed" \in on THEN TRUE ELSE UNCHANGED crossed
    /\ IF "inventory" \in on THEN TRUE ELSE UNCHANGED inventoryVars
    /\ IF "plans" \in on THEN TRUE ELSE UNCHANGED planVars
    /\ IF "rooms" \in on THEN TRUE
       ELSE UNCHANGED <<rooms, types, catalogue, roomCount, drifted, edits, roomDesks>>
    /\ IF "photos" \in on THEN TRUE ELSE UNCHANGED <<inserted, photos, request, tangled>>
    /\ IF "config" \in on THEN TRUE ELSE UNCHANGED <<settings, policies, addons, coupons, drafts>>
    /\ IF "stays" \in on THEN TRUE ELSE UNCHANGED stays
    /\ IF "visits" \in on THEN TRUE ELSE UNCHANGED visits
    /\ IF "bursts" \in on THEN TRUE ELSE UNCHANGED bursts
    /\ IF "journey" \in on THEN TRUE ELSE UNCHANGED <<links, sending, day>>
    /\ IF "cards" \in on THEN TRUE ELSE UNCHANGED <<cards, bookings, desks, clock, marks>>
    /\ IF "registers" \in on THEN TRUE ELSE UNCHANGED registerVars

Uses ==
    [folio |-> {"folio"},
     ledger |-> {"folio"},
     drawer |-> {"folio"},
     company |-> {"folio"},
     table |-> {"folio", "restaurant"},
     tables |-> {"folio", "restaurant"},
     floor |-> {"folio", "restaurant"},
     spa |-> {"folio", "spa", "crossed"},
     trips |-> {"transport"},
     stock |-> {"inventory"},
     plans |-> {"plans"},
     quotes |-> {"plans"},
     floors |-> {"rooms"},
     kinds |-> {"rooms"},
     beds |-> {"rooms"},
     photos |-> {"photos"},
     config |-> {"config", "raced", "stays", "visits", "bursts"},
     policies |-> {"config", "raced", "stays", "visits", "bursts"},
     coupons |-> {"config", "raced", "stays", "visits", "bursts"},
     extras |-> {"config", "raced", "stays", "visits", "bursts"},
     journey |-> {"journey", "stays", "visits", "crossed"},
     senders |-> {"journey", "stays", "visits", "crossed"},
     cards |-> {"cards"},
     longer |-> {"cards"},
     books |-> {"registers"},
     events |-> {"registers"},
     leads |-> {"registers"},
     turnover |-> {"house"},
     board |-> {"house"},
     repairs |-> {"house"},
     errands |-> {"house"},
     chores |-> {"house"},
     spare |-> {"house"}]

Plays(s) == scene = s /\ Resting(Uses[s])

HotelInit ==
    /\ scene \in DOMAIN Uses /\ Parked(Uses[scene])
    /\ scene = "folio" => FolioInit
    /\ scene = "ledger" => Ledger!FolioInit
    /\ scene = "drawer" => Drawer!FolioInit
    /\ scene = "company" => Company!FolioInit
    /\ scene = "table" => Table!FolioInit /\ Table!RestaurantInit
    /\ scene = "tables" => TwoOrders!FolioInit /\ TwoOrders!RestaurantInit
    /\ scene = "floor" => Floor!FolioInit /\ Floor!RestaurantInit
    /\ scene = "spa" => SpaDay!FolioInit /\ SpaDay!SpaInit
    /\ scene = "trips" => TransportInit
    /\ scene = "stock" => InventoryInit
    /\ scene = "plans" => PlansInit
    /\ scene = "quotes" => QuoteDesk!PlansInit
    /\ scene = "floors" => Numbering!RoomsInit
    /\ scene = "kinds" => TypeDesk!RoomsInit
    /\ scene = "beds" => Beds!RoomsInit
    /\ scene = "photos" => Gallery!PhotosInit
    /\ scene = "config" => Settings!EngineInit
    /\ scene = "policies" => PolicyDesk!EngineInit
    /\ scene = "coupons" => CouponPage!EngineInit
    /\ scene = "extras" => ExtrasPage!EngineInit
    /\ scene = "journey" => GuestLink!JourneyInit
    /\ scene = "senders" => LinkDesks!JourneyInit
    /\ scene = "cards" => CardDesk!CardsInit
    /\ scene = "longer" => LongStay!CardsInit
    /\ scene = "books" => RegistersInit
    /\ scene = "events" => EventDesk!RegistersInit
    /\ scene = "leads" => LeadDesk!RegistersInit
    /\ scene = "turnover" => Init
    /\ scene = "board" => HandBoard!Init
    /\ scene = "repairs" => Repairs!Init
    /\ scene = "errands" => Errands!Init
    /\ scene = "chores" => Chores!Init
    /\ scene = "spare" => Spare!Init

HotelNext ==
    \/ Plays("folio") /\ FolioNext
    \/ Plays("ledger") /\ Ledger!FolioNext
    \/ Plays("drawer") /\ Drawer!FolioNext
    \/ Plays("company") /\ Company!FolioNext
    \/ Plays("table") /\ Table!RestaurantNext
    \/ Plays("tables") /\ TwoOrders!RestaurantNext
    \/ Plays("floor") /\ Floor!RestaurantNext
    \/ Plays("spa") /\ SpaDay!SpaNext
    \/ Plays("trips") /\ TransportNext
    \/ Plays("stock") /\ InventoryNext
    \/ Plays("plans") /\ PlansNext
    \/ Plays("floors") /\ Numbering!RoomsNext
    \/ Plays("kinds") /\ TypeDesk!RoomsNext
    \/ Plays("beds") /\ Beds!RoomsNext
    \/ Plays("photos") /\ Gallery!PhotosNext
    \/ Plays("config") /\ Settings!EngineNext
    \/ Plays("policies") /\ PolicyDesk!EngineNext
    \/ Plays("coupons") /\ CouponPage!EngineNext
    \/ Plays("extras") /\ ExtrasPage!EngineNext
    \/ Plays("journey") /\ GuestLink!JourneyNext
    \/ Plays("senders") /\ LinkDesks!JourneyNext
    \/ Plays("cards") /\ CardDesk!CardsNext
    \/ Plays("longer") /\ LongStay!CardsNext
    \/ Plays("books") /\ RegistersNext
    \/ Plays("events") /\ EventDesk!RegistersNext
    \/ Plays("leads") /\ LeadDesk!RegistersNext
    \/ Plays("turnover") /\ Next
    \/ Plays("board") /\ HandBoard!Next
    \/ Plays("repairs") /\ Repairs!Next
    \/ Plays("errands") /\ Errands!Next
    \/ Plays("chores") /\ Chores!Next
    \/ Plays("spare") /\ Spare!Next

-----------------------------------------------------------------------------
(* Properties *)

\* Every component keeps its tables typed.
HotelTypeOK ==
    /\ scene = "folio" => FolioTypeOK
    /\ scene = "ledger" => Ledger!FolioTypeOK
    /\ scene = "drawer" => Drawer!FolioTypeOK
    /\ scene = "company" => Company!FolioTypeOK
    /\ scene = "table" => Table!RestaurantTypeOK
    /\ scene = "tables" => TwoOrders!RestaurantTypeOK
    /\ scene = "floor" => Floor!RestaurantTypeOK
    /\ scene = "spa" => SpaDay!SpaTypeOK
    /\ scene = "trips" => TransportTypeOK
    /\ scene = "stock" => InventoryTypeOK
    /\ scene = "plans" => PlansTypeOK
    /\ scene = "quotes" => PlansTypeOK
    /\ scene = "floors" => Numbering!RoomsTypeOK
    /\ scene = "kinds" => TypeDesk!RoomsTypeOK
    /\ scene = "beds" => Beds!RoomsTypeOK
    /\ scene = "photos" => Gallery!PhotosTypeOK
    /\ scene = "config" => Settings!EngineTypeOK
    /\ scene = "policies" => PolicyDesk!EngineTypeOK
    /\ scene = "coupons" => CouponPage!EngineTypeOK
    /\ scene = "extras" => ExtrasPage!EngineTypeOK
    /\ scene = "journey" => GuestLink!JourneyTypeOK
    /\ scene = "senders" => LinkDesks!JourneyTypeOK
    /\ scene = "cards" => CardDesk!CardsTypeOK
    /\ scene = "longer" => LongStay!CardsTypeOK
    /\ scene = "books" => RegistersTypeOK
    /\ scene = "events" => EventDesk!RegistersTypeOK
    /\ scene = "leads" => LeadDesk!RegistersTypeOK
    /\ scene = "turnover" => TypeOK
    /\ scene = "board" => HandBoard!TypeOK
    /\ scene = "repairs" => Repairs!TypeOK
    /\ scene = "errands" => Errands!TypeOK
    /\ scene = "chores" => Chores!TypeOK
    /\ scene = "spare" => Spare!TypeOK

\* What rows of several tables say of each other: the rooms of a type and their
\* beds, the uses of a coupon and the discounts given, the numbers of key cards
\* and the cards, a quote and its lines, a treatment and its bill; and what there
\* is one of: room numbers, the hotel behind an address, the default policy of a
\* kind, the live link of a stay, the cover of a gallery.
RowsAgree ==
    /\ scene = "floors" => Numbering!CountIsRooms /\ Numbering!OccupancyAgrees
       /\ Numbering!NumbersDiffer
    /\ scene = "kinds" => TypeDesk!CountIsRooms /\ TypeDesk!OccupancyAgrees
       /\ TypeDesk!NumbersDiffer
    /\ scene = "beds" => Beds!CountIsRooms /\ Beds!OccupancyAgrees
    /\ scene = "photos" => Gallery!GalleryHasCover /\ Gallery!RoomIsCovered
    /\ scene = "config" => Settings!SlugIsOneHotels
    /\ scene = "policies" => PolicyDesk!OneDefaultUnlessRaced
    /\ scene = "coupons" => CouponPage!DiscountsWithinUses
    /\ scene = "journey" => GuestLink!OneLinkUnlessRaced
    /\ scene = "senders" => LinkDesks!OneLinkUnlessRaced
    /\ scene = "longer" => LongStay!NumbersAreConsecutive
    /\ scene = "cards" => CardDesk!NumbersAreConsecutive /\ CardDesk!ExhaustedOnlyWhenOvertaken
    /\ scene = "quotes" => QuotesAddUp
    /\ scene = "spa" => SpaDay!BillsFollowTreatments

-----------------------------------------------------------------------------
(* What checkOut() says of the turnover, where nobody sets a room by hand *)

\* Two guests in turn and two of the staff, with no move or exchange of rooms.
Makeup == INSTANCE Housekeeping WITH
    StaffSets <- {}, DeskOps <- {"checkIn", "checkOut"}

MakeupInit == scene = "turnover" /\ Parked(Uses[scene]) /\ Makeup!Init
MakeupNext == Plays("turnover") /\ Makeup!Next

=============================================================================
