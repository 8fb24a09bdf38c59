-------------------------- MODULE ReservationPlans --------------------------
(***************************************************************************)
(* The handlers of ReservationsService (src/src/modules/reservations), for *)
(* one property.                                                           *)
(*                                                                         *)
(* Every handler has the same shape.  It reads the booking OUTSIDE its     *)
(* transaction, validates what it read, and then opens a transaction that  *)
(* probes for clashes (SELECT ... FOR UPDATE), UPDATEs the row by id and   *)
(* writes the event.  The probes and the assigned values are fixed by the  *)
(* first read.  So a handler is a guard, CanX, and a PLAN, XPlan: the      *)
(* probes its transaction makes, the columns it assigns with their values, *)
(* the room statuses it sets, and the status its event puts on the trail.  *)
(*                                                                         *)
(* Module Reservations runs a plan in one step; ReservationsConcurrent     *)
(* runs it statement by statement.  Both take the handlers from here.      *)
(***************************************************************************)
EXTENDS Absent, Integers, FiniteSets, Sequences

CONSTANTS
    BookingCount,  \* bound: rows the reservations table may come to hold
    RoomCount,     \* live rooms of the property
    Types,         \* its room types
    TypeOf,        \* the type of each room
    Horizon,       \* bound: the last calendar day
    Grids,         \* the rates grids the hotel may set (type -> day -> rule)
    HoldKinds,     \* deadlines given to enquiries: "none", "running" or both
    StaffSets      \* room statuses written by people outside this service

Bookings == 1 .. BookingCount    \* in order of created_at
Rooms    == 1 .. RoomCount       \* in order of room number
Days     == 0 .. Horizon

RoomStatuses == {"AVAILABLE", "OCCUPIED", "DIRTY", "CLEANING", "INSPECTED",
                 "READY", "MAINTENANCE", "OUT_OF_ORDER"}

DayRules == [cap : Nat, minLos : Nat, maxLos : Nat, stopSell : BOOLEAN,
             closedToArrival : BOOLEAN, closedToDeparture : BOOLEAN]

ASSUME CountsAssumption == BookingCount \in Nat /\ RoomCount \in Nat
ASSUME HorizonAssumption == Horizon \in Nat
ASSUME TypeOfAssumption == TypeOf \in [Rooms -> Types]
ASSUME GridsAssumption ==
    Grids # {} /\ Grids \subseteq [Types -> [Days -> DayRules]]
ASSUME HoldKindsAssumption == HoldKinds \subseteq {"none", "running"}
ASSUME StaffSetsAssumption == StaffSets \subseteq RoomStatuses
ASSUME NullAssumption ==
    Null \notin Rooms /\ Null \notin Types /\ Null \notin Days /\ Null \notin RoomStatuses

VARIABLES
    resv,         \* the reservations table
    roomStatus,   \* rooms.status
    grid,         \* the rates grid in force
    today,        \* the calendar day
    trail         \* the last status reservation_events tells of each booking

vars == <<resv, roomStatus, grid, today, trail>>

-----------------------------------------------------------------------------
(* Rows, dates and the transition map *)

Statuses == {"ABSENT", "PENDING", "CONFIRMED", "CHECKED_IN", "CHECKED_OUT",
             "CANCELLED", "NO_SHOW"}

\* A stored total is kept as the number of nights it was computed over.
Rows == [status : Statuses, type : Types \cup {Null}, room : Rooms \cup {Null},
         ci : Days, co : Days, nights : Nat, locked : BOOLEAN,
         hold : {"none", "running", "passed"}]

\* No row has been inserted under this id yet.
NoRow == [status |-> "ABSENT", type |-> Null, room |-> Null, ci |-> 0, co |-> 0,
          nights |-> 0, locked |-> FALSE, hold |-> "none"]

nightsBetween(ci, co) == IF co - ci > 1 THEN co - ci ELSE 1
NightsOf(ci, co) == ci .. (ci + nightsBetween(ci, co) - 1)
overlaps(ci1, co1, ci2, co2) == ci1 < co2 /\ ci2 < co1
coversDate(row, day) == row.ci <= day /\ day < row.co

Transitions == [ABSENT      |-> {},
                PENDING     |-> {"CONFIRMED", "CANCELLED"},
                CONFIRMED   |-> {"CHECKED_IN", "CANCELLED", "NO_SHOW"},
                CHECKED_IN  |-> {"CHECKED_OUT"},
                CHECKED_OUT |-> {},
                CANCELLED   |-> {},
                NO_SHOW     |-> {}]

canTransition(from, to) == to \in Transitions[from]

Occupying == {"CONFIRMED", "CHECKED_IN"}
Assignable == {"AVAILABLE", "READY", "INSPECTED"}

-----------------------------------------------------------------------------
(* Probes: what a transaction checks before it writes *)

OpenDay == [cap |-> RoomCount, minLos |-> 0, maxLos |-> Horizon + 1,
            stopSell |-> FALSE, closedToArrival |-> FALSE,
            closedToDeparture |-> FALSE]
NoRules == [d \in Days |-> OpenDay]

RoomProbe(r, row, ids) ==
    [room |-> r, type |-> Null, ci |-> row.ci, co |-> row.co, skip |-> ids,
     rules |-> NoRules]
TypeProbe(row, ids, dayRules) ==
    [room |-> Null, type |-> row.type, ci |-> row.ci, co |-> row.co, skip |-> ids,
     rules |-> dayRules]

\* A booking that has a room also needs that room; one without needs none.
OwnRoomProbe(row, ids) ==
    IF row.room = Null THEN <<>> ELSE <<RoomProbe(row.room, row, ids)>>

\* The rows the probe's SELECT returns.
Clashes(p, b) ==
    /\ b \notin p.skip
    /\ resv[b].status \in Occupying
    /\ IF p.room # Null THEN resv[b].room = p.room ELSE resv[b].type = p.type
    /\ overlaps(resv[b].ci, resv[b].co, p.ci, p.co)

Sellable(t) == Cardinality({r \in Rooms : TypeOf[r] = t /\ roomStatus[r] # "OUT_OF_ORDER"})

assertRules(rules, ci, co) ==
    /\ ~rules[ci].closedToArrival
    /\ nightsBetween(ci, co) >= rules[ci].minLos
    /\ rules[ci].maxLos > 0 => nightsBetween(ci, co) <= rules[ci].maxLos
    /\ ~rules[co].closedToDeparture
    /\ \A d \in ci .. (co - 1) : ~rules[d].stopSell

\* Mutant: a night that is full still takes one more.
PassesOneOver(p, found, sellable) ==
    IF p.room # Null
    THEN found = {}
    ELSE /\ assertRules(p.rules, p.ci, p.co)
         /\ \A n \in NightsOf(p.ci, p.co) :
              LET sold == Cardinality({b \in found : coversDate(resv[b], n)})
              IN  sold <= sellable /\ sold < p.rules[n].cap

\* The verdict on the rows a probe found, given the count of sellable rooms.
Passes(p, found, sellable) ==
    IF p.room # Null
    THEN found = {}
    ELSE /\ assertRules(p.rules, p.ci, p.co)
         /\ \A n \in NightsOf(p.ci, p.co) :
              LET sold == Cardinality({b \in found : coversDate(resv[b], n)})
              IN  sold < sellable /\ sold < p.rules[n].cap

-----------------------------------------------------------------------------
(* Plans *)

Plan(probes, ids, columns, rows, rooms, says) ==
    [probes |-> probes, ids |-> ids, columns |-> columns, rows |-> rows,
     rooms |-> rooms, says |-> says]

\* The plan of a handler that writes one row.
PlanFor(id, probes, columns, row, rooms, says) ==
    Plan(probes, <<id>>, columns, [b \in {id} |-> row], rooms, says)

NoRooms == [r \in {} |-> "DIRTY"]

\* create(): PENDING is a soft hold and probes for nothing.
CanCreate(id, t, r, ci, co, status, hold) ==
    /\ ci < co
    /\ r # Null => TypeOf[r] = t
    /\ status = "CONFIRMED" => hold = "none"

CreatePlan(id, t, r, ci, co, status, hold) ==
    LET row == [status |-> status, type |-> t, room |-> r, ci |-> ci, co |-> co,
                nights |-> nightsBetween(ci, co), locked |-> FALSE, hold |-> hold]
        probes == IF status = "CONFIRMED"
                  THEN OwnRoomProbe(row, {}) \o <<TypeProbe(row, {}, grid[t])>>
                  ELSE <<>>
    IN  PlanFor(id, probes, DOMAIN row, row, NoRooms, status)

\* update(): the columns given in the body, and the total derived from the
\* merge of the body with the row as it was first read.
OrElse(given, stored) == IF given = Null THEN stored ELSE given

CanUpdate(id, newCi, newCo, reprice) ==
    LET row == resv[id]
        moving == newCi # Null \/ newCo # Null
    IN  /\ row.status # "ABSENT"
        /\ moving \/ reprice
        /\ moving => /\ row.status \in {"PENDING", "CONFIRMED"}
                     /\ OrElse(newCi, row.ci) < OrElse(newCo, row.co)

\* Mutant: a date that the body leaves out is written all the same, as NULL.
UpdatePlanOfBody(id, newCi, newCo, reprice) ==
    LET before == resv[id]
        ci == OrElse(newCi, before.ci)
        co == OrElse(newCo, before.co)
        row == [before EXCEPT !.ci = newCi, !.co = newCo, !.nights = nightsBetween(ci, co)]
    IN  PlanFor(id, <<>>, {"ci", "co", "nights"}, row, NoRooms, Null)

UpdatePlan(id, newCi, newCo, reprice) ==
    LET before == resv[id]
        moving == newCi # Null \/ newCo # Null
        ci == OrElse(newCi, before.ci)
        co == OrElse(newCo, before.co)
        row == [before EXCEPT !.ci = ci, !.co = co, !.nights = nightsBetween(ci, co)]
        probes == IF moving /\ before.status = "CONFIRMED"
                  THEN OwnRoomProbe(row, {id})
                         \o <<TypeProbe(row, {id}, grid[before.type])>>
                  ELSE <<>>
        columns == {"nights"} \cup (IF newCi = Null THEN {} ELSE {"ci"})
                              \cup (IF newCo = Null THEN {} ELSE {"co"})
    IN  PlanFor(id, probes, columns, row, NoRooms, Null)

\* extendStay(): a roomed booking is checked against its room only, an
\* unroomed one against the capacity of its type only.
CanExtend(id, newCo) ==
    /\ resv[id].status \in Occupying
    /\ newCo > resv[id].co
    /\ newCo > resv[id].ci

\* Mutant: the total is left as it was.
ExtendPlanAtOldTotal(id, newCo) ==
    LET row == [resv[id] EXCEPT !.co = newCo]
    IN  PlanFor(id, OwnRoomProbe(row, {id}), {"co"}, row, NoRooms, Null)

ExtendPlan(id, newCo) ==
    LET before == resv[id]
        row == [before EXCEPT !.co = newCo, !.nights = nightsBetween(before.ci, newCo)]
        probes == IF row.room # Null
                  THEN OwnRoomProbe(row, {id})
                  ELSE <<TypeProbe(row, {id}, NoRules)>>
    IN  PlanFor(id, probes, {"co", "nights"}, row, NoRooms, Null)

\* moveRoom(): another room for a guest in house, of any type.
CanMove(id, r) ==
    /\ resv[id].status = "CHECKED_IN"
    /\ resv[id].room # r
    /\ roomStatus[r] \in Assignable

MovePlan(id, r) ==
    LET before == resv[id]
        row == [before EXCEPT !.room = r, !.type = TypeOf[r],
                              !.nights = nightsBetween(before.ci, before.co)]
        left == {before.room} \ {Null}
        rooms == [x \in left \cup {r} |-> IF x = r THEN "OCCUPIED" ELSE "DIRTY"]
    IN  PlanFor(id, <<RoomProbe(r, row, {id})>>, {"room", "type", "nights"}, row,
                rooms, Null)

\* confirm(): the probes leave the rates grid out.
CanConfirm(id) == canTransition(resv[id].status, "CONFIRMED")

\* Mutant: only the type is probed, not the room already assigned.
ConfirmPlanByType(id) ==
    LET row == [resv[id] EXCEPT !.status = "CONFIRMED"]
    IN  PlanFor(id, <<TypeProbe(row, {id}, NoRules)>>, {"status"}, row, NoRooms,
                "CONFIRMED")

ConfirmPlan(id) ==
    LET row == [resv[id] EXCEPT !.status = "CONFIRMED"]
    IN  PlanFor(id, OwnRoomProbe(row, {id}) \o <<TypeProbe(row, {id}, NoRules)>>,
                {"status"}, row, NoRooms, "CONFIRMED")

\* assignRoom()
CanAssign(id, r) ==
    /\ resv[id].status \in {"PENDING", "CONFIRMED"}
    /\ TypeOf[r] = resv[id].type

AssignPlan(id, r) ==
    LET row == [resv[id] EXCEPT !.room = r]
    IN  PlanFor(id, <<RoomProbe(r, row, {id})>>, {"room"}, row, NoRooms, Null)

\* checkIn(): into the room named in the request, else the one assigned.
CanCheckIn(id, named) ==
    LET r == OrElse(named, resv[id].room)
    IN  /\ canTransition(resv[id].status, "CHECKED_IN")
        /\ coversDate(resv[id], today)
        /\ r # Null
        /\ TypeOf[r] = resv[id].type
        /\ roomStatus[r] \in Assignable

\* Mutant: the room the guest was given is not written to the booking.
CheckInPlanUnplaced(id, named) ==
    LET r == OrElse(named, resv[id].room)
        row == [resv[id] EXCEPT !.status = "CHECKED_IN", !.room = r]
    IN  PlanFor(id, <<RoomProbe(r, row, {id})>>, {"status"}, row,
                [x \in {r} |-> "OCCUPIED"], "CHECKED_IN")

CheckInPlan(id, named) ==
    LET r == OrElse(named, resv[id].room)
        row == [resv[id] EXCEPT !.status = "CHECKED_IN", !.room = r]
    IN  PlanFor(id, <<RoomProbe(r, row, {id})>>, {"status", "room"}, row,
                [x \in {r} |-> "OCCUPIED"], "CHECKED_IN")

\* checkOut(): whether the folio's balance lets the guest go is left open.
CanCheckOut(id) == canTransition(resv[id].status, "CHECKED_OUT")

CheckOutPlan(id) ==
    LET row == [resv[id] EXCEPT !.status = "CHECKED_OUT"]
    IN  PlanFor(id, <<>>, {"status"}, row,
                [x \in {row.room} \ {Null} |-> "DIRTY"], "CHECKED_OUT")

\* Mutant: whatever has not ended can be cancelled, a stay in house too.
CanCancelUnended(id) ==
    resv[id].status \notin {"ABSENT", "CHECKED_OUT", "CANCELLED", "NO_SHOW"}

\* cancel()
CanCancel(id) == canTransition(resv[id].status, "CANCELLED")

CancelPlan(id) ==
    PlanFor(id, <<>>, {"status"}, [resv[id] EXCEPT !.status = "CANCELLED"], NoRooms,
            "CANCELLED")

\* noShow(): not before the arrival date has passed.
CanNoShow(id) == canTransition(resv[id].status, "NO_SHOW") /\ resv[id].ci < today

NoShowPlan(id) ==
    PlanFor(id, <<>>, {"status"}, [resv[id] EXCEPT !.status = "NO_SHOW"], NoRooms,
            "NO_SHOW")

\* Mutant: a booking without a room can be pinned.
CanLockUnplaced(id, locked) == resv[id].status # "ABSENT"

\* lockRoom()
CanLock(id, locked) ==
    /\ resv[id].status # "ABSENT"
    /\ locked => resv[id].room # Null

LockPlan(id, locked) ==
    PlanFor(id, <<>>, {"locked"}, [resv[id] EXCEPT !.locked = locked], NoRooms, Null)

\* Mutant: pinned bookings swap too.
CanSwapPinned(a, b) ==
    /\ a # b
    /\ resv[a].room # Null /\ resv[b].room # Null
    /\ resv[a].type = resv[b].type
    /\ resv[a].status \in Occupying /\ resv[b].status \in Occupying

\* swapRooms(): each partner is checked against the other's room, both skipped.
CanSwap(a, b) ==
    /\ a # b
    /\ resv[a].room # Null /\ resv[b].room # Null
    /\ ~resv[a].locked /\ ~resv[b].locked
    /\ resv[a].type = resv[b].type
    /\ resv[a].status \in Occupying /\ resv[b].status \in Occupying

SwapPlan(a, b) ==
    Plan(<<RoomProbe(resv[b].room, resv[a], {a, b}),
           RoomProbe(resv[a].room, resv[b], {a, b})>>,
         <<a, b>>, {"room"},
         [x \in {a, b} |->
             [resv[x] EXCEPT !.room = IF x = a THEN resv[b].room ELSE resv[a].room]],
         NoRooms, Null)

=============================================================================
