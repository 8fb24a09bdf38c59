---------------------------- MODULE Reservations ----------------------------
(***************************************************************************)
(* The booking engine of one property, every request in one step: what the *)
(* handlers of ReservationsService promise when no two requests overlap.   *)
(* The steps of people and workers outside the service are here too:       *)
(* housekeeping and the desk setting room statuses, the rates grid being   *)
(* edited, the night audit and the worker that expires enquiry holds.      *)
(***************************************************************************)
EXTENDS ReservationPlans

Init ==
    /\ resv = [b \in Bookings |-> NoRow]
    /\ roomStatus = [r \in Rooms |-> "AVAILABLE"]
    /\ grid \in Grids
    /\ today = 0
    /\ trail = [b \in Bookings |-> "ABSENT"]

-----------------------------------------------------------------------------
(* Requests *)

\* A transaction that nothing else interleaves with: probes, writes, event.
Execute(p) ==
    /\ \A i \in DOMAIN p.probes :
          LET q == p.probes[i]
          IN  Passes(q, {b \in Bookings : Clashes(q, b)},
                     IF q.room = Null THEN Sellable(q.type) ELSE 0)
    /\ resv' = [b \in Bookings |-> IF b \in DOMAIN p.rows THEN p.rows[b] ELSE resv[b]]
    /\ roomStatus' = [r \in Rooms |->
                         IF r \in DOMAIN p.rooms THEN p.rooms[r] ELSE roomStatus[r]]
    /\ trail' = [b \in Bookings |-> IF b \in DOMAIN p.rows /\ p.says # Null
                                    THEN p.says ELSE trail[b]]
    /\ UNCHANGED <<grid, today>>

Insert(id) ==
    /\ resv[id].status = "ABSENT"
    /\ \E t \in Types, r \in Rooms \cup {Null}, ci \in Days, co \in Days,
          status \in {"PENDING", "CONFIRMED"}, hold \in HoldKinds :
          /\ CanCreate(id, t, r, ci, co, status, hold)
          /\ Execute(CreatePlan(id, t, r, ci, co, status, hold))

\* Ids are given out in order of creation.
Create(id) ==
    /\ \A earlier \in 1 .. (id - 1) : resv[earlier].status # "ABSENT"
    /\ Insert(id)

Update(id) ==
    \E newCi \in Days \cup {Null}, newCo \in Days \cup {Null}, reprice \in BOOLEAN :
        /\ CanUpdate(id, newCi, newCo, reprice)
        /\ Execute(UpdatePlan(id, newCi, newCo, reprice))

ExtendStay(id) ==
    \E newCo \in Days : CanExtend(id, newCo) /\ Execute(ExtendPlan(id, newCo))

MoveRoom(id) == \E r \in Rooms : CanMove(id, r) /\ Execute(MovePlan(id, r))

Confirm(id) == CanConfirm(id) /\ Execute(ConfirmPlan(id))

AssignRoom(id) == \E r \in Rooms : CanAssign(id, r) /\ Execute(AssignPlan(id, r))

CheckIn(id) ==
    \E named \in Rooms \cup {Null} :
        CanCheckIn(id, named) /\ Execute(CheckInPlan(id, named))

CheckOut(id) == CanCheckOut(id) /\ Execute(CheckOutPlan(id))

Cancel(id) == CanCancel(id) /\ Execute(CancelPlan(id))

NoShow(id) == CanNoShow(id) /\ Execute(NoShowPlan(id))

LockRoom(id) ==
    \E locked \in BOOLEAN : CanLock(id, locked) /\ Execute(LockPlan(id, locked))

SwapRooms(a, b) == CanSwap(a, b) /\ Execute(SwapPlan(a, b))

-----------------------------------------------------------------------------
(* autoAllocate(): the arrivals of a window, in order of arrival and then  *)
(* of creation, each take the first door of their type that is free and    *)
(* that no earlier one of the run has taken for an overlapping stay.       *)

Unplaced(from, to) ==
    {b \in Bookings : /\ resv[b].status = "CONFIRMED"
                      /\ resv[b].room = Null
                      /\ resv[b].ci \in from .. to}

Earlier(a, b) == resv[a].ci < resv[b].ci \/ (resv[a].ci = resv[b].ci /\ a < b)

Offerable(b) == {r \in Rooms : /\ TypeOf[r] = resv[b].type
                               /\ roomStatus[r] \notin {"OUT_OF_ORDER", "MAINTENANCE"}}

\* Mutant: the run forgets the doors it has just given away.
OpenDoorsForgetful(b, arrivals, door) ==
    {r \in Offerable(b) : \A c \in Bookings : ~Clashes(RoomProbe(r, resv[b], {b}), c)}

\* The doors still open to b once the run has placed everyone before b.
OpenDoors(b, arrivals, door) ==
    {r \in Offerable(b) :
        /\ \A c \in Bookings : ~Clashes(RoomProbe(r, resv[b], {b}), c)
        /\ \A a \in arrivals :
              Earlier(a, b) /\ door[a] = r
                => ~overlaps(resv[a].ci, resv[a].co, resv[b].ci, resv[b].co)}

TakesFirst(door, b, doors) ==
    IF doors = {} THEN door[b] = Null
    ELSE door[b] \in doors /\ \A r \in doors : door[b] <= r

AutoAllocate ==
    \E from \in Days, to \in Days :
    LET arrivals == Unplaced(from, to)
    IN  /\ arrivals # {}
        /\ \E door \in [arrivals -> Rooms \cup {Null}] :
             /\ \A b \in arrivals : TakesFirst(door, b, OpenDoors(b, arrivals, door))
             /\ resv' = [b \in Bookings |->
                            IF b \in arrivals THEN [resv[b] EXCEPT !.room = door[b]]
                                              ELSE resv[b]]
        /\ UNCHANGED <<roomStatus, grid, today, trail>>

-----------------------------------------------------------------------------
(* Workers: one UPDATE ... WHERE each, and no event *)

\* CONFIRMED, and the arrival date has passed.
Missed == {b \in Bookings : resv[b].status = "CONFIRMED" /\ resv[b].ci < today}

\* PENDING, and hold_expires_at has passed.
Lapsed == {b \in Bookings : resv[b].status = "PENDING" /\ resv[b].hold = "passed"}

SweepTo(status, swept) ==
    /\ swept # {}
    /\ resv' = [b \in Bookings |->
                   IF b \in swept THEN [resv[b] EXCEPT !.status = status] ELSE resv[b]]
    /\ UNCHANGED <<roomStatus, grid, today, trail>>

\* NightAuditWorker.autoNoShow and HoldExpiryWorker.run
AutoNoShow == SweepTo("NO_SHOW", Missed)
HoldExpiry == SweepTo("CANCELLED", Lapsed)

-----------------------------------------------------------------------------
(* The world outside *)

\* RoomsService.setStatus and its siblings, housekeeping, work orders.
SetRoomStatus(r) ==
    /\ \E s \in StaffSets : s # roomStatus[r] /\ roomStatus' = [roomStatus EXCEPT ![r] = s]
    /\ UNCHANGED <<resv, grid, today, trail>>

\* RatesService.bulkUpdate
SetGrid ==
    /\ \E g \in Grids : g # grid /\ grid' = g
    /\ UNCHANGED <<resv, roomStatus, today, trail>>

\* hold_expires_at goes by.
HoldRunsOut(id) ==
    /\ resv[id].status = "PENDING" /\ resv[id].hold = "running"
    /\ resv' = [resv EXCEPT ![id].hold = "passed"]
    /\ UNCHANGED <<roomStatus, grid, today, trail>>

NextDay ==
    /\ today < Horizon
    /\ today' = today + 1
    /\ UNCHANGED <<resv, roomStatus, grid, trail>>

-----------------------------------------------------------------------------
(* The specification *)

Request(id) ==
    \/ Create(id)
    \/ Update(id)
    \/ ExtendStay(id)
    \/ MoveRoom(id)
    \/ Confirm(id)
    \/ AssignRoom(id)
    \/ CheckIn(id)
    \/ CheckOut(id)
    \/ Cancel(id)
    \/ NoShow(id)
    \/ LockRoom(id)
    \/ \E other \in Bookings : SwapRooms(id, other)

\* Everything but the two workers' sweeps.
DayToDay ==
    \/ \E id \in Bookings : Request(id)
    \/ AutoAllocate
    \/ \E r \in Rooms : SetRoomStatus(r)
    \/ SetGrid
    \/ \E id \in Bookings : HoldRunsOut(id)
    \/ NextDay

Next == DayToDay \/ AutoNoShow \/ HoldExpiry

Spec == Init /\ [][Next]_vars

-----------------------------------------------------------------------------
(* Properties *)

\* The columns hold what the schema says: every row well-formed, statuses known.
TypeOK ==
    /\ resv \in [Bookings -> Rows]
    /\ roomStatus \in [Rooms -> RoomStatuses]
    /\ grid \in Grids
    /\ today \in Days
    /\ trail \in [Bookings -> Statuses]

\* Rule 2 of the service: a room never holds two overlapping reservations in
\* CONFIRMED or CHECKED_IN, whatever the order of confirmations, date moves,
\* extensions, room moves, swaps and allocation runs.
NoDoubleBooking ==
    \A a, b \in Bookings :
        (/\ a # b
         /\ resv[a].status \in Occupying /\ resv[b].status \in Occupying
         /\ resv[a].room # Null /\ resv[a].room = resv[b].room)
        => ~overlaps(resv[a].ci, resv[a].co, resv[b].ci, resv[b].co)

\* A guest in house has a room, a pinned booking has the room it is pinned to
\* ("Locked bookings are by definition assigned"), and a booking's room is of
\* the type it is sold and counted as.
RoomsKnown ==
    \A b \in Bookings :
        /\ resv[b].status \in {"CHECKED_IN", "CHECKED_OUT"} => resv[b].room # Null
        /\ resv[b].locked => resv[b].room # Null
        /\ resv[b].room # Null => TypeOf[resv[b].room] = resv[b].type

\* update(): "rate and dates can only ever agree with" the stored total; and
\* the dates stay in order whichever of the two a request moves.
TotalAgreesWithDates ==
    \A b \in Bookings :
        resv[b].status # "ABSENT" => /\ resv[b].ci < resv[b].co
                                     /\ resv[b].nights = resv[b].co - resv[b].ci

\* The transition map: a status only ever moves along it, so a cancelled,
\* departed or no-show booking never comes back and never holds a room again.
StatusFollowsMap ==
    [][\A b \in Bookings :
          LET from == resv[b].status
              to == resv'[b].status
          IN  from \notin {to, "ABSENT"} => canTransition(from, to)]_vars

SoldOn(t, n) == {b \in Bookings : /\ resv[b].status \in Occupying
                                  /\ resv[b].type = t
                                  /\ coversDate(resv[b], n)}

\* assertTypeCapacity: a booking that comes to be committed (a walk-in, an OTA
\* booking, a confirmed enquiry) leaves no night of its stay with more
\* committed bookings of its type than there are rooms to give them.
CommitFits(b) ==
    (resv[b].status \notin Occupying /\ resv'[b].status \in Occupying)
    => \A t \in {resv'[b].type}, n \in resv'[b].ci .. (resv'[b].co - 1) :
          Cardinality(SoldOn(t, n)') <= Sellable(t)

CommitsWithinCapacity == [][\A b \in Bookings : CommitFits(b)]_vars

\* roomLocked: "auto-allocation and bulk moves leave it alone".  A pinned
\* booking changes room only in a request of its own, which touches no other
\* booking.
PinnedRoomKept ==
    [][\A b \in Bookings :
          (resv[b].locked /\ resv'[b].room # resv[b].room)
          => \A a \in Bookings \ {b} : resv'[a] = resv[a]]_vars

\* The room calendar the bookings draw: who holds each night of each room.
NightBook ==
    [r \in Rooms |-> [n \in Days |->
        {b \in Bookings : /\ resv[b].status \in Occupying
                          /\ resv[b].room = r
                          /\ coversDate(resv[b], n)}]]

Calendar == INSTANCE RoomCalendar WITH Nights <- Days, book <- NightBook

\* Every handler, worker and allocation run keeps the promise of RoomCalendar:
\* a night changes hands only once it is let go, or in an exchange of rooms.
CalendarKept == Calendar!Spec

-----------------------------------------------------------------------------
(* What comments of the code say and the code does not do *)

\* assertTypeCapacity, "It still never oversells": no night carries more
\* committed bookings of a type than the property has rooms of it.
NeverOversells ==
    \A t \in Types, n \in Days :
        Cardinality(SoldOn(t, n)) <= Cardinality({r \in Rooms : TypeOf[r] = t})

\* reservation_events, "Every status change writes a row here".
EveryStatusChangeOnTrail == \A b \in Bookings : trail[b] = resv[b].status

\* checkIn(), "A guest who is checked in but whose room still reads AVAILABLE
\* is how a hotel double-sells a room, so the two writes are never apart".
InHouseRoomOccupied ==
    \A b \in Bookings : resv[b].status = "CHECKED_IN" => roomStatus[resv[b].room] = "OCCUPIED"

=============================================================================
