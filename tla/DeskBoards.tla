----------------------------- MODULE DeskBoards ------------------------------
(***************************************************************************)
(* What the desk and the manager are shown of the bookings: the boards of  *)
(* DeskService and the manifest of ReportsService.  They read the rows     *)
(* that Reservations writes and write nothing; what can be wrong is that a *)
(* board and the request that follows it count differently.                *)
(***************************************************************************)
EXTENDS Reservations

(***************************************************************************)
(* The reception desk's day (today) and the manager's (dashboard).         *)
(***************************************************************************)
On(status) == {b \in Bookings : resv[b].status = status}

arrivals == {b \in On("CONFIRMED") : resv[b].ci = today}
departures == {b \in On("CHECKED_IN") : resv[b].co = today}

\* Mutation for OnOneList: a guest who leaves today also sleeps here tonight.
inHouseLeaving == {b \in On("CHECKED_IN") : resv[b].ci <= today /\ today <= resv[b].co}

inHouse == {b \in On("CHECKED_IN") : coversDate(resv[b], today)}

\* Everybody who was expected today, but for cancelled bookings.
arrivalsToday == {b \in Bookings : /\ resv[b].status \notin {"ABSENT", "CANCELLED"}
                                   /\ resv[b].ci = today}

RoomsIn(statuses) == Cardinality({r \in Rooms : roomStatus[r] \in statuses})
availableRooms == RoomsIn(Assignable)

\* Per mille of the rooms that are not out of order, rounded half up.
occupancyPercent ==
    LET sellable == RoomsIn(RoomStatuses \ {"OUT_OF_ORDER"})
    IN  IF sellable = 0 THEN 0
        ELSE (2 * 1000 * RoomsIn({"OCCUPIED"}) + sellable) \div (2 * sellable)

\* The nights sold to stays that touch a month, wherever those nights fall.
monthRevenue(start, end) ==
    LET stays == {b \in On("CHECKED_IN") \cup On("CHECKED_OUT") :
                     overlaps(resv[b].ci, resv[b].co, start, end)}
    IN  {<<b, resv[b].nights>> : b \in stays}

\* A date's manifest.
ExpectedOn(day) ==
    {b \in On("CONFIRMED") \cup On("CHECKED_IN") \cup On("CHECKED_OUT") : resv[b].ci = day}
LeavingOn(day) == {b \in On("CHECKED_IN") \cup On("CHECKED_OUT") : resv[b].co = day}

(***************************************************************************)
(* What the booking form shows next to a room type (availability): all the *)
(* stays that touch the dates against all the rooms, and no rates grid.    *)
(***************************************************************************)
\* Mutation for AvailabilityNeverFlatters: guests who have arrived are not counted.
BookedRoomsExpected(t, ci, co) ==
    {b \in On("CONFIRMED") : resv[b].type = t /\ overlaps(resv[b].ci, resv[b].co, ci, co)}

BookedRooms(t, ci, co) ==
    {b \in Bookings : /\ resv[b].status \in Occupying
                      /\ resv[b].type = t
                      /\ overlaps(resv[b].ci, resv[b].co, ci, co)}

availability(t, ci, co) ==
    LET free == Sellable(t) - Cardinality(BookedRooms(t, ci, co))
    IN  IF free > 0 THEN free ELSE 0

\* The dashboard's rooms free tonight.
availableByType(t) == availability(t, today, today + 1)

\* The answer create() gives a confirmed booking of the type with no room named.
Accepts(t, ci, co) ==
    LET probe == TypeProbe([type |-> t, ci |-> ci, co |-> co], {}, grid[t])
    IN  Passes(probe, {b \in Bookings : Clashes(probe, b)}, Sellable(t))

\* The rates grid has nothing to say about the dates.
Unrestricted(t, ci, co) ==
    /\ assertRules(grid[t], ci, co)
    /\ \A n \in ci .. (co - 1) : grid[t][n].cap >= Sellable(t)

Stays == {s \in Days \X Days : s[1] < s[2]}

(***************************************************************************)
(* Properties.                                                             *)
(***************************************************************************)

\* today(), "Departures are therefore NOT in-house": a guest in the house who has not
\* outstayed the booking is on one of the two lists the board adds up, and on one
\* only.
OnOneList ==
    \A b \in On("CHECKED_IN") :
        today <= resv[b].co =>
            /\ b \in departures \cup inHouse
            /\ b \notin departures \cap inHouse

\* availability(), "so the desk never picks a sold-out type and then gets refused": a
\* type shown with a room free is accepted, where the rates grid says nothing.
AvailabilityNeverFlatters ==
    \A t \in Types, s \in Stays :
        availability(t, s[1], s[2]) > 0 /\ Unrestricted(t, s[1], s[2]) => Accepts(t, s[1], s[2])

\* availability(), "Uses exactly the rules the create path enforces, so the number the
\* clerk sees and the answer they get are the same rule".
AvailabilityIsCreates ==
    \A t \in Types, s \in Stays :
        (availability(t, s[1], s[2]) > 0) = Accepts(t, s[1], s[2])
=============================================================================
