------------------------- MODULE ReservationsProofs -------------------------
(***************************************************************************)
(* Type correctness and the no-double-booking rule of Reservations, for    *)
(* any number of bookings and rooms, any horizon, any grids.               *)
(*                                                                         *)
(* The argument: every handler's plan is sound (ReservationPlanProofs),    *)
(* and a transaction that runs a sound plan keeps the rule.  The rule is   *)
(* also what makes Reservations implement RoomCalendar: whatever a request *)
(* or a worker does, the nights of the rooms change hands only as the      *)
(* abstract calendar allows.                                               *)
(***************************************************************************)
EXTENDS Reservations, ReservationPlanProofs

USE CountsAssumption, HorizonAssumption, TypeOfAssumption, NullAssumption
    DEF Bookings, Rooms, Days

Inv == TypeOK /\ NoDoubleBooking

\* The rule, in terms of Collide.
LEMMA NoDoubleBookingIsNoCollision ==
    NoDoubleBooking <=> \A a, b \in Bookings : a # b => ~Collide(resv[a], resv[b])
  BY DEF NoDoubleBooking, Collide

\* What a handler reads under a legal id.
LEMMA StoredRow ==
    ASSUME TypeOK, NEW id \in Bookings
    PROVE  /\ resv[id] \in Rows
           /\ resv[id].ci \in Days /\ resv[id].co \in Days
           /\ resv[id].room \in Rooms \cup {Null} /\ resv[id].type \in Types \cup {Null}
  BY RowRead DEF TypeOK, TableTyped

-----------------------------------------------------------------------------
(* Running a plan *)

\* A transaction that writes well-formed rows leaves well-formed tables.
LEMMA ExecuteTyped ==
    ASSUME NEW p, TypeOK, WellFormed(p), Execute(p)
    PROVE  TypeOK'
  <1>1. resv' \in [Bookings -> Rows]
    BY DEF TypeOK, WellFormed, Execute
  <1>2. roomStatus' \in [Rooms -> RoomStatuses]
    BY DEF TypeOK, WellFormed, Execute
  <1>3. trail' \in [Bookings -> Statuses]
    BY DEF TypeOK, WellFormed, Execute
  <1>4. UNCHANGED <<grid, today>>
    BY DEF Execute
  <1>5. QED
    BY <1>1, <1>2, <1>3, <1>4 DEF TypeOK

\* A transaction that runs a sound plan keeps the no-double-booking rule.
LEMMA ExecuteKeepsRule ==
    ASSUME NEW p, Inv, WellFormed(p), Sound(p), Execute(p)
    PROVE  NoDoubleBooking'
  <1> SUFFICES ASSUME NEW a \in Bookings, NEW b \in Bookings, a # b,
                      Collide(resv'[a], resv'[b])
               PROVE  FALSE
    BY DEF NoDoubleBooking, Collide
  <1>1. \A x, y : Collide(x, y) <=> Collide(y, x)
    BY DEF Collide, overlaps
  <1>2. \A x \in Bookings : resv'[x] = IF x \in DOMAIN p.rows THEN p.rows[x] ELSE resv[x]
    BY DEF Execute
  <1>3. ASSUME NEW x \in DOMAIN p.rows, NEW y \in Bookings \ DOMAIN p.rows,
               Collide(p.rows[x], resv[y])
        PROVE  FALSE
    <2>1. x \in Bookings /\ x # y
      BY <1>3 DEF WellFormed
    <2>2. p.rows[x].status \in Occupying /\ p.rows[x].room # Null
      BY <1>3 DEF Collide
    <2>3. CASE Kept(p.rows[x], resv[x])
      <3>1. Collide(resv[x], resv[y])
        BY <1>3, <2>3 DEF Collide, Kept
      <3>2. QED
        BY <3>1, <2>1, NoDoubleBookingIsNoCollision DEF Inv
    <2>4. CASE Probed(p, p.rows[x])
      <3>1. PICK i \in DOMAIN p.probes :
               /\ p.probes[i].room = p.rows[x].room
               /\ p.probes[i].ci = p.rows[x].ci /\ p.probes[i].co = p.rows[x].co
               /\ p.probes[i].skip \subseteq DOMAIN p.rows
        BY <2>4 DEF Probed
      <3> DEFINE q == p.probes[i]
      <3>2. Clashes(q, y)
        <4>1. y \notin q.skip
          BY <3>1
        <4>2. q.room # Null /\ resv[y].room = q.room
          BY <3>1, <2>2, <1>3 DEF Collide
        <4>3. resv[y].status \in Occupying
          BY <1>3 DEF Collide
        <4>4. overlaps(resv[y].ci, resv[y].co, q.ci, q.co)
          BY <3>1, <1>3 DEF Collide, overlaps
        <4>5. QED
          BY <4>1, <4>2, <4>3, <4>4 DEF Clashes
      <3>3. q.room # Null
        BY <3>1, <2>2
      <3>4. {c \in Bookings : Clashes(q, c)} = {}
        BY <3>3 DEF Execute, Passes
      <3>5. QED
        BY <3>2, <3>4
    <2>5. QED
      BY <2>2, <2>3, <2>4 DEF Sound
  <1>4. CASE a \in DOMAIN p.rows /\ b \in DOMAIN p.rows
    BY <1>2, <1>4, NoDoubleBookingIsNoCollision DEF Sound, WellFormed, Inv
  <1>5. CASE a \in DOMAIN p.rows /\ b \notin DOMAIN p.rows
    BY <1>2, <1>3, <1>5
  <1>6. CASE a \notin DOMAIN p.rows /\ b \in DOMAIN p.rows
    BY <1>1, <1>2, <1>3, <1>6
  <1>7. CASE a \notin DOMAIN p.rows /\ b \notin DOMAIN p.rows
    BY <1>2, <1>7, NoDoubleBookingIsNoCollision DEF Inv
  <1>8. QED
    BY <1>4, <1>5, <1>6, <1>7

-----------------------------------------------------------------------------
(* The steps *)

\* A request runs the plan that a handler has for the booking.
LEMMA RequestRunsPlan ==
    ASSUME NEW id \in Bookings, Request(id)
    PROVE  \E p : Intended(id, p) /\ Execute(p)
  <1>1. CASE Create(id)
    <2>1. PICK t \in Types, r \in Rooms \cup {Null}, ci \in Days, co \in Days,
               status \in {"PENDING", "CONFIRMED"}, hold \in HoldKinds :
               /\ CanCreate(id, t, r, ci, co, status, hold)
               /\ Execute(CreatePlan(id, t, r, ci, co, status, hold))
      BY <1>1 DEF Create, Insert
    <2>2. Intended(id, CreatePlan(id, t, r, ci, co, status, hold))
      BY <1>1, <2>1 DEF Intended, Create, Insert
    <2>3. QED
      BY <2>1, <2>2
  <1>2. CASE Update(id)
    <2>1. PICK newCi \in Days \cup {Null}, newCo \in Days \cup {Null},
               reprice \in BOOLEAN :
               /\ CanUpdate(id, newCi, newCo, reprice)
               /\ Execute(UpdatePlan(id, newCi, newCo, reprice))
      BY <1>2 DEF Update
    <2>2. Intended(id, UpdatePlan(id, newCi, newCo, reprice))
      BY <2>1 DEF Intended
    <2>3. QED
      BY <2>1, <2>2
  <1>3. CASE ExtendStay(id) \/ MoveRoom(id) \/ AssignRoom(id) \/ CheckIn(id)
    BY <1>3 DEF Intended, ExtendStay, MoveRoom, AssignRoom, CheckIn
  <1>4. CASE Confirm(id) \/ CheckOut(id) \/ Cancel(id) \/ NoShow(id) \/ LockRoom(id)
    BY <1>4 DEF Intended, Confirm, CheckOut, Cancel, NoShow, LockRoom
  <1>5. CASE \E other \in Bookings : SwapRooms(id, other)
    BY <1>5 DEF Intended, SwapRooms
  <1>6. QED
    BY <1>1, <1>2, <1>3, <1>4, <1>5 DEF Request

\* A handler of one booking keeps the tables typed and the rule.
LEMMA RequestKeepsInv ==
    ASSUME Inv, NEW id \in Bookings, Request(id)
    PROVE  Inv'
  <1>1. ASSUME NEW p, WellFormed(p), Sound(p), Execute(p)
        PROVE  Inv'
    BY <1>1, ExecuteTyped, ExecuteKeepsRule DEF Inv
  <1>2. PICK p : Intended(id, p) /\ Execute(p)
    BY RequestRunsPlan
  <1>3. TableTyped
    BY DEF Inv, TypeOK, TableTyped
  <1>4. QED
    BY <1>1, <1>2, <1>3, IntendedSound

\* An allocation run hands no door to two arrivals, nor to one whose nights
\* somebody else holds.
LEMMA AutoAllocateKeepsInv ==
    ASSUME Inv, AutoAllocate
    PROVE  Inv'
  <1>1. PICK from \in Days, to \in Days :
           \E door \in [Unplaced(from, to) -> Rooms \cup {Null}] :
              /\ \A b \in Unplaced(from, to) :
                    TakesFirst(door, b, OpenDoors(b, Unplaced(from, to), door))
              /\ resv' = [b \in Bookings |->
                             IF b \in Unplaced(from, to)
                             THEN [resv[b] EXCEPT !.room = door[b]] ELSE resv[b]]
    BY DEF AutoAllocate
  <1> DEFINE arrivals == Unplaced(from, to)
  <1>a. PICK door \in [arrivals -> Rooms \cup {Null}] :
              /\ \A b \in arrivals : TakesFirst(door, b, OpenDoors(b, arrivals, door))
              /\ resv' = [b \in Bookings |->
                             IF b \in arrivals
                             THEN [resv[b] EXCEPT !.room = door[b]] ELSE resv[b]]
    BY <1>1
  <1>2. arrivals \subseteq Bookings
    BY DEF Unplaced
  <1>3. UNCHANGED <<roomStatus, grid, today, trail>>
    BY DEF AutoAllocate
  <1>4. \A b \in arrivals :
           /\ resv'[b] \in Rows /\ resv'[b].room = door[b]
           /\ resv'[b].ci = resv[b].ci /\ resv'[b].co = resv[b].co
    <2> SUFFICES ASSUME NEW b \in arrivals
                 PROVE  /\ resv'[b] \in Rows /\ resv'[b].room = door[b]
                        /\ resv'[b].ci = resv[b].ci /\ resv'[b].co = resv[b].co
      OBVIOUS
    <2>1. resv[b] \in Rows /\ door[b] \in Rooms \cup {Null}
      BY <1>2, StoredRow DEF Inv
    <2>2. resv'[b] = [resv[b] EXCEPT !.room = door[b]]
      BY <1>a, <1>2
    <2>3. QED
      BY <2>1, <2>2 DEF Rows
  <1>5. \A b \in Bookings \ arrivals : resv'[b] = resv[b]
    BY <1>a
  <1>6. TypeOK'
    BY <1>a, <1>3, <1>4, <1>5 DEF TypeOK, Inv
  <1>7. \A b \in arrivals : door[b] # Null => door[b] \in OpenDoors(b, arrivals, door)
    BY <1>a DEF TakesFirst
  <1>8. ASSUME NEW a \in arrivals, NEW b \in arrivals, Earlier(a, b),
               Collide(resv'[a], resv'[b])
        PROVE  FALSE
    <2>1. door[b] # Null /\ door[a] = door[b]
      BY <1>4, <1>8 DEF Collide
    <2>2. ~overlaps(resv[a].ci, resv[a].co, resv[b].ci, resv[b].co)
      BY <1>7, <1>8, <2>1 DEF OpenDoors
    <2>3. QED
      BY <1>4, <1>8, <2>2 DEF Collide
  <1>9. ASSUME NEW a \in arrivals, NEW b \in Bookings \ arrivals,
               Collide(resv'[a], resv'[b])
        PROVE  FALSE
    <2>1. door[a] # Null /\ resv[b].room = door[a] /\ resv[b].status \in Occupying
      BY <1>4, <1>5, <1>9 DEF Collide
    <2>2. ~Clashes(RoomProbe(door[a], resv[a], {a}), b)
      BY <1>7, <2>1 DEF OpenDoors
    <2>3. overlaps(resv[b].ci, resv[b].co, resv[a].ci, resv[a].co)
      BY <1>4, <1>5, <1>9 DEF Collide, overlaps
    <2>4. QED
      BY <2>1, <2>2, <2>3 DEF Clashes, RoomProbe
  <1>10. NoDoubleBooking'
    <2> SUFFICES ASSUME NEW a \in Bookings, NEW b \in Bookings, a # b,
                        Collide(resv'[a], resv'[b])
                 PROVE  FALSE
      BY DEF NoDoubleBooking, Collide
    <2>1. Collide(resv'[b], resv'[a])
      BY DEF Collide, overlaps
    <2>2. CASE a \in arrivals /\ b \in arrivals
      <3>1. Earlier(a, b) \/ Earlier(b, a)
        BY <1>2, StoredRow DEF Earlier, Inv
      <3>2. QED
        BY <1>8, <2>1, <2>2, <3>1
    <2>3. CASE a \in arrivals /\ b \notin arrivals
      BY <1>9, <2>3
    <2>4. CASE a \notin arrivals /\ b \in arrivals
      BY <1>9, <2>1, <2>4
    <2>5. CASE a \notin arrivals /\ b \notin arrivals
      BY <1>5, <2>5, NoDoubleBookingIsNoCollision DEF Inv
    <2>6. QED
      BY <2>2, <2>3, <2>4, <2>5
  <1>11. QED
    BY <1>6, <1>10 DEF Inv

\* A step after which every row holds no more than it held keeps the rule.
LEMMA FewerClaimsKeepRule ==
    ASSUME NoDoubleBooking,
           \A b \in Bookings : resv'[b].status \in Occupying =>
               /\ resv[b].status \in Occupying /\ resv'[b].room = resv[b].room
               /\ resv'[b].ci = resv[b].ci /\ resv'[b].co = resv[b].co
    PROVE  NoDoubleBooking'
  BY DEF NoDoubleBooking

\* The empty tables satisfy the invariant.
LEMMA InitInv == Init => Inv
  <1> SUFFICES ASSUME Init PROVE Inv
    OBVIOUS
  <1>1. NoRow \in Rows /\ NoRow.status \notin Occupying
    BY DEF NoRow, Rows, Statuses, Occupying
  <1>2. TypeOK
    BY <1>1 DEF Init, TypeOK, RoomStatuses, Statuses
  <1>3. NoDoubleBooking
    BY <1>1 DEF Init, NoDoubleBooking
  <1>4. QED
    BY <1>2, <1>3 DEF Inv

\* Inv is inductive.
LEMMA NextInv == Inv /\ [Next]_vars => Inv'
  <1> SUFFICES ASSUME Inv, [Next]_vars PROVE Inv'
    OBVIOUS
  <1> USE DEF Inv
  <1>1. ASSUME NEW id \in Bookings, Request(id) PROVE Inv'
    BY <1>1, RequestKeepsInv
  <1>2. CASE AutoAllocate
    BY <1>2, AutoAllocateKeepsInv
  <1>3. CASE AutoNoShow
    <2>1. \A b \in Bookings : resv'[b] \in {resv[b], [resv[b] EXCEPT !.status = "NO_SHOW"]}
      BY <1>3 DEF AutoNoShow, SweepTo
    <2>2. TypeOK'
      BY <1>3, StoredRow, RowAssigned DEF AutoNoShow, SweepTo, TypeOK, Statuses
    <2>3. NoDoubleBooking'
      <3>1. \A b \in Bookings : resv'[b].status \in Occupying => resv'[b] = resv[b]
        BY <2>1, StoredRow DEF Occupying, Rows
      <3>2. QED
        BY <3>1, FewerClaimsKeepRule
    <2>4. QED
      BY <2>2, <2>3
  <1>4. CASE HoldExpiry
    <2>1. \A b \in Bookings :
             resv'[b] \in {resv[b], [resv[b] EXCEPT !.status = "CANCELLED"]}
      BY <1>4 DEF HoldExpiry, SweepTo
    <2>2. TypeOK'
      BY <1>4, StoredRow, RowAssigned DEF HoldExpiry, SweepTo, TypeOK, Statuses
    <2>3. NoDoubleBooking'
      <3>1. \A b \in Bookings : resv'[b].status \in Occupying => resv'[b] = resv[b]
        BY <2>1, StoredRow DEF Occupying, Rows
      <3>2. QED
        BY <3>1, FewerClaimsKeepRule
    <2>4. QED
      BY <2>2, <2>3
  <1>5. ASSUME NEW r \in Rooms, SetRoomStatus(r) PROVE Inv'
    BY <1>5, StaffSetsAssumption DEF SetRoomStatus, TypeOK, NoDoubleBooking
  <1>6. CASE SetGrid
    BY <1>6 DEF SetGrid, TypeOK, NoDoubleBooking
  <1>7. ASSUME NEW id \in Bookings, HoldRunsOut(id) PROVE Inv'
    <2>1. ASSUME NEW b \in Bookings
          PROVE  /\ resv'[b] \in Rows /\ resv'[b].status = resv[b].status
                 /\ resv'[b].room = resv[b].room
                 /\ resv'[b].ci = resv[b].ci /\ resv'[b].co = resv[b].co
      <3>1. resv'[b] = resv[b] \/ resv'[b] = [resv[b] EXCEPT !.hold = "passed"]
        BY <1>7 DEF HoldRunsOut, TypeOK
      <3>2. QED
        BY <3>1, StoredRow DEF Rows
    <2>2. TypeOK'
      BY <1>7, <2>1 DEF HoldRunsOut, TypeOK
    <2>3. QED
      BY <2>1, <2>2, FewerClaimsKeepRule
  <1>8. CASE NextDay
    BY <1>8 DEF NextDay, TypeOK, NoDoubleBooking
  <1>9. CASE UNCHANGED vars
    BY <1>9 DEF vars, TypeOK, NoDoubleBooking
  <1>10. QED
    BY <1>1, <1>2, <1>3, <1>4, <1>5, <1>6, <1>7, <1>8, <1>9 DEF Next, DayToDay

-----------------------------------------------------------------------------
(* The theorems *)

\* The tables always hold well-formed rows, whatever the requests and workers.
THEOREM TypeCorrect == Spec => []TypeOK
  <1>1. Inv => TypeOK
    BY DEF Inv
  <1>2. QED
    BY InitInv, NextInv, <1>1, PTL DEF Spec

\* Rule 2 of ReservationsService for every hotel: as long as no two requests
\* overlap, no room ever holds two overlapping committed bookings.
THEOREM NoRoomDoubleBooked == Spec => []NoDoubleBooking
  <1>1. Inv => NoDoubleBooking
    BY DEF Inv
  <1>2. QED
    BY InitInv, NextInv, <1>1, PTL DEF Spec

-----------------------------------------------------------------------------
(* The nights of the rooms: a request that writes one row redraws one      *)
(* claim, and the rule that no room is double-booked, which holds after    *)
(* the step as well, says that nobody else had the nights claimed.  So it  *)
(* is for the two claims of an exchange and for those of an allocation run *)

\* The row holds night n of room r.
Holds(row, r, n) == row.status \in Occupying /\ row.room = r /\ coversDate(row, n)

\* What the bookings draw, before and after a step.
LEMMA Drawn ==
    ASSUME NEW r \in Rooms, NEW n \in Days
    PROVE  /\ NightBook[r][n] = {b \in Bookings : Holds(resv[b], r, n)}
           /\ NightBook'[r][n] = {b \in Bookings : Holds(resv'[b], r, n)}
  BY DEF NightBook, Holds, coversDate

\* The calendar is one: rooms, nights, sets of bookings.
LEMMA DrawnTyped ==
    /\ NightBook \in [Rooms -> [Days -> SUBSET Bookings]]
    /\ NightBook' \in [Rooms -> [Days -> SUBSET Bookings]]
  BY DEF NightBook

\* Two rows of the table never hold one night of one room (NoDoubleBooking).
LEMMA OneHolds ==
    ASSUME Inv, NEW r \in Rooms, NEW n \in Days, NEW a \in Bookings, NEW b \in Bookings,
           Holds(resv[a], r, n), Holds(resv[b], r, n)
    PROVE  a = b
  <1>1. overlaps(resv[a].ci, resv[a].co, resv[b].ci, resv[b].co)
    BY StoredRow DEF Inv, Holds, coversDate, overlaps
  <1>2. QED
    BY <1>1 DEF Inv, NoDoubleBooking, Holds

\* The same after a step.
LEMMA OneHoldsNext ==
    ASSUME Inv', NEW r \in Rooms, NEW n \in Days, NEW a \in Bookings, NEW b \in Bookings,
           Holds(resv'[a], r, n), Holds(resv'[b], r, n)
    PROVE  a = b
  <1>1. \A x \in {a, b} : resv'[x].ci \in Days /\ resv'[x].co \in Days
    BY DEF Inv, TypeOK, Rows
  <1>2. \A x \in {a, b} : resv'[x].ci <= n /\ n < resv'[x].co
    BY DEF Holds, coversDate
  <1>3. overlaps(resv'[a].ci, resv'[a].co, resv'[b].ci, resv'[b].co)
    BY <1>1, <1>2 DEF overlaps
  <1>4. QED
    BY <1>3 DEF Inv, NoDoubleBooking, Holds

-----------------------------------------------------------------------------
(* Kinds of steps *)

\* A step after which no row holds what it did not hold only releases nights.
LEMMA FewerHoldsRelease ==
    ASSUME \A b \in Bookings, r \in Rooms, n \in Days :
               Holds(resv'[b], r, n) => Holds(resv[b], r, n)
    PROVE  Calendar!Release
  <1>1. \A r \in Rooms, n \in Days : NightBook'[r][n] \subseteq NightBook[r][n]
    BY Drawn
  <1>2. QED
    BY <1>1, DrawnTyped DEF Calendar!Release

\* A step that changes one row redraws the claim of that booking.
LEMMA OneRowRebooks ==
    ASSUME Inv', NEW id \in Bookings,
           \A b \in Bookings \ {id} : resv'[b] = resv[b]
    PROVE  Calendar!Rebook(id)
  <1>1. ASSUME NEW r \in Rooms, NEW n \in Days
        PROVE  /\ NightBook'[r][n] \ {id} = NightBook[r][n] \ {id}
               /\ id \in NightBook'[r][n] => NightBook[r][n] \subseteq {id}
    <2>1. NightBook'[r][n] \ {id} = NightBook[r][n] \ {id}
      BY Drawn
    <2>2. ASSUME id \in NightBook'[r][n], NEW c \in NightBook[r][n], c # id
          PROVE  FALSE
      <3>1. Holds(resv'[id], r, n) /\ c \in Bookings /\ Holds(resv'[c], r, n)
        BY <2>2, Drawn
      <3>2. QED
        BY <2>2, <3>1, OneHoldsNext
    <2>3. QED
      BY <2>1, <2>2
  <1>2. QED
    BY <1>1, DrawnTyped DEF Calendar!Rebook

-----------------------------------------------------------------------------
(* The steps *)

\* A handler that writes one row redraws one claim.
LEMMA PlanForRebooks ==
    ASSUME Inv', NEW id \in Bookings, NEW probes, NEW columns, NEW row, NEW rooms, NEW says,
           Execute(PlanFor(id, probes, columns, row, rooms, says))
    PROVE  Calendar!Rebook(id)
  <1>1. \A b \in Bookings \ {id} : resv'[b] = resv[b]
    BY DEF Execute, PlanFor, Plan
  <1>2. QED
    BY <1>1, OneRowRebooks

\* swapRooms() exchanges the rooms of two bookings, for the nights each held.
LEMMA SwapExchanges ==
    ASSUME Inv, Inv', NEW a \in Bookings, NEW b \in Bookings, SwapRooms(a, b),
           resv[a].room # resv[b].room
    PROVE  Calendar!Exchange(a, b, resv[a].room, resv[b].room)
  <1> DEFINE q == resv[a].room
             r == resv[b].room
  <1>1. /\ a # b /\ q \in Rooms /\ r \in Rooms
        /\ resv[a].status \in Occupying /\ resv[b].status \in Occupying
    BY StoredRow DEF SwapRooms, CanSwap, Inv
  <1>2. /\ resv'[a] = [resv[a] EXCEPT !.room = r]
        /\ resv'[b] = [resv[b] EXCEPT !.room = q]
        /\ \A c \in Bookings \ {a, b} : resv'[c] = resv[c]
    BY <1>1 DEF SwapRooms, SwapPlan, Plan, Execute
  <1>3. /\ resv'[a].status = resv[a].status /\ resv'[a].room = r
        /\ resv'[a].ci = resv[a].ci /\ resv'[a].co = resv[a].co
        /\ resv'[b].status = resv[b].status /\ resv'[b].room = q
        /\ resv'[b].ci = resv[b].ci /\ resv'[b].co = resv[b].co
    BY <1>2, StoredRow DEF Inv, Rows
  <1> DEFINE atA(n) == coversDate(resv[a], n)
             atB(n) == coversDate(resv[b], n)
  <1>4. \A s \in Rooms, n \in Days :
           /\ Holds(resv[a], s, n) <=> s = q /\ atA(n)
           /\ Holds(resv[b], s, n) <=> s = r /\ atB(n)
           /\ Holds(resv'[a], s, n) <=> s = r /\ atA(n)
           /\ Holds(resv'[b], s, n) <=> s = q /\ atB(n)
    BY <1>1, <1>3 DEF Holds, coversDate
  <1> HIDE DEF q, r, atA, atB
  <1>5. \A n \in Days : /\ a \in NightBook[q][n] <=> atA(n)
                        /\ b \in NightBook[r][n] <=> atB(n)
    <2> TAKE n \in Days
    <2>1. /\ NightBook[q][n] = {c \in Bookings : Holds(resv[c], q, n)}
          /\ NightBook[r][n] = {c \in Bookings : Holds(resv[c], r, n)}
      BY <1>1, Drawn
    <2>2. (Holds(resv[a], q, n) <=> atA(n)) /\ (Holds(resv[b], r, n) <=> atB(n))
      BY <1>1, <1>4
    <2>3. QED
      BY <2>1, <2>2
  <1>6. ASSUME NEW n \in Days, NEW s \in Rooms, NEW x \in {a, b}, Holds(resv'[x], s, n)
        PROVE  NightBook[s][n] \subseteq {a, b}
    <2> SUFFICES ASSUME NEW c \in Bookings, Holds(resv[c], s, n), c \notin {a, b}
                 PROVE  FALSE
      BY Drawn
    <2>1. Holds(resv'[c], s, n)
      BY <1>2
    <2>2. QED
      BY <1>6, <2>1, OneHoldsNext
  <1>7. ASSUME NEW s \in Rooms, NEW n \in Days
        PROVE  NightBook'[s][n]
                 = (NightBook[s][n] \ {a, b})
                     \cup (IF s = r /\ a \in NightBook[q][n] THEN {a} ELSE {})
                     \cup (IF s = q /\ b \in NightBook[r][n] THEN {b} ELSE {})
    <2>1. \A c \in Bookings \ {a, b} : Holds(resv'[c], s, n) <=> Holds(resv[c], s, n)
      BY <1>2
    <2>2. /\ Holds(resv'[a], s, n) <=> s = r /\ a \in NightBook[q][n]
          /\ Holds(resv'[b], s, n) <=> s = q /\ b \in NightBook[r][n]
      BY <1>4, <1>5
    <2>3. QED
      BY <2>1, <2>2, <1>1, Drawn
  <1>8. /\ \A n \in Days : a \in NightBook[q][n] => NightBook[r][n] \subseteq {a, b}
        /\ \A n \in Days : b \in NightBook[r][n] => NightBook[q][n] \subseteq {a, b}
    BY <1>1, <1>4, <1>5, <1>6
  <1>9. NightBook' = [s \in Rooms |-> [n \in Days |->
                        (NightBook[s][n] \ {a, b})
                          \cup (IF s = r /\ n \in {m \in Days : a \in NightBook[q][m]}
                                THEN {a} ELSE {})
                          \cup (IF s = q /\ n \in {m \in Days : b \in NightBook[r][m]}
                                THEN {b} ELSE {})]]
    BY <1>7, DrawnTyped
  <1>10. q # r
    BY DEF q, r
  <1>11. Calendar!Exchange(a, b, q, r)
    BY <1>8, <1>9, <1>10 DEF Calendar!Exchange
  <1>12. QED
    BY <1>11 DEF q, r

\* An exchange of a room with itself changes nothing.
LEMMA SwapOfOneRoom ==
    ASSUME Inv, NEW a \in Bookings, NEW b \in Bookings, SwapRooms(a, b),
           resv[a].room = resv[b].room
    PROVE  Calendar!Release
  <1>1. \A c \in Bookings : /\ resv'[c].status = resv[c].status
                            /\ resv'[c].room = resv[c].room
                            /\ resv'[c].ci = resv[c].ci /\ resv'[c].co = resv[c].co
    BY StoredRow DEF SwapRooms, SwapPlan, Plan, Execute, Inv, Rows
  <1>2. QED
    BY <1>1, FewerHoldsRelease DEF Holds, coversDate

\* A request is a redrawn claim, an exchange, or nothing to the calendar.
LEMMA RequestKeepsCalendar ==
    ASSUME Inv, Inv', NEW id \in Bookings, Request(id)
    PROVE  Calendar!Next
  <1>1. CASE \E other \in Bookings : SwapRooms(id, other)
    <2>1. PICK b \in Bookings : SwapRooms(id, b)
      BY <1>1
    <2>2. CASE resv[id].room = resv[b].room
      BY <2>1, <2>2, SwapOfOneRoom DEF Calendar!Next
    <2>3. CASE resv[id].room # resv[b].room
      <3>1. resv[id].room \in Rooms /\ resv[b].room \in Rooms
        BY <2>1, StoredRow DEF SwapRooms, CanSwap, Inv
      <3>2. Calendar!Exchange(id, b, resv[id].room, resv[b].room)
        BY <2>1, <2>3, SwapExchanges
      <3>3. QED
        BY <3>1, <3>2 DEF Calendar!Next
    <2>4. QED
      BY <2>2, <2>3
  <1>2. CASE ~\E other \in Bookings : SwapRooms(id, other)
    <2>1. ASSUME NEW probes, NEW columns, NEW row, NEW rooms, NEW says,
                 Execute(PlanFor(id, probes, columns, row, rooms, says))
          PROVE  Calendar!Rebook(id)
      BY <2>1, PlanForRebooks
    <2>2. Calendar!Rebook(id)
      <3>1. CASE Create(id) \/ Update(id) \/ ExtendStay(id)
        <4>1. CASE Create(id)
          <5>1. PICK t \in Types, r \in Rooms \cup {Null}, ci \in Days, co \in Days,
                     status \in {"PENDING", "CONFIRMED"}, hold \in HoldKinds :
                     Execute(CreatePlan(id, t, r, ci, co, status, hold))
            BY <4>1 DEF Create, Insert
          <5>2. QED
            BY <2>1, <5>1 DEF CreatePlan
        <4>2. CASE Update(id)
          <5>1. PICK newCi \in Days \cup {Null}, newCo \in Days \cup {Null},
                     reprice \in BOOLEAN : Execute(UpdatePlan(id, newCi, newCo, reprice))
            BY <4>2 DEF Update
          <5>2. QED
            BY <2>1, <5>1 DEF UpdatePlan
        <4>3. CASE ExtendStay(id)
          BY <2>1, <4>3 DEF ExtendStay, ExtendPlan
        <4>4. QED
          BY <3>1, <4>1, <4>2, <4>3
      <3>2. CASE MoveRoom(id) \/ AssignRoom(id) \/ CheckIn(id)
        BY <2>1, <3>2 DEF MoveRoom, MovePlan, AssignRoom, AssignPlan, CheckIn, CheckInPlan
      <3>3. CASE Confirm(id) \/ CheckOut(id) \/ Cancel(id) \/ NoShow(id) \/ LockRoom(id)
        BY <2>1, <3>3 DEF Confirm, ConfirmPlan, CheckOut, CheckOutPlan, Cancel, CancelPlan,
                          NoShow, NoShowPlan, LockRoom, LockPlan
      <3>4. QED
        BY <1>2, <3>1, <3>2, <3>3 DEF Request
    <2>3. QED
      BY <2>2 DEF Calendar!Next
  <1>3. QED
    BY <1>1, <1>2

\* An allocation run claims free nights, no two bookings the same.
LEMMA AutoAllocateAllocates ==
    ASSUME Inv, Inv', AutoAllocate
    PROVE  Calendar!Allocate
  <1>1. ASSUME NEW b \in Bookings
        PROVE  resv'[b] = resv[b] \/ resv[b].room = Null
    BY DEF AutoAllocate, Unplaced
  <1>2. ASSUME NEW r \in Rooms, NEW n \in Days
        PROVE  \/ NightBook'[r][n] = NightBook[r][n]
               \/ NightBook[r][n] = {} /\ \E b \in Bookings : NightBook'[r][n] = {b}
    <2>1. \A b \in Bookings : Holds(resv[b], r, n) => Holds(resv'[b], r, n)
      BY <1>1 DEF Holds
    <2>2. CASE \E b \in Bookings : Holds(resv'[b], r, n) /\ ~Holds(resv[b], r, n)
      <3>1. PICK b \in Bookings : Holds(resv'[b], r, n) /\ ~Holds(resv[b], r, n)
        BY <2>2
      <3>2. \A c \in Bookings : Holds(resv'[c], r, n) => c = b
        BY <3>1, OneHoldsNext
      <3>3. \A c \in Bookings : ~Holds(resv[c], r, n)
        BY <2>1, <3>1, <3>2
      <3>4. NightBook[r][n] = {}
        BY <3>3, Drawn
      <3>5. NightBook'[r][n] = {b}
        BY <3>1, <3>2, Drawn
      <3>6. QED
        BY <3>4, <3>5
    <2>3. CASE \A b \in Bookings : Holds(resv'[b], r, n) => Holds(resv[b], r, n)
      <3>1. \A b \in Bookings : Holds(resv'[b], r, n) <=> Holds(resv[b], r, n)
        BY <2>1, <2>3
      <3>2. {b \in Bookings : Holds(resv'[b], r, n)} = {b \in Bookings : Holds(resv[b], r, n)}
        BY <3>1
      <3>3. /\ NightBook[r][n] = {b \in Bookings : Holds(resv[b], r, n)}
            /\ NightBook'[r][n] = {b \in Bookings : Holds(resv'[b], r, n)}
        BY Drawn
      <3>4. QED
        BY <3>2, <3>3, Zenon
    <2>4. QED
      BY <2>2, <2>3
  <1>3. QED
    BY <1>2, DrawnTyped DEF Calendar!Allocate

\* A sweep, of bookings that end, only releases nights.
LEMMA SweepReleases ==
    ASSUME Inv, NEW s \in {"CANCELLED", "NO_SHOW"}, NEW swept, SweepTo(s, swept)
    PROVE  Calendar!Release
  <1>1. \A b \in Bookings : resv'[b] = resv[b] \/ resv'[b].status = s
    BY StoredRow DEF SweepTo, Inv, Rows
  <1>2. QED
    BY <1>1, FewerHoldsRelease DEF Holds, Occupying

\* Every step of the engine is one of the calendar.
LEMMA NextKeepsCalendar ==
    ASSUME Inv, Inv', [Next]_vars
    PROVE  [Calendar!Next]_NightBook
  <1>1. ASSUME NEW id \in Bookings, Request(id) PROVE Calendar!Next
    BY <1>1, RequestKeepsCalendar
  <1>2. CASE AutoAllocate
    BY <1>2, AutoAllocateAllocates DEF Calendar!Next
  <1>3. CASE AutoNoShow \/ HoldExpiry
    BY <1>3, SweepReleases DEF AutoNoShow, HoldExpiry, Calendar!Next
  <1>4. ASSUME NEW id \in Bookings, HoldRunsOut(id) PROVE Calendar!Next
    <2>1. \A b \in Bookings \ {id} : resv'[b] = resv[b]
      BY <1>4 DEF HoldRunsOut, Inv, TypeOK
    <2>2. QED
      BY <2>1, OneRowRebooks DEF Calendar!Next
  <1>5. CASE UNCHANGED resv
    BY <1>5, FewerHoldsRelease DEF Calendar!Next
  <1>6. QED
    BY <1>1, <1>2, <1>3, <1>4, <1>5
       DEF Next, DayToDay, SetRoomStatus, SetGrid, NextDay, vars

-----------------------------------------------------------------------------
(* The theorem *)

\* The booking engine implements the room calendar: in every hotel, as long as no two
\* requests overlap, a night of a room reaches another booking only after it was let
\* go, or in an exchange of rooms.
THEOREM EngineKeepsCalendar == Spec => CalendarKept
  <1>1. Init => Calendar!Init
    <2> SUFFICES ASSUME Init PROVE Calendar!Init
      OBVIOUS
    <2>1. \A r \in Rooms, n \in Days : NightBook[r][n] = {}
      <3>1. \A b \in Bookings : resv[b].status \notin Occupying
        BY DEF Init, NoRow, Occupying
      <3>2. QED
        BY <3>1, Drawn DEF Holds
    <2>2. QED
      BY <2>1, DrawnTyped DEF Calendar!Init
  <1>2. Inv /\ Inv' /\ [Next]_vars => [Calendar!Next]_NightBook
    BY NextKeepsCalendar
  <1>3. QED
    BY InitInv, NextInv, <1>1, <1>2, PTL DEF Spec, CalendarKept, Calendar!Spec

-----------------------------------------------------------------------------
(* What the promise is worth: however a night may change hands, it is      *)
(* never in two.                                                           *)

\* Every night is a set of bookings, of one at most.
CalendarInv == Calendar!TypeOK /\ Calendar!OneHolder

\* Nights that only lose holders keep one at most.
LEMMA ReleaseKeepsOneHolder ==
    ASSUME CalendarInv, Calendar!Release
    PROVE  CalendarInv'
  BY DEF CalendarInv, Calendar!TypeOK, Calendar!OneHolder, Calendar!Release

\* A booking that redraws its claim enters nights that nobody else holds.
LEMMA RebookKeepsOneHolder ==
    ASSUME CalendarInv, NEW b \in Bookings, Calendar!Rebook(b)
    PROVE  CalendarInv'
  <1>1. ASSUME NEW r \in Rooms, NEW n \in Days, NEW x \in NightBook'[r][n], NEW y \in NightBook'[r][n]
        PROVE  x = y
    <2>1. CASE b \in NightBook'[r][n]
      <3>1. NightBook'[r][n] \ {b} = {}
        BY <2>1 DEF Calendar!Rebook
      <3>2. QED
        BY <3>1
    <2>2. CASE b \notin NightBook'[r][n]
      <3>1. x \in NightBook[r][n] /\ y \in NightBook[r][n]
        BY <2>2 DEF Calendar!Rebook
      <3>2. QED
        BY <3>1 DEF CalendarInv, Calendar!OneHolder
    <2>3. QED
      BY <2>1, <2>2
  <1>2. Calendar!TypeOK'
    BY DEF Calendar!Rebook, Calendar!TypeOK
  <1>3. QED
    BY <1>1, <1>2 DEF CalendarInv, Calendar!OneHolder

\* An allocation run gives free nights to one booking each.
LEMMA AllocateKeepsOneHolder ==
    ASSUME CalendarInv, Calendar!Allocate
    PROVE  CalendarInv'
  <1>1. ASSUME NEW r \in Rooms, NEW n \in Days, NEW x \in NightBook'[r][n], NEW y \in NightBook'[r][n]
        PROVE  x = y
    <2>1. CASE NightBook'[r][n] = NightBook[r][n]
      BY <2>1 DEF CalendarInv, Calendar!OneHolder
    <2>2. CASE \E b \in Bookings : NightBook'[r][n] = {b}
      BY <2>2
    <2>3. QED
      BY <2>1, <2>2 DEF Calendar!Allocate
  <1>2. Calendar!TypeOK'
    BY DEF Calendar!Allocate, Calendar!TypeOK
  <1>3. QED
    BY <1>1, <1>2 DEF CalendarInv, Calendar!OneHolder

\* Bookings that exchange rooms enter nights held by themselves only, and, as
\* the rooms are two, not the same ones.
LEMMA ExchangeKeepsOneHolder ==
    ASSUME CalendarInv, NEW a \in Bookings, NEW b \in Bookings, NEW q \in Rooms, NEW r \in Rooms,
           Calendar!Exchange(a, b, q, r)
    PROVE  CalendarInv'
  <1> DEFINE held(x, s) == {n \in Days : x \in NightBook[s][n]}
             after(s, n) == (NightBook[s][n] \ {a, b})
                               \cup (IF s = r /\ n \in held(a, q) THEN {a} ELSE {})
                               \cup (IF s = q /\ n \in held(b, r) THEN {b} ELSE {})
  <1>1. /\ q # r
        /\ \A n \in held(a, q) : NightBook[r][n] \subseteq {a, b}
        /\ \A n \in held(b, r) : NightBook[q][n] \subseteq {a, b}
        /\ NightBook' = [s \in Rooms |-> [n \in Days |-> after(s, n)]]
    BY DEF Calendar!Exchange
  <1>2. \A s \in Rooms, n \in Days : NightBook[s][n] \subseteq Bookings
    BY DEF CalendarInv, Calendar!TypeOK
  <1>3. \A s \in Rooms, n \in Days : after(s, n) \subseteq Bookings
    BY <1>2
  <1>4. Calendar!TypeOK'
    <2> HIDE DEF after
    <2>1. QED
      BY <1>1, <1>3 DEF Calendar!TypeOK
  <1>5. ASSUME NEW s \in Rooms, NEW n \in Days, NEW x \in after(s, n), NEW y \in after(s, n)
        PROVE  x = y
    <2>1. CASE s = r /\ n \in held(a, q)
      <3>1. after(s, n) = {a}
        BY <1>1, <2>1
      <3>2. QED
        BY <3>1
    <2>2. CASE s = q /\ n \in held(b, r)
      <3>1. after(s, n) = {b}
        BY <1>1, <2>2
      <3>2. QED
        BY <3>1
    <2>3. CASE ~(s = r /\ n \in held(a, q)) /\ ~(s = q /\ n \in held(b, r))
      <3>1. x \in NightBook[s][n] /\ y \in NightBook[s][n]
        BY <2>3
      <3>2. QED
        BY <3>1 DEF CalendarInv, Calendar!OneHolder
    <2>4. QED
      BY <2>1, <2>2, <2>3
  <1>6. \A s \in Rooms, n \in Days : NightBook'[s][n] = after(s, n)
    BY <1>1
  <1> HIDE DEF after
  <1>7. QED
    BY <1>4, <1>5, <1>6 DEF CalendarInv, Calendar!OneHolder

\* Whatever sequence of releases, claims, allocation runs and exchanges: no
\* night of a room is promised to two bookings.
THEOREM OneHolderAlways == Calendar!Spec => []Calendar!OneHolder
  <1>1. Calendar!Init => CalendarInv
    BY DEF Calendar!Init, CalendarInv, Calendar!TypeOK, Calendar!OneHolder
  <1>2. CalendarInv /\ [Calendar!Next]_NightBook => CalendarInv'
    <2> SUFFICES ASSUME CalendarInv, [Calendar!Next]_NightBook PROVE CalendarInv'
      OBVIOUS
    <2>1. CASE Calendar!Release
      BY <2>1, ReleaseKeepsOneHolder
    <2>2. ASSUME NEW b \in Bookings, Calendar!Rebook(b) PROVE CalendarInv'
      BY <2>2, RebookKeepsOneHolder
    <2>3. CASE Calendar!Allocate
      BY <2>3, AllocateKeepsOneHolder
    <2>4. ASSUME NEW a \in Bookings, NEW b \in Bookings, NEW q \in Rooms, NEW r \in Rooms,
                 Calendar!Exchange(a, b, q, r)
          PROVE  CalendarInv'
      BY <2>4, ExchangeKeepsOneHolder
    <2>5. CASE UNCHANGED NightBook
      BY <2>5 DEF CalendarInv, Calendar!TypeOK, Calendar!OneHolder
    <2>6. QED
      BY <2>1, <2>2, <2>3, <2>4, <2>5 DEF Calendar!Next
  <1>3. CalendarInv => Calendar!OneHolder
    BY DEF CalendarInv
  <1>4. QED
    BY <1>1, <1>2, <1>3, PTL DEF Calendar!Spec

=============================================================================
