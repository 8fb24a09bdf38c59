------------------------ MODULE ReservationRowsProofs ------------------------
(***************************************************************************)
(* What the requests of Reservations leave in a row and how a row may      *)
(* change, for any number of bookings and rooms and any grids.             *)
(*                                                                         *)
(* The argument: every handler's plan is FAIR, that is, each row it writes *)
(* is a good one, its status moves along the map, and a pinned booking     *)
(* that changes room is the only row of the plan.  A transaction that runs *)
(* a fair plan is a fair step, and so is every step of the world outside.  *)
(***************************************************************************)
EXTENDS ReservationsProofs, DeskBoards, FiniteSetTheorems

USE CountsAssumption, HorizonAssumption, TypeOfAssumption, NullAssumption
    DEF Bookings, Rooms, Days

\* The dates are in order, and the total was computed over them.
GoodDates(row) ==
    row.status # "ABSENT" => row.ci < row.co /\ row.nights = row.co - row.ci

\* Guests and pinned bookings have a room, of the type they are sold as.
GoodRoom(row) ==
    /\ row.status \in {"CHECKED_IN", "CHECKED_OUT"} => row.room # Null
    /\ row.locked => row.room # Null
    /\ row.room # Null => TypeOf[row.room] = row.type

Good(row) == GoodDates(row) /\ GoodRoom(row)

\* The status moves along the transition map, or stays.
Follows(old, row) ==
    old.status \notin {row.status, "ABSENT"} => canTransition(old.status, row.status)

Fair(p) ==
    \A b \in DOMAIN p.rows :
        /\ Good(p.rows[b])
        /\ Follows(resv[b], p.rows[b])
        /\ resv[b].locked /\ p.rows[b].room # resv[b].room => DOMAIN p.rows \subseteq {b}

FairStep ==
    \A b \in Bookings :
        /\ Good(resv'[b])
        /\ Follows(resv[b], resv'[b])
        /\ resv[b].locked /\ resv'[b].room # resv[b].room
             => \A a \in Bookings \ {b} : resv'[a] = resv[a]

AllGood == \A b \in Bookings : Good(resv[b])

\* The invariant of this module; NoDoubleBooking plays no part in it.
RowsInv == TypeOK /\ AllGood

-----------------------------------------------------------------------------
(* Running a plan *)

\* A transaction that runs a fair plan is a fair step.
LEMMA ExecuteFair ==
    ASSUME NEW p, RowsInv, Fair(p), Execute(p)
    PROVE  FairStep
  <1>1. \A b \in Bookings : resv'[b] = IF b \in DOMAIN p.rows THEN p.rows[b] ELSE resv[b]
    BY DEF Execute
  <1>2. ASSUME NEW b \in Bookings
        PROVE  /\ Good(resv'[b])
               /\ Follows(resv[b], resv'[b])
               /\ resv[b].locked /\ resv'[b].room # resv[b].room
                    => \A a \in Bookings \ {b} : resv'[a] = resv[a]
    <2>1. CASE b \in DOMAIN p.rows
      <3>1. /\ Good(p.rows[b])
            /\ Follows(resv[b], p.rows[b])
            /\ resv[b].locked /\ p.rows[b].room # resv[b].room => DOMAIN p.rows \subseteq {b}
        BY <2>1 DEF Fair
      <3>2. resv'[b] = p.rows[b]
        BY <1>1, <2>1
      <3>3. DOMAIN p.rows \subseteq {b} => \A a \in Bookings \ {b} : resv'[a] = resv[a]
        BY <1>1
      <3>4. QED
        BY <3>1, <3>2, <3>3
    <2>2. CASE b \notin DOMAIN p.rows
      <3>1. resv'[b] = resv[b]
        BY <1>1, <2>2
      <3>2. QED
        BY <3>1 DEF RowsInv, AllGood, Follows
    <2>3. QED
      BY <2>1, <2>2
  <1>3. QED
    BY <1>2 DEF FairStep

\* When the plan of a handler that writes one row is fair.
LEMMA PlanForFair ==
    ASSUME NEW id \in Bookings, NEW probes, NEW columns, NEW row, NEW rooms, NEW says,
           Good(row), Follows(resv[id], row)
    PROVE  Fair(PlanFor(id, probes, columns, row, rooms, says))
  BY DEF Fair, PlanFor, Plan

\* A step that leaves the reservations table alone is a fair one.
LEMMA UntouchedFair ==
    ASSUME RowsInv, UNCHANGED resv
    PROVE  FairStep
  BY DEF FairStep, RowsInv, AllGood, Follows

-----------------------------------------------------------------------------
(* The plans are fair *)

\* The length of a stay whose dates are in order.
LEMMA NightsOfStay ==
    ASSUME NEW ci \in Days, NEW co \in Days, ci < co
    PROVE  nightsBetween(ci, co) = co - ci
  BY DEF nightsBetween

\* A good row is read under a legal id.
LEMMA StoredGood ==
    ASSUME RowsInv, NEW id \in Bookings
    PROVE  /\ Good(resv[id]) /\ resv[id] \in Rows
           /\ resv[id].ci \in Days /\ resv[id].co \in Days
           /\ resv[id].room \in Rooms \cup {Null} /\ resv[id].type \in Types \cup {Null}
  BY StoredRow DEF RowsInv, AllGood

\* A row that differs in its status only, and does not come to be in house or departed,
\* or has a room.
LEMMA RestatusedGood ==
    ASSUME NEW row \in Rows, Good(row), row.status # "ABSENT", NEW s \in Statuses,
           s \in {"CHECKED_IN", "CHECKED_OUT"} => row.room # Null
    PROVE  Good([row EXCEPT !.status = s]) /\ [row EXCEPT !.status = s].status = s
  BY DEF Good, GoodDates, GoodRoom, Rows

\* create(): the total is that of the dates, the room of the type.
LEMMA CreateFair ==
    ASSUME RowsInv, NEW id \in Bookings, resv[id].status = "ABSENT",
           NEW t \in Types, NEW r \in Rooms \cup {Null},
           NEW ci \in Days, NEW co \in Days, NEW status \in {"PENDING", "CONFIRMED"},
           NEW hold \in HoldKinds, CanCreate(id, t, r, ci, co, status, hold)
    PROVE  Fair(CreatePlan(id, t, r, ci, co, status, hold))
  <1> DEFINE row == [status |-> status, type |-> t, room |-> r, ci |-> ci, co |-> co,
                     nights |-> nightsBetween(ci, co), locked |-> FALSE, hold |-> hold]
  <1>1. Good(row)
    BY NightsOfStay DEF CanCreate, Good, GoodDates, GoodRoom
  <1>2. Follows(resv[id], row)
    BY DEF Follows
  <1>3. QED
    BY <1>1, <1>2, PlanForFair DEF CreatePlan

\* update(): the merged dates are in order, and the total is derived from them.
LEMMA UpdateFair ==
    ASSUME RowsInv, NEW id \in Bookings, NEW newCi \in Days \cup {Null},
           NEW newCo \in Days \cup {Null}, NEW reprice \in BOOLEAN,
           CanUpdate(id, newCi, newCo, reprice)
    PROVE  Fair(UpdatePlan(id, newCi, newCo, reprice))
  <1> DEFINE before == resv[id]
             ci == OrElse(newCi, before.ci)
             co == OrElse(newCo, before.co)
             row == [before EXCEPT !.ci = ci, !.co = co, !.nights = nightsBetween(ci, co)]
  <1>1. ci \in Days /\ co \in Days
    BY StoredGood DEF OrElse
  <1>2. ci < co
    BY StoredGood DEF CanUpdate, OrElse, Good, GoodDates
  <1>3. nightsBetween(ci, co) = co - ci
    BY <1>1, <1>2, NightsOfStay
  <1>4. /\ row.status = before.status /\ row.ci = ci /\ row.co = co
        /\ row.nights = co - ci /\ row.locked = before.locked
        /\ row.room = before.room /\ row.type = before.type
    BY <1>3, StoredGood DEF Rows
  <1>5. Good(row) /\ Follows(before, row)
    <2> HIDE DEF row, ci, co
    <2>1. QED
      BY <1>2, <1>4, StoredGood DEF Good, GoodDates, GoodRoom, Follows
  <1>6. QED
    BY <1>5, PlanForFair DEF UpdatePlan

\* extendStay(): the departure only moves out, and the total with it.
LEMMA ExtendFair ==
    ASSUME RowsInv, NEW id \in Bookings, NEW newCo \in Days, CanExtend(id, newCo)
    PROVE  Fair(ExtendPlan(id, newCo))
  <1> DEFINE before == resv[id]
             row == [before EXCEPT !.co = newCo, !.nights = nightsBetween(before.ci, newCo)]
  <1>1. before.ci < newCo /\ nightsBetween(before.ci, newCo) = newCo - before.ci
    BY StoredGood, NightsOfStay DEF CanExtend
  <1>2. /\ row.status = before.status /\ row.ci = before.ci /\ row.co = newCo
        /\ row.nights = newCo - before.ci /\ row.locked = before.locked
        /\ row.room = before.room /\ row.type = before.type
    BY <1>1, StoredGood DEF Rows
  <1>3. Good(row) /\ Follows(before, row)
    <2> HIDE DEF row
    <2>1. QED
      BY <1>1, <1>2, StoredGood DEF Good, GoodDates, GoodRoom, Follows
  <1>4. QED
    BY <1>3, PlanForFair DEF ExtendPlan

\* moveRoom(): the type follows the room.
LEMMA MoveFair ==
    ASSUME RowsInv, NEW id \in Bookings, NEW r \in Rooms, CanMove(id, r)
    PROVE  Fair(MovePlan(id, r))
  <1> DEFINE before == resv[id]
             row == [before EXCEPT !.room = r, !.type = TypeOf[r],
                                   !.nights = nightsBetween(before.ci, before.co)]
  <1>1. before.ci < before.co /\ nightsBetween(before.ci, before.co) = before.co - before.ci
    BY StoredGood, NightsOfStay DEF CanMove, Good, GoodDates
  <1>2. /\ row.status = before.status /\ row.ci = before.ci /\ row.co = before.co
        /\ row.nights = before.co - before.ci /\ row.locked = before.locked
        /\ row.room = r /\ row.type = TypeOf[r]
    BY <1>1, StoredGood DEF Rows
  <1>3. Good(row) /\ Follows(before, row)
    <2> HIDE DEF row
    <2>1. QED
      BY <1>1, <1>2, StoredGood DEF Good, GoodDates, GoodRoom, Follows
  <1>4. QED
    BY <1>3, PlanForFair DEF MovePlan

\* confirm() follows the map.
LEMMA ConfirmFair ==
    ASSUME RowsInv, NEW id \in Bookings, CanConfirm(id)
    PROVE  Fair(ConfirmPlan(id))
  <1> DEFINE row == [resv[id] EXCEPT !.status = "CONFIRMED"]
  <1>1. resv[id].status # "ABSENT" /\ canTransition(resv[id].status, "CONFIRMED")
    BY DEF CanConfirm, canTransition, Transitions
  <1>2. Good(row) /\ row.status = "CONFIRMED"
    BY <1>1, StoredGood, RestatusedGood DEF Statuses
  <1>3. Follows(resv[id], row)
    BY <1>1, <1>2 DEF Follows
  <1>4. QED
    BY <1>2, <1>3, PlanForFair DEF ConfirmPlan

\* assignRoom(): a room of the type booked.
LEMMA AssignFair ==
    ASSUME RowsInv, NEW id \in Bookings, NEW r \in Rooms, CanAssign(id, r)
    PROVE  Fair(AssignPlan(id, r))
  <1> DEFINE row == [resv[id] EXCEPT !.room = r]
  <1>1. Good(row) /\ Follows(resv[id], row)
    BY StoredGood DEF CanAssign, Good, GoodDates, GoodRoom, Follows, Rows
  <1>2. QED
    BY <1>1, PlanForFair DEF AssignPlan

\* checkIn(): the guest goes into a room, of the type booked.
LEMMA CheckInFair ==
    ASSUME RowsInv, NEW id \in Bookings, NEW named \in Rooms \cup {Null},
           CanCheckIn(id, named)
    PROVE  Fair(CheckInPlan(id, named))
  <1> DEFINE r == OrElse(named, resv[id].room)
             row == [resv[id] EXCEPT !.status = "CHECKED_IN", !.room = r]
  <1>1. /\ canTransition(resv[id].status, "CHECKED_IN") /\ resv[id].status # "ABSENT"
        /\ r # Null /\ TypeOf[r] = resv[id].type
    BY DEF CanCheckIn, canTransition, Transitions
  <1>2. /\ row.status = "CHECKED_IN" /\ row.room = r /\ row.type = resv[id].type
        /\ row.ci = resv[id].ci /\ row.co = resv[id].co /\ row.nights = resv[id].nights
    BY StoredGood DEF Rows
  <1>3. Good(row) /\ Follows(resv[id], row)
    <2> HIDE DEF row, r
    <2>1. QED
      BY <1>1, <1>2, StoredGood DEF Good, GoodDates, GoodRoom, Follows
  <1>4. QED
    BY <1>3, PlanForFair DEF CheckInPlan

\* checkOut(): the booking of a guest who leaves keeps the room it had.
LEMMA CheckOutFair ==
    ASSUME RowsInv, NEW id \in Bookings, CanCheckOut(id)
    PROVE  Fair(CheckOutPlan(id))
  <1> DEFINE row == [resv[id] EXCEPT !.status = "CHECKED_OUT"]
  <1>1. /\ resv[id].status = "CHECKED_IN"
        /\ canTransition(resv[id].status, "CHECKED_OUT")
    <2>1. resv[id].status \in Statuses /\ canTransition(resv[id].status, "CHECKED_OUT")
      BY StoredGood DEF CanCheckOut, Rows
    <2>2. QED
      BY <2>1 DEF canTransition, Transitions, Statuses
  <1>2. Good(row) /\ row.status = "CHECKED_OUT"
    BY <1>1, StoredGood, RestatusedGood DEF Statuses, Good, GoodRoom
  <1>3. Follows(resv[id], row)
    BY <1>1, <1>2 DEF Follows
  <1>4. QED
    BY <1>2, <1>3, PlanForFair DEF CheckOutPlan

\* cancel() and noShow() follow the map, and nobody has been in the room.
LEMMA EndedFair ==
    ASSUME RowsInv, NEW id \in Bookings, NEW s \in {"CANCELLED", "NO_SHOW"},
           canTransition(resv[id].status, s)
    PROVE  LET row == [resv[id] EXCEPT !.status = s]
           IN  Good(row) /\ Follows(resv[id], row)
  <1> DEFINE row == [resv[id] EXCEPT !.status = s]
  <1>1. resv[id].status # "ABSENT"
    <2>1. Transitions["ABSENT"] = {}
      BY DEF Transitions
    <2>2. QED
      BY <2>1 DEF canTransition
  <1>2. Good(row) /\ row.status = s
    <2>1. s \in Statuses /\ s \notin {"CHECKED_IN", "CHECKED_OUT"}
      BY DEF Statuses
    <2>2. Good(resv[id]) /\ resv[id] \in Rows
      BY StoredGood
    <2>3. QED
      BY <1>1, <2>1, <2>2, RestatusedGood
  <1>3. QED
    BY <1>2 DEF Follows

LEMMA CancelFair ==
    ASSUME RowsInv, NEW id \in Bookings, CanCancel(id)
    PROVE  Fair(CancelPlan(id))
  BY EndedFair, PlanForFair DEF CanCancel, CancelPlan

LEMMA NoShowFair ==
    ASSUME RowsInv, NEW id \in Bookings, CanNoShow(id)
    PROVE  Fair(NoShowPlan(id))
  BY EndedFair, PlanForFair DEF CanNoShow, NoShowPlan

\* lockRoom() pins bookings that have a room only.
LEMMA LockFair ==
    ASSUME RowsInv, NEW id \in Bookings, NEW locked \in BOOLEAN, CanLock(id, locked)
    PROVE  Fair(LockPlan(id, locked))
  <1> DEFINE row == [resv[id] EXCEPT !.locked = locked]
  <1>1. Good(row) /\ Follows(resv[id], row)
    BY StoredGood DEF CanLock, Good, GoodDates, GoodRoom, Follows, Rows
  <1>2. QED
    BY <1>1, PlanForFair DEF LockPlan

\* swapRooms() writes two rows, of one type, neither of them pinned.
LEMMA SwapFair ==
    ASSUME RowsInv, NEW a \in Bookings, NEW b \in Bookings, CanSwap(a, b)
    PROVE  Fair(SwapPlan(a, b))
  <1> DEFINE p == SwapPlan(a, b)
             room(x) == IF x = a THEN resv[b].room ELSE resv[a].room
  <1>1. DOMAIN p.rows = {a, b} /\ \A x \in {a, b} : p.rows[x] = [resv[x] EXCEPT !.room = room(x)]
    BY DEF SwapPlan, Plan
  <1>2. \A x \in {a, b} :
           /\ p.rows[x].status = resv[x].status /\ p.rows[x].room = room(x)
           /\ p.rows[x].type = resv[x].type /\ p.rows[x].locked = resv[x].locked
           /\ p.rows[x].ci = resv[x].ci /\ p.rows[x].co = resv[x].co
           /\ p.rows[x].nights = resv[x].nights
    <2> HIDE DEF p, room
    <2>1. SUFFICES ASSUME NEW x \in {a, b}
                   PROVE  /\ p.rows[x].status = resv[x].status /\ p.rows[x].room = room(x)
                          /\ p.rows[x].type = resv[x].type /\ p.rows[x].locked = resv[x].locked
                          /\ p.rows[x].ci = resv[x].ci /\ p.rows[x].co = resv[x].co
                          /\ p.rows[x].nights = resv[x].nights
      OBVIOUS
    <2>2. resv[x] \in Rows /\ p.rows[x] = [resv[x] EXCEPT !.room = room(x)]
      BY <1>1, StoredGood
    <2>3. QED
      BY <2>2 DEF Rows
  <1>3. \A x \in {a, b} :
           room(x) # Null /\ TypeOf[room(x)] = resv[x].type /\ ~resv[x].locked
    BY StoredGood DEF CanSwap, Good, GoodRoom
  <1> HIDE DEF p, room
  <1>4. \A x \in {a, b} : Good(p.rows[x]) /\ Follows(resv[x], p.rows[x])
    BY <1>2, <1>3, StoredGood DEF Good, GoodDates, GoodRoom, Follows
  <1>5. Fair(p)
    BY <1>1, <1>3, <1>4 DEF Fair
  <1>6. QED
    BY <1>5 DEF p

-----------------------------------------------------------------------------
(* The steps *)

\* A handler of one booking is a fair step.
LEMMA RequestFair ==
    ASSUME RowsInv, NEW id \in Bookings, Request(id)
    PROVE  FairStep
  <1>1. ASSUME NEW p, Fair(p), Execute(p)
        PROVE  FairStep
    BY <1>1, ExecuteFair
  <1>2. CASE Create(id)
    <2>1. PICK t \in Types, r \in Rooms \cup {Null}, ci \in Days, co \in Days,
               status \in {"PENDING", "CONFIRMED"}, hold \in HoldKinds :
               /\ CanCreate(id, t, r, ci, co, status, hold)
               /\ Execute(CreatePlan(id, t, r, ci, co, status, hold))
      BY <1>2 DEF Create, Insert
    <2>2. resv[id].status = "ABSENT"
      BY <1>2 DEF Create, Insert
    <2>3. QED
      BY <1>1, <2>1, <2>2, CreateFair
  <1>3. CASE Update(id)
    <2>1. PICK newCi \in Days \cup {Null}, newCo \in Days \cup {Null},
               reprice \in BOOLEAN :
               /\ CanUpdate(id, newCi, newCo, reprice)
               /\ Execute(UpdatePlan(id, newCi, newCo, reprice))
      BY <1>3 DEF Update
    <2>2. QED
      BY <1>1, <2>1, UpdateFair
  <1>4. CASE ExtendStay(id)
    BY <1>1, <1>4, ExtendFair DEF ExtendStay
  <1>5. CASE MoveRoom(id)
    BY <1>1, <1>5, MoveFair DEF MoveRoom
  <1>6. CASE Confirm(id)
    BY <1>1, <1>6, ConfirmFair DEF Confirm
  <1>7. CASE AssignRoom(id)
    BY <1>1, <1>7, AssignFair DEF AssignRoom
  <1>8. CASE CheckIn(id)
    BY <1>1, <1>8, CheckInFair DEF CheckIn
  <1>9. CASE CheckOut(id)
    BY <1>1, <1>9, CheckOutFair DEF CheckOut
  <1>10. CASE Cancel(id)
    BY <1>1, <1>10, CancelFair DEF Cancel
  <1>11. CASE NoShow(id)
    BY <1>1, <1>11, NoShowFair DEF NoShow
  <1>12. CASE LockRoom(id)
    BY <1>1, <1>12, LockFair DEF LockRoom
  <1>13. CASE \E other \in Bookings : SwapRooms(id, other)
    BY <1>1, <1>13, SwapFair DEF SwapRooms
  <1>14. QED
    BY <1>2, <1>3, <1>4, <1>5, <1>6, <1>7, <1>8, <1>9, <1>10, <1>11, <1>12, <1>13
       DEF Request

\* autoAllocate() gives rooms to bookings that have none, and so to no pinned one.
LEMMA AutoAllocateFair ==
    ASSUME RowsInv, AutoAllocate
    PROVE  FairStep
  <1>1. PICK from \in Days, to \in Days :
           \E door \in [Unplaced(from, to) -> Rooms \cup {Null}] :
              /\ \A b \in Unplaced(from, to) :
                    TakesFirst(door, b, OpenDoors(b, Unplaced(from, to), door))
              /\ resv' = [b \in Bookings |->
                             IF b \in Unplaced(from, to)
                             THEN [resv[b] EXCEPT !.room = door[b]] ELSE resv[b]]
    BY DEF AutoAllocate
  <1> DEFINE waiting == Unplaced(from, to)
  <1>2. PICK door \in [waiting -> Rooms \cup {Null}] :
              /\ \A b \in waiting : TakesFirst(door, b, OpenDoors(b, waiting, door))
              /\ resv' = [b \in Bookings |->
                             IF b \in waiting
                             THEN [resv[b] EXCEPT !.room = door[b]] ELSE resv[b]]
    BY <1>1
  <1>3. ASSUME NEW b \in Bookings
        PROVE  /\ Good(resv'[b])
               /\ Follows(resv[b], resv'[b])
               /\ resv[b].locked => resv'[b].room = resv[b].room
    <2>1. CASE b \notin waiting
      <3>1. resv'[b] = resv[b]
        BY <1>2, <2>1
      <3>2. QED
        BY <3>1, StoredGood DEF Follows
    <2>2. CASE b \in waiting
      <3>1. resv[b].status = "CONFIRMED" /\ resv[b].room = Null
        BY <2>2 DEF Unplaced
      <3>2. door[b] # Null => TypeOf[door[b]] = resv[b].type
        BY <1>2, <2>2 DEF TakesFirst, OpenDoors, Offerable
      <3>3. /\ resv'[b].status = "CONFIRMED" /\ resv'[b].room = door[b]
            /\ resv'[b].type = resv[b].type /\ resv'[b].locked = resv[b].locked
            /\ resv'[b].ci = resv[b].ci /\ resv'[b].co = resv[b].co
            /\ resv'[b].nights = resv[b].nights
        BY <1>2, <2>2, <3>1, StoredGood DEF Rows
      <3>4. QED
        BY <3>1, <3>2, <3>3, StoredGood DEF Good, GoodDates, GoodRoom, Follows
    <2>3. QED
      BY <2>1, <2>2
  <1>4. QED
    BY <1>3 DEF FairStep

\* The two sweeps follow the map.
LEMMA SweepFair ==
    ASSUME RowsInv, NEW s \in {"CANCELLED", "NO_SHOW"}, NEW swept,
           \A b \in swept : canTransition(resv[b].status, s), SweepTo(s, swept)
    PROVE  FairStep
  <1>1. \A b \in Bookings :
           resv'[b] = IF b \in swept THEN [resv[b] EXCEPT !.status = s] ELSE resv[b]
    BY DEF SweepTo
  <1>2. ASSUME NEW b \in Bookings
        PROVE  Good(resv'[b]) /\ Follows(resv[b], resv'[b]) /\ resv'[b].room = resv[b].room
    <2>1. CASE b \in swept
      <3>1. resv'[b] = [resv[b] EXCEPT !.status = s] /\ canTransition(resv[b].status, s)
        BY <1>1, <2>1
      <3> DEFINE row == [resv[b] EXCEPT !.status = s]
      <3>2. Good(row) /\ Follows(resv[b], row)
        BY <3>1, EndedFair, Zenon
      <3>3. row.room = resv[b].room
        BY StoredGood DEF Rows
      <3> HIDE DEF row
      <3>4. resv'[b] = row
        BY <3>1 DEF row
      <3>5. QED
        BY <3>2, <3>3, <3>4
    <2>2. CASE b \notin swept
      BY <1>1, <2>2, StoredGood DEF Follows
    <2>3. QED
      BY <2>1, <2>2
  <1>3. QED
    BY <1>2 DEF FairStep

\* Every step is a fair one.
LEMMA NextFair ==
    ASSUME RowsInv, [Next]_vars
    PROVE  FairStep
  <1>1. ASSUME NEW id \in Bookings, Request(id) PROVE FairStep
    BY <1>1, RequestFair
  <1>2. CASE AutoAllocate
    BY <1>2, AutoAllocateFair
  <1>3. CASE AutoNoShow
    BY <1>3, SweepFair DEF AutoNoShow, Missed, canTransition, Transitions
  <1>4. CASE HoldExpiry
    BY <1>4, SweepFair DEF HoldExpiry, Lapsed, canTransition, Transitions
  <1>5. ASSUME NEW id \in Bookings, HoldRunsOut(id) PROVE FairStep
    <2>1. ASSUME NEW b \in Bookings
          PROVE  Good(resv'[b]) /\ Follows(resv[b], resv'[b]) /\ resv'[b].room = resv[b].room
      <3>0. resv' = [resv EXCEPT ![id].hold = "passed"] /\ resv \in [Bookings -> Rows]
        BY <1>5 DEF HoldRunsOut, RowsInv, TypeOK
      <3>1. resv'[b] \in {resv[b], [resv[b] EXCEPT !.hold = "passed"]}
        BY <3>0, <1>5
      <3>2. QED
        BY <3>1, StoredGood DEF Good, GoodDates, GoodRoom, Follows, Rows
    <2>2. QED
      BY <2>1 DEF FairStep
  <1>6. CASE UNCHANGED resv
    BY <1>6, UntouchedFair
  <1>7. QED
    BY <1>1, <1>2, <1>3, <1>4, <1>5, <1>6
       DEF Next, DayToDay, SetRoomStatus, SetGrid, NextDay, vars

\* RowsInv holds of every state: TypeOK is proved in ReservationsProofs.
LEMMA RowsInvariant == Spec => []RowsInv
  <1>1. Init => AllGood
    BY DEF Init, AllGood, NoRow, Good, GoodDates, GoodRoom
  <1>2. TypeOK /\ AllGood /\ [Next]_vars => AllGood'
    BY NextFair DEF FairStep, RowsInv, AllGood
  <1>3. TypeOK /\ AllGood => RowsInv
    BY DEF RowsInv
  <1>4. QED
    BY TypeCorrect, <1>1, <1>2, <1>3, PTL DEF Spec

-----------------------------------------------------------------------------
(* The theorems *)

\* A total always agrees with its dates, and the dates are in order, whichever of
\* the two a request moves (update, extendStay, moveRoom).
THEOREM TotalsAgree == Spec => []TotalAgreesWithDates
  <1>1. RowsInv => TotalAgreesWithDates
    BY DEF RowsInv, AllGood, Good, GoodDates, TotalAgreesWithDates
  <1>2. QED
    BY RowsInvariant, <1>1, PTL

\* Guests and pinned bookings always have a room, of the type they are counted as.
THEOREM RoomsAreKnown == Spec => []RoomsKnown
  <1>1. RowsInv => RoomsKnown
    BY DEF RowsInv, AllGood, Good, GoodRoom, RoomsKnown
  <1>2. QED
    BY RowsInvariant, <1>1, PTL

\* No step of a handler, a worker or anybody else takes a status off the map: what
\* has ended stays ended.
THEOREM StatusesFollowMap == Spec => StatusFollowsMap
  <1>1. RowsInv /\ [Next]_vars
          => [\A b \in Bookings :
                LET from == resv[b].status
                    to == resv'[b].status
                IN  from \notin {to, "ABSENT"} => canTransition(from, to)]_vars
    BY NextFair DEF FairStep, Follows
  <1>2. QED
    BY RowsInvariant, <1>1, PTL DEF Spec, StatusFollowsMap

\* A pinned booking changes room only in a request of its own.  That an allocation
\* run leaves it alone rests on RoomsKnown: what is pinned has a room.
THEOREM PinnedRoomsKept == Spec => PinnedRoomKept
  <1>1. RowsInv /\ [Next]_vars
          => [\A b \in Bookings :
                (resv[b].locked /\ resv'[b].room # resv[b].room)
                => \A a \in Bookings \ {b} : resv'[a] = resv[a]]_vars
    BY NextFair DEF FairStep
  <1>2. QED
    BY RowsInvariant, <1>1, PTL DEF Spec, PinnedRoomKept

-----------------------------------------------------------------------------
(* Capacity *)

\* No row of the plan comes to be committed.
Quiet(p) ==
    \A b \in DOMAIN p.rows : p.rows[b].status \in Occupying => resv[b].status \in Occupying

\* A transaction that runs such a plan commits nobody.
LEMMA QuietFits ==
    ASSUME NEW p, Quiet(p), Execute(p)
    PROVE  \A b \in Bookings : CommitFits(b)
  BY DEF Quiet, Execute, CommitFits

\* Rooms and bookings can be counted.
LEMMA Countable ==
    /\ \A S \in SUBSET Bookings : IsFiniteSet(S) /\ Cardinality(S) \in Nat
    /\ \A t : Sellable(t) \in Nat
  <1>1. IsFiniteSet(Bookings) /\ IsFiniteSet(Rooms)
    BY FS_Interval
  <1>2. ASSUME NEW S \in SUBSET Bookings
        PROVE  IsFiniteSet(S) /\ Cardinality(S) \in Nat
    BY <1>1, FS_Subset, FS_CardinalityType
  <1>3. ASSUME NEW t
        PROVE  Sellable(t) \in Nat
    <2> DEFINE S == {r \in Rooms : TypeOf[r] = t /\ roomStatus[r] # "OUT_OF_ORDER"}
    <2>1. S \in SUBSET Rooms
      OBVIOUS
    <2>2. IsFiniteSet(S)
      BY <1>1, <2>1, FS_Subset
    <2>3. QED
      BY <2>2, FS_CardinalityType DEF Sellable
  <1>4. QED
    BY <1>2, <1>3

\* The probe of the type is there, after that of the room or alone.
LEMMA TypeProbeThere ==
    ASSUME NEW row, NEW ids, NEW q
    PROVE  \E i \in DOMAIN (OwnRoomProbe(row, ids) \o <<q>>) :
               (OwnRoomProbe(row, ids) \o <<q>>)[i] = q
  <1>1. CASE row.room = Null
    <2>1. <<q>> \in Seq({q})
      OBVIOUS
    <2>2. OwnRoomProbe(row, ids) \o <<q>> = <<q>>
      BY <1>1, <2>1, ConcatEmptySeq DEF OwnRoomProbe
    <2>3. <<q>>[1] = q /\ 1 \in DOMAIN <<q>>
      OBVIOUS
    <2>4. QED
      BY <2>2, <2>3, Zenon
  <1>2. CASE row.room # Null
    <2> DEFINE x == RoomProbe(row.room, row, ids)
    <2>1. OwnRoomProbe(row, ids) = <<x>>
      BY <1>2 DEF OwnRoomProbe
    <2> HIDE DEF x
    <2>2. <<x>> \in Seq({x, q}) /\ <<q>> \in Seq({x, q})
      OBVIOUS
    <2>3. (<<x>> \o <<q>>)[2] = q /\ 2 \in DOMAIN (<<x>> \o <<q>>)
      BY <2>2, ConcatProperties, Z3
    <2>4. QED
      BY <2>1, <2>3
  <1>3. QED
    BY <1>1, <1>2

\* A transaction that commits one booking after a probe of its type leaves no night
\* of the stay oversold: the nights probed are the nights written, and the rows
\* counted are all those that hold one of them.
LEMMA ProbedCommitFits ==
    ASSUME RowsInv, NEW p, NEW id \in Bookings, NEW row \in Rows, NEW ids, NEW rules,
           DOMAIN p.rows = {id}, p.rows[id] = row, row.ci < row.co, ids \subseteq {id},
           \E i \in DOMAIN p.probes : p.probes[i] = TypeProbe(row, ids, rules),
           Execute(p)
    PROVE  \A b \in Bookings : CommitFits(b)
  <1>1. \A b \in Bookings : resv'[b] = IF b = id THEN row ELSE resv[b]
    BY DEF Execute
  <1> DEFINE q == TypeProbe(row, ids, rules)
             found == {b \in Bookings : Clashes(q, b)}
             sold(n) == {b \in found : coversDate(resv[b], n)}
  <1>2. /\ q.room = Null /\ q.type = row.type /\ q.ci = row.ci /\ q.co = row.co
        /\ q.skip = ids
    BY DEF TypeProbe
  <1>3. Passes(q, found, Sellable(row.type))
    <2>1. PICK i \in DOMAIN p.probes : p.probes[i] = q
      OBVIOUS
    <2>2. Passes(p.probes[i], {b \in Bookings : Clashes(p.probes[i], b)},
                 IF p.probes[i].room = Null THEN Sellable(p.probes[i].type) ELSE 0)
      BY Zenon DEF Execute
    <2> HIDE DEF q
    <2>3. QED
      BY <1>2, <2>1, <2>2 DEF found
  <1>4. ASSUME NEW n \in row.ci .. (row.co - 1)
        PROVE  Cardinality(SoldOn(row.type, n)') <= Sellable(row.type)
    <2>1. row.ci \in Int /\ row.co \in Int /\ n \in Int /\ row.ci <= n /\ n < row.co
      BY DEF Rows
    <2>2. n \in NightsOf(row.ci, row.co)
      BY <2>1, NightsOfStay DEF NightsOf, nightsBetween
    <2>3. Cardinality(sold(n)) < Sellable(row.type)
      BY <1>2, <1>3, <2>2 DEF Passes
    <2>4. SoldOn(row.type, n)' \subseteq sold(n) \cup {id}
      <3> SUFFICES ASSUME NEW b \in Bookings, b # id, resv'[b].status \in Occupying,
                          resv'[b].type = row.type, coversDate(resv'[b], n)
                   PROVE  b \in sold(n)
        BY DEF SoldOn, coversDate
      <3>1. resv'[b] = resv[b] /\ resv[b].ci \in Int /\ resv[b].co \in Int
        BY <1>1, StoredGood
      <3>2. overlaps(resv[b].ci, resv[b].co, q.ci, q.co)
        BY <1>2, <2>1, <3>1 DEF coversDate, overlaps
      <3>3. Clashes(q, b)
        BY <1>2, <3>1, <3>2 DEF Clashes
      <3>4. QED
        BY <3>1, <3>3
    <2>5. IsFiniteSet(sold(n)) /\ Cardinality(sold(n)) \in Nat
      BY Countable
    <2> HIDE DEF sold
    <2>6. /\ IsFiniteSet(sold(n) \cup {id})
          /\ Cardinality(sold(n) \cup {id}) <= Cardinality(sold(n)) + 1
      <3> DEFINE S == sold(n)
      <3>1. IsFiniteSet(S) /\ Cardinality(S) \in Nat
        BY <2>5
      <3> HIDE DEF S
      <3>2. IsFiniteSet(S \cup {id}) /\ Cardinality(S \cup {id}) <= Cardinality(S) + 1
        <4>1. /\ IsFiniteSet(S \cup {id})
              /\ Cardinality(S \cup {id}) = IF id \in S THEN Cardinality(S)
                                                        ELSE Cardinality(S) + 1
          BY <3>1, FS_AddElement, Zenon
        <4>2. QED
          BY <3>1, <4>1
      <3>3. QED
        BY <3>2 DEF S
    <2>7. /\ Cardinality(SoldOn(row.type, n)') <= Cardinality(sold(n) \cup {id})
          /\ Cardinality(SoldOn(row.type, n)') \in Nat
          /\ Cardinality(sold(n) \cup {id}) \in Nat
      BY <2>4, <2>6, FS_Subset, FS_CardinalityType
    <2>8. QED
      BY <2>3, <2>5, <2>6, <2>7, Countable
  <1>5. CommitFits(id)
    BY <1>1, <1>4 DEF CommitFits
  <1>6. \A b \in Bookings : b # id => CommitFits(b)
    BY <1>1 DEF CommitFits
  <1>7. QED
    BY <1>5, <1>6

\* A plan of one row that was committed before, or is not committed now, is quiet.
LEMMA PlanForQuiet ==
    ASSUME NEW id \in Bookings, NEW probes, NEW columns, NEW row, NEW rooms, NEW says,
           row.status \in Occupying => resv[id].status \in Occupying
    PROVE  Quiet(PlanFor(id, probes, columns, row, rooms, says))
  BY DEF Quiet, PlanFor, Plan

\* create() commits the bookings it inserts as CONFIRMED, past the probe.
LEMMA CreateFits ==
    ASSUME RowsInv, NEW id \in Bookings, Create(id)
    PROVE  \A b \in Bookings : CommitFits(b)
  <1>1. PICK t \in Types, r \in Rooms \cup {Null}, ci \in Days, co \in Days,
             status \in {"PENDING", "CONFIRMED"}, hold \in HoldKinds :
             /\ CanCreate(id, t, r, ci, co, status, hold)
             /\ Execute(CreatePlan(id, t, r, ci, co, status, hold))
    BY DEF Create, Insert
  <1> DEFINE p == CreatePlan(id, t, r, ci, co, status, hold)
             row == [status |-> status, type |-> t, room |-> r, ci |-> ci, co |-> co,
                     nights |-> nightsBetween(ci, co), locked |-> FALSE, hold |-> hold]
  <1>2. row \in Rows
    BY NightsNat, HoldKindsAssumption DEF Rows, Statuses
  <1>3. DOMAIN p.rows = {id} /\ p.rows[id] = row
    BY DEF CreatePlan, PlanFor, Plan
  <1>4. CASE status = "CONFIRMED"
    <2>1. p.probes = OwnRoomProbe(row, {}) \o <<TypeProbe(row, {}, grid[t])>>
      BY <1>4 DEF CreatePlan, PlanFor, Plan
    <2>2. row.ci < row.co
      BY <1>1 DEF CanCreate
    <2> HIDE DEF p, row
    <2>3. \E i \in DOMAIN p.probes : p.probes[i] = TypeProbe(row, {}, grid[t])
      BY <2>1, TypeProbeThere
    <2>4. Execute(p)
      BY <1>1 DEF p
    <2>5. QED
      BY <1>2, <1>3, <2>2, <2>3, <2>4, ProbedCommitFits
  <1>5. CASE status = "PENDING"
    <2>1. Quiet(p)
      BY <1>3, <1>5 DEF Quiet, Occupying
    <2>2. QED
      BY <1>1, <2>1, QuietFits
  <1>6. QED
    BY <1>4, <1>5

\* confirm() commits an enquiry past the probe of its type.
LEMMA ConfirmFits ==
    ASSUME RowsInv, NEW id \in Bookings, Confirm(id)
    PROVE  \A b \in Bookings : CommitFits(b)
  <1> DEFINE p == ConfirmPlan(id)
             row == [resv[id] EXCEPT !.status = "CONFIRMED"]
  <1>1. /\ DOMAIN p.rows = {id} /\ p.rows[id] = row
        /\ p.probes = OwnRoomProbe(row, {id}) \o <<TypeProbe(row, {id}, NoRules)>>
    BY DEF ConfirmPlan, PlanFor, Plan
  <1>2. row \in Rows /\ row.ci = resv[id].ci /\ row.co = resv[id].co
    BY StoredGood DEF Rows, Statuses
  <1>3. resv[id].ci < resv[id].co
    BY StoredGood DEF Confirm, CanConfirm, canTransition, Transitions, Good, GoodDates
  <1>4. Execute(p)
    BY DEF Confirm
  <1> HIDE DEF p, row
  <1>5. \E i \in DOMAIN p.probes : p.probes[i] = TypeProbe(row, {id}, NoRules)
    <2> DEFINE ids == {id}
               q == TypeProbe(row, ids, NoRules)
    <2>1. p.probes = OwnRoomProbe(row, ids) \o <<q>>
      BY <1>1
    <2> HIDE DEF ids, q
    <2>2. \E i \in DOMAIN p.probes : p.probes[i] = q
      BY <2>1, TypeProbeThere
    <2>3. QED
      BY <2>2 DEF ids, q
  <1>6. QED
    BY <1>1, <1>2, <1>3, <1>4, <1>5, ProbedCommitFits

\* The other handlers commit nobody: what they leave committed was so before.
LEMMA RequestFits ==
    ASSUME RowsInv, NEW id \in Bookings, Request(id)
    PROVE  \A b \in Bookings : CommitFits(b)
  <1>1. ASSUME NEW p, Quiet(p), Execute(p)
        PROVE  \A b \in Bookings : CommitFits(b)
    BY <1>1, QuietFits
  <1>2. CASE Create(id)
    BY <1>2, CreateFits
  <1>3. CASE Confirm(id)
    BY <1>3, ConfirmFits
  <1>4. \A newCi, newCo, reprice : Quiet(UpdatePlan(id, newCi, newCo, reprice))
    <2> SUFFICES ASSUME NEW newCi, NEW newCo, NEW reprice
                 PROVE  Quiet(UpdatePlan(id, newCi, newCo, reprice))
      OBVIOUS
    <2> DEFINE ci == OrElse(newCi, resv[id].ci)
               co == OrElse(newCo, resv[id].co)
               row == [resv[id] EXCEPT !.ci = ci, !.co = co, !.nights = nightsBetween(ci, co)]
    <2>1. row.status = resv[id].status
      BY StoredGood DEF Rows
    <2>2. PICK probes, columns :
             UpdatePlan(id, newCi, newCo, reprice)
               = PlanFor(id, probes, columns, row, NoRooms, Null)
      BY Zenon DEF UpdatePlan
    <2> HIDE DEF row
    <2>3. QED
      BY <2>1, <2>2, PlanForQuiet
  <1>5. \A newCo : Quiet(ExtendPlan(id, newCo))
    BY PlanForQuiet, StoredGood DEF ExtendPlan, Rows
  <1>6. \A r : Quiet(MovePlan(id, r))
    BY PlanForQuiet, StoredGood DEF MovePlan, Rows
  <1>7. \A r : Quiet(AssignPlan(id, r))
    BY PlanForQuiet, StoredGood DEF AssignPlan, Rows
  <1>8. \A named : CanCheckIn(id, named) => Quiet(CheckInPlan(id, named))
    <2> SUFFICES ASSUME NEW named, CanCheckIn(id, named)
                 PROVE  Quiet(CheckInPlan(id, named))
      OBVIOUS
    <2>1. resv[id].status \in Statuses /\ canTransition(resv[id].status, "CHECKED_IN")
      BY StoredGood DEF CanCheckIn, Rows
    <2>2. resv[id].status \in Occupying
      BY <2>1 DEF canTransition, Transitions, Statuses, Occupying
    <2>3. QED
      BY <2>2, PlanForQuiet DEF CheckInPlan
  <1>9. Quiet(CheckOutPlan(id)) /\ Quiet(CancelPlan(id)) /\ Quiet(NoShowPlan(id))
    BY PlanForQuiet, StoredGood DEF CheckOutPlan, CancelPlan, NoShowPlan, Rows, Occupying
  <1>10. \A locked : Quiet(LockPlan(id, locked))
    BY PlanForQuiet, StoredGood DEF LockPlan, Rows
  <1>11. \A other \in Bookings : CanSwap(id, other) => Quiet(SwapPlan(id, other))
    BY DEF CanSwap, SwapPlan, Plan, Quiet
  <1>12. QED
    BY <1>1, <1>2, <1>3, <1>4, <1>5, <1>6, <1>7, <1>8, <1>9, <1>10, <1>11
       DEF Request, Update, ExtendStay, MoveRoom, AssignRoom, CheckIn, CheckOut, Cancel,
           NoShow, LockRoom, SwapRooms

\* No step commits a booking to a night that is full.
LEMMA NextFits ==
    ASSUME RowsInv, [Next]_vars
    PROVE  \A b \in Bookings : CommitFits(b)
  <1>1. ASSUME \A b \in Bookings :
                  resv'[b].status \in Occupying => resv[b].status \in Occupying
        PROVE  \A b \in Bookings : CommitFits(b)
    BY <1>1 DEF CommitFits
  <1>2. ASSUME NEW id \in Bookings, Request(id)
        PROVE  \A b \in Bookings : CommitFits(b)
    BY <1>2, RequestFits
  <1>3. CASE AutoAllocate
    <2>1. \A b \in Bookings : resv'[b].status = resv[b].status
      BY <1>3, StoredGood DEF AutoAllocate, Rows
    <2>2. QED
      BY <1>1, <2>1
  <1>4. ASSUME NEW s \in {"CANCELLED", "NO_SHOW"}, NEW swept, SweepTo(s, swept)
        PROVE  \A b \in Bookings : CommitFits(b)
    <2>1. \A b \in Bookings : resv'[b].status \in {s, resv[b].status}
      BY <1>4, StoredGood DEF SweepTo, Rows
    <2>2. QED
      BY <1>1, <2>1 DEF Occupying
  <1>5. ASSUME NEW id \in Bookings, HoldRunsOut(id)
        PROVE  \A b \in Bookings : CommitFits(b)
    <2>1. \A b \in Bookings : resv'[b].status = resv[b].status
      BY <1>5, StoredGood DEF HoldRunsOut, RowsInv, TypeOK, Rows
    <2>2. QED
      BY <1>1, <2>1
  <1>6. CASE UNCHANGED resv
    BY <1>1, <1>6
  <1>7. QED
    BY <1>2, <1>3, <1>4, <1>5, <1>6
       DEF Next, DayToDay, AutoNoShow, HoldExpiry, SetRoomStatus, SetGrid, NextDay, vars

\* assertTypeCapacity for every hotel: as long as no two requests overlap, a booking
\* that comes to be committed leaves no night of its stay with more committed
\* bookings of its type than there are rooms to sell.
THEOREM CommitsAreWithinCapacity == Spec => CommitsWithinCapacity
  <1>1. RowsInv /\ [Next]_vars => [\A b \in Bookings : CommitFits(b)]_vars
    BY NextFits
  <1>2. QED
    BY RowsInvariant, <1>1, PTL DEF Spec, CommitsWithinCapacity

-----------------------------------------------------------------------------
(* The boards *)

\* Who is in the house has arrived.
Arrived(row) == row.status = "CHECKED_IN" => row.ci <= today

AllArrived == \A b \in Bookings : Arrived(resv[b])

\* The rows a plan writes keep to that.
Timely(p) == \A b \in DOMAIN p.rows : Arrived(p.rows[b])

LEMMA ExecuteTimely ==
    ASSUME NEW p, AllArrived, Timely(p), Execute(p)
    PROVE  AllArrived'
  <1>1. today' = today /\ \A b \in Bookings :
           resv'[b] = IF b \in DOMAIN p.rows THEN p.rows[b] ELSE resv[b]
    BY DEF Execute
  <1>2. QED
    BY <1>1 DEF AllArrived, Timely, Arrived

LEMMA PlanForTimely ==
    ASSUME NEW id \in Bookings, NEW probes, NEW columns, NEW row, NEW rooms, NEW says,
           Arrived(row)
    PROVE  Timely(PlanFor(id, probes, columns, row, rooms, says))
  BY DEF Timely, PlanFor, Plan

\* A handler lets a guest into the house on a day of the stay, and no handler moves
\* the arrival of who is in it: update() moves dates only before that.
LEMMA RequestTimely ==
    ASSUME RowsInv, AllArrived, NEW id \in Bookings, Request(id)
    PROVE  AllArrived'
  <1> DEFINE old == resv[id]
  <1>1. ASSUME NEW p, Timely(p), Execute(p)
        PROVE  AllArrived'
    BY <1>1, ExecuteTimely
  <1>2. Arrived(old) /\ old \in Rows
    BY StoredGood DEF AllArrived
  <1>3. CASE Create(id)
    <2>1. PICK t \in Types, r \in Rooms \cup {Null}, ci \in Days, co \in Days,
               status \in {"PENDING", "CONFIRMED"}, hold \in HoldKinds :
               Execute(CreatePlan(id, t, r, ci, co, status, hold))
      BY <1>3 DEF Create, Insert
    <2>2. Timely(CreatePlan(id, t, r, ci, co, status, hold))
      BY PlanForTimely DEF CreatePlan, Arrived
    <2>3. QED
      BY <1>1, <2>1, <2>2
  <1>4. CASE Update(id)
    <2>1. PICK newCi \in Days \cup {Null}, newCo \in Days \cup {Null},
               reprice \in BOOLEAN :
               /\ CanUpdate(id, newCi, newCo, reprice)
               /\ Execute(UpdatePlan(id, newCi, newCo, reprice))
      BY <1>4 DEF Update
    <2> DEFINE ci == OrElse(newCi, old.ci)
               co == OrElse(newCo, old.co)
               row == [old EXCEPT !.ci = ci, !.co = co, !.nights = nightsBetween(ci, co)]
    <2>2. row.status = old.status /\ row.ci = ci
      BY <1>2 DEF Rows
    <2>3. old.status = "CHECKED_IN" => ci = old.ci
      BY <2>1 DEF CanUpdate, OrElse
    <2>4. Arrived(row)
      <3> HIDE DEF row, ci
      <3>1. QED
        BY <1>2, <2>2, <2>3 DEF Arrived
    <2>5. Timely(UpdatePlan(id, newCi, newCo, reprice))
      BY <2>4, PlanForTimely DEF UpdatePlan
    <2>6. QED
      BY <1>1, <2>1, <2>5
  <1>5. CASE ExtendStay(id)
    <2>1. PICK newCo \in Days : Execute(ExtendPlan(id, newCo))
      BY <1>5 DEF ExtendStay
    <2> DEFINE row == [old EXCEPT !.co = newCo, !.nights = nightsBetween(old.ci, newCo)]
    <2>2. row.status = old.status /\ row.ci = old.ci
      BY <1>2 DEF Rows
    <2>3. Arrived(row)
      BY <1>2, <2>2 DEF Arrived
    <2>4. Timely(ExtendPlan(id, newCo))
      BY <2>3, PlanForTimely DEF ExtendPlan
    <2>5. QED
      BY <1>1, <2>1, <2>4
  <1>6. CASE MoveRoom(id)
    <2>1. PICK r \in Rooms : Execute(MovePlan(id, r))
      BY <1>6 DEF MoveRoom
    <2> DEFINE row == [old EXCEPT !.room = r, !.type = TypeOf[r],
                                  !.nights = nightsBetween(old.ci, old.co)]
    <2>2. row.status = old.status /\ row.ci = old.ci
      BY <1>2 DEF Rows
    <2>3. Arrived(row)
      BY <1>2, <2>2 DEF Arrived
    <2>4. Timely(MovePlan(id, r))
      BY <2>3, PlanForTimely DEF MovePlan
    <2>5. QED
      BY <1>1, <2>1, <2>4
  <1>7. CASE Confirm(id)
    <2>1. Arrived([old EXCEPT !.status = "CONFIRMED"])
      BY <1>2 DEF Arrived, Rows
    <2>2. Timely(ConfirmPlan(id))
      BY <2>1, PlanForTimely DEF ConfirmPlan
    <2>3. QED
      BY <1>1, <1>7, <2>2 DEF Confirm
  <1>8. CASE AssignRoom(id)
    <2>1. PICK r \in Rooms : Execute(AssignPlan(id, r))
      BY <1>8 DEF AssignRoom
    <2>2. Arrived([old EXCEPT !.room = r])
      BY <1>2 DEF Arrived, Rows
    <2>3. Timely(AssignPlan(id, r))
      BY <2>2, PlanForTimely DEF AssignPlan
    <2>4. QED
      BY <1>1, <2>1, <2>3
  <1>9. CASE CheckIn(id)
    <2>1. PICK named \in Rooms \cup {Null} :
             CanCheckIn(id, named) /\ Execute(CheckInPlan(id, named))
      BY <1>9 DEF CheckIn
    <2> DEFINE r == OrElse(named, old.room)
               row == [old EXCEPT !.status = "CHECKED_IN", !.room = r]
    <2>2. row.ci = old.ci /\ old.ci <= today
      BY <1>2, <2>1 DEF Rows, CanCheckIn, coversDate
    <2>3. Arrived(row)
      BY <2>2 DEF Arrived
    <2>4. Timely(CheckInPlan(id, named))
      BY <2>3, PlanForTimely DEF CheckInPlan
    <2>5. QED
      BY <1>1, <2>1, <2>4
  <1>10. CASE CheckOut(id)
    <2>1. Arrived([old EXCEPT !.status = "CHECKED_OUT"])
      BY <1>2 DEF Arrived, Rows
    <2>2. Timely(CheckOutPlan(id))
      BY <2>1, PlanForTimely DEF CheckOutPlan
    <2>3. QED
      BY <1>1, <1>10, <2>2 DEF CheckOut
  <1>11. CASE Cancel(id)
    <2>1. Arrived([old EXCEPT !.status = "CANCELLED"])
      BY <1>2 DEF Arrived, Rows
    <2>2. Timely(CancelPlan(id))
      BY <2>1, PlanForTimely DEF CancelPlan
    <2>3. QED
      BY <1>1, <1>11, <2>2 DEF Cancel
  <1>12. CASE NoShow(id)
    <2>1. Arrived([old EXCEPT !.status = "NO_SHOW"])
      BY <1>2 DEF Arrived, Rows
    <2>2. Timely(NoShowPlan(id))
      BY <2>1, PlanForTimely DEF NoShowPlan
    <2>3. QED
      BY <1>1, <1>12, <2>2 DEF NoShow
  <1>13. CASE LockRoom(id)
    <2>1. PICK locked \in BOOLEAN : Execute(LockPlan(id, locked))
      BY <1>13 DEF LockRoom
    <2>2. Arrived([old EXCEPT !.locked = locked])
      BY <1>2 DEF Arrived, Rows
    <2>3. Timely(LockPlan(id, locked))
      BY <2>2, PlanForTimely DEF LockPlan
    <2>4. QED
      BY <1>1, <2>1, <2>3
  <1>14. ASSUME NEW other \in Bookings, SwapRooms(id, other)
         PROVE  AllArrived'
    <2> DEFINE p == SwapPlan(id, other)
               room(x) == IF x = id THEN resv[other].room ELSE resv[id].room
    <2>1. DOMAIN p.rows = {id, other}
          /\ \A x \in {id, other} : p.rows[x] = [resv[x] EXCEPT !.room = room(x)]
      BY DEF SwapPlan, Plan
    <2>2. Execute(p)
      BY <1>14 DEF SwapRooms
    <2> HIDE DEF p, room
    <2>3. ASSUME NEW x \in {id, other}
          PROVE  Arrived(p.rows[x])
      <3>1. resv[x] \in Rows /\ Arrived(resv[x])
        BY StoredGood DEF AllArrived
      <3>2. p.rows[x].status = resv[x].status /\ p.rows[x].ci = resv[x].ci
        BY <2>1, <3>1 DEF Rows
      <3>3. QED
        BY <3>1, <3>2 DEF Arrived
    <2>4. QED
      BY <1>1, <2>1, <2>2, <2>3 DEF Timely
  <1>15. QED
    BY <1>3, <1>4, <1>5, <1>6, <1>7, <1>8, <1>9, <1>10, <1>11, <1>12, <1>13, <1>14
       DEF Request

\* So it is with every step: a run of allocation writes rooms only, a sweep ends
\* bookings, and the calendar only goes on.
LEMMA NextTimely ==
    ASSUME RowsInv, AllArrived, [Next]_vars
    PROVE  AllArrived'
  <1>1. ASSUME NEW id \in Bookings, Request(id) PROVE AllArrived'
    BY <1>1, RequestTimely
  <1>2. ASSUME today' \in Int, today <= today',
               \A b \in Bookings : /\ resv'[b].status \in {resv[b].status, "NO_SHOW", "CANCELLED"}
                                   /\ resv'[b].ci = resv[b].ci
        PROVE  AllArrived'
    <2>1. today \in Int /\ \A b \in Bookings : resv[b].ci \in Int
      BY StoredGood DEF RowsInv, TypeOK
    <2>2. QED
      BY <1>2, <2>1 DEF AllArrived, Arrived
  <1>3. today \in Int
    BY DEF RowsInv, TypeOK
  <1>4. CASE AutoAllocate
    <2>1. PICK from \in Days, to \in Days :
             \E door \in [Unplaced(from, to) -> Rooms \cup {Null}] :
                /\ \A b \in Unplaced(from, to) :
                      TakesFirst(door, b, OpenDoors(b, Unplaced(from, to), door))
                /\ resv' = [b \in Bookings |->
                               IF b \in Unplaced(from, to)
                               THEN [resv[b] EXCEPT !.room = door[b]] ELSE resv[b]]
      BY <1>4 DEF AutoAllocate
    <2>2. PICK door \in [Unplaced(from, to) -> Rooms \cup {Null}] :
                resv' = [b \in Bookings |->
                             IF b \in Unplaced(from, to)
                             THEN [resv[b] EXCEPT !.room = door[b]] ELSE resv[b]]
      BY <2>1
    <2>3. ASSUME NEW b \in Bookings
          PROVE  resv'[b].status = resv[b].status /\ resv'[b].ci = resv[b].ci
      <3>1. resv'[b] \in {resv[b], [resv[b] EXCEPT !.room = door[b]]}
        BY <2>2
      <3>2. QED
        BY <3>1, StoredGood DEF Rows
    <2>4. today' = today
      BY <1>4 DEF AutoAllocate
    <2>5. QED
      BY <1>2, <1>3, <2>3, <2>4
  <1>5. ASSUME NEW s \in {"CANCELLED", "NO_SHOW"}, NEW swept, SweepTo(s, swept)
        PROVE  AllArrived'
    <2>1. ASSUME NEW b \in Bookings
          PROVE  resv'[b].status \in {resv[b].status, s} /\ resv'[b].ci = resv[b].ci
      <3>1. resv'[b] \in {resv[b], [resv[b] EXCEPT !.status = s]}
        BY <1>5 DEF SweepTo
      <3>2. QED
        BY <3>1, StoredGood DEF Rows
    <2>2. today' = today
      BY <1>5 DEF SweepTo
    <2>3. QED
      BY <1>2, <1>3, <2>1, <2>2
  <1>6. ASSUME NEW id \in Bookings, HoldRunsOut(id) PROVE AllArrived'
    <2>1. ASSUME NEW b \in Bookings
          PROVE  resv'[b].status = resv[b].status /\ resv'[b].ci = resv[b].ci
      <3>1. resv'[b] \in {resv[b], [resv[b] EXCEPT !.hold = "passed"]}
        BY <1>6, StoredGood DEF HoldRunsOut, RowsInv, TypeOK
      <3>2. QED
        BY <3>1, StoredGood DEF Rows
    <2>2. today' = today
      BY <1>6 DEF HoldRunsOut
    <2>3. QED
      BY <1>2, <1>3, <2>1, <2>2
  <1>7. CASE UNCHANGED resv /\ today' \in {today, today + 1}
    BY <1>2, <1>3, <1>7
  <1>8. QED
    BY <1>1, <1>4, <1>5, <1>6, <1>7
       DEF Next, DayToDay, SetRoomStatus, SetGrid, NextDay, AutoNoShow, HoldExpiry, vars

\* The board of the day, today(): whoever is in the house and has not outstayed the
\* booking is on one of the two lists it adds up, departures and inHouse, and on one
\* only.  It rests on check-in not coming before the stay: else a guest of tomorrow
\* would sleep here and be on neither.
THEOREM GuestsOnOneList == Spec => []OnOneList
  <1>1. Init => AllArrived
    BY DEF Init, AllArrived, Arrived, NoRow
  <1>2. RowsInv /\ AllArrived /\ [Next]_vars => AllArrived'
    BY NextTimely
  <1>3. RowsInv /\ AllArrived => OnOneList
    <2> SUFFICES ASSUME RowsInv, AllArrived, NEW b \in On("CHECKED_IN"), today <= resv[b].co
                 PROVE  b \in departures \cup inHouse /\ b \notin departures \cap inHouse
      BY DEF OnOneList
    <2>1. b \in Bookings /\ resv[b].status = "CHECKED_IN"
      BY DEF On
    <2>2. resv[b].ci <= today /\ resv[b].co \in Int /\ today \in Int
      BY <2>1, StoredGood DEF AllArrived, Arrived, RowsInv, TypeOK
    <2>3. QED
      BY <2>1, <2>2 DEF departures, inHouse, coversDate, On
  <1>4. QED
    BY RowsInvariant, <1>1, <1>2, <1>3, PTL DEF Spec

\* availability() never shows a room of a type that create() would then refuse where
\* the rates grid says nothing: on no night are more bookings counted against the
\* probe than stays are counted by the board.
THEOREM NeverFlattered == Spec => []AvailabilityNeverFlatters
  <1>1. ASSUME TypeOK, NEW t \in Types, NEW s \in Stays,
               availability(t, s[1], s[2]) > 0, Unrestricted(t, s[1], s[2])
        PROVE  Accepts(t, s[1], s[2])
    <2> DEFINE ci == s[1]
               co == s[2]
               probe == TypeProbe([type |-> t, ci |-> ci, co |-> co], {}, grid[t])
               found == {b \in Bookings : Clashes(probe, b)}
               sold(n) == {b \in found : coversDate(resv[b], n)}
    <2>1. ci \in Days /\ co \in Days /\ ci < co
      BY DEF Stays
    <2>2. /\ probe.room = Null /\ probe.type = t /\ probe.ci = ci /\ probe.co = co
          /\ probe.skip = {} /\ probe.rules = grid[t]
      BY DEF TypeProbe
    <2>3. found = BookedRooms(t, ci, co)
      <3> HIDE DEF probe, ci, co
      <3>1. QED
        BY <2>2 DEF BookedRooms, Clashes
    <2>4. IsFiniteSet(found) /\ Cardinality(found) \in Nat
      <3>1. found \in SUBSET Bookings
        OBVIOUS
      <3> HIDE DEF found
      <3>2. QED
        BY <3>1, Countable
    <2>5. grid \in [Types -> [Days -> DayRules]]
      BY <1>1, GridsAssumption DEF TypeOK
    <2>6. Sellable(t) \in Nat
      BY Countable
    <2>7. Cardinality(found) < Sellable(t)
      <3>1. availability(t, ci, co) > 0
        BY <1>1
      <3> HIDE DEF found, ci, co
      <3>2. QED
        BY <2>3, <2>4, <2>6, <3>1 DEF availability
    <2>8. ASSUME NEW n \in ci .. (co - 1)
          PROVE  Cardinality(sold(n)) < Sellable(t) /\ Cardinality(sold(n)) < grid[t][n].cap
      <3>1. Cardinality(sold(n)) \in Nat /\ Cardinality(sold(n)) <= Cardinality(found)
        <4>1. sold(n) \subseteq found
          OBVIOUS
        <4> HIDE DEF found, sold
        <4>2. QED
          BY <2>4, <4>1, FS_Subset, FS_CardinalityType
      <3>2. grid[t][n].cap >= Sellable(t)
        BY <1>1 DEF Unrestricted
      <3>3. grid[t][n].cap \in Nat
        <4>1. n \in Days
          BY <2>1
        <4>2. grid[t][n] \in DayRules
          BY <2>5, <4>1
        <4>3. QED
          BY <4>2 DEF DayRules
      <3> HIDE DEF found, sold
      <3>4. QED
        BY <2>4, <2>6, <2>7, <3>1, <3>2, <3>3
    <2>9. NightsOf(ci, co) = ci .. (co - 1)
      BY <2>1, NightsOfStay DEF NightsOf
    <2>10. assertRules(grid[t], ci, co)
      BY <1>1 DEF Unrestricted
    <2> HIDE DEF probe, found, ci, co
    <2>11. Passes(probe, found, Sellable(t))
      BY <2>2, <2>8, <2>9, <2>10 DEF Passes
    <2>12. QED
      BY <2>11 DEF Accepts, probe, found, ci, co
  <1>2. TypeOK => AvailabilityNeverFlatters
    BY <1>1 DEF AvailabilityNeverFlatters
  <1>3. QED
    BY TypeCorrect, <1>2, PTL

=============================================================================
