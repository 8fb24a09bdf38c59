------------------------ MODULE ReservationPlanProofs ------------------------
(***************************************************************************)
(* What the plans of the handlers are, for any number of bookings and      *)
(* rooms, any horizon, any grids: facts about the first read alone, which  *)
(* hold whether the plan is then run in one step or among others.          *)
(*                                                                         *)
(* Every plan is SOUND: each row it writes that occupies a room either     *)
(* keeps the claim the stored row had, or is covered by a room probe over  *)
(* exactly the room and dates written.  Two rows of one plan do not come   *)
(* to hold a night in common that they did not hold before.                *)
(***************************************************************************)
EXTENDS ReservationPlans, SequenceTheorems, TLAPS

USE CountsAssumption, HorizonAssumption, TypeOfAssumption, NullAssumption
    DEF Bookings, Rooms, Days

\* The reservations table holds well-formed rows.
TableTyped == resv \in [Bookings -> Rows]
\* x and y hold one room for a common night.
Collide(x, y) ==
    /\ x.status \in Occupying /\ y.status \in Occupying
    /\ x.room # Null /\ x.room = y.room
    /\ overlaps(x.ci, x.co, y.ci, y.co)

\* A plan's rows and room statuses are values the tables can hold.
WellFormed(p) ==
    /\ DOMAIN p.rows \subseteq Bookings
    /\ \A b \in DOMAIN p.rows : p.rows[b] \in Rows
    /\ \A r \in DOMAIN p.rooms : p.rooms[r] \in RoomStatuses
    /\ p.says \in Statuses \cup {Null}

\* The plan probes for the room and the dates of this row.
Probed(p, row) ==
    \E i \in DOMAIN p.probes :
        /\ p.probes[i].room = row.room
        /\ p.probes[i].ci = row.ci /\ p.probes[i].co = row.co
        /\ p.probes[i].skip \subseteq DOMAIN p.rows

\* The row claims nothing that the stored one does not.
Kept(row, old) ==
    /\ old.status \in Occupying
    /\ row.room = old.room /\ row.ci = old.ci /\ row.co = old.co

Sound(p) ==
    /\ \A b \in DOMAIN p.rows :
          (p.rows[b].status \in Occupying /\ p.rows[b].room # Null)
          => Probed(p, p.rows[b]) \/ Kept(p.rows[b], resv[b])
    /\ \A a, b \in DOMAIN p.rows :
          a # b /\ Collide(p.rows[a], p.rows[b]) => Collide(resv[a], resv[b])

-----------------------------------------------------------------------------
(* The plans are sound *)

\* A probe for the row's room and dates, that skips the row's own booking only.
Covers(q, row, ids) ==
    q.room = row.room /\ q.ci = row.ci /\ q.co = row.co /\ q.skip \subseteq ids

\* If the row occupies a room, the probes cover it or it claims nothing new.
Guarded(id, probes, row) ==
    (row.status \in Occupying /\ row.room # Null)
    => \/ \E i \in DOMAIN probes : Covers(probes[i], row, {id})
       \/ Kept(row, resv[id])

\* When the plan of a handler that writes one row is well-formed and sound.
LEMMA PlanForSound ==
    ASSUME NEW id \in Bookings, NEW probes, NEW columns, NEW row \in Rows,
           NEW rooms, NEW says \in Statuses \cup {Null},
           \A r \in DOMAIN rooms : rooms[r] \in RoomStatuses,
           Guarded(id, probes, row)
    PROVE  LET p == PlanFor(id, probes, columns, row, rooms, says)
           IN  WellFormed(p) /\ Sound(p)
  <1> DEFINE p == PlanFor(id, probes, columns, row, rooms, says)
  <1>1. /\ p.probes = probes /\ p.rooms = rooms /\ p.says = says
        /\ DOMAIN p.rows = {id} /\ p.rows[id] = row
    BY DEF PlanFor, Plan
  <1>2. WellFormed(p)
    BY <1>1 DEF WellFormed
  <1>3. (row.status \in Occupying /\ row.room # Null)
          => Probed(p, row) \/ Kept(row, resv[id])
    BY <1>1 DEF Guarded, Probed, Covers
  <1>4. Sound(p)
    BY <1>1, <1>3 DEF Sound
  <1>5. QED
    BY <1>2, <1>4

\* A handler appends the probe of the type after that of the room: the first stays first.
LEMMA HeadOfConcat ==
    ASSUME NEW x, NEW q
    PROVE  (<<x>> \o <<q>>)[1] = x /\ 1 \in DOMAIN (<<x>> \o <<q>>)
  <1>1. <<x>> \in Seq({x, q}) /\ <<q>> \in Seq({x, q})
    OBVIOUS
  <1>2. QED
    BY <1>1, ConcatProperties, Z3

\* The same for handlers that leave rooms.status alone.
LEMMA PlanWithoutRoomsSound ==
    ASSUME NEW id \in Bookings, NEW probes, NEW columns, NEW row \in Rows,
           NEW says \in Statuses \cup {Null},
           Guarded(id, probes, row)
    PROVE  LET p == PlanFor(id, probes, columns, row, NoRooms, says)
           IN  WellFormed(p) /\ Sound(p)
  <1>1. \A r \in DOMAIN NoRooms : NoRooms[r] \in RoomStatuses
    BY DEF NoRooms
  <1>2. QED
    BY <1>1, PlanForSound

\* The probes of the handlers: the row's own room, when it has one, comes first.
LEMMA OwnRoomCovered ==
    ASSUME NEW row \in Rows, NEW ids, row.room # Null
    PROVE  /\ Covers(OwnRoomProbe(row, ids)[1], row, ids)
           /\ DOMAIN OwnRoomProbe(row, ids) = {1}
           /\ \A q : /\ Covers((OwnRoomProbe(row, ids) \o <<q>>)[1], row, ids)
                     /\ 1 \in DOMAIN (OwnRoomProbe(row, ids) \o <<q>>)
  <1>1. OwnRoomProbe(row, ids) = <<RoomProbe(row.room, row, ids)>>
    BY DEF OwnRoomProbe
  <1>2. Covers(RoomProbe(row.room, row, ids), row, ids)
    BY DEF Covers, RoomProbe
  <1>3. \A q : /\ (OwnRoomProbe(row, ids) \o <<q>>)[1] = RoomProbe(row.room, row, ids)
               /\ 1 \in DOMAIN (OwnRoomProbe(row, ids) \o <<q>>)
    BY <1>1, HeadOfConcat
  <1>4. QED
    BY <1>1, <1>2, <1>3

\* Clashes are looked for in exactly the room and nights that are written (assertRoomFree).
LEMMA RoomProbeCovers ==
    ASSUME NEW row \in Rows, NEW id \in Bookings
    PROVE  \E i \in DOMAIN <<RoomProbe(row.room, row, {id})>> :
               Covers(<<RoomProbe(row.room, row, {id})>>[i], row, {id})
  BY DEF Covers, RoomProbe

\* create() probes the room and the nights of the row that it inserts.
LEMMA CreateSound ==
    ASSUME TableTyped, NEW id \in Bookings, NEW t \in Types, NEW r \in Rooms \cup {Null},
           NEW ci \in Days, NEW co \in Days, NEW status \in {"PENDING", "CONFIRMED"},
           NEW hold \in HoldKinds, CanCreate(id, t, r, ci, co, status, hold)
    PROVE  LET p == CreatePlan(id, t, r, ci, co, status, hold)
           IN  WellFormed(p) /\ Sound(p)
  <1> DEFINE row == [status |-> status, type |-> t, room |-> r, ci |-> ci, co |-> co,
                     nights |-> nightsBetween(ci, co), locked |-> FALSE, hold |-> hold]
  <1>1. row \in Rows
    BY HoldKindsAssumption DEF Rows, Statuses, nightsBetween
  <1>2. CASE status = "CONFIRMED"
    <2>1. Guarded(id, OwnRoomProbe(row, {}) \o <<TypeProbe(row, {}, grid[t])>>, row)
      <3> SUFFICES ASSUME row.room # Null
                   PROVE  \E i \in DOMAIN (OwnRoomProbe(row, {})
                                             \o <<TypeProbe(row, {}, grid[t])>>) :
                            Covers((OwnRoomProbe(row, {})
                                      \o <<TypeProbe(row, {}, grid[t])>>)[i], row, {id})
        BY DEF Guarded
      <3>1. /\ Covers((OwnRoomProbe(row, {}) \o <<TypeProbe(row, {}, grid[t])>>)[1], row, {})
            /\ 1 \in DOMAIN (OwnRoomProbe(row, {}) \o <<TypeProbe(row, {}, grid[t])>>)
        BY <1>1, OwnRoomCovered
      <3>2. QED
        BY <3>1 DEF Covers
    <2> HIDE DEF row
    <2>2. QED
      BY <1>1, <1>2, <2>1, PlanWithoutRoomsSound DEF CreatePlan, Statuses, row
  <1>3. CASE status = "PENDING"
    <2>1. Guarded(id, <<>>, row)
      BY <1>3 DEF Guarded, Occupying
    <2>2. QED
      BY <1>1, <1>3, <2>1, PlanWithoutRoomsSound DEF CreatePlan, Statuses
  <1>4. QED
    BY <1>2, <1>3

\* Stays last a natural number of nights.
LEMMA NightsNat ==
    ASSUME NEW ci \in Days, NEW co \in Days
    PROVE  nightsBetween(ci, co) \in Nat
  BY DEF nightsBetween

\* What a handler reads under a legal id.
LEMMA RowRead ==
    ASSUME TableTyped, NEW id \in Bookings
    PROVE  /\ resv[id] \in Rows
           /\ resv[id].ci \in Days /\ resv[id].co \in Days
           /\ resv[id].room \in Rooms \cup {Null} /\ resv[id].type \in Types \cup {Null}
  BY DEF TableTyped, Rows

\* Values that a handler assigns leave a well-formed row.
LEMMA RowAssigned ==
    ASSUME NEW row \in Rows
    PROVE  /\ \A s \in Statuses : [row EXCEPT !.status = s] \in Rows
           /\ \A r \in Rooms : [row EXCEPT !.room = r] \in Rows
           /\ \A ci, co \in Days, n \in Nat :
                 [row EXCEPT !.ci = ci, !.co = co, !.nights = n] \in Rows
           /\ \A co \in Days, n \in Nat : [row EXCEPT !.co = co, !.nights = n] \in Rows
           /\ \A r \in Rooms, t \in Types, n \in Nat :
                 [row EXCEPT !.room = r, !.type = t, !.nights = n] \in Rows
  BY DEF Rows

\* update() probes the merged dates it writes, or moves none of an occupying row.
LEMMA UpdateSound ==
    ASSUME TableTyped, NEW id \in Bookings, NEW newCi \in Days \cup {Null},
           NEW newCo \in Days \cup {Null}, NEW reprice \in BOOLEAN,
           CanUpdate(id, newCi, newCo, reprice)
    PROVE  LET p == UpdatePlan(id, newCi, newCo, reprice)
           IN  WellFormed(p) /\ Sound(p)
  <1> DEFINE before == resv[id]
             moving == newCi # Null \/ newCo # Null
             ci == OrElse(newCi, before.ci)
             co == OrElse(newCo, before.co)
             row == [before EXCEPT !.ci = ci, !.co = co, !.nights = nightsBetween(ci, co)]
             probes == IF moving /\ before.status = "CONFIRMED"
                       THEN OwnRoomProbe(row, {id})
                              \o <<TypeProbe(row, {id}, grid[before.type])>>
                       ELSE <<>>
             columns == {"nights"} \cup (IF newCi = Null THEN {} ELSE {"ci"})
                                   \cup (IF newCo = Null THEN {} ELSE {"co"})
  <1>1. ci \in Days /\ co \in Days
    BY RowRead DEF OrElse
  <1>2. /\ row \in Rows /\ row.room = before.room /\ row.status = before.status
        /\ row.ci = ci /\ row.co = co
    <2>1. row \in Rows
      BY <1>1, RowRead, NightsNat, RowAssigned
    <2>2. QED
      BY <2>1, RowRead DEF Rows
  <1>3. Guarded(id, probes, row)
    <2> SUFFICES ASSUME row.status \in Occupying, row.room # Null
                 PROVE  \/ \E i \in DOMAIN probes : Covers(probes[i], row, {id})
                        \/ Kept(row, resv[id])
      BY DEF Guarded
    <2>1. CASE moving
      <3>1. before.status = "CONFIRMED"
        BY <1>2, <2>1 DEF CanUpdate, Occupying
      <3>2. Covers(probes[1], row, {id}) /\ 1 \in DOMAIN probes
        BY <1>2, <2>1, <3>1, OwnRoomCovered
      <3>3. QED
        BY <3>2
    <2>2. CASE ~moving
      BY <1>2, <2>2 DEF Kept, OrElse
    <2>3. QED
      BY <2>1, <2>2
  <1>4. UpdatePlan(id, newCi, newCo, reprice)
          = PlanFor(id, probes, columns, row, NoRooms, Null)
    BY DEF UpdatePlan
  <1> HIDE DEF row, probes, columns
  <1>5. QED
    BY <1>2, <1>3, <1>4, PlanWithoutRoomsSound

\* extendStay() probes the room from the arrival to the new departure.
LEMMA ExtendSound ==
    ASSUME TableTyped, NEW id \in Bookings, NEW newCo \in Days, CanExtend(id, newCo)
    PROVE  LET p == ExtendPlan(id, newCo) IN WellFormed(p) /\ Sound(p)
  <1> DEFINE before == resv[id]
             row == [before EXCEPT !.co = newCo, !.nights = nightsBetween(before.ci, newCo)]
             probes == IF row.room # Null THEN OwnRoomProbe(row, {id})
                                          ELSE <<TypeProbe(row, {id}, NoRules)>>
  <1>1. row \in Rows
    BY RowRead, NightsNat, RowAssigned, TypeOfAssumption DEF Rows
  <1>2. Guarded(id, probes, row)
    BY <1>1, OwnRoomCovered DEF Guarded
  <1>3. ExtendPlan(id, newCo) = PlanFor(id, probes, {"co", "nights"}, row, NoRooms, Null)
    BY DEF ExtendPlan
  <1> HIDE DEF row, probes
  <1>4. QED
    BY <1>1, <1>2, <1>3, PlanWithoutRoomsSound

\* moveRoom() probes the new room for the nights of the stay.
LEMMA MoveSound ==
    ASSUME TableTyped, NEW id \in Bookings, NEW r \in Rooms, CanMove(id, r)
    PROVE  LET p == MovePlan(id, r) IN WellFormed(p) /\ Sound(p)
  <1> DEFINE before == resv[id]
             row == [before EXCEPT !.room = r, !.type = TypeOf[r],
                                   !.nights = nightsBetween(before.ci, before.co)]
             rooms == [x \in ({before.room} \ {Null}) \cup {r} |->
                          IF x = r THEN "OCCUPIED" ELSE "DIRTY"]
             probes == <<RoomProbe(r, row, {id})>>
  <1>1. row \in Rows /\ row.room = r
    <2>1. TypeOf[r] \in Types /\ nightsBetween(before.ci, before.co) \in Nat
      BY RowRead, NightsNat
    <2>2. row \in Rows
      BY <2>1, RowRead, RowAssigned
    <2>3. QED
      BY <2>2, RowRead DEF Rows
  <1>2. Guarded(id, probes, row)
    BY <1>1, RoomProbeCovers DEF Guarded
  <1>3. \A x \in DOMAIN rooms : rooms[x] \in RoomStatuses
    BY DEF RoomStatuses
  <1>4. MovePlan(id, r)
          = PlanFor(id, probes, {"room", "type", "nights"}, row, rooms, Null)
    BY DEF MovePlan
  <1> HIDE DEF row, rooms, probes
  <1>5. QED
    BY <1>1, <1>2, <1>3, <1>4, PlanForSound

\* confirm() probes the booking's room for the nights it comes to hold.
LEMMA ConfirmSound ==
    ASSUME TableTyped, NEW id \in Bookings, CanConfirm(id)
    PROVE  WellFormed(ConfirmPlan(id)) /\ Sound(ConfirmPlan(id))
  <1> DEFINE row == [resv[id] EXCEPT !.status = "CONFIRMED"]
             probes == OwnRoomProbe(row, {id}) \o <<TypeProbe(row, {id}, NoRules)>>
  <1>1. row \in Rows
    BY RowRead DEF Rows, Statuses
  <1>2. Guarded(id, probes, row)
    BY <1>1, OwnRoomCovered DEF Guarded
  <1>3. ConfirmPlan(id) = PlanFor(id, probes, {"status"}, row, NoRooms, "CONFIRMED")
    BY DEF ConfirmPlan
  <1> HIDE DEF row, probes
  <1>4. QED
    BY <1>1, <1>2, <1>3, PlanWithoutRoomsSound DEF Statuses

\* assignRoom() probes the room it assigns for the nights of the booking.
LEMMA AssignSound ==
    ASSUME TableTyped, NEW id \in Bookings, NEW r \in Rooms, CanAssign(id, r)
    PROVE  WellFormed(AssignPlan(id, r)) /\ Sound(AssignPlan(id, r))
  <1> DEFINE row == [resv[id] EXCEPT !.room = r]
             probes == <<RoomProbe(r, row, {id})>>
  <1>1. row \in Rows /\ row.room = r
    BY RowRead DEF Rows
  <1>2. Guarded(id, probes, row)
    BY <1>1, RoomProbeCovers DEF Guarded
  <1>3. AssignPlan(id, r) = PlanFor(id, probes, {"room"}, row, NoRooms, Null)
    BY DEF AssignPlan
  <1> HIDE DEF row, probes
  <1>4. QED
    BY <1>1, <1>2, <1>3, PlanWithoutRoomsSound

\* checkIn() probes the room the guest goes into for the nights of the stay.
LEMMA CheckInSound ==
    ASSUME TableTyped, NEW id \in Bookings, NEW named \in Rooms \cup {Null},
           CanCheckIn(id, named)
    PROVE  WellFormed(CheckInPlan(id, named)) /\ Sound(CheckInPlan(id, named))
  <1> DEFINE r == OrElse(named, resv[id].room)
             row == [resv[id] EXCEPT !.status = "CHECKED_IN", !.room = r]
             rooms == [x \in {r} |-> "OCCUPIED"]
             probes == <<RoomProbe(r, row, {id})>>
  <1>1. r \in Rooms
    BY RowRead DEF CanCheckIn, OrElse
  <1>2. row \in Rows /\ row.room = r
    BY <1>1, RowRead DEF Rows, Statuses
  <1>3. Guarded(id, probes, row)
    BY <1>2, RoomProbeCovers DEF Guarded
  <1>4. \A x \in DOMAIN rooms : rooms[x] \in RoomStatuses
    BY DEF RoomStatuses
  <1>5. CheckInPlan(id, named)
          = PlanFor(id, probes, {"status", "room"}, row, rooms, "CHECKED_IN")
    BY DEF CheckInPlan
  <1> HIDE DEF row, rooms, probes
  <1>6. QED
    BY <1>2, <1>3, <1>4, <1>5, PlanForSound DEF Statuses

\* checkOut() gives the claim up.
LEMMA CheckOutSound ==
    ASSUME TableTyped, NEW id \in Bookings
    PROVE  WellFormed(CheckOutPlan(id)) /\ Sound(CheckOutPlan(id))
  <1> DEFINE row == [resv[id] EXCEPT !.status = "CHECKED_OUT"]
             rooms == [x \in {row.room} \ {Null} |-> "DIRTY"]
  <1>1. row \in Rows /\ row.status \notin Occupying
    BY RowRead DEF Rows, Statuses, Occupying
  <1>2. Guarded(id, <<>>, row)
    BY <1>1 DEF Guarded
  <1>3. \A x \in DOMAIN rooms : rooms[x] \in RoomStatuses
    BY DEF RoomStatuses
  <1>4. CheckOutPlan(id) = PlanFor(id, <<>>, {"status"}, row, rooms, "CHECKED_OUT")
    BY DEF CheckOutPlan
  <1> HIDE DEF row, rooms
  <1>5. QED
    BY <1>1, <1>2, <1>3, <1>4, PlanForSound DEF Statuses

\* cancel() leaves a booking that holds nothing.
LEMMA CancelSound ==
    ASSUME TableTyped, NEW id \in Bookings
    PROVE  WellFormed(CancelPlan(id)) /\ Sound(CancelPlan(id))
  <1> DEFINE row == [resv[id] EXCEPT !.status = "CANCELLED"]
  <1>1. row \in Rows /\ row.status \notin Occupying
    BY RowRead DEF Rows, Statuses, Occupying
  <1>2. Guarded(id, <<>>, row)
    BY <1>1 DEF Guarded
  <1>3. QED
    BY <1>1, <1>2, PlanWithoutRoomsSound DEF CancelPlan, Statuses

\* noShow() leaves a booking that holds nothing.
LEMMA NoShowSound ==
    ASSUME TableTyped, NEW id \in Bookings
    PROVE  WellFormed(NoShowPlan(id)) /\ Sound(NoShowPlan(id))
  <1> DEFINE row == [resv[id] EXCEPT !.status = "NO_SHOW"]
  <1>1. row \in Rows /\ row.status \notin Occupying
    BY RowRead DEF Rows, Statuses, Occupying
  <1>2. Guarded(id, <<>>, row)
    BY <1>1 DEF Guarded
  <1>3. QED
    BY <1>1, <1>2, PlanWithoutRoomsSound DEF NoShowPlan, Statuses

\* lockRoom() changes neither room, dates nor status.
LEMMA LockSound ==
    ASSUME TableTyped, NEW id \in Bookings, NEW locked \in BOOLEAN
    PROVE  WellFormed(LockPlan(id, locked)) /\ Sound(LockPlan(id, locked))
  <1> DEFINE row == [resv[id] EXCEPT !.locked = locked]
  <1>1. /\ row \in Rows /\ row.status = resv[id].status /\ row.room = resv[id].room
        /\ row.ci = resv[id].ci /\ row.co = resv[id].co
    BY RowRead DEF Rows
  <1>2. Guarded(id, <<>>, row)
    BY <1>1 DEF Guarded, Kept
  <1> HIDE DEF row
  <1>3. QED
    BY <1>1, <1>2, PlanWithoutRoomsSound DEF LockPlan, row

\* swapRooms() probes each booking in the other's room, past the other only, and
\* two bookings that exchange two different rooms end up in different rooms.
LEMMA SwapSound ==
    ASSUME TableTyped, NEW a \in Bookings, NEW b \in Bookings, CanSwap(a, b)
    PROVE  WellFormed(SwapPlan(a, b)) /\ Sound(SwapPlan(a, b))
  <1> DEFINE p == SwapPlan(a, b)
             rowA == [resv[a] EXCEPT !.room = resv[b].room]
             rowB == [resv[b] EXCEPT !.room = resv[a].room]
             probeA == RoomProbe(resv[b].room, resv[a], {a, b})
             probeB == RoomProbe(resv[a].room, resv[b], {a, b})
  <1>1. /\ a # b /\ resv[a] \in Rows /\ resv[b] \in Rows
        /\ resv[a].room \in Rooms /\ resv[b].room \in Rooms
    BY RowRead DEF CanSwap
  <1>2. /\ DOMAIN p.rows = {a, b} /\ p.rows[a] = rowA /\ p.rows[b] = rowB
        /\ p.rooms = NoRooms /\ p.says = Null /\ p.probes = <<probeA, probeB>>
    BY <1>1 DEF SwapPlan, Plan
  <1>3. /\ rowA \in Rows /\ rowA.status = resv[a].status /\ rowA.room = resv[b].room
        /\ rowA.ci = resv[a].ci /\ rowA.co = resv[a].co
    BY <1>1 DEF Rows
  <1>4. /\ rowB \in Rows /\ rowB.status = resv[b].status /\ rowB.room = resv[a].room
        /\ rowB.ci = resv[b].ci /\ rowB.co = resv[b].co
    BY <1>1 DEF Rows
  <1>5. /\ probeA.room = rowA.room /\ probeA.ci = rowA.ci /\ probeA.co = rowA.co
        /\ probeB.room = rowB.room /\ probeB.ci = rowB.ci /\ probeB.co = rowB.co
        /\ probeA.skip = {a, b} /\ probeB.skip = {a, b}
    BY <1>3, <1>4 DEF RoomProbe
  <1> HIDE DEF p, rowA, rowB, probeA, probeB
  <1>6. WellFormed(p)
    BY <1>2, <1>3, <1>4 DEF WellFormed, NoRooms
  <1>7. Probed(p, rowA) /\ Probed(p, rowB)
    <2>1. /\ 1 \in DOMAIN p.probes /\ p.probes[1] = probeA
          /\ 2 \in DOMAIN p.probes /\ p.probes[2] = probeB
      BY <1>2
    <2>2. QED
      BY <2>1, <1>2, <1>5 DEF Probed
  <1>8. /\ Collide(rowA, rowB) => Collide(resv[a], resv[b])
        /\ Collide(rowB, rowA) => Collide(resv[b], resv[a])
    BY <1>3, <1>4 DEF Collide, overlaps
  <1>9. Sound(p)
    BY <1>2, <1>7, <1>8 DEF Sound
  <1>10. QED
    BY <1>6, <1>9 DEF p

-----------------------------------------------------------------------------
(* All the handlers *)

\* A handler called now for booking id goes on with the plan p.
Intended(id, p) ==
    \/ /\ resv[id].status = "ABSENT"
       /\ \E t \in Types, r \in Rooms \cup {Null}, ci \in Days, co \in Days,
             status \in {"PENDING", "CONFIRMED"}, hold \in HoldKinds :
             /\ CanCreate(id, t, r, ci, co, status, hold)
             /\ p = CreatePlan(id, t, r, ci, co, status, hold)
    \/ \E newCi \in Days \cup {Null}, newCo \in Days \cup {Null}, reprice \in BOOLEAN :
          CanUpdate(id, newCi, newCo, reprice) /\ p = UpdatePlan(id, newCi, newCo, reprice)
    \/ \E newCo \in Days : CanExtend(id, newCo) /\ p = ExtendPlan(id, newCo)
    \/ \E r \in Rooms : CanMove(id, r) /\ p = MovePlan(id, r)
    \/ CanConfirm(id) /\ p = ConfirmPlan(id)
    \/ \E r \in Rooms : CanAssign(id, r) /\ p = AssignPlan(id, r)
    \/ \E named \in Rooms \cup {Null} : CanCheckIn(id, named) /\ p = CheckInPlan(id, named)
    \/ CanCheckOut(id) /\ p = CheckOutPlan(id)
    \/ CanCancel(id) /\ p = CancelPlan(id)
    \/ CanNoShow(id) /\ p = NoShowPlan(id)
    \/ \E locked \in BOOLEAN : CanLock(id, locked) /\ p = LockPlan(id, locked)
    \/ \E other \in Bookings : CanSwap(id, other) /\ p = SwapPlan(id, other)

\* Every handler's plan is sound, and writes rows that the table can hold.
LEMMA IntendedSound ==
    ASSUME TableTyped, NEW id \in Bookings, NEW p, Intended(id, p)
    PROVE  WellFormed(p) /\ Sound(p)
  <1>1. CASE resv[id].status = "ABSENT" /\
             \E t \in Types, r \in Rooms \cup {Null}, ci \in Days, co \in Days,
                status \in {"PENDING", "CONFIRMED"}, hold \in HoldKinds :
                /\ CanCreate(id, t, r, ci, co, status, hold)
                /\ p = CreatePlan(id, t, r, ci, co, status, hold)
    <2>1. PICK t \in Types, r \in Rooms \cup {Null}, ci \in Days, co \in Days,
               status \in {"PENDING", "CONFIRMED"}, hold \in HoldKinds :
               /\ CanCreate(id, t, r, ci, co, status, hold)
               /\ p = CreatePlan(id, t, r, ci, co, status, hold)
      BY <1>1
    <2>2. QED
      BY <2>1, CreateSound
  <1>2. CASE \E newCi \in Days \cup {Null}, newCo \in Days \cup {Null}, reprice \in BOOLEAN :
                /\ CanUpdate(id, newCi, newCo, reprice)
                /\ p = UpdatePlan(id, newCi, newCo, reprice)
    <2>1. PICK newCi \in Days \cup {Null}, newCo \in Days \cup {Null}, reprice \in BOOLEAN :
               /\ CanUpdate(id, newCi, newCo, reprice)
               /\ p = UpdatePlan(id, newCi, newCo, reprice)
      BY <1>2
    <2>2. QED
      BY <2>1, UpdateSound
  <1>3. CASE \E newCo \in Days : CanExtend(id, newCo) /\ p = ExtendPlan(id, newCo)
    BY <1>3, ExtendSound
  <1>4. CASE \E r \in Rooms : CanMove(id, r) /\ p = MovePlan(id, r)
    BY <1>4, MoveSound
  <1>5. CASE \E r \in Rooms : CanAssign(id, r) /\ p = AssignPlan(id, r)
    BY <1>5, AssignSound
  <1>6. CASE \E named \in Rooms \cup {Null} :
                CanCheckIn(id, named) /\ p = CheckInPlan(id, named)
    BY <1>6, CheckInSound
  <1>7. CASE \/ CanConfirm(id) /\ p = ConfirmPlan(id)
             \/ CanCheckOut(id) /\ p = CheckOutPlan(id)
    BY <1>7, ConfirmSound, CheckOutSound
  <1>8. CASE \/ CanCancel(id) /\ p = CancelPlan(id)
             \/ CanNoShow(id) /\ p = NoShowPlan(id)
             \/ \E locked \in BOOLEAN : CanLock(id, locked) /\ p = LockPlan(id, locked)
    BY <1>8, CancelSound, NoShowSound, LockSound
  <1>9. CASE \E other \in Bookings : CanSwap(id, other) /\ p = SwapPlan(id, other)
    BY <1>9, SwapSound
  <1>10. QED
    BY <1>1, <1>2, <1>3, <1>4, <1>5, <1>6, <1>7, <1>8, <1>9 DEF Intended

-----------------------------------------------------------------------------
(* The shape of the plans, and the columns they leave alone *)

Columns == {"status", "type", "room", "ci", "co", "nights", "locked", "hold"}

\* A column that the UPDATE does not assign is in the plan's row as it was read.
ColumnsRead(p) ==
    \A b \in DOMAIN p.rows, k \in Columns \ p.columns : p.rows[b][k] = resv[b][k]

\* The probes come in order, a row at least is written, no row is deleted, and
\* a row that is not there yet is the only one of its plan.
Shaped(p) ==
    /\ Len(p.probes) \in Nat /\ DOMAIN p.probes = 1 .. Len(p.probes)
    /\ Len(p.ids) \in Nat \ {0}
    /\ \A b \in DOMAIN p.rows :
          /\ p.rows[b].status # "ABSENT"
          /\ resv[b].status = "ABSENT" => DOMAIN p.rows = {b}

\* The same of the probes alone.
InOrder(probes) == Len(probes) \in Nat /\ DOMAIN probes = 1 .. Len(probes)

\* Nothing, one probe, or the room's and then the type's.
LEMMA ProbesInOrder ==
    /\ InOrder(<<>>)
    /\ \A x : InOrder(<<x>>)
    /\ \A row, ids, q : InOrder(OwnRoomProbe(row, ids) \o <<q>>)
    /\ \A row, ids : InOrder(OwnRoomProbe(row, ids))
  <1>1. ASSUME NEW S, NEW s \in Seq(S)
        PROVE  InOrder(s)
    BY <1>1 DEF InOrder
  <1>2. ASSUME NEW S, NEW x \in S
        PROVE  <<x>> \in Seq(S) /\ <<>> \in Seq(S)
    OBVIOUS
  <1>3. \A x : InOrder(<<x>>)
    <2> TAKE x
    <2>1. <<x>> \in Seq({x})
      BY <1>2
    <2>2. QED
      BY <1>1, <2>1
  <1>4. InOrder(<<>>)
    <2>1. <<>> \in Seq({1})
      BY <1>2
    <2>2. QED
      BY <1>1, <2>1
  <1>5. ASSUME NEW row, NEW ids, NEW q
        PROVE  InOrder(OwnRoomProbe(row, ids) \o <<q>>)
    <2> DEFINE S == {RoomProbe(row.room, row, ids), q}
    <2>1. OwnRoomProbe(row, ids) \in Seq(S) /\ <<q>> \in Seq(S)
      <3>1. RoomProbe(row.room, row, ids) \in S /\ q \in S
        OBVIOUS
      <3> HIDE DEF S
      <3>2. <<>> \in Seq(S) /\ <<RoomProbe(row.room, row, ids)>> \in Seq(S) /\ <<q>> \in Seq(S)
        BY <1>2, <3>1
      <3>3. QED
        BY <3>2 DEF OwnRoomProbe
    <2>2. OwnRoomProbe(row, ids) \o <<q>> \in Seq(S)
      BY <2>1, ConcatProperties
    <2> HIDE DEF S
    <2>3. QED
      BY <1>1, <2>2
  <1>6. \A row, ids : InOrder(OwnRoomProbe(row, ids))
    BY <1>3, <1>4 DEF OwnRoomProbe
  <1>7. QED
    BY <1>3, <1>4, <1>5, <1>6

\* The plan of a handler that writes one row is shaped as its probes are.
LEMMA PlanForShaped ==
    ASSUME NEW id \in Bookings, NEW probes, NEW columns, NEW row, NEW rooms, NEW says,
           InOrder(probes), row.status # "ABSENT",
           \A k \in Columns \ columns : row[k] = resv[id][k]
    PROVE  LET p == PlanFor(id, probes, columns, row, rooms, says)
           IN  Shaped(p) /\ ColumnsRead(p)
  <1> DEFINE p == PlanFor(id, probes, columns, row, rooms, says)
  <1>1. /\ p.probes = probes /\ p.ids = <<id>> /\ p.columns = columns
        /\ DOMAIN p.rows = {id} /\ p.rows[id] = row
    BY DEF PlanFor, Plan
  <1>2. Len(<<id>>) \in Nat \ {0}
    OBVIOUS
  <1> HIDE DEF p
  <1>3. Shaped(p)
    BY <1>1, <1>2 DEF Shaped, InOrder
  <1>4. ColumnsRead(p)
    BY <1>1 DEF ColumnsRead
  <1>5. QED
    BY <1>3, <1>4 DEF p

\* create() assigns every column of a row that is not there yet.
LEMMA CreateShaped ==
    ASSUME NEW id \in Bookings, NEW t \in Types, NEW r \in Rooms \cup {Null},
           NEW ci \in Days, NEW co \in Days, NEW status \in {"PENDING", "CONFIRMED"},
           NEW hold \in HoldKinds
    PROVE  LET p == CreatePlan(id, t, r, ci, co, status, hold)
           IN  Shaped(p) /\ ColumnsRead(p)
  <1> DEFINE row == [status |-> status, type |-> t, room |-> r, ci |-> ci, co |-> co,
                     nights |-> nightsBetween(ci, co), locked |-> FALSE, hold |-> hold]
             probes == IF status = "CONFIRMED"
                       THEN OwnRoomProbe(row, {}) \o <<TypeProbe(row, {}, grid[t])>>
                       ELSE <<>>
  <1>1. DOMAIN row = Columns /\ row.status # "ABSENT"
    BY DEF Columns
  <1>2. CreatePlan(id, t, r, ci, co, status, hold)
          = PlanFor(id, probes, DOMAIN row, row, NoRooms, status)
    BY DEF CreatePlan
  <1> HIDE DEF row
  <1>3. InOrder(probes)
    BY ProbesInOrder
  <1> HIDE DEF probes
  <1>4. QED
    BY <1>1, <1>2, <1>3, PlanForShaped

\* update() assigns the dates of the body, and the total.
LEMMA UpdateShaped ==
    ASSUME TableTyped, NEW id \in Bookings, NEW newCi \in Days \cup {Null},
           NEW newCo \in Days \cup {Null}, NEW reprice \in BOOLEAN,
           CanUpdate(id, newCi, newCo, reprice)
    PROVE  LET p == UpdatePlan(id, newCi, newCo, reprice)
           IN  Shaped(p) /\ ColumnsRead(p)
  <1> DEFINE before == resv[id]
             moving == newCi # Null \/ newCo # Null
             ci == OrElse(newCi, before.ci)
             co == OrElse(newCo, before.co)
             row == [before EXCEPT !.ci = ci, !.co = co, !.nights = nightsBetween(ci, co)]
             probes == IF moving /\ before.status = "CONFIRMED"
                       THEN OwnRoomProbe(row, {id})
                              \o <<TypeProbe(row, {id}, grid[before.type])>>
                       ELSE <<>>
             columns == {"nights"} \cup (IF newCi = Null THEN {} ELSE {"ci"})
                                   \cup (IF newCo = Null THEN {} ELSE {"co"})
  <1>1. before \in Rows
    BY RowRead
  <1>2. UpdatePlan(id, newCi, newCo, reprice)
          = PlanFor(id, probes, columns, row, NoRooms, Null)
    BY DEF UpdatePlan
  <1>3. /\ row.status = before.status /\ row.ci = ci /\ row.co = co
        /\ \A k \in Columns \ {"ci", "co", "nights"} : row[k] = before[k]
    BY <1>1 DEF Rows, Columns
  <1>4. row.status # "ABSENT"
    BY <1>3 DEF CanUpdate
  <1>5. \A k \in Columns \ columns : row[k] = resv[id][k]
    BY <1>3 DEF OrElse
  <1> HIDE DEF row, columns
  <1>6. InOrder(probes)
    BY ProbesInOrder
  <1> HIDE DEF probes
  <1>7. QED
    BY <1>2, <1>4, <1>5, <1>6, PlanForShaped

\* Every handler's plan is shaped, and writes what it read where it assigns nothing.
LEMMA IntendedShaped ==
    ASSUME TableTyped, NEW id \in Bookings, NEW p, Intended(id, p)
    PROVE  Shaped(p) /\ ColumnsRead(p)
  <1>1. resv[id] \in Rows
    BY RowRead
  <1>2. CASE \E t \in Types, r \in Rooms \cup {Null}, ci \in Days, co \in Days,
                status \in {"PENDING", "CONFIRMED"}, hold \in HoldKinds :
                p = CreatePlan(id, t, r, ci, co, status, hold)
    BY <1>2, CreateShaped
  <1>3. CASE \E newCi \in Days \cup {Null}, newCo \in Days \cup {Null}, reprice \in BOOLEAN :
                /\ CanUpdate(id, newCi, newCo, reprice)
                /\ p = UpdatePlan(id, newCi, newCo, reprice)
    BY <1>3, UpdateShaped
  <1>4. CASE \E newCo \in Days : CanExtend(id, newCo) /\ p = ExtendPlan(id, newCo)
    <2>1. PICK newCo \in Days : CanExtend(id, newCo) /\ p = ExtendPlan(id, newCo)
      BY <1>4
    <2> DEFINE row == [resv[id] EXCEPT !.co = newCo,
                                       !.nights = nightsBetween(resv[id].ci, newCo)]
               probes == IF row.room # Null THEN OwnRoomProbe(row, {id})
                                            ELSE <<TypeProbe(row, {id}, NoRules)>>
    <2>2. p = PlanFor(id, probes, {"co", "nights"}, row, NoRooms, Null)
      BY <2>1 DEF ExtendPlan
    <2>3. row.status # "ABSENT" /\ \A k \in Columns \ {"co", "nights"} : row[k] = resv[id][k]
      BY <1>1, <2>1 DEF Rows, Columns, CanExtend, Occupying
    <2> HIDE DEF row
    <2>4. InOrder(probes)
      BY ProbesInOrder
    <2> HIDE DEF probes
    <2>5. QED
      BY <2>2, <2>3, <2>4, PlanForShaped
  <1>5. CASE \E r \in Rooms : CanMove(id, r) /\ p = MovePlan(id, r)
    <2>1. PICK r \in Rooms : CanMove(id, r) /\ p = MovePlan(id, r)
      BY <1>5
    <2> DEFINE row == [resv[id] EXCEPT !.room = r, !.type = TypeOf[r],
                          !.nights = nightsBetween(resv[id].ci, resv[id].co)]
               rooms == [x \in ({resv[id].room} \ {Null}) \cup {r} |->
                            IF x = r THEN "OCCUPIED" ELSE "DIRTY"]
    <2>2. p = PlanFor(id, <<RoomProbe(r, row, {id})>>, {"room", "type", "nights"}, row,
                      rooms, Null)
      BY <2>1 DEF MovePlan
    <2>3. /\ row.status # "ABSENT"
          /\ \A k \in Columns \ {"room", "type", "nights"} : row[k] = resv[id][k]
      BY <1>1, <2>1 DEF Rows, Columns, CanMove
    <2> HIDE DEF row, rooms
    <2>4. QED
      BY <2>2, <2>3, ProbesInOrder, PlanForShaped
  <1>6. CASE CanConfirm(id) /\ p = ConfirmPlan(id)
    <2> DEFINE row == [resv[id] EXCEPT !.status = "CONFIRMED"]
               probes == OwnRoomProbe(row, {id}) \o <<TypeProbe(row, {id}, NoRules)>>
    <2>1. p = PlanFor(id, probes, {"status"}, row, NoRooms, "CONFIRMED")
      BY <1>6 DEF ConfirmPlan
    <2>2. row.status # "ABSENT" /\ \A k \in Columns \ {"status"} : row[k] = resv[id][k]
      BY <1>1 DEF Rows, Columns
    <2> HIDE DEF row
    <2>3. InOrder(probes)
      BY ProbesInOrder
    <2> HIDE DEF probes
    <2>4. QED
      BY <2>1, <2>2, <2>3, PlanForShaped
  <1>7. CASE \E r \in Rooms : CanAssign(id, r) /\ p = AssignPlan(id, r)
    <2>1. PICK r \in Rooms : CanAssign(id, r) /\ p = AssignPlan(id, r)
      BY <1>7
    <2> DEFINE row == [resv[id] EXCEPT !.room = r]
    <2>2. p = PlanFor(id, <<RoomProbe(r, row, {id})>>, {"room"}, row, NoRooms, Null)
      BY <2>1 DEF AssignPlan
    <2>3. row.status # "ABSENT" /\ \A k \in Columns \ {"room"} : row[k] = resv[id][k]
      BY <1>1, <2>1 DEF Rows, Columns, CanAssign
    <2> HIDE DEF row
    <2>4. QED
      BY <2>2, <2>3, ProbesInOrder, PlanForShaped
  <1>8. CASE \E named \in Rooms \cup {Null} :
                CanCheckIn(id, named) /\ p = CheckInPlan(id, named)
    <2>1. PICK named \in Rooms \cup {Null} :
             CanCheckIn(id, named) /\ p = CheckInPlan(id, named)
      BY <1>8
    <2> DEFINE r == OrElse(named, resv[id].room)
               row == [resv[id] EXCEPT !.status = "CHECKED_IN", !.room = r]
               rooms == [x \in {r} |-> "OCCUPIED"]
    <2>2. p = PlanFor(id, <<RoomProbe(r, row, {id})>>, {"status", "room"}, row, rooms,
                      "CHECKED_IN")
      BY <2>1 DEF CheckInPlan
    <2>3. /\ row.status # "ABSENT"
          /\ \A k \in Columns \ {"status", "room"} : row[k] = resv[id][k]
      BY <1>1 DEF Rows, Columns
    <2> HIDE DEF row, rooms
    <2>4. QED
      BY <2>2, <2>3, ProbesInOrder, PlanForShaped
  <1>9. ASSUME NEW s \in {"CHECKED_OUT", "CANCELLED", "NO_SHOW"}, NEW rooms,
               p = PlanFor(id, <<>>, {"status"}, [resv[id] EXCEPT !.status = s], rooms, s)
        PROVE  Shaped(p) /\ ColumnsRead(p)
    <2> DEFINE row == [resv[id] EXCEPT !.status = s]
    <2>1. row.status # "ABSENT" /\ \A k \in Columns \ {"status"} : row[k] = resv[id][k]
      BY <1>1 DEF Rows, Columns
    <2> HIDE DEF row
    <2>2. p = PlanFor(id, <<>>, {"status"}, row, rooms, s)
      BY <1>9 DEF row
    <2>3. QED
      BY <2>1, <2>2, ProbesInOrder, PlanForShaped
  <1>10. CASE \/ CanCheckOut(id) /\ p = CheckOutPlan(id)
              \/ CanCancel(id) /\ p = CancelPlan(id)
              \/ CanNoShow(id) /\ p = NoShowPlan(id)
    BY <1>9, <1>10 DEF CheckOutPlan, CancelPlan, NoShowPlan
  <1>11. CASE \E locked \in BOOLEAN : CanLock(id, locked) /\ p = LockPlan(id, locked)
    <2>1. PICK locked \in BOOLEAN : CanLock(id, locked) /\ p = LockPlan(id, locked)
      BY <1>11
    <2> DEFINE row == [resv[id] EXCEPT !.locked = locked]
    <2>2. p = PlanFor(id, <<>>, {"locked"}, row, NoRooms, Null)
      BY <2>1 DEF LockPlan
    <2>3. row.status # "ABSENT" /\ \A k \in Columns \ {"locked"} : row[k] = resv[id][k]
      BY <1>1, <2>1 DEF Rows, Columns, CanLock
    <2> HIDE DEF row
    <2>4. QED
      BY <2>2, <2>3, ProbesInOrder, PlanForShaped
  <1>12. CASE \E other \in Bookings : CanSwap(id, other) /\ p = SwapPlan(id, other)
    <2>1. PICK other \in Bookings : CanSwap(id, other) /\ p = SwapPlan(id, other)
      BY <1>12
    <2> DEFINE row(x) == [resv[x] EXCEPT !.room = IF x = id THEN resv[other].room
                                                            ELSE resv[id].room]
    <2>2. /\ Len(p.probes) = 2 /\ DOMAIN p.probes = 1 .. 2 /\ Len(p.ids) = 2
          /\ p.columns = {"room"}
          /\ DOMAIN p.rows = {id, other}
          /\ \A x \in {id, other} : p.rows[x] = row(x)
      BY <2>1 DEF SwapPlan, Plan
    <2>3. ASSUME NEW x \in {id, other}
          PROVE  /\ row(x).status = resv[x].status /\ resv[x].status # "ABSENT"
                 /\ \A k \in Columns \ {"room"} : row(x)[k] = resv[x][k]
      <3>1. resv[x] \in Rows /\ resv[x].status \in Occupying
        BY <2>1, RowRead DEF CanSwap
      <3>2. row(x).status = resv[x].status
        BY <3>1 DEF Rows
      <3>3. QED
        BY <3>1, <3>2 DEF Rows, Columns, Occupying
    <2> HIDE DEF row
    <2>4. Shaped(p)
      BY <2>2, <2>3 DEF Shaped
    <2>5. ColumnsRead(p)
      BY <2>2, <2>3 DEF ColumnsRead
    <2>6. QED
      BY <2>4, <2>5
  <1>13. QED
    BY <1>2, <1>3, <1>4, <1>5, <1>6, <1>7, <1>8, <1>10, <1>11, <1>12 DEF Intended

=============================================================================
