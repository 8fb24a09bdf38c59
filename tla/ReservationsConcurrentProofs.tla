-------------------- MODULE ReservationsConcurrentProofs --------------------
(***************************************************************************)
(* What the requests of ReservationsConcurrent keep when they overlap, for *)
(* any number of clerks, bookings, rooms and requests.                     *)
(*                                                                         *)
(* The argument: the plan of a request in flight was sound at its first    *)
(* read.  It still is on the rows that nobody has changed since; its       *)
(* probes that have passed have no clash among those rows, and the probe   *)
(* under way has locked, or has still to lock, every one of them that      *)
(* clashes.  While nobody has committed at all, the plan is one that the   *)
(* handler would still make, and its probes are still right.               *)
(***************************************************************************)
EXTENDS ReservationsConcurrent, ReservationPlanProofs, FiniteSetTheorems

USE CountsAssumption, HorizonAssumption, TypeOfAssumption, NullAssumption
    DEF Bookings, Rooms, Days

Steps == {"idle", "probe", "scan", "lock", "count", "write"}

\* A request in flight, whatever its plan.
Requests(p) ==
    [pc : Steps, plan : {p}, probe : Nat, rooms : Nat, todo : SUBSET Bookings,
     found : SUBSET Bookings, wrote : Nat, attempt : Nat, number : Nat]

TxTyped ==
    /\ tx = [c \in Clerks |-> tx[c]]
    /\ \A c \in Clerks : tx[c] \in Requests(tx[c].plan)
    /\ disturbed \in [Clerks -> BOOLEAN]
    /\ changed \in [Clerks -> SUBSET Bookings]
    /\ number \in [Bookings -> Nat]

\* What the plan says of row b is what it said at the first read.
RowStands(p, b) ==
    /\ (p.rows[b].status \in Occupying /\ p.rows[b].room # Null)
          => Probed(p, p.rows[b]) \/ Kept(p.rows[b], resv[b])
    /\ \A k \in Columns \ p.columns : p.rows[b][k] = resv[b][k]

\* The plan of a request, on the rows that nobody has changed since.
PlanStands(p, gone) ==
    /\ WellFormed(p)
    /\ Shaped(p)
    /\ \A b \in DOMAIN p.rows \ gone : RowStands(p, b)
    /\ \A a, b \in DOMAIN p.rows \ gone :
          a # b /\ Collide(p.rows[a], p.rows[b]) => Collide(resv[a], resv[b])

\* The request's probes, on the rows that nobody has changed since.
ProbesStand(t, gone) ==
    /\ t.pc \in {"probe", "scan", "lock"} => t.probe \in DOMAIN t.plan.probes
    /\ t.pc \in {"count", "write"} => t.probe > Len(t.plan.probes)
    /\ t.pc # "write" => t.wrote = 0
    /\ \A i \in DOMAIN t.plan.probes, b \in Bookings \ gone :
          i < t.probe /\ t.plan.probes[i].room # Null => ~Clashes(t.plan.probes[i], b)
    /\ t.pc = "lock" =>
          \A b \in Bookings \ gone :
             Clashes(t.plan.probes[t.probe], b) => b \in t.todo \cup t.found

\* The probe passes in the tables as they are.
WouldPass(q) ==
    Passes(q, {b \in Bookings : Clashes(q, b)}, IF q.room = Null THEN Sellable(q.type) ELSE 0)

\* A request that nobody has disturbed: the handler would go on the same way now.
StillMeant(t) ==
    /\ \E id \in Bookings : Intended(id, t.plan)
    /\ \A i \in DOMAIN t.plan.probes : i < t.probe => WouldPass(t.plan.probes[i])
    /\ t.pc = "lock" => t.todo \cup t.found = {b \in Bookings : Clashes(t.plan.probes[t.probe], b)}
    /\ t.pc \in {"scan", "lock"} /\ t.plan.probes[t.probe].room = Null
          => t.rooms = Sellable(t.plan.probes[t.probe].type)

RequestInv(c) ==
    tx[c].pc # "idle" =>
        /\ PlanStands(tx[c].plan, changed[c])
        /\ ProbesStand(tx[c], changed[c])
        /\ ~disturbed[c] => StillMeant(tx[c])

\* An insert in flight has its number to itself.
Taken(c) == tx[c].pc = "write" /\ tx[c].wrote > 0 /\ Inserts(tx[c].plan)

NumbersHeld ==
    \A c \in Clerks :
        Taken(c) => /\ \A b \in Bookings : number[b] # tx[c].number
                    /\ \A d \in Clerks \ {c} : Taken(d) => tx[d].number # tx[c].number

Inv ==
    /\ TypeOK
    /\ TxTyped
    /\ \A c \in Clerks : RequestInv(c) /\ (~disturbed[c] => changed[c] = {})
    /\ NumbersHeld
    /\ NumbersUnique

-----------------------------------------------------------------------------
(* Facts that last as long as the rows they are about *)

\* A clash is a matter of the row alone.
LEMMA ClashStays ==
    ASSUME NEW q, NEW b, resv'[b] = resv[b]
    PROVE  Clashes(q, b)' <=> Clashes(q, b)
  BY DEF Clashes

\* While the tables stand, a probe passes or not as before.
LEMMA PassStays ==
    ASSUME NEW q, UNCHANGED vars
    PROVE  WouldPass(q)' <=> WouldPass(q)
  BY DEF vars, WouldPass, Passes, Clashes, Sellable

\* While the tables stand, the handlers go on the same way.
LEMMA IntentStays ==
    ASSUME NEW id, NEW p, UNCHANGED vars, Intended(id, p)
    PROVE  Intended(id, p)'
  <1>1. ASSUME NEW t, NEW r, NEW ci, NEW co, NEW s, NEW h
        PROVE  CreatePlan(id, t, r, ci, co, s, h)' = CreatePlan(id, t, r, ci, co, s, h)
    BY DEF vars, CreatePlan
  <1>2. ASSUME NEW ci, NEW co, NEW reprice
        PROVE  /\ CanUpdate(id, ci, co, reprice)' <=> CanUpdate(id, ci, co, reprice)
               /\ UpdatePlan(id, ci, co, reprice)' = UpdatePlan(id, ci, co, reprice)
    BY DEF vars, CanUpdate, UpdatePlan
  <1>3. ASSUME NEW co
        PROVE  /\ CanExtend(id, co)' <=> CanExtend(id, co)
               /\ ExtendPlan(id, co)' = ExtendPlan(id, co)
    BY DEF vars, CanExtend, ExtendPlan
  <1>4. ASSUME NEW r
        PROVE  /\ CanMove(id, r)' <=> CanMove(id, r)
               /\ MovePlan(id, r)' = MovePlan(id, r)
               /\ CanAssign(id, r)' <=> CanAssign(id, r)
               /\ AssignPlan(id, r)' = AssignPlan(id, r)
               /\ CanCheckIn(id, r)' <=> CanCheckIn(id, r)
               /\ CheckInPlan(id, r)' = CheckInPlan(id, r)
    BY DEF vars, CanMove, MovePlan, CanAssign, AssignPlan, CanCheckIn, CheckInPlan
  <1>5. /\ CanConfirm(id)' <=> CanConfirm(id)
        /\ ConfirmPlan(id)' = ConfirmPlan(id)
        /\ CanCheckOut(id)' <=> CanCheckOut(id)
        /\ CheckOutPlan(id)' = CheckOutPlan(id)
        /\ CanCancel(id)' <=> CanCancel(id)
        /\ CancelPlan(id)' = CancelPlan(id)
        /\ CanNoShow(id)' <=> CanNoShow(id)
        /\ NoShowPlan(id)' = NoShowPlan(id)
    BY DEF vars, CanConfirm, ConfirmPlan, CanCheckOut, CheckOutPlan, CanCancel, CancelPlan,
           CanNoShow, NoShowPlan
  <1>6. ASSUME NEW locked
        PROVE  /\ CanLock(id, locked)' <=> CanLock(id, locked)
               /\ LockPlan(id, locked)' = LockPlan(id, locked)
    BY DEF vars, CanLock, LockPlan
  <1>7. ASSUME NEW other
        PROVE  /\ CanSwap(id, other)' <=> CanSwap(id, other)
               /\ SwapPlan(id, other)' = SwapPlan(id, other)
    BY DEF vars, CanSwap, SwapPlan
  <1>8. resv'[id] = resv[id]
    BY DEF vars
  <1>9. CASE \E t \in Types, r \in Rooms \cup {Null}, ci \in Days, co \in Days,
                 s \in {"PENDING", "CONFIRMED"}, h \in HoldKinds :
                 /\ resv[id].status = "ABSENT"
                 /\ CanCreate(id, t, r, ci, co, s, h)
                 /\ p = CreatePlan(id, t, r, ci, co, s, h)
    <2>1. PICK t \in Types, r \in Rooms \cup {Null}, ci \in Days, co \in Days,
               s \in {"PENDING", "CONFIRMED"}, h \in HoldKinds :
               /\ resv[id].status = "ABSENT"
               /\ CanCreate(id, t, r, ci, co, s, h)
               /\ p = CreatePlan(id, t, r, ci, co, s, h)
      BY <1>9
    <2>2. /\ (resv[id].status = "ABSENT")'
          /\ CanCreate(id, t, r, ci, co, s, h)'
          /\ p = CreatePlan(id, t, r, ci, co, s, h)'
      BY <2>1, <1>1, <1>8 DEF CanCreate
    <2>3. QED
      BY <2>2 DEF Intended
  <1>10. CASE \E ci \in Days \cup {Null}, co \in Days \cup {Null}, reprice \in BOOLEAN :
                 CanUpdate(id, ci, co, reprice) /\ p = UpdatePlan(id, ci, co, reprice)
    <2>1. PICK ci \in Days \cup {Null}, co \in Days \cup {Null}, reprice \in BOOLEAN :
                  CanUpdate(id, ci, co, reprice) /\ p = UpdatePlan(id, ci, co, reprice)
      BY <1>10
    <2>2. /\ CanUpdate(id, ci, co, reprice)'
          /\ p = UpdatePlan(id, ci, co, reprice)'
      BY <2>1, <1>2
    <2>3. QED
      BY <2>2 DEF Intended
  <1>11. CASE \/ \E co \in Days : CanExtend(id, co) /\ p = ExtendPlan(id, co)
              \/ \E r \in Rooms : CanMove(id, r) /\ p = MovePlan(id, r)
              \/ \E r \in Rooms : CanAssign(id, r) /\ p = AssignPlan(id, r)
              \/ \E named \in Rooms \cup {Null} :
                    CanCheckIn(id, named) /\ p = CheckInPlan(id, named)
    <2>1. CASE \E co \in Days : CanExtend(id, co) /\ p = ExtendPlan(id, co)
      BY <1>3, <2>1, Zenon DEF Intended
    <2>2. CASE \E r \in Rooms : CanMove(id, r) /\ p = MovePlan(id, r)
      BY <1>4, <2>2, Zenon DEF Intended
    <2>3. CASE \E r \in Rooms : CanAssign(id, r) /\ p = AssignPlan(id, r)
      BY <1>4, <2>3, Zenon DEF Intended
    <2>4. CASE \E named \in Rooms \cup {Null} :
                  CanCheckIn(id, named) /\ p = CheckInPlan(id, named)
      BY <1>4, <2>4, Zenon DEF Intended
    <2>5. QED
      BY <1>11, <2>1, <2>2, <2>3, <2>4
  <1>12. CASE \/ CanConfirm(id) /\ p = ConfirmPlan(id)
              \/ CanCheckOut(id) /\ p = CheckOutPlan(id)
              \/ CanCancel(id) /\ p = CancelPlan(id)
              \/ CanNoShow(id) /\ p = NoShowPlan(id)
    BY <1>5, <1>12 DEF Intended
  <1>13. CASE \/ \E locked \in BOOLEAN : CanLock(id, locked) /\ p = LockPlan(id, locked)
              \/ \E other \in Bookings : CanSwap(id, other) /\ p = SwapPlan(id, other)
    BY <1>6, <1>7, <1>13 DEF Intended
  <1>14. QED
    BY <1>9, <1>10, <1>11, <1>12, <1>13 DEF Intended

\* No row is deleted.
NoneVanishes == \A b \in Bookings : resv'[b].status = "ABSENT" => resv[b].status = "ABSENT"

\* The plan still stands on the rows that nobody has changed even now.
LEMMA PlanStays ==
    ASSUME NEW p, NEW gone, NEW goneNow, PlanStands(p, gone), gone \subseteq goneNow,
           \A b \in Bookings \ goneNow : resv'[b] = resv[b], NoneVanishes
    PROVE  PlanStands(p, goneNow)'
  <1>1. WellFormed(p)
    BY DEF PlanStands
  <1>2. \A b \in DOMAIN p.rows : b \in Bookings
    BY <1>1 DEF WellFormed
  <1>3. Shaped(p)'
    BY <1>2 DEF PlanStands, Shaped, NoneVanishes
  <1>4. ASSUME NEW b \in DOMAIN p.rows \ goneNow
        PROVE  RowStands(p, b)'
    <2>1. RowStands(p, b) /\ resv'[b] = resv[b]
      BY <1>2 DEF PlanStands
    <2>2. QED
      BY <2>1 DEF RowStands
  <1>5. ASSUME NEW a \in DOMAIN p.rows \ goneNow, NEW b \in DOMAIN p.rows \ goneNow,
               a # b, Collide(p.rows[a], p.rows[b])
        PROVE  Collide(resv'[a], resv'[b])
    BY <1>2, <1>5 DEF PlanStands
  <1>6. WellFormed(p)'
    BY <1>1 DEF WellFormed
  <1>7. QED
    BY <1>3, <1>4, <1>5, <1>6 DEF PlanStands

\* So do its probes.
LEMMA ProbesStay ==
    ASSUME NEW t, NEW gone, NEW goneNow, ProbesStand(t, gone), gone \subseteq goneNow,
           \A b \in Bookings \ goneNow : resv'[b] = resv[b]
    PROVE  ProbesStand(t, goneNow)'
  <1>1. \A q, b : b \in Bookings \ goneNow => (Clashes(q, b)' <=> Clashes(q, b))
    BY ClashStays
  <1>2. QED
    BY <1>1 DEF ProbesStand

\* And while the tables stand, the handler would go on the same way.
LEMMA MeantStays ==
    ASSUME NEW t, StillMeant(t), UNCHANGED vars
    PROVE  StillMeant(t)'
  <1>1. \E id \in Bookings : Intended(id, t.plan)'
    BY IntentStays DEF StillMeant
  <1>2. \A q : WouldPass(q)' <=> WouldPass(q)
    BY PassStays
  <1>3. \A q, b : Clashes(q, b)' <=> Clashes(q, b)
    BY ClashStays DEF vars
  <1>4. \A q : {b \in Bookings : Clashes(q, b)}' = {b \in Bookings : Clashes(q, b)}
    BY <1>3
  <1>5. \A x : Sellable(x)' = Sellable(x)
    BY DEF Sellable, vars
  <1>6. QED
    BY <1>1, <1>2, <1>4, <1>5 DEF StillMeant

\* A request that does not move keeps its invariant, if the rows that others
\* change are on its list and a change of anything at all disturbs it.
LEMMA RequestStays ==
    ASSUME NEW d \in Clerks, RequestInv(d), tx'[d] = tx[d], NoneVanishes,
           tx[d].pc # "idle" =>
             /\ changed[d] \subseteq changed'[d]
             /\ \A b \in Bookings \ changed'[d] : resv'[b] = resv[b]
             /\ disturbed'[d] \/ (UNCHANGED vars /\ disturbed'[d] = disturbed[d])
    PROVE  RequestInv(d)'
  <1> SUFFICES ASSUME tx[d].pc # "idle"
               PROVE  RequestInv(d)'
    BY DEF RequestInv
  <1>1. PICK t, gone, goneNow : t = tx[d] /\ gone = changed[d] /\ goneNow = changed'[d]
    OBVIOUS
  <1>2. PlanStands(t.plan, goneNow)'
    BY <1>1, PlanStays DEF RequestInv
  <1>3. ProbesStand(t, goneNow)'
    BY <1>1, ProbesStay DEF RequestInv
  <1>4. ~disturbed'[d] => StillMeant(t)'
    BY <1>1, MeantStays DEF RequestInv
  <1>5. QED
    BY <1>1, <1>2, <1>3, <1>4 DEF RequestInv

-----------------------------------------------------------------------------
(* A request goes on: the tables stand, and nobody else notices *)

\* Request c becomes t, and locks or frees rows.
Moves(c, t) ==
    /\ UNCHANGED <<vars, number, disturbed, changed>>
    /\ tx' = [tx EXCEPT ![c] = t]
    /\ lock' \in [Bookings -> Clerks \cup {Null}]
    /\ \A b \in Bookings : lock'[b] \in {lock[b], c, Null}

\* The number of t is its own, if t has inserted a row.
NumberFree(c, t) ==
    (t.pc = "write" /\ t.wrote > 0 /\ Inserts(t.plan)) =>
        /\ \A b \in Bookings : number[b] # t.number
        /\ \A d \in Clerks \ {c} : Taken(d) => tx[d].number # t.number

\* The others, and the tables, when request c becomes t.
LEMMA OthersStay ==
    ASSUME Inv, NEW c \in Clerks, NEW t, Moves(c, t)
    PROVE  /\ NoneVanishes
           /\ tx'[c] = t /\ \A d \in Clerks \ {c} : tx'[d] = tx[d] /\ RequestInv(d)'
           /\ tx' = [d \in Clerks |-> tx'[d]]
  <1>1. tx = [d \in Clerks |-> tx[d]]
    BY DEF Inv, TxTyped
  <1>2. tx'[c] = t /\ \A d \in Clerks \ {c} : tx'[d] = tx[d]
    BY <1>1 DEF Moves
  <1>3. tx' = [d \in Clerks |-> tx'[d]]
    BY <1>1 DEF Moves
  <1>4. resv' = resv /\ changed' = changed /\ disturbed' = disturbed /\ UNCHANGED vars
    BY DEF Moves, vars
  <1>5. NoneVanishes
    BY <1>4 DEF NoneVanishes
  <1>6. ASSUME NEW d \in Clerks \ {c}
        PROVE  RequestInv(d)'
    <2>1. RequestInv(d) /\ tx'[d] = tx[d]
      BY <1>2 DEF Inv
    <2>2. QED
      BY <2>1, <1>4, <1>5, RequestStays
  <1>7. QED
    BY <1>2, <1>3, <1>5, <1>6

\* If t is as a request in flight should be, everything is as it should be.
LEMMA MovedOn ==
    ASSUME Inv, NEW c \in Clerks, NEW t, Moves(c, t),
           t \in Requests(t.plan), t.pc # "idle",
           PlanStands(t.plan, changed[c]), ProbesStand(t, changed[c]),
           ~disturbed[c] => StillMeant(t), NumberFree(c, t)
    PROVE  Inv'
  <1>1. /\ tx'[c] = t /\ \A d \in Clerks \ {c} : tx'[d] = tx[d] /\ RequestInv(d)'
        /\ tx' = [d \in Clerks |-> tx'[d]] /\ NoneVanishes
    BY OthersStay
  <1>2. /\ resv' = resv /\ roomStatus' = roomStatus /\ number' = number
        /\ changed' = changed /\ disturbed' = disturbed /\ UNCHANGED vars
    BY DEF Moves, vars
  <1>3. TxTyped'
    <2>1. \A d \in Clerks : tx'[d] \in Requests(tx'[d].plan)
      BY <1>1 DEF Inv, TxTyped
    <2>2. QED
      BY <1>1, <1>2, <2>1 DEF Inv, TxTyped
  <1>4. TypeOK'
    <2>1. \A d \in Clerks : tx'[d].pc \in Steps
      BY <1>3 DEF TxTyped, Requests
    <2>2. \A b \in Bookings : lock'[b] # Null => tx'[lock'[b]].pc # "idle"
      BY <1>1 DEF Moves, Inv, TypeOK
    <2>3. QED
      BY <1>2, <2>1, <2>2 DEF Inv, TypeOK, Moves, Steps
  <1>5. RequestInv(c)'
    <2>1. PICK gone : gone = changed[c]
      OBVIOUS
    <2>2. PlanStands(t.plan, gone)'
      BY <2>1, <1>1, <1>2, PlanStays
    <2>3. ProbesStand(t, gone)'
      BY <2>1, <1>2, ProbesStay
    <2>4. ~disturbed[c] => StillMeant(t)'
      BY <1>2, MeantStays
    <2>5. QED
      BY <1>1, <1>2, <2>1, <2>2, <2>3, <2>4 DEF RequestInv
  <1>6. NumbersHeld'
    <2>1. \A p : Inserts(p)' <=> Inserts(p)
      BY <1>2 DEF Inserts
    <2>2. \A d \in Clerks \ {c} : Taken(d)' <=> Taken(d)
      BY <1>1, <2>1 DEF Taken
    <2>3. Taken(c)' <=> t.pc = "write" /\ t.wrote > 0 /\ Inserts(t.plan)
      BY <1>1, <2>1 DEF Taken
    <2>4. QED
      BY <1>1, <1>2, <2>2, <2>3 DEF Inv, NumbersHeld, NumberFree
  <1>7. NumbersUnique'
    BY <1>2 DEF Inv, NumbersUnique
  <1>8. QED
    BY <1>1, <1>2, <1>3, <1>4, <1>5, <1>6, <1>7 DEF Inv

\* A request that ends leaves nothing behind.
LEMMA Ended ==
    ASSUME Inv, NEW c \in Clerks, End(c), UNCHANGED <<vars, number>>
    PROVE  Inv'
  <1>1. /\ resv' = resv /\ roomStatus' = roomStatus /\ number' = number /\ UNCHANGED vars
        /\ lock' = [b \in Bookings |-> IF lock[b] = c THEN Null ELSE lock[b]]
    BY DEF End, Release, vars
  <1>2. /\ tx'[c] = Idle /\ disturbed'[c] = FALSE /\ changed'[c] = {}
        /\ tx' = [d \in Clerks |-> tx'[d]]
        /\ \A d \in Clerks \ {c} : /\ tx'[d] = tx[d] /\ disturbed'[d] = disturbed[d]
                                   /\ changed'[d] = changed[d]
    BY DEF End, Inv, TxTyped
  <1>3. Idle.pc = "idle" /\ Idle \in Requests(Idle.plan)
    BY DEF Idle, Requests, Steps
  <1>4. NoneVanishes
    BY <1>1 DEF NoneVanishes
  <1>5. TxTyped'
    <2>1. \A d \in Clerks : tx'[d] \in Requests(tx'[d].plan)
      BY <1>2, <1>3 DEF Inv, TxTyped
    <2>2. disturbed' \in [Clerks -> BOOLEAN] /\ changed' \in [Clerks -> SUBSET Bookings]
      BY DEF End, Inv, TxTyped
    <2>3. QED
      BY <1>1, <1>2, <2>1, <2>2 DEF Inv, TxTyped
  <1>6. TypeOK'
    <2>1. \A d \in Clerks : tx'[d].pc \in Steps
      BY <1>5 DEF TxTyped, Requests
    <2>2. \A b \in Bookings : lock'[b] # Null => tx'[lock'[b]].pc # "idle"
      BY <1>1, <1>2 DEF Inv, TypeOK
    <2>3. lock' \in [Bookings -> Clerks \cup {Null}]
      BY <1>1 DEF Inv, TypeOK
    <2>4. QED
      BY <1>1, <2>1, <2>2, <2>3 DEF Inv, TypeOK, Steps
  <1>7. ASSUME NEW d \in Clerks
        PROVE  RequestInv(d)' /\ (~disturbed'[d] => changed'[d] = {})
    <2>1. CASE d = c
      BY <1>2, <1>3, <2>1 DEF RequestInv
    <2>2. CASE d # c
      <3>1. RequestInv(d) /\ (~disturbed[d] => changed[d] = {})
        BY DEF Inv
      <3>2. \A b \in Bookings : resv'[b] = resv[b]
        BY <1>1
      <3>3. RequestInv(d)'
        BY <1>1, <1>2, <1>4, <2>2, <3>1, <3>2, RequestStays
      <3>4. QED
        BY <1>2, <2>2, <3>1, <3>3
    <2>3. QED
      BY <2>1, <2>2
  <1>8. NumbersHeld'
    <2>1. \A p : Inserts(p)' <=> Inserts(p)
      BY <1>1 DEF Inserts
    <2>2. \A d \in Clerks \ {c} : Taken(d)' <=> Taken(d)
      BY <1>2, <2>1 DEF Taken
    <2>3. ~Taken(c)'
      BY <1>2, <1>3 DEF Taken
    <2>4. QED
      BY <1>1, <1>2, <2>2, <2>3 DEF Inv, NumbersHeld
  <1>9. NumbersUnique'
    BY <1>1 DEF Inv, NumbersUnique
  <1>10. QED
    BY <1>5, <1>6, <1>7, <1>8, <1>9 DEF Inv

-----------------------------------------------------------------------------
(* The statements of a request *)

\* A request's first read fixes a plan that some handler has (the guards of ReservationsService).
LEMMA AsksIntends ==
    ASSUME NEW c \in Clerks, Asks(c)
    PROVE  \E id \in Bookings : \E p : Intended(id, p) /\ Begin(c, p)
  <1>1. CASE BeginCreate(c)
    <2>1. PICK id \in Bookings :
             /\ Fresh(id)
             /\ \E t \in Types, r \in Rooms \cup {Null}, ci \in Days, co \in Days,
                   status \in {"PENDING", "CONFIRMED"}, hold \in HoldKinds :
                   /\ CanCreate(id, t, r, ci, co, status, hold)
                   /\ Begin(c, CreatePlan(id, t, r, ci, co, status, hold))
      BY <1>1 DEF BeginCreate
    <2>2. PICK t \in Types, r \in Rooms \cup {Null}, ci \in Days, co \in Days,
               status \in {"PENDING", "CONFIRMED"}, hold \in HoldKinds :
               /\ CanCreate(id, t, r, ci, co, status, hold)
               /\ Begin(c, CreatePlan(id, t, r, ci, co, status, hold))
      BY <2>1
    <2>3. Intended(id, CreatePlan(id, t, r, ci, co, status, hold))
      BY <2>1, <2>2 DEF Intended, Fresh
    <2>4. QED
      BY <2>2, <2>3
  <1>2. CASE BeginUpdate(c)
    <2>1. PICK id \in Bookings, newCi \in Days \cup {Null}, newCo \in Days \cup {Null},
               reprice \in BOOLEAN :
               /\ CanUpdate(id, newCi, newCo, reprice)
               /\ Begin(c, UpdatePlan(id, newCi, newCo, reprice))
      BY <1>2 DEF BeginUpdate
    <2>2. Intended(id, UpdatePlan(id, newCi, newCo, reprice))
      BY <2>1 DEF Intended
    <2>3. QED
      BY <2>1, <2>2
  <1>3. CASE BeginExtend(c) \/ BeginMove(c) \/ BeginAssign(c) \/ BeginCheckIn(c)
    BY <1>3 DEF Intended, BeginExtend, BeginMove, BeginAssign, BeginCheckIn
  <1>4. CASE BeginConfirm(c) \/ BeginCheckOut(c) \/ BeginCancel(c) \/ BeginNoShow(c)
    BY <1>4 DEF Intended, BeginConfirm, BeginCheckOut, BeginCancel, BeginNoShow
  <1>5. CASE BeginLock(c) \/ BeginSwap(c)
    BY <1>5 DEF Intended, BeginLock, BeginSwap
  <1>6. QED
    BY <1>1, <1>2, <1>3, <1>4, <1>5 DEF Asks

\* A transaction that opens has no probe behind it.
LEMMA OpenedStands ==
    ASSUME NEW p, NEW attempt \in Nat, NEW gone, Shaped(p)
    PROVE  LET t == Opened(p, attempt)
           IN  /\ t \in Requests(p) /\ t.plan = p /\ t.wrote = 0
               /\ t.pc \in {"probe", "count", "write"}
               /\ ProbesStand(t, gone)
               /\ (\E id \in Bookings : Intended(id, p)) => StillMeant(t)
  <1> DEFINE t == Opened(p, attempt)
  <1>1. t.plan = p /\ t.wrote = 0 /\ t.probe = 1 /\ t.pc = PcBefore(p, 1)
    BY DEF Opened, Idle
  <1>2. PcBefore(p, 1) \in {"probe", "count", "write"}
    BY DEF PcBefore
  <1>3. t \in Requests(p)
    BY <1>2 DEF Opened, Idle, Requests, Steps
  <1> HIDE DEF t
  <1>4. ProbesStand(t, gone)
    <2>1. t.pc = "probe" => 1 \in DOMAIN p.probes
      BY <1>1 DEF PcBefore, Shaped
    <2>2. t.pc \in {"count", "write"} => 1 > Len(p.probes)
      BY <1>1 DEF PcBefore, Shaped
    <2>3. \A i \in DOMAIN p.probes : ~(i < 1)
      BY DEF Shaped
    <2>4. QED
      BY <1>1, <1>2, <2>1, <2>2, <2>3 DEF ProbesStand
  <1>5. (\E id \in Bookings : Intended(id, p)) => StillMeant(t)
    <2>1. \A i \in DOMAIN p.probes : ~(i < 1)
      BY DEF Shaped
    <2>2. QED
      BY <1>1, <1>2, <2>1 DEF StillMeant
  <1>6. QED
    BY <1>1, <1>2, <1>3, <1>4, <1>5 DEF t

\* What a handler has just read stands.
LEMMA IntendedStands ==
    ASSUME TableTyped, NEW id \in Bookings, NEW p, Intended(id, p), NEW gone
    PROVE  PlanStands(p, gone)
  <1>1. WellFormed(p) /\ Sound(p) /\ Shaped(p) /\ ColumnsRead(p)
    BY IntendedSound, IntendedShaped
  <1>2. QED
    BY <1>1 DEF PlanStands, RowStands, Sound, ColumnsRead

\* The first read of a request.
LEMMA AsksKeeps ==
    ASSUME Inv, NEW c \in Clerks, Asks(c)
    PROVE  Inv'
  <1>1. PICK id, p : id \in Bookings /\ Intended(id, p) /\ Begin(c, p)
    BY AsksIntends
  <1> DEFINE t == Opened(p, 0)
  <1>2. TableTyped
    BY DEF Inv, TypeOK, TableTyped
  <1>3. \A gone : PlanStands(p, gone)
    BY <1>1, <1>2, IntendedStands
  <1>4. Shaped(p)
    BY <1>3 DEF PlanStands
  <1>5. /\ t \in Requests(p) /\ t.plan = p /\ t.wrote = 0
        /\ t.pc \in {"probe", "count", "write"}
        /\ ProbesStand(t, changed[c]) /\ StillMeant(t)
    BY <1>1, <1>4, OpenedStands
  <1>6. Moves(c, t)
    BY <1>1 DEF Begin, Moves, Inv, TypeOK
  <1> HIDE DEF t
  <1>7. NumberFree(c, t)
    BY <1>5 DEF NumberFree
  <1>8. QED
    BY <1>3, <1>5, <1>6, <1>7, MovedOn

\* Rooms can be counted.
LEMMA SellableNat == \A t : Sellable(t) \in Nat
  <1>1. IsFiniteSet(1 .. RoomCount)
    BY FS_Interval
  <1>2. ASSUME NEW t
        PROVE  Sellable(t) \in Nat
    BY <1>1, FS_Subset, FS_CardinalityType DEF Sellable
  <1>3. QED
    BY <1>2

\* A statement that changes nothing that a request in flight has to keep.
LEMMA CountRoomsKeeps ==
    ASSUME Inv, NEW c \in Clerks, CountRooms(c)
    PROVE  Inv'
  <1> DEFINE u == tx[c]
             t == [u EXCEPT !.pc = "scan", !.rooms = Sellable(u.plan.probes[u.probe].type)]
  <1>1. u \in Requests(u.plan) /\ u.pc = "probe" /\ RequestInv(c)
    BY DEF Inv, TxTyped, CountRooms
  <1>2. /\ t.pc = "scan" /\ t.plan = u.plan /\ t.probe = u.probe /\ t.wrote = u.wrote
        /\ t.rooms = Sellable(u.plan.probes[u.probe].type)
        /\ t \in Requests(u.plan)
    BY <1>1, SellableNat DEF Requests, Steps
  <1>3. Moves(c, t)
    BY DEF CountRooms, probeOf, Moves, Inv, TypeOK
  <1> HIDE DEF t
  <1>4. PlanStands(t.plan, changed[c]) /\ ProbesStand(t, changed[c])
    BY <1>1, <1>2 DEF RequestInv, ProbesStand
  <1>5. ~disturbed[c] => StillMeant(t)
    BY <1>1, <1>2 DEF RequestInv, StillMeant
  <1>6. NumberFree(c, t)
    BY <1>2 DEF NumberFree
  <1>7. QED
    BY <1>2, <1>3, <1>4, <1>5, <1>6, MovedOn

\* The snapshot of the overlap SELECT has every row that clashes.
LEMMA ScanKeeps ==
    ASSUME Inv, NEW c \in Clerks, Scan(c)
    PROVE  Inv'
  <1> DEFINE u == tx[c]
             q == u.plan.probes[u.probe]
             t == [u EXCEPT !.pc = "lock", !.found = {},
                            !.todo = {b \in Bookings : Clashes(q, b)}]
  <1>1. u \in Requests(u.plan) /\ u.pc \in {"probe", "scan"} /\ RequestInv(c)
    BY DEF Inv, TxTyped, Scan
  <1>2. /\ t.pc = "lock" /\ t.plan = u.plan /\ t.probe = u.probe /\ t.wrote = u.wrote
        /\ t.rooms = u.rooms /\ t.found = {} /\ t.todo = {b \in Bookings : Clashes(q, b)}
        /\ t \in Requests(u.plan)
    BY <1>1 DEF Requests, Steps
  <1>3. Moves(c, t)
    BY DEF Scan, probeOf, Moves, Inv, TypeOK
  <1>4. q.room = Null => u.pc = "scan"
    BY DEF Scan, probeOf
  <1> HIDE DEF t
  <1>5. PlanStands(t.plan, changed[c]) /\ ProbesStand(t, changed[c])
    BY <1>1, <1>2 DEF RequestInv, ProbesStand
  <1>6. ~disturbed[c] => StillMeant(t)
    BY <1>1, <1>2, <1>4 DEF RequestInv, StillMeant
  <1>7. NumberFree(c, t)
    BY <1>2 DEF NumberFree
  <1>8. QED
    BY <1>2, <1>3, <1>5, <1>6, <1>7, MovedOn

\* A row that was locked and still clashes is found; one that nobody has changed does.
LEMMA LockRowKeeps ==
    ASSUME Inv, NEW c \in Clerks, NEW b \in Bookings, LockRow(c, b)
    PROVE  Inv'
  <1> DEFINE u == tx[c]
             q == u.plan.probes[u.probe]
             t == [u EXCEPT !.todo = u.todo \ {b},
                            !.found = IF Clashes(q, b) THEN u.found \cup {b} ELSE u.found]
  <1>1. u \in Requests(u.plan) /\ u.pc = "lock" /\ b \in u.todo /\ RequestInv(c)
    BY DEF Inv, TxTyped, LockRow
  <1>2. /\ t.pc = "lock" /\ t.plan = u.plan /\ t.probe = u.probe /\ t.wrote = u.wrote
        /\ t.rooms = u.rooms /\ t.todo = u.todo \ {b}
        /\ t.found = IF Clashes(q, b) THEN u.found \cup {b} ELSE u.found
        /\ t \in Requests(u.plan)
    BY <1>1 DEF Requests, Steps
  <1>3. Moves(c, t)
    BY DEF LockRow, probeOf, Moves, Inv, TypeOK
  <1> HIDE DEF t
  <1>4. PlanStands(t.plan, changed[c]) /\ ProbesStand(t, changed[c])
    BY <1>1, <1>2 DEF RequestInv, ProbesStand
  <1>5. ~disturbed[c] => StillMeant(t)
    <2>1. ASSUME ~disturbed[c]
          PROVE  t.todo \cup t.found = {x \in Bookings : Clashes(q, x)}
      <3>1. u.todo \cup u.found = {x \in Bookings : Clashes(q, x)}
        BY <1>1, <2>1 DEF RequestInv, StillMeant
      <3>2. Clashes(q, b)
        BY <1>1, <3>1
      <3>3. QED
        BY <1>1, <1>2, <3>1, <3>2
    <2>2. QED
      BY <1>1, <1>2, <2>1 DEF RequestInv, StillMeant
  <1>6. NumberFree(c, t)
    BY <1>2 DEF NumberFree
  <1>7. QED
    BY <1>2, <1>3, <1>4, <1>5, <1>6, MovedOn

\* A room probe that passes has no clash among the rows that nobody has changed.
LEMMA ProbePassesKeeps ==
    ASSUME Inv, NEW c \in Clerks, ProbePasses(c)
    PROVE  Inv'
  <1> DEFINE u == tx[c]
             q == u.plan.probes[u.probe]
             next == u.probe + 1
             pc == PcBefore(u.plan, next)
             t == [u EXCEPT !.pc = pc, !.probe = next,
                            !.todo = {}, !.found = {}, !.rooms = 0]
  <1>1. u \in Requests(u.plan) /\ u.pc = "lock" /\ RequestInv(c)
    BY DEF Inv, TxTyped, ProbePasses, Answered
  <1>2. u.probe \in Nat /\ u.wrote = 0 /\ u.probe \in DOMAIN u.plan.probes
        /\ Shaped(u.plan)
    BY <1>1 DEF Requests, RequestInv, ProbesStand, PlanStands
  <1>3. pc \in {"probe", "count", "write"} /\ next \in Nat
    BY <1>2 DEF PcBefore
  <1>4. Moves(c, t)
    BY DEF ProbePasses, Moves, Inv, TypeOK
  <1>5. /\ t.pc = PcBefore(u.plan, u.probe + 1) /\ t.plan = u.plan
        /\ t.pc \in {"probe", "count", "write"}
        /\ t.probe = u.probe + 1 /\ t.wrote = 0
        /\ t \in Requests(u.plan)
    <2> HIDE DEF pc, next
    <2>1. t.pc = pc /\ t.plan = u.plan /\ t.probe = next /\ t.wrote = 0
      BY <1>1, <1>2 DEF Requests
    <2>2. t \in Requests(u.plan)
      BY <1>1, <1>3 DEF Requests, Steps
    <2>3. QED
      BY <1>3, <2>1, <2>2 DEF pc, next
  <1>6. /\ u.todo = {} \/ (q.room # Null /\ u.found # {})
        /\ Passes(q, u.found, u.rooms)
    BY DEF ProbePasses, Answered, probeOf
  <1>7. q.room # Null => u.found = {} /\ u.todo = {}
    BY <1>6 DEF Passes
  <1> HIDE DEF t
  <1>8. ProbesStand(t, changed[c])
    <2>1. t.pc = "probe" => t.probe \in DOMAIN u.plan.probes
      BY <1>2, <1>5 DEF PcBefore, Shaped
    <2>2. t.pc \in {"count", "write"} => t.probe > Len(u.plan.probes)
      BY <1>2, <1>5 DEF PcBefore, Shaped
    <2>3. ASSUME NEW i \in DOMAIN u.plan.probes, NEW b \in Bookings \ changed[c],
                 i < t.probe, u.plan.probes[i].room # Null
          PROVE  ~Clashes(u.plan.probes[i], b)
      <3>1. i < u.probe \/ i = u.probe
        BY <1>2, <1>5, <2>3 DEF Shaped
      <3>2. CASE i < u.probe
        BY <1>1, <2>3, <3>2 DEF RequestInv, ProbesStand
      <3>3. CASE i = u.probe
        BY <1>1, <1>7, <2>3, <3>3 DEF RequestInv, ProbesStand
      <3>4. QED
        BY <3>1, <3>2, <3>3
    <2>4. QED
      BY <1>5, <2>1, <2>2, <2>3 DEF ProbesStand
  <1>9. ASSUME ~disturbed[c]
        PROVE  StillMeant(t)
    <2>1. StillMeant(u)
      BY <1>1, <1>9 DEF RequestInv
    <2>2. WouldPass(q)
      <3>1. u.todo \cup u.found = {b \in Bookings : Clashes(q, b)}
        BY <1>1, <2>1 DEF StillMeant
      <3>2. CASE q.room # Null
        BY <1>7, <3>1, <3>2 DEF WouldPass, Passes
      <3>3. CASE q.room = Null
        <4>1. u.rooms = Sellable(q.type) /\ u.found = {b \in Bookings : Clashes(q, b)}
          BY <1>1, <1>6, <2>1, <3>1, <3>3 DEF StillMeant
        <4>2. QED
          BY <1>6, <3>3, <4>1 DEF WouldPass
      <3>4. QED
        BY <3>2, <3>3
    <2>3. ASSUME NEW i \in DOMAIN u.plan.probes, i < t.probe
          PROVE  WouldPass(u.plan.probes[i])
      <3>1. i < u.probe \/ i = u.probe
        BY <1>2, <1>5, <2>3 DEF Shaped
      <3>2. QED
        BY <2>1, <2>2, <3>1 DEF StillMeant
    <2>4. QED
      BY <1>5, <2>1, <2>3 DEF StillMeant
  <1>10. NumberFree(c, t)
    BY <1>5 DEF NumberFree
  <1>11. PlanStands(t.plan, changed[c])
    BY <1>1, <1>5 DEF RequestInv
  <1>12. QED
    BY <1>4, <1>5, <1>8, <1>9, <1>10, <1>11, MovedOn

\* Past the probes, only the writes are left.
LEMMA PastProbes ==
    ASSUME Inv, NEW c \in Clerks, tx[c].pc \in {"count", "write"}, NEW t,
           t.plan = tx[c].plan, t.probe = tx[c].probe, t.pc = "write"
    PROVE  /\ PlanStands(t.plan, changed[c]) /\ ProbesStand(t, changed[c])
           /\ ~disturbed[c] => StillMeant(t)
  <1>1. RequestInv(c)
    BY DEF Inv
  <1>2. QED
    BY <1>1 DEF RequestInv, ProbesStand, StillMeant

\* The number is counted before anything is inserted.
LEMMA CountRowsKeeps ==
    ASSUME Inv, NEW c \in Clerks, CountRows(c)
    PROVE  Inv'
  <1> DEFINE u == tx[c]
             n == Cardinality({b \in Bookings : resv[b].status # "ABSENT"}) + 1 + u.attempt
             t == [u EXCEPT !.pc = "write", !.number = n]
  <1>1. u \in Requests(u.plan) /\ u.pc = "count" /\ RequestInv(c)
    BY DEF Inv, TxTyped, CountRows
  <1>2. n \in Nat
    <2>1. IsFiniteSet(1 .. BookingCount)
      BY FS_Interval
    <2>2. Cardinality({b \in Bookings : resv[b].status # "ABSENT"}) \in Nat
      BY <2>1, FS_Subset, FS_CardinalityType
    <2>3. QED
      BY <1>1, <2>2 DEF Requests
  <1>3. Moves(c, t)
    BY DEF CountRows, Moves, Inv, TypeOK
  <1> HIDE DEF n
  <1>4. /\ t.pc = "write" /\ t.plan = u.plan /\ t.probe = u.probe /\ t.wrote = u.wrote
        /\ t \in Requests(u.plan)
    BY <1>1, <1>2 DEF Requests, Steps
  <1>5. u.wrote = 0
    BY <1>1 DEF RequestInv, ProbesStand
  <1> HIDE DEF t
  <1>6. NumberFree(c, t)
    BY <1>4, <1>5 DEF NumberFree
  <1>7. QED
    BY <1>1, <1>3, <1>4, <1>6, PastProbes, MovedOn

\* The unique index lets a number in only once.
LEMMA InsertKeeps ==
    ASSUME Inv, NEW c \in Clerks, Insert(c)
    PROVE  Inv'
  <1> DEFINE u == tx[c]
             t == [u EXCEPT !.wrote = 1]
  <1>1. u \in Requests(u.plan) /\ u.pc = "write"
    BY DEF Inv, TxTyped, Insert, Inserting
  <1>2. /\ t.pc = "write" /\ t.plan = u.plan /\ t.probe = u.probe /\ t.number = u.number
        /\ t \in Requests(u.plan)
    BY <1>1 DEF Requests, Steps
  <1>3. Moves(c, t)
    BY DEF Insert, Moves, Inv, TypeOK
  <1> HIDE DEF t
  <1>4. NumberFree(c, t)
    <2>1. \A b \in Bookings : number[b] # u.number
      BY DEF Insert
    <2>2. \A d \in Clerks \ {c} : Taken(d) => tx[d].number # u.number
      BY DEF Insert, NumberHolders, Taken
    <2>3. QED
      BY <1>2, <2>1, <2>2 DEF NumberFree
  <1>5. QED
    BY <1>1, <1>2, <1>3, <1>4, PastProbes, MovedOn

\* An UPDATE inserts nothing.
LEMMA WriteRowKeeps ==
    ASSUME Inv, NEW c \in Clerks, WriteRow(c)
    PROVE  Inv'
  <1> DEFINE u == tx[c]
             t == [u EXCEPT !.wrote = u.wrote + 1]
  <1>1. u \in Requests(u.plan) /\ u.pc = "write" /\ ~Inserts(u.plan)
    BY DEF Inv, TxTyped, WriteRow, Updating
  <1>2. /\ t.pc = "write" /\ t.plan = u.plan /\ t.probe = u.probe
        /\ t \in Requests(u.plan)
    <2>1. PICK n \in Nat : n = u.wrote + 1
      BY <1>1 DEF Requests
    <2>2. t = [u EXCEPT !.wrote = n]
      BY <2>1
    <2>3. t.pc = "write" /\ t.plan = u.plan /\ t.probe = u.probe
      BY <1>1, <2>2 DEF Requests
    <2>4. t \in Requests(u.plan)
      BY <1>1, <2>2 DEF Requests, Steps
    <2>5. QED
      BY <2>3, <2>4
  <1>3. Moves(c, t)
    BY DEF WriteRow, Moves, Inv, TypeOK
  <1> HIDE DEF t
  <1>4. NumberFree(c, t)
    BY <1>1, <1>2 DEF NumberFree
  <1>5. QED
    BY <1>1, <1>2, <1>3, <1>4, PastProbes, MovedOn

\* create() starts over with the plan it has, or gives up.
LEMMA NumberTakenKeeps ==
    ASSUME Inv, NEW c \in Clerks, NumberTaken(c)
    PROVE  Inv'
  <1> DEFINE u == tx[c]
             t == Opened(u.plan, u.attempt + 1)
  <1>1. u \in Requests(u.plan) /\ u.pc = "write" /\ RequestInv(c)
    BY DEF Inv, TxTyped, NumberTaken, Inserting
  <1>2. PlanStands(u.plan, changed[c]) /\ Shaped(u.plan)
    BY <1>1 DEF RequestInv, PlanStands
  <1>3. CASE u.attempt < NumberAttempts - 1
    <2>1. u.attempt + 1 \in Nat
      BY <1>1 DEF Requests
    <2>2. /\ t \in Requests(u.plan) /\ t.plan = u.plan /\ t.wrote = 0
          /\ t.pc \in {"probe", "count", "write"}
          /\ ProbesStand(t, changed[c])
          /\ (\E id \in Bookings : Intended(id, u.plan)) => StillMeant(t)
      BY <1>2, <2>1, OpenedStands
    <2>3. Moves(c, t)
      BY <1>3 DEF NumberTaken, Release, Moves, Inv, TypeOK
    <2> HIDE DEF t
    <2>4. ~disturbed[c] => StillMeant(t)
      BY <1>1, <2>2 DEF RequestInv, StillMeant
    <2>5. NumberFree(c, t)
      BY <2>2 DEF NumberFree
    <2>6. QED
      BY <1>2, <2>2, <2>3, <2>4, <2>5, MovedOn
  <1>4. CASE ~(u.attempt < NumberAttempts - 1)
    BY <1>4, Ended DEF NumberTaken
  <1>5. QED
    BY <1>3, <1>4

-----------------------------------------------------------------------------
(* A commit, and the world outside *)

\* Whom a change of the tables by e disturbs, and what they are told of it.
LEMMA Disturbs ==
    ASSUME Inv, NEW e, Disturb(e)
    PROVE  /\ disturbed' \in [Clerks -> BOOLEAN] /\ changed' \in [Clerks -> SUBSET Bookings]
           /\ \A d \in Clerks : ~disturbed'[d] => changed'[d] = {}
           /\ \A d \in Clerks \ {e} : tx[d].pc # "idle" =>
                 /\ disturbed'[d] /\ changed[d] \subseteq changed'[d]
                 /\ \A b \in Bookings \ changed'[d] : resv'[b] = resv[b]
  <1> DEFINE rewritten == {b \in Bookings : resv'[b] # resv[b]}
             others == {d \in Clerks \ {e} : tx[d].pc # "idle"}
  <1>1. \A d \in Clerks : /\ disturbed'[d] <=> d \in others
                          /\ changed'[d] = IF d \in others THEN changed[d] \cup rewritten ELSE {}
    BY DEF Disturb
  <1>2. \A d \in Clerks : changed[d] \subseteq Bookings
    BY DEF Inv, TxTyped
  <1>3. disturbed' \in [Clerks -> BOOLEAN]
    BY DEF Disturb
  <1>4. changed' \in [Clerks -> SUBSET Bookings]
    <2>1. changed' = [d \in Clerks |-> IF d \in others THEN changed[d] \cup rewritten ELSE {}]
      BY DEF Disturb
    <2>2. \A d \in Clerks : (IF d \in others THEN changed[d] \cup rewritten ELSE {})
                               \in SUBSET Bookings
      BY <1>2
    <2> HIDE DEF others, rewritten
    <2>3. QED
      BY <2>1, <2>2
  <1>5. QED
    BY <1>1, <1>3, <1>4

\* The columns of the patch come from the plan, the others from the row as it is.
LEMMA PatchedRow ==
    ASSUME NEW row \in Rows, NEW p, NEW b, p.rows[b] \in Rows
    PROVE  /\ Patched(row, p, b) \in Rows
           /\ \A k \in Columns : Patched(row, p, b)[k] = IF k \in p.columns THEN p.rows[b][k]
                                                                          ELSE row[k]
           /\ Patched(row, p, b).status \in {row.status, p.rows[b].status}
  <1> DEFINE new == Patched(row, p, b)
  <1>1. DOMAIN row = Columns /\ new = [k \in Columns |-> IF k \in p.columns THEN p.rows[b][k]
                                                                           ELSE row[k]]
    BY DEF Patched, Rows, Columns
  <1>2. \A k \in Columns : new[k] = IF k \in p.columns THEN p.rows[b][k] ELSE row[k]
    BY <1>1
  <1> HIDE DEF new
  <1>3. \A k \in Columns : new[k] \in {row[k], p.rows[b][k]}
    BY <1>2
  <1>4. new = [k \in Columns |-> new[k]]
    BY <1>1, <1>2
  <1>5. new \in Rows
    BY <1>3, <1>4 DEF Rows, Columns
  <1>6. new.status \in {row.status, p.rows[b].status}
    BY <1>3 DEF Columns
  <1> QED
    BY <1>2, <1>5, <1>6 DEF new

\* What a commit makes of the tables.
LEMMA CommitWrites ==
    ASSUME Inv, NEW c \in Clerks, Commit(c)
    PROVE  /\ resv' \in [Bookings -> Rows] /\ roomStatus' \in [Rooms -> RoomStatuses]
           /\ NoneVanishes
           /\ PlanStands(tx[c].plan, changed[c]) /\ RequestInv(c) /\ tx[c].wrote > 0
  <1> DEFINE p == tx[c].plan
  <1>1. RequestInv(c) /\ PlanStands(p, changed[c])
    BY DEF Inv, Commit, RequestInv
  <1>2. WellFormed(p) /\ Shaped(p)
    BY <1>1 DEF PlanStands
  <1>3. tx[c].wrote > 0
    BY <1>2 DEF Commit, Shaped
  <1>4. \A b \in Bookings : resv[b] \in Rows
    BY DEF Inv, TypeOK
  <1>5. \A b \in DOMAIN p.rows : p.rows[b] \in Rows
    BY <1>2 DEF WellFormed
  <1>6. \A b \in Bookings : resv'[b] = IF b \in DOMAIN p.rows THEN Patched(resv[b], p, b)
                                                              ELSE resv[b]
    BY DEF Commit
  <1>7. resv' \in [Bookings -> Rows]
    <2>1. \A b \in Bookings : resv'[b] \in Rows
      BY <1>4, <1>5, <1>6, PatchedRow
    <2>2. resv' = [b \in Bookings |-> resv'[b]]
      BY DEF Commit
    <2>3. QED
      BY <2>1, <2>2
  <1>8. roomStatus' \in [Rooms -> RoomStatuses]
    BY <1>2 DEF Commit, Inv, TypeOK, WellFormed
  <1>9. NoneVanishes
    BY <1>2, <1>4, <1>5, <1>6, PatchedRow DEF NoneVanishes, Shaped
  <1>10. QED
    BY <1>1, <1>3, <1>7, <1>8, <1>9

\* A commit keeps what the other requests count on, or tells them.
LEMMA CommitKeeps ==
    ASSUME Inv, NEW c \in Clerks, Commit(c)
    PROVE  Inv'
  <1> DEFINE p == tx[c].plan
  <1>1. /\ resv' \in [Bookings -> Rows] /\ roomStatus' \in [Rooms -> RoomStatuses]
        /\ NoneVanishes /\ PlanStands(p, changed[c]) /\ tx[c].wrote > 0
    BY CommitWrites
  <1>2. /\ tx[c].pc = "write" /\ Disturb(c)
        /\ lock' = [b \in Bookings |-> IF lock[b] = c THEN Null ELSE lock[b]]
        /\ number' = [b \in Bookings |-> IF b \in DOMAIN p.rows /\ Inserts(p)
                                         THEN tx[c].number ELSE number[b]]
    BY DEF Commit, Release
  <1>3. /\ tx'[c] = Idle /\ tx' = [d \in Clerks |-> tx'[d]]
        /\ \A d \in Clerks \ {c} : tx'[d] = tx[d]
    BY DEF Commit, Inv, TxTyped
  <1>4. Idle.pc = "idle" /\ Idle \in Requests(Idle.plan)
    BY DEF Idle, Requests, Steps
  <1>5. /\ disturbed' \in [Clerks -> BOOLEAN] /\ changed' \in [Clerks -> SUBSET Bookings]
        /\ \A d \in Clerks : ~disturbed'[d] => changed'[d] = {}
        /\ \A d \in Clerks \ {c} : tx[d].pc # "idle" =>
              /\ disturbed'[d] /\ changed[d] \subseteq changed'[d]
              /\ \A b \in Bookings \ changed'[d] : resv'[b] = resv[b]
    BY <1>2, Disturbs
  <1>6. TxTyped'
    <2>1. \A d \in Clerks : tx'[d] \in Requests(tx'[d].plan)
      BY <1>3, <1>4 DEF Inv, TxTyped
    <2>2. number' \in [Bookings -> Nat]
      BY <1>2 DEF Inv, TxTyped, Requests
    <2>3. QED
      BY <1>3, <1>5, <2>1, <2>2 DEF TxTyped
  <1>7. TypeOK'
    <2>1. \A d \in Clerks : tx'[d].pc \in Steps
      BY <1>6 DEF TxTyped, Requests
    <2>2. \A b \in Bookings : lock'[b] # Null => tx'[lock'[b]].pc # "idle"
      BY <1>2, <1>3 DEF Inv, TypeOK
    <2>3. lock' \in [Bookings -> Clerks \cup {Null}]
      BY <1>2 DEF Inv, TypeOK
    <2>4. QED
      BY <1>1, <2>1, <2>2, <2>3 DEF TypeOK, Steps
  <1>8. ASSUME NEW d \in Clerks
        PROVE  RequestInv(d)'
    <2>1. CASE d = c
      BY <1>3, <1>4, <2>1 DEF RequestInv
    <2>2. CASE d # c
      <3>1. RequestInv(d) /\ tx'[d] = tx[d]
        BY <1>3, <2>2 DEF Inv
      <3>2. QED
        BY <1>1, <1>5, <2>2, <3>1, RequestStays
    <2>3. QED
      BY <2>1, <2>2
  <1>9. Inserts(p) => Taken(c) /\ \E id \in DOMAIN p.rows : DOMAIN p.rows = {id}
    BY <1>1, <1>2 DEF Taken, Inserts, PlanStands, Shaped
  <1>10. NumbersHeld'
    <2>1. ASSUME NEW d \in Clerks, Taken(d)'
          PROVE  d # c /\ Taken(d) /\ tx'[d] = tx[d]
      <3>1. d # c
        BY <1>3, <1>4, <2>1 DEF Taken
      <3>2. tx'[d] = tx[d]
        BY <1>3, <3>1
      <3>3. WellFormed(tx[d].plan)
        BY <2>1, <3>2 DEF Taken, Inv, RequestInv, PlanStands
      <3>4. Inserts(tx[d].plan)
        BY <1>1, <2>1, <3>2, <3>3 DEF Taken, Inserts, NoneVanishes, WellFormed
      <3>5. QED
        BY <2>1, <3>1, <3>2, <3>4 DEF Taken
    <2>2. ASSUME NEW d \in Clerks, Taken(d)', NEW b \in Bookings
          PROVE  number'[b] # tx'[d].number
      <3>1. d # c /\ Taken(d) /\ tx'[d] = tx[d]
        BY <2>1, <2>2
      <3>2. number[b] # tx[d].number
        BY <3>1 DEF Inv, NumbersHeld
      <3>3. Inserts(p) => tx[c].number # tx[d].number
        BY <1>9, <3>1 DEF Inv, NumbersHeld
      <3>4. QED
        BY <1>2, <3>1, <3>2, <3>3
    <2>3. ASSUME NEW d \in Clerks, Taken(d)', NEW e \in Clerks \ {d}, Taken(e)'
          PROVE  tx'[e].number # tx'[d].number
      <3>1. Taken(d) /\ Taken(e) /\ tx'[d] = tx[d] /\ tx'[e] = tx[e]
        BY <2>1, <2>3
      <3>2. QED
        BY <3>1 DEF Inv, NumbersHeld
    <2>4. QED
      BY <2>2, <2>3 DEF NumbersHeld
  <1>11. NumbersUnique'
    <2>1. CASE ~Inserts(p)
      BY <1>2, <2>1 DEF Inv, NumbersUnique, TxTyped
    <2>2. CASE Inserts(p)
      <3>1. PICK id : DOMAIN p.rows = {id}
        BY <1>9, <2>2
      <3>2. \A b \in Bookings : number[b] # tx[c].number
        BY <1>9, <2>2 DEF Inv, NumbersHeld
      <3>3. \A b \in Bookings : number'[b] = IF b = id THEN tx[c].number ELSE number[b]
        BY <1>2, <2>2, <3>1
      <3>4. QED
        BY <3>2, <3>3 DEF Inv, NumbersUnique
    <2>3. QED
      BY <2>1, <2>2
  <1>12. QED
    BY <1>5, <1>6, <1>7, <1>8, <1>10, <1>11 DEF Inv

\* A step of the world outside that deletes nothing.
LEMMA OutsideKeeps ==
    ASSUME Inv, UNCHANGED <<tx, number, lock>>, Disturb(Null), NoneVanishes,
           resv' \in [Bookings -> Rows], roomStatus' \in [Rooms -> RoomStatuses]
    PROVE  Inv'
  <1>1. tx' = tx /\ number' = number /\ lock' = lock
    OBVIOUS
  <1>2. /\ disturbed' \in [Clerks -> BOOLEAN] /\ changed' \in [Clerks -> SUBSET Bookings]
        /\ \A d \in Clerks : ~disturbed'[d] => changed'[d] = {}
        /\ \A d \in Clerks : tx[d].pc # "idle" =>
              /\ disturbed'[d] /\ changed[d] \subseteq changed'[d]
              /\ \A b \in Bookings \ changed'[d] : resv'[b] = resv[b]
    BY Disturbs, ClerksAssumption
  <1>3. TxTyped'
    BY <1>1, <1>2 DEF Inv, TxTyped
  <1>4. TypeOK'
    BY <1>1 DEF Inv, TypeOK
  <1>5. \A d \in Clerks : RequestInv(d)'
    BY <1>1, <1>2, RequestStays DEF Inv
  <1>6. ASSUME NEW d \in Clerks, Taken(d)'
        PROVE  Taken(d)
    <2>1. WellFormed(tx[d].plan)
      BY <1>1, <1>6 DEF Taken, Inv, RequestInv, PlanStands
    <2>2. QED
      BY <1>1, <1>6, <2>1 DEF Taken, Inserts, NoneVanishes, WellFormed
  <1>7. NumbersHeld'
    BY <1>1, <1>6 DEF Inv, NumbersHeld
  <1>8. NumbersUnique'
    BY <1>1 DEF Inv, NumbersUnique
  <1>9. QED
    BY <1>2, <1>3, <1>4, <1>5, <1>7, <1>8 DEF Inv

\* A worker's sweep gives some rows another status.
LEMMA SweepWrites ==
    ASSUME Inv, NEW s \in {"NO_SHOW", "CANCELLED"}, NEW swept, R!SweepTo(s, swept)
    PROVE  /\ resv' \in [Bookings -> Rows] /\ roomStatus' \in [Rooms -> RoomStatuses]
           /\ NoneVanishes
  <1>1. \A b \in Bookings : resv[b] \in Rows
    BY DEF Inv, TypeOK
  <1>2. resv' = [b \in Bookings |-> IF b \in swept THEN [resv[b] EXCEPT !.status = s]
                                                   ELSE resv[b]]
    BY DEF R!SweepTo, R!Bookings
  <1>3. ASSUME NEW b \in Bookings
        PROVE  /\ [resv[b] EXCEPT !.status = s] \in Rows
               /\ [resv[b] EXCEPT !.status = s].status # "ABSENT"
    BY <1>1 DEF Rows, Statuses
  <1>4. resv' \in [Bookings -> Rows]
    BY <1>1, <1>2, <1>3
  <1>5. NoneVanishes
    BY <1>2, <1>3 DEF NoneVanishes
  <1>6. QED
    BY <1>4, <1>5 DEF R!SweepTo, Inv, TypeOK

\* People, workers and the clock keep what the requests count on, or disturb them.
LEMMA WorldKeeps ==
    ASSUME Inv,
           \/ AutoNoShow \/ HoldExpiry \/ (\E r \in Rooms : SetRoomStatus(r))
           \/ SetGrid \/ (\E id \in Bookings : HoldRunsOut(id)) \/ NextDay
    PROVE  Inv'
  <1>1. UNCHANGED <<tx, number, lock>> /\ Disturb(Null)
    BY DEF AutoNoShow, HoldExpiry, SetRoomStatus, SetGrid, HoldRunsOut, NextDay, Outside
  <1>2. CASE AutoNoShow \/ HoldExpiry
    <2>1. \E s \in {"NO_SHOW", "CANCELLED"} : \E swept : R!SweepTo(s, swept)
      BY <1>2 DEF AutoNoShow, HoldExpiry, Outside, R!AutoNoShow, R!HoldExpiry
    <2>2. QED
      BY <1>1, <2>1, SweepWrites, OutsideKeeps
  <1>3. CASE \E r \in Rooms : SetRoomStatus(r)
    <2>1. PICK r \in Rooms : R!SetRoomStatus(r)
      BY <1>3 DEF SetRoomStatus, Outside
    <2>2. resv' = resv /\ roomStatus' \in [Rooms -> RoomStatuses]
      BY <2>1, StaffSetsAssumption DEF R!SetRoomStatus, Inv, TypeOK
    <2>3. QED
      BY <1>1, <2>2, OutsideKeeps DEF NoneVanishes, Inv, TypeOK
  <1>4. CASE SetGrid \/ NextDay
    <2>1. resv' = resv /\ roomStatus' = roomStatus
      BY <1>4 DEF SetGrid, NextDay, Outside, R!SetGrid, R!NextDay
    <2>2. QED
      BY <1>1, <2>1, OutsideKeeps DEF NoneVanishes, Inv, TypeOK
  <1>5. CASE \E id \in Bookings : HoldRunsOut(id)
    <2>1. PICK id \in Bookings : R!HoldRunsOut(id)
      BY <1>5 DEF HoldRunsOut, Outside
    <2>2. /\ resv' = [resv EXCEPT ![id].hold = "passed"] /\ roomStatus' = roomStatus
          /\ resv[id].status = "PENDING"
      BY <2>1 DEF R!HoldRunsOut
    <2>3. [resv[id] EXCEPT !.hold = "passed"] \in Rows
      <3>1. resv[id] \in Rows
        BY DEF Inv, TypeOK
      <3>2. QED
        BY <3>1 DEF Rows
    <2>4. resv' \in [Bookings -> Rows]
      BY <2>2, <2>3 DEF Inv, TypeOK
    <2>5. NoneVanishes
      <3>1. [resv[id] EXCEPT !.hold = "passed"].status = "PENDING"
        BY <2>2 DEF Inv, TypeOK, Rows
      <3>2. QED
        BY <2>2, <3>1 DEF NoneVanishes, Inv, TypeOK
    <2>6. QED
      BY <1>1, <2>2, <2>4, <2>5, OutsideKeeps DEF Inv, TypeOK
  <1>6. QED
    BY <1>2, <1>3, <1>4, <1>5

\* Nothing in flight: the invariant holds of any table that past requests have left.
LEMMA InitInv == Init => Inv
  <1> SUFFICES ASSUME Init PROVE Inv
    OBVIOUS
  <1>1. resv \in [Bookings -> Rows]
    BY StartsAssumption DEF Init
  <1>2. Idle.pc = "idle" /\ Idle \in Requests(Idle.plan)
    BY DEF Idle, Requests, Steps
  <1>3. /\ tx = [c \in Clerks |-> tx[c]] /\ \A c \in Clerks : tx[c] = Idle
        /\ \A b \in Bookings : lock[b] = Null
    BY DEF Init
  <1>4. TypeOK
    BY <1>1, <1>2, <1>3 DEF Init, TypeOK, RoomStatuses
  <1>5. TxTyped
    BY <1>2, <1>3 DEF Init, TxTyped
  <1>6. \A c \in Clerks : RequestInv(c) /\ changed[c] = {} /\ ~Taken(c)
    BY <1>2, <1>3 DEF Init, RequestInv, Taken
  <1>7. NumbersUnique
    BY DEF Init, NumbersUnique
  <1>8. QED
    BY <1>4, <1>5, <1>6, <1>7 DEF Inv, NumbersHeld

\* Inv is inductive.
LEMMA NextInv == Inv /\ [Next]_allVars => Inv'
  <1> SUFFICES ASSUME Inv, [Next]_allVars PROVE Inv'
    OBVIOUS
  <1>1. ASSUME NEW c \in Clerks, Asks(c) PROVE Inv'
    BY <1>1, AsksKeeps
  <1>2. ASSUME NEW c \in Clerks, Runs(c) PROVE Inv'
    <2>1. CASE CountRooms(c) \/ Scan(c) \/ (\E b \in Bookings : LockRow(c, b)) \/ ProbePasses(c)
      BY <2>1, CountRoomsKeeps, ScanKeeps, LockRowKeeps, ProbePassesKeeps
    <2>2. CASE CountRows(c) \/ Insert(c) \/ NumberTaken(c) \/ WriteRow(c)
      BY <2>2, CountRowsKeeps, InsertKeeps, NumberTakenKeeps, WriteRowKeeps
    <2>3. CASE Refuse(c) \/ AbortDeadlock(c)
      BY <2>3, Ended DEF Refuse, AbortDeadlock
    <2>4. CASE Commit(c)
      BY <2>4, CommitKeeps
    <2>5. QED
      BY <1>2, <2>1, <2>2, <2>3, <2>4 DEF Runs
  <1>3. CASE \/ AutoNoShow \/ HoldExpiry \/ (\E r \in Rooms : SetRoomStatus(r))
             \/ SetGrid \/ (\E id \in Bookings : HoldRunsOut(id)) \/ NextDay
    BY <1>3, WorldKeeps
  <1>4. CASE UNCHANGED allVars
    <2>1. /\ tx' = tx /\ number' = number /\ lock' = lock /\ disturbed' = disturbed
          /\ changed' = changed /\ resv' = resv /\ roomStatus' = roomStatus /\ UNCHANGED vars
      BY <1>4 DEF allVars, txVars, vars
    <2>2. NoneVanishes
      BY <2>1 DEF NoneVanishes
    <2>3. \A c \in Clerks : RequestInv(c)'
      BY <2>1, <2>2, RequestStays DEF Inv
    <2>4. \A c \in Clerks : Taken(c)' <=> Taken(c)
      BY <2>1 DEF Taken, Inserts
    <2>5. QED
      BY <2>1, <2>3, <2>4 DEF Inv, TypeOK, TxTyped, NumbersHeld, NumbersUnique
  <1>5. QED
    BY <1>1, <1>2, <1>3, <1>4 DEF Next

\* The requests in flight are always as their first reads and their probes left them.
LEMMA AlwaysInv == Spec => []Inv
  BY InitInv, NextInv, PTL DEF Spec

-----------------------------------------------------------------------------
(* The theorems *)

\* Whatever the requests in flight, the tables hold well-formed rows, and a row is
\* locked by a request that is still in flight.
THEOREM TablesTyped == Spec => []TypeOK
  <1>1. Inv => TypeOK
    BY DEF Inv
  <1>2. QED
    BY AlwaysInv, <1>1, PTL

\* However many creates are in flight, no two reservations come to have one number:
\* the unique index and the retries of create() see to it.
THEOREM NumbersAreUnique == Spec => []NumbersUnique
  <1>1. Inv => NumbersUnique
    BY DEF Inv
  <1>2. QED
    BY AlwaysInv, <1>1, PTL

\* A commit that brings two bookings into one room for a common night was made on a row
\* that somebody else has changed: had the two rows been there as they were first read,
\* the probe would have found the clash.
LEMMA CommitClashes ==
    ASSUME Inv, NEW c \in Clerks, Commit(c),
           NEW x \in DOMAIN tx[c].plan.rows, NEW y \in Bookings, x # y,
           Clash(resv'[x], resv'[y]), x \notin changed[c], y \notin changed[c]
    PROVE  Clash(resv[x], resv[y])
  <1> DEFINE p == tx[c].plan
  <1>1. /\ PlanStands(p, changed[c]) /\ ProbesStand(tx[c], changed[c])
        /\ tx[c].pc = "write" /\ tx[c] \in Requests(p)
    BY CommitWrites DEF RequestInv, Commit, Inv, TxTyped
  <1>2. WellFormed(p) /\ Shaped(p)
    BY <1>1 DEF PlanStands
  <1>3. x \in Bookings
    BY <1>2 DEF WellFormed
  <1>4. ASSUME NEW b \in DOMAIN p.rows, b \notin changed[c]
        PROVE  /\ resv'[b].status = p.rows[b].status /\ resv'[b].room = p.rows[b].room
               /\ resv'[b].ci = p.rows[b].ci /\ resv'[b].co = p.rows[b].co
    <2>1. b \in Bookings /\ p.rows[b] \in Rows
      BY <1>2 DEF WellFormed
    <2>2. resv[b] \in Rows /\ resv'[b] = Patched(resv[b], p, b)
      BY <2>1 DEF Inv, TypeOK, Commit
    <2>3. RowStands(p, b)
      BY <1>1, <1>4 DEF PlanStands
    <2>4. \A k \in Columns : resv'[b][k] = IF k \in p.columns THEN p.rows[b][k]
                                                             ELSE resv[b][k]
      BY <2>1, <2>2, PatchedRow
    <2>5. \A k \in Columns : resv'[b][k] = p.rows[b][k]
      BY <2>3, <2>4 DEF RowStands
    <2>6. QED
      BY <2>5 DEF Columns
  <1>5. CASE y \in DOMAIN p.rows
    <2>1. Collide(p.rows[x], p.rows[y])
      BY <1>4, <1>5 DEF Clash, Collide
    <2>2. Collide(resv[x], resv[y])
      BY <1>1, <1>5, <2>1 DEF PlanStands
    <2>3. QED
      BY <2>2 DEF Clash, Collide
  <1>6. CASE y \notin DOMAIN p.rows
    <2>1. resv'[y] = resv[y]
      BY <1>6 DEF Commit
    <2>2. Probed(p, p.rows[x]) \/ Kept(p.rows[x], resv[x])
      <3>1. p.rows[x].status \in Occupying /\ p.rows[x].room # Null
        BY <1>4 DEF Clash
      <3>2. RowStands(p, x)
        BY <1>1 DEF PlanStands
      <3>3. QED
        BY <3>1, <3>2 DEF RowStands
    <2>3. CASE Probed(p, p.rows[x])
      <3>1. PICK i \in DOMAIN p.probes :
                 /\ p.probes[i].room = p.rows[x].room
                 /\ p.probes[i].ci = p.rows[x].ci /\ p.probes[i].co = p.rows[x].co
                 /\ p.probes[i].skip \subseteq DOMAIN p.rows
        BY <2>3 DEF Probed
      <3>2. Clashes(p.probes[i], y) /\ p.probes[i].room # Null
        BY <1>4, <1>6, <2>1, <3>1 DEF Clash, Clashes, overlaps
      <3>3. i < tx[c].probe
        BY <1>1, <1>2 DEF Shaped, ProbesStand, Requests
      <3>4. QED
        BY <1>1, <3>2, <3>3 DEF ProbesStand
    <2>4. CASE Kept(p.rows[x], resv[x])
      BY <1>4, <2>1, <2>4 DEF Clash, Kept
    <2>5. QED
      BY <2>2, <2>3, <2>4
  <1>7. QED
    BY <1>5, <1>6

\* The row locks of the probes: a clash that was there to be read is never written over.
THEOREM ClashesNeedAChange == Spec => ClashOnlyWithChangedRow
  <1> DEFINE Fair == \A c \in Clerks :
                Commit(c) =>
                  \A x \in DOMAIN tx[c].plan.rows, y \in Bookings :
                     (x # y /\ Clash(resv'[x], resv'[y]) /\ ~Clash(resv[x], resv[y]))
                     => {x, y} \cap changed[c] # {}
  <1>1. Inv => Fair
    BY CommitClashes
  <1>2. Spec => [][Fair]_allVars
    BY AlwaysInv, <1>1, PTL
  <1>3. QED
    BY <1>2 DEF ClashOnlyWithChangedRow

\* A request that nobody disturbed and that is refused had a probe that does not pass.
LEMMA RefusalsHaveCause ==
    ASSUME Inv, NEW c \in Clerks
    PROVE  RefusalHasCause(c)
  <1> SUFFICES ASSUME Refuse(c), ~disturbed[c]
               PROVE  \E i \in DOMAIN tx[c].plan.probes :
                         LET q == tx[c].plan.probes[i]
                         IN  ~Passes(q, {b \in Bookings : Clashes(q, b)}, Sellable(q.type))
    BY DEF RefusalHasCause
  <1> DEFINE t == tx[c]
             i == t.probe
             q == t.plan.probes[i]
             S == {b \in Bookings : Clashes(q, b)}
  <1>1. t.pc \in {"probe", "lock"} /\ probeOf(c) = q
    BY DEF Refuse, Answered, probeOf
  <1>2. StillMeant(t) /\ ProbesStand(t, changed[c])
    BY <1>1 DEF Inv, RequestInv
  <1>3. i \in DOMAIN t.plan.probes
    BY <1>1, <1>2 DEF ProbesStand
  <1>4. CASE q.room = Null /\ ~assertRules(q.rules, q.ci, q.co)
    <2>1. ~Passes(q, S, Sellable(q.type))
      BY <1>4 DEF Passes
    <2>2. QED
      BY <1>3, <2>1
  <1>5. CASE Answered(c) /\ ~Passes(q, t.found, t.rooms)
    <2>1. /\ t.pc = "lock" /\ t.todo \cup t.found = S
          /\ t.todo = {} \/ (q.room # Null /\ t.found # {})
          /\ q.room = Null => t.rooms = Sellable(q.type)
      BY <1>1, <1>2, <1>5 DEF Answered, StillMeant
    <2>2. CASE q.room = Null
      BY <1>3, <1>5, <2>1, <2>2
    <2>3. CASE q.room # Null
      <3>1. ~Passes(q, S, Sellable(q.type))
        BY <1>5, <2>1, <2>3 DEF Passes
      <3>2. QED
        BY <1>3, <3>1
    <2>4. QED
      BY <2>2, <2>3
  <1>6. QED
    BY <1>1, <1>4, <1>5 DEF Refuse

\* A request is refused for a cause of its own: unless somebody else committed while it was
\* in flight, one of its probes fails in the tables as they are.
THEOREM RefusalsAreForCause == Spec => RefusedForCause
  <1> DEFINE Fair == \A c \in Clerks : RefusalHasCause(c)
  <1>1. Inv => Fair
    BY RefusalsHaveCause
  <1>2. Spec => [][Fair]_allVars
    BY AlwaysInv, <1>1, PTL
  <1>3. QED
    BY <1>2 DEF RefusedForCause

-----------------------------------------------------------------------------
(* A request that nobody disturbs does what module Reservations says of it *)

\* The probes of the two modules are the same.
LEMMA SameProbes ==
    /\ \A q, found, rooms : R!Passes(q, found, rooms) <=> Passes(q, found, rooms)
    /\ \A q, b : R!Clashes(q, b) <=> Clashes(q, b)
    /\ \A t : R!Sellable(t) = Sellable(t)
    /\ R!Bookings = Bookings
  <1>1. \A q : R!assertRules(q.rules, q.ci, q.co) <=> assertRules(q.rules, q.ci, q.co)
    BY DEF R!assertRules, assertRules, R!nightsBetween, nightsBetween
  <1>2. \A q : R!NightsOf(q.ci, q.co) = NightsOf(q.ci, q.co)
    BY DEF R!NightsOf, NightsOf, R!nightsBetween, nightsBetween
  <1>3. \A row, n : R!coversDate(row, n) <=> coversDate(row, n)
    BY DEF R!coversDate, coversDate
  <1>4. ASSUME NEW q, NEW found, NEW rooms
        PROVE  R!Passes(q, found, rooms) <=> Passes(q, found, rooms)
    <2>1. \A n : {b \in found : R!coversDate(resv[b], n)} = {b \in found : coversDate(resv[b], n)}
      BY <1>3
    <2>2. QED
      BY <1>1, <1>2, <2>1 DEF R!Passes, Passes, R!Cardinality, Cardinality
  <1>5. \A q, b : R!Clashes(q, b) <=> Clashes(q, b)
    BY DEF R!Clashes, Clashes, R!Occupying, Occupying, R!overlaps, overlaps
  <1>6. ASSUME NEW t
        PROVE  R!Sellable(t) = Sellable(t)
    BY Zenon DEF R!Sellable, Sellable, R!Rooms, R!Cardinality, Cardinality
  <1>7. QED
    BY <1>4, <1>5, <1>6 DEF R!Bookings

\* So is create(), its guard and its plan.
LEMMA SameCreate ==
    ASSUME NEW id, NEW t, NEW r, NEW ci, NEW co, NEW s, NEW h
    PROVE  /\ R!CanCreate(id, t, r, ci, co, s, h) <=> CanCreate(id, t, r, ci, co, s, h)
           /\ R!CreatePlan(id, t, r, ci, co, s, h) = CreatePlan(id, t, r, ci, co, s, h)
  <1>1. R!CanCreate(id, t, r, ci, co, s, h) <=> CanCreate(id, t, r, ci, co, s, h)
    BY DEF R!CanCreate, CanCreate
  <1>2. R!CreatePlan(id, t, r, ci, co, s, h) = CreatePlan(id, t, r, ci, co, s, h)
    BY Zenon DEF R!CreatePlan, CreatePlan, R!PlanFor, PlanFor, R!Plan, Plan, R!OwnRoomProbe,
       OwnRoomProbe, R!RoomProbe, RoomProbe, R!TypeProbe, TypeProbe, R!nightsBetween,
       nightsBetween, R!NoRooms, NoRooms, R!NoRules, NoRules, R!OpenDay, OpenDay, R!Days
  <1>3. QED
    BY <1>1, <1>2

\* So are the guards of the other handlers.
LEMMA SameGuards ==
    ASSUME NEW id
    PROVE  /\ \A ci, co, reprice : R!CanUpdate(id, ci, co, reprice)
                                      <=> CanUpdate(id, ci, co, reprice)
           /\ \A co : R!CanExtend(id, co) <=> CanExtend(id, co)
           /\ \A r : /\ R!CanMove(id, r) <=> CanMove(id, r)
                     /\ R!CanAssign(id, r) <=> CanAssign(id, r)
                     /\ R!CanCheckIn(id, r) <=> CanCheckIn(id, r)
           /\ R!CanConfirm(id) <=> CanConfirm(id)
           /\ R!CanCheckOut(id) <=> CanCheckOut(id)
           /\ R!CanCancel(id) <=> CanCancel(id)
           /\ R!CanNoShow(id) <=> CanNoShow(id)
           /\ \A locked : R!CanLock(id, locked) <=> CanLock(id, locked)
           /\ \A other : R!CanSwap(id, other) <=> CanSwap(id, other)
  <1>1. \A from, to : R!canTransition(from, to) <=> canTransition(from, to)
    BY DEF R!canTransition, canTransition, R!Transitions, Transitions
  <1>2. /\ R!Occupying = Occupying /\ R!Assignable = Assignable
        /\ \A given, stored : R!OrElse(given, stored) = OrElse(given, stored)
        /\ \A row, n : R!coversDate(row, n) <=> coversDate(row, n)
    BY DEF R!Occupying, Occupying, R!Assignable, Assignable, R!OrElse, OrElse,
           R!coversDate, coversDate
  <1>4. \A ci, co, reprice : R!CanUpdate(id, ci, co, reprice)
                                <=> CanUpdate(id, ci, co, reprice)
    BY <1>2 DEF R!CanUpdate, CanUpdate
  <1>5. \A co : R!CanExtend(id, co) <=> CanExtend(id, co)
    BY <1>2 DEF R!CanExtend, CanExtend
  <1>6. \A r : /\ R!CanMove(id, r) <=> CanMove(id, r)
               /\ R!CanAssign(id, r) <=> CanAssign(id, r)
    BY <1>2 DEF R!CanMove, CanMove, R!CanAssign, CanAssign
  <1>7. \A r : R!CanCheckIn(id, r) <=> CanCheckIn(id, r)
    BY <1>1, <1>2 DEF R!CanCheckIn, CanCheckIn
  <1>8. /\ R!CanConfirm(id) <=> CanConfirm(id)
        /\ R!CanCheckOut(id) <=> CanCheckOut(id)
        /\ R!CanCancel(id) <=> CanCancel(id)
        /\ R!CanNoShow(id) <=> CanNoShow(id)
    BY <1>1 DEF R!CanConfirm, CanConfirm, R!CanCheckOut, CanCheckOut, R!CanCancel, CanCancel,
                R!CanNoShow, CanNoShow
  <1>9. /\ \A locked : R!CanLock(id, locked) <=> CanLock(id, locked)
        /\ \A other : R!CanSwap(id, other) <=> CanSwap(id, other)
    BY <1>2 DEF R!CanLock, CanLock, R!CanSwap, CanSwap
  <1>10. QED
    BY <1>4, <1>5, <1>6, <1>7, <1>8, <1>9

\* And so are their plans.
LEMMA SamePlans ==
    ASSUME NEW id
    PROVE  /\ \A ci, co, reprice : R!UpdatePlan(id, ci, co, reprice)
                                      = UpdatePlan(id, ci, co, reprice)
           /\ \A co : R!ExtendPlan(id, co) = ExtendPlan(id, co)
           /\ \A r : /\ R!MovePlan(id, r) = MovePlan(id, r)
                     /\ R!AssignPlan(id, r) = AssignPlan(id, r)
                     /\ R!CheckInPlan(id, r) = CheckInPlan(id, r)
           /\ R!ConfirmPlan(id) = ConfirmPlan(id)
           /\ R!CheckOutPlan(id) = CheckOutPlan(id)
           /\ R!CancelPlan(id) = CancelPlan(id)
           /\ R!NoShowPlan(id) = NoShowPlan(id)
           /\ \A locked : R!LockPlan(id, locked) = LockPlan(id, locked)
           /\ \A other : R!SwapPlan(id, other) = SwapPlan(id, other)
  <1>1. /\ \A a, b, c, d, e, f : R!Plan(a, b, c, d, e, f) = Plan(a, b, c, d, e, f)
        /\ R!NoRooms = NoRooms /\ R!NoRules = NoRules
        /\ \A given, stored : R!OrElse(given, stored) = OrElse(given, stored)
        /\ \A ci, co : R!nightsBetween(ci, co) = nightsBetween(ci, co)
    BY DEF R!Plan, Plan, R!NoRooms, NoRooms, R!NoRules, NoRules, R!OpenDay, OpenDay, R!Days,
           R!OrElse, OrElse, R!nightsBetween, nightsBetween
  <1>2. \A a, b, c, e, f : R!PlanFor(id, a, b, c, e, f) = PlanFor(id, a, b, c, e, f)
    BY <1>1 DEF R!PlanFor, PlanFor
  <1>3. /\ \A r, row, ids : R!RoomProbe(r, row, ids) = RoomProbe(r, row, ids)
        /\ \A row, ids, rules : R!TypeProbe(row, ids, rules) = TypeProbe(row, ids, rules)
    BY <1>1 DEF R!RoomProbe, RoomProbe, R!TypeProbe, TypeProbe
  <1>4. \A row, ids : R!OwnRoomProbe(row, ids) = OwnRoomProbe(row, ids)
    BY <1>3 DEF R!OwnRoomProbe, OwnRoomProbe
  <1>6. ASSUME NEW ci, NEW co, NEW reprice
        PROVE  R!UpdatePlan(id, ci, co, reprice) = UpdatePlan(id, ci, co, reprice)
    BY Zenon DEF R!UpdatePlan, UpdatePlan, R!PlanFor, PlanFor, R!Plan, Plan, R!OwnRoomProbe,
       OwnRoomProbe, R!RoomProbe, RoomProbe, R!TypeProbe, TypeProbe, R!nightsBetween,
       nightsBetween, R!NoRooms, NoRooms, R!NoRules, NoRules, R!OpenDay, OpenDay, R!Days,
       R!OrElse, OrElse
  <1>7. \A co : R!ExtendPlan(id, co) = ExtendPlan(id, co)
    BY Zenon DEF R!ExtendPlan, ExtendPlan, R!PlanFor, PlanFor, R!Plan, Plan, R!OwnRoomProbe,
       OwnRoomProbe, R!RoomProbe, RoomProbe, R!TypeProbe, TypeProbe, R!nightsBetween,
       nightsBetween, R!NoRooms, NoRooms, R!NoRules, NoRules, R!OpenDay, OpenDay, R!Days
  <1>8. ASSUME NEW r
        PROVE  /\ R!MovePlan(id, r) = MovePlan(id, r)
               /\ R!AssignPlan(id, r) = AssignPlan(id, r)
               /\ R!CheckInPlan(id, r) = CheckInPlan(id, r)
    <2>1. R!MovePlan(id, r) = MovePlan(id, r)
      BY Zenon DEF R!MovePlan, MovePlan, R!PlanFor, PlanFor, R!Plan, Plan, R!RoomProbe,
         RoomProbe, R!nightsBetween, nightsBetween, R!NoRules, NoRules, R!OpenDay, OpenDay,
         R!Days
    <2>2. R!AssignPlan(id, r) = AssignPlan(id, r)
      BY <1>1, <1>2, <1>3 DEF R!AssignPlan, AssignPlan
    <2>3. R!CheckInPlan(id, r) = CheckInPlan(id, r)
      BY <1>1, <1>2, <1>3 DEF R!CheckInPlan, CheckInPlan
    <2>4. QED
      BY <2>1, <2>2, <2>3
  <1>9. /\ R!ConfirmPlan(id) = ConfirmPlan(id)
        /\ R!CheckOutPlan(id) = CheckOutPlan(id)
        /\ R!CancelPlan(id) = CancelPlan(id)
        /\ R!NoShowPlan(id) = NoShowPlan(id)
    <2>1. R!ConfirmPlan(id) = ConfirmPlan(id)
      BY Zenon DEF R!ConfirmPlan, ConfirmPlan, R!PlanFor, PlanFor, R!Plan, Plan,
         R!OwnRoomProbe, OwnRoomProbe, R!RoomProbe, RoomProbe, R!TypeProbe, TypeProbe,
         R!NoRooms, NoRooms, R!NoRules, NoRules, R!OpenDay, OpenDay, R!Days
    <2>2. R!CheckOutPlan(id) = CheckOutPlan(id)
      BY <1>1, <1>2 DEF R!CheckOutPlan, CheckOutPlan
    <2>3. R!CancelPlan(id) = CancelPlan(id) /\ R!NoShowPlan(id) = NoShowPlan(id)
      BY <1>1, <1>2 DEF R!CancelPlan, CancelPlan, R!NoShowPlan, NoShowPlan
    <2>4. QED
      BY <2>1, <2>2, <2>3
  <1>10. \A locked : R!LockPlan(id, locked) = LockPlan(id, locked)
    BY <1>1, <1>2 DEF R!LockPlan, LockPlan
  <1>11. \A other : R!SwapPlan(id, other) = SwapPlan(id, other)
    BY <1>1, <1>3 DEF R!SwapPlan, SwapPlan
  <1>12. QED
    BY <1>6, <1>7, <1>8, <1>9, <1>10, <1>11

\* A row is its columns.
LEMMA SameRow ==
    ASSUME NEW a \in Rows, NEW b \in Rows, \A k \in Columns : a[k] = b[k]
    PROVE  a = b
  BY DEF Rows, Columns

\* The commit of a request that nobody disturbed writes what the plan says, after
\* probes that still pass.
LEMMA CommitExecutes ==
    ASSUME Inv, NEW c \in Clerks, Commit(c), ~disturbed[c]
    PROVE  R!Execute(tx[c].plan)
  <1> DEFINE p == tx[c].plan
  <1>1. /\ PlanStands(p, {}) /\ ProbesStand(tx[c], {}) /\ StillMeant(tx[c])
        /\ tx[c].pc = "write" /\ tx[c] \in Requests(p)
    BY CommitWrites DEF RequestInv, Commit, Inv, TxTyped
  <1>2. WellFormed(p) /\ Shaped(p)
    BY <1>1 DEF PlanStands
  <1>3. ASSUME NEW i \in DOMAIN p.probes
        PROVE  LET q == p.probes[i]
               IN  R!Passes(q, {b \in R!Bookings : R!Clashes(q, b)},
                            IF q.room = Null THEN R!Sellable(q.type) ELSE 0)
    <2> DEFINE q == p.probes[i]
    <2>1. i < tx[c].probe
      BY <1>1, <1>2 DEF Shaped, ProbesStand, Requests
    <2>2. WouldPass(q)
      BY <1>1, <2>1 DEF StillMeant
    <2>3. {b \in R!Bookings : R!Clashes(q, b)} = {b \in Bookings : Clashes(q, b)}
      BY SameProbes
    <2>4. R!Sellable(q.type) = Sellable(q.type)
      BY SameProbes
    <2> HIDE DEF q
    <2>5. R!Passes(q, {b \in R!Bookings : R!Clashes(q, b)},
                   IF q.room = Null THEN R!Sellable(q.type) ELSE 0)
      BY <2>2, <2>3, <2>4, SameProbes DEF WouldPass
    <2>6. QED
      BY <2>5 DEF q
  <1>4. ASSUME NEW b \in DOMAIN p.rows
        PROVE  Patched(resv[b], p, b) = p.rows[b]
    <2>1. resv[b] \in Rows /\ p.rows[b] \in Rows
      BY <1>2 DEF WellFormed, Inv, TypeOK
    <2>2. RowStands(p, b)
      BY <1>1 DEF PlanStands
    <2>3. /\ Patched(resv[b], p, b) \in Rows
          /\ \A k \in Columns : Patched(resv[b], p, b)[k] = p.rows[b][k]
      BY <2>1, <2>2, PatchedRow DEF RowStands
    <2>4. QED
      BY <2>1, <2>3, SameRow
  <1>5. resv' = [b \in R!Bookings |-> IF b \in DOMAIN p.rows THEN p.rows[b] ELSE resv[b]]
    BY <1>4 DEF Commit, R!Bookings
  <1>6. /\ roomStatus' = [r \in R!Rooms |->
                             IF r \in DOMAIN p.rooms THEN p.rooms[r] ELSE roomStatus[r]]
        /\ trail' = [b \in R!Bookings |-> IF b \in DOMAIN p.rows /\ p.says # Null
                                          THEN p.says ELSE trail[b]]
        /\ UNCHANGED <<grid, today>>
    BY DEF Commit, R!Rooms, R!Bookings
  <1> HIDE DEF p
  <1>7. R!Execute(p)
    BY <1>3, <1>5, <1>6 DEF R!Execute
  <1>8. QED
    BY <1>7 DEF p

\* Running the plan of a handler is a request of module Reservations; create() may have
\* been given an id out of turn, others being in flight.
LEMMA IntentIsRequest ==
    ASSUME NEW id \in Bookings, NEW p, Intended(id, p), R!Execute(p)
    PROVE  R!Request(id) \/ R!Insert(id)
  <1>1. R!Days = Days /\ R!Rooms = Rooms /\ R!Bookings = Bookings
    BY DEF R!Days, R!Rooms, R!Bookings
  <1>2. CASE /\ resv[id].status = "ABSENT"
             /\ \E t \in Types, r \in Rooms \cup {Null}, ci \in Days, co \in Days,
                   status \in {"PENDING", "CONFIRMED"}, hold \in HoldKinds :
                   /\ CanCreate(id, t, r, ci, co, status, hold)
                   /\ p = CreatePlan(id, t, r, ci, co, status, hold)
    <2>1. PICK t \in Types, r \in Rooms \cup {Null}, ci \in Days, co \in Days,
               status \in {"PENDING", "CONFIRMED"}, hold \in HoldKinds :
               /\ CanCreate(id, t, r, ci, co, status, hold)
               /\ p = CreatePlan(id, t, r, ci, co, status, hold)
      BY <1>2
    <2>2. /\ R!CanCreate(id, t, r, ci, co, status, hold)
          /\ R!Execute(R!CreatePlan(id, t, r, ci, co, status, hold))
      BY <2>1, SameCreate
    <2>3. R!Insert(id)
      BY <1>1, <1>2, <2>2 DEF R!Insert
    <2>4. QED
      BY <2>3
  <1>3. CASE \E newCi \in Days \cup {Null}, newCo \in Days \cup {Null}, reprice \in BOOLEAN :
                /\ CanUpdate(id, newCi, newCo, reprice)
                /\ p = UpdatePlan(id, newCi, newCo, reprice)
    <2>1. PICK newCi \in Days \cup {Null}, newCo \in Days \cup {Null}, reprice \in BOOLEAN :
               /\ CanUpdate(id, newCi, newCo, reprice)
               /\ p = UpdatePlan(id, newCi, newCo, reprice)
      BY <1>3
    <2>2. /\ R!CanUpdate(id, newCi, newCo, reprice)
          /\ R!Execute(R!UpdatePlan(id, newCi, newCo, reprice))
      BY <2>1, SameGuards, SamePlans
    <2>3. R!Update(id)
      BY <1>1, <2>2 DEF R!Update
    <2>4. QED
      BY <2>3 DEF R!Request
  <1>4. CASE \E newCo \in Days : CanExtend(id, newCo) /\ p = ExtendPlan(id, newCo)
    <2>1. R!ExtendStay(id)
      BY <1>1, <1>4, SameGuards, SamePlans DEF R!ExtendStay
    <2>2. QED
      BY <2>1 DEF R!Request
  <1>5. CASE \E r \in Rooms : \/ CanMove(id, r) /\ p = MovePlan(id, r)
                              \/ CanAssign(id, r) /\ p = AssignPlan(id, r)
    <2>1. R!MoveRoom(id) \/ R!AssignRoom(id)
      BY <1>1, <1>5, SameGuards, SamePlans DEF R!MoveRoom, R!AssignRoom
    <2>2. QED
      BY <2>1 DEF R!Request
  <1>6. CASE \E named \in Rooms \cup {Null} :
                CanCheckIn(id, named) /\ p = CheckInPlan(id, named)
    <2>1. R!CheckIn(id)
      BY <1>1, <1>6, SameGuards, SamePlans DEF R!CheckIn
    <2>2. QED
      BY <2>1 DEF R!Request
  <1>7. CASE \/ CanConfirm(id) /\ p = ConfirmPlan(id)
             \/ CanCheckOut(id) /\ p = CheckOutPlan(id)
             \/ CanCancel(id) /\ p = CancelPlan(id)
             \/ CanNoShow(id) /\ p = NoShowPlan(id)
    <2>1. R!Confirm(id) \/ R!CheckOut(id) \/ R!Cancel(id) \/ R!NoShow(id)
      BY <1>7, SameGuards, SamePlans DEF R!Confirm, R!CheckOut, R!Cancel, R!NoShow
    <2>2. QED
      BY <2>1 DEF R!Request
  <1>8. CASE \E locked \in BOOLEAN : CanLock(id, locked) /\ p = LockPlan(id, locked)
    <2>1. R!LockRoom(id)
      BY <1>8, SameGuards, SamePlans DEF R!LockRoom
    <2>2. QED
      BY <2>1 DEF R!Request
  <1>9. CASE \E other \in Bookings : CanSwap(id, other) /\ p = SwapPlan(id, other)
    <2>1. \E other \in R!Bookings : R!SwapRooms(id, other)
      BY <1>1, <1>9, SameGuards, SamePlans DEF R!SwapRooms
    <2>2. QED
      BY <2>1 DEF R!Request
  <1>10. QED
    BY <1>2, <1>3, <1>4, <1>5, <1>6, <1>7, <1>8, <1>9 DEF Intended

\* Reading before the transaction, and writing patches, lose nothing by themselves: a request
\* during which nobody else commits is one atomic step of module Reservations.
THEOREM UndisturbedIsAtomic == Spec => SerialWhenIsolated
  <1> DEFINE Fair == \A c \in Clerks :
                (Commit(c) /\ ~disturbed[c])
                => \E id \in Bookings : R!Request(id) \/ R!Insert(id)
  <1>1. Inv => Fair
    <2> SUFFICES ASSUME Inv, NEW c \in Clerks, Commit(c), ~disturbed[c]
                 PROVE  \E id \in Bookings : R!Request(id) \/ R!Insert(id)
      OBVIOUS
    <2>1. \E id \in Bookings : Intended(id, tx[c].plan)
      BY CommitWrites DEF RequestInv, StillMeant, Commit
    <2>2. R!Execute(tx[c].plan)
      BY CommitExecutes
    <2>3. QED
      BY <2>1, <2>2, IntentIsRequest
  <1>2. Spec => [][Fair]_allVars
    BY AlwaysInv, <1>1, PTL
  <1>3. QED
    BY <1>2 DEF SerialWhenIsolated

=============================================================================
