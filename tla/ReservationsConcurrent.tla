----------------------- MODULE ReservationsConcurrent -----------------------
(***************************************************************************)
(* The handlers of ReservationsService as PostgreSQL runs them: several    *)
(* requests at once, each a first read outside its transaction and then,   *)
(* statement by statement under READ COMMITTED, its probes and its writes. *)
(*                                                                         *)
(* SELECT ... FOR UPDATE finds rows in a snapshot, locks them one by one,  *)
(* waiting for whoever holds them, and looks again at each row it had to   *)
(* wait for.  It locks the rows that clash, not the absence of a clash.    *)
(* UPDATE ... WHERE id waits for the row and then assigns its columns to   *)
(* whatever the row has become.  INSERT waits for another insert of the    *)
(* same reservation number, and create() starts over if that number was    *)
(* taken.  Locks go at commit or rollback.                                 *)
(***************************************************************************)
EXTENDS ReservationPlans

CONSTANTS
    Clerks,          \* requests that may be in flight at once
    Ops,             \* bound: the handlers the clerks use
    MaxRequests,     \* bound: requests that are made
    Starts,          \* reservations tables that past requests have left
    NumberAttempts   \* tries create() makes at a reservation number

ASSUME ClerksAssumption == Null \notin Clerks
ASSUME StartsAssumption == Starts \subseteq [Bookings -> Rows]

VARIABLES
    asked,       \* bound: requests made so far
    tx,          \* the request each clerk has in flight
    number,      \* reservation_number of each row, 0 before it is inserted
    lock,        \* who has each reservation row locked
    disturbed,   \* history: did anything change since the clerk's first read?
    changed      \* history: the bookings others have changed since then

txVars == <<asked, tx, number, lock, disturbed, changed>>
allVars == <<vars, txVars>>

R == INSTANCE Reservations

NoPlan == Plan(<<>>, <<>>, {}, [b \in {} |-> NoRow], NoRooms, Null)
Idle == [pc |-> "idle", plan |-> NoPlan, probe |-> 0, rooms |-> 0, todo |-> {},
         found |-> {}, wrote |-> 0, attempt |-> 0, number |-> 0]

\* The hotel opens for the day with the bookings taken so far.
Init ==
    /\ resv \in Starts
    /\ roomStatus = [r \in Rooms |->
                       IF \E b \in Bookings : resv[b].status = "CHECKED_IN" /\ resv[b].room = r
                       THEN "OCCUPIED" ELSE "AVAILABLE"]
    /\ grid \in Grids
    /\ today = 0
    /\ trail = [b \in Bookings |-> resv[b].status]
    /\ asked = 0
    /\ tx = [c \in Clerks |-> Idle]
    /\ number = [b \in Bookings |-> IF resv[b].status = "ABSENT" THEN 0 ELSE b]
    /\ lock = [b \in Bookings |-> Null]
    /\ disturbed = [c \in Clerks |-> FALSE]
    /\ changed = [c \in Clerks |-> {}]

-----------------------------------------------------------------------------
(* First read: the row is read, the guard checked, the plan fixed *)

\* The plan of create(): its row is not there yet.
Inserts(p) == \E b \in DOMAIN p.rows : resv[b].status = "ABSENT"

\* Where a transaction stands once its first i - 1 probes have passed.
PcBefore(p, i) ==
    IF i <= Len(p.probes) THEN "probe" ELSE IF Inserts(p) THEN "count" ELSE "write"

\* The transaction of plan p opens; create() may open several, one per attempt.
Opened(p, attempt) ==
    [Idle EXCEPT !.plan = p, !.attempt = attempt, !.probe = 1, !.pc = PcBefore(p, 1)]

Begin(c, p) ==
    /\ tx[c].pc = "idle"
    /\ asked < MaxRequests /\ asked' = asked + 1
    /\ tx' = [tx EXCEPT ![c] = Opened(p, 0)]
    /\ UNCHANGED <<vars, number, lock, disturbed, changed>>

\* An id that no row and no insert in flight has.
Fresh(id) ==
    /\ resv[id].status = "ABSENT"
    /\ \A c \in Clerks : id \notin DOMAIN tx[c].plan.rows

BeginCreate(c) ==
    /\ "create" \in Ops
    /\ \E id \in Bookings :
         /\ Fresh(id) /\ \A earlier \in 1 .. (id - 1) : ~Fresh(earlier)
         /\ \E t \in Types, r \in Rooms \cup {Null}, ci \in Days, co \in Days,
               status \in {"PENDING", "CONFIRMED"}, hold \in HoldKinds :
               /\ CanCreate(id, t, r, ci, co, status, hold)
               /\ Begin(c, CreatePlan(id, t, r, ci, co, status, hold))

BeginUpdate(c) ==
    /\ "update" \in Ops
    /\ \E id \in Bookings, newCi \in Days \cup {Null}, newCo \in Days \cup {Null},
          reprice \in BOOLEAN :
          /\ CanUpdate(id, newCi, newCo, reprice)
          /\ Begin(c, UpdatePlan(id, newCi, newCo, reprice))

BeginExtend(c) ==
    /\ "extend" \in Ops
    /\ \E id \in Bookings, newCo \in Days :
          CanExtend(id, newCo) /\ Begin(c, ExtendPlan(id, newCo))

BeginMove(c) ==
    /\ "move" \in Ops
    /\ \E id \in Bookings, r \in Rooms : CanMove(id, r) /\ Begin(c, MovePlan(id, r))

BeginConfirm(c) ==
    /\ "confirm" \in Ops
    /\ \E id \in Bookings : CanConfirm(id) /\ Begin(c, ConfirmPlan(id))

BeginAssign(c) ==
    /\ "assign" \in Ops
    /\ \E id \in Bookings, r \in Rooms : CanAssign(id, r) /\ Begin(c, AssignPlan(id, r))

BeginCheckIn(c) ==
    /\ "checkIn" \in Ops
    /\ \E id \in Bookings, named \in Rooms \cup {Null} :
          CanCheckIn(id, named) /\ Begin(c, CheckInPlan(id, named))

BeginCheckOut(c) ==
    /\ "checkOut" \in Ops
    /\ \E id \in Bookings : CanCheckOut(id) /\ Begin(c, CheckOutPlan(id))

BeginCancel(c) ==
    /\ "cancel" \in Ops
    /\ \E id \in Bookings : CanCancel(id) /\ Begin(c, CancelPlan(id))

BeginNoShow(c) ==
    /\ "noShow" \in Ops
    /\ \E id \in Bookings : CanNoShow(id) /\ Begin(c, NoShowPlan(id))

BeginLock(c) ==
    /\ "lock" \in Ops
    /\ \E id \in Bookings, locked \in BOOLEAN :
          CanLock(id, locked) /\ Begin(c, LockPlan(id, locked))

BeginSwap(c) ==
    /\ "swap" \in Ops
    /\ \E a, b \in Bookings : CanSwap(a, b) /\ Begin(c, SwapPlan(a, b))

-----------------------------------------------------------------------------
(* The probes *)

probeOf(c) == tx[c].plan.probes[tx[c].probe]

Release(c) == lock' = [b \in Bookings |-> IF lock[b] = c THEN Null ELSE lock[b]]

\* The request ends: rolled back, its locks gone, its error thrown.
End(c) ==
    /\ tx' = [tx EXCEPT ![c] = Idle]
    /\ disturbed' = [disturbed EXCEPT ![c] = FALSE]
    /\ changed' = [changed EXCEPT ![c] = {}]
    /\ Release(c)

\* The count of sellable rooms, a statement of its own before the overlap one.
CountRooms(c) ==
    /\ tx[c].pc = "probe"
    /\ probeOf(c).room = Null
    /\ assertRules(probeOf(c).rules, probeOf(c).ci, probeOf(c).co)
    /\ tx' = [tx EXCEPT ![c].pc = "scan", ![c].rooms = Sellable(probeOf(c).type)]
    /\ UNCHANGED <<vars, asked, number, lock, disturbed, changed>>

\* The snapshot of the overlap SELECT.
Scan(c) ==
    /\ \/ tx[c].pc = "scan"
       \/ tx[c].pc = "probe" /\ probeOf(c).room # Null
    /\ tx' = [tx EXCEPT ![c].pc = "lock", ![c].found = {},
                        ![c].todo = {b \in Bookings : Clashes(probeOf(c), b)}]
    /\ UNCHANGED <<vars, asked, number, lock, disturbed, changed>>

\* FOR UPDATE reaches a row of the snapshot, and drops it if it no longer
\* clashes by the time it is free.
LockRow(c, b) ==
    /\ tx[c].pc = "lock" /\ b \in tx[c].todo
    /\ lock[b] \in {Null, c}
    /\ lock' = [lock EXCEPT ![b] = c]
    /\ tx' = [tx EXCEPT ![c].todo = @ \ {b},
                        ![c].found = IF Clashes(probeOf(c), b) THEN @ \cup {b} ELSE @]
    /\ UNCHANGED <<vars, asked, number, disturbed, changed>>

\* LIMIT 1 of the room probe: the first clash is enough.
Answered(c) ==
    /\ tx[c].pc = "lock"
    /\ tx[c].todo = {} \/ (probeOf(c).room # Null /\ tx[c].found # {})

ProbePasses(c) ==
    /\ Answered(c)
    /\ Passes(probeOf(c), tx[c].found, tx[c].rooms)
    /\ tx' = [tx EXCEPT ![c].pc = PcBefore(tx[c].plan, tx[c].probe + 1),
                        ![c].probe = @ + 1, ![c].todo = {}, ![c].found = {},
                        ![c].rooms = 0]
    /\ UNCHANGED <<vars, asked, number, lock, disturbed, changed>>

\* Mutant: NOWAIT, a row of the overlap that somebody holds refuses the request.
RefuseAtLock(c) ==
    /\ tx[c].pc = "lock"
    /\ \E b \in tx[c].todo : lock[b] \notin {Null, c}
    /\ End(c)
    /\ UNCHANGED <<vars, asked, number>>

Refuse(c) ==
    /\ \/ /\ tx[c].pc = "probe" /\ probeOf(c).room = Null
          /\ ~assertRules(probeOf(c).rules, probeOf(c).ci, probeOf(c).co)
       \/ Answered(c) /\ ~Passes(probeOf(c), tx[c].found, tx[c].rooms)
    /\ End(c)
    /\ UNCHANGED <<vars, asked, number>>

-----------------------------------------------------------------------------
(* The writes *)

\* create() numbers its row by the count of rows it sees, and the attempt.
CountRows(c) ==
    /\ tx[c].pc = "count"
    /\ tx' = [tx EXCEPT ![c].pc = "write",
                        ![c].number = Cardinality({b \in Bookings : resv[b].status # "ABSENT"})
                                        + 1 + tx[c].attempt]
    /\ UNCHANGED <<vars, asked, number, lock, disturbed, changed>>

Inserting(c) == tx[c].pc = "write" /\ tx[c].wrote = 0 /\ Inserts(tx[c].plan)

\* Mutant: the number has no unique index.
NumberHoldersNone(c) == {}

\* Inserts, not committed, that hold the number c is about to insert.
NumberHolders(c) ==
    {d \in Clerks \ {c} : tx[d].wrote > 0 /\ tx[d].number = tx[c].number}

Insert(c) ==
    /\ Inserting(c)
    /\ NumberHolders(c) = {} /\ \A b \in Bookings : number[b] # tx[c].number
    /\ tx' = [tx EXCEPT ![c].wrote = 1]
    /\ UNCHANGED <<vars, asked, number, lock, disturbed, changed>>

\* Mutant: the number is computed before the loop, and every attempt inserts it.
NumberTakenForEver(c) ==
    /\ Inserting(c)
    /\ \E b \in Bookings : number[b] = tx[c].number
    /\ Release(c)
    /\ UNCHANGED <<vars, asked, tx, number, disturbed, changed>>

\* 23505: the transaction is rolled back and the next attempt opens another,
\* with the same plan; the last attempt's error is thrown.
NumberTaken(c) ==
    /\ Inserting(c)
    /\ \E b \in Bookings : number[b] = tx[c].number
    /\ IF tx[c].attempt < NumberAttempts - 1
       THEN /\ tx' = [tx EXCEPT ![c] = Opened(tx[c].plan, tx[c].attempt + 1)]
            /\ Release(c)
            /\ UNCHANGED <<disturbed, changed>>
       ELSE End(c)
    /\ UNCHANGED <<vars, asked, number>>

\* The next row an UPDATE has to reach; the swap has two.
NextRow(c) == tx[c].plan.ids[tx[c].wrote + 1]
Updating(c) ==
    tx[c].pc = "write" /\ tx[c].wrote < Len(tx[c].plan.ids) /\ ~Inserts(tx[c].plan)

\* UPDATE reaches its row and holds it until the end.
WriteRow(c) ==
    /\ Updating(c)
    /\ lock[NextRow(c)] \in {Null, c}
    /\ lock' = [lock EXCEPT ![NextRow(c)] = c]
    /\ tx' = [tx EXCEPT ![c].wrote = @ + 1]
    /\ UNCHANGED <<vars, asked, number, disturbed, changed>>

\* Only the columns of the patch are assigned.
Patched(row, p, b) ==
    [k \in DOMAIN row |-> IF k \in p.columns THEN p.rows[b][k] ELSE row[k]]

\* Everyone in flight but c has, from here on, read a state that is gone.
Disturb(c) ==
    LET rewritten == {b \in Bookings : resv'[b] # resv[b]}
        others == {d \in Clerks \ {c} : tx[d].pc # "idle"}
    IN  /\ disturbed' = [d \in Clerks |-> d \in others]
        /\ changed' = [d \in Clerks |-> IF d \in others THEN changed[d] \cup rewritten
                                                        ELSE {}]

Commit(c) ==
    LET p == tx[c].plan
    IN  /\ tx[c].pc = "write" /\ tx[c].wrote = Len(p.ids)
        /\ resv' = [b \in Bookings |-> IF b \in DOMAIN p.rows
                                       THEN Patched(resv[b], p, b) ELSE resv[b]]
        /\ roomStatus' = [r \in Rooms |->
                             IF r \in DOMAIN p.rooms THEN p.rooms[r] ELSE roomStatus[r]]
        /\ trail' = [b \in Bookings |-> IF b \in DOMAIN p.rows /\ p.says # Null
                                        THEN p.says ELSE trail[b]]
        /\ number' = [b \in Bookings |-> IF b \in DOMAIN p.rows /\ Inserts(p)
                                         THEN tx[c].number ELSE number[b]]
        /\ tx' = [tx EXCEPT ![c] = Idle]
        /\ Release(c)
        /\ Disturb(c)
        /\ UNCHANGED <<grid, today, asked>>

-----------------------------------------------------------------------------
(* Deadlock: the requests c waits for wait for it *)

\* The requests that c cannot go on without.
Blockers(c) ==
    IF tx[c].pc = "lock" /\ ~Answered(c) /\ \A b \in tx[c].todo : lock[b] \notin {Null, c}
    THEN {lock[b] : b \in tx[c].todo}
    ELSE IF Updating(c) THEN {lock[NextRow(c)]} \ {Null, c}
    ELSE IF Inserting(c) THEN NumberHolders(c)
    ELSE {}

\* PostgreSQL finds the cycle and rolls one of the requests back.
AbortDeadlock(c) ==
    /\ \E S \in SUBSET Clerks :
         /\ c \in S
         /\ \A d \in S : Blockers(d) # {} /\ Blockers(d) \subseteq S
    /\ End(c)
    /\ UNCHANGED <<vars, asked, number>>

-----------------------------------------------------------------------------
(* Workers and the world outside, as in Reservations *)

Outside(step) ==
    /\ step
    /\ Disturb(Null)
    /\ UNCHANGED <<asked, tx, number, lock>>

\* A worker's UPDATE waits for the rows it is to write.
AutoNoShow ==
    /\ \A b \in R!Missed : lock[b] = Null
    /\ Outside(R!AutoNoShow)

HoldExpiry ==
    /\ \A b \in R!Lapsed : lock[b] = Null
    /\ Outside(R!HoldExpiry)

SetRoomStatus(r) == Outside(R!SetRoomStatus(r))
SetGrid == Outside(R!SetGrid)
HoldRunsOut(id) == Outside(R!HoldRunsOut(id))

\* Bound: no request is in flight at midnight.
NextDay ==
    /\ \A c \in Clerks : tx[c].pc = "idle"
    /\ Outside(R!NextDay)

-----------------------------------------------------------------------------
(* The specification *)

Asks(c) ==
    \/ BeginCreate(c)
    \/ BeginUpdate(c)
    \/ BeginExtend(c)
    \/ BeginMove(c)
    \/ BeginConfirm(c)
    \/ BeginAssign(c)
    \/ BeginCheckIn(c)
    \/ BeginCheckOut(c)
    \/ BeginCancel(c)
    \/ BeginNoShow(c)
    \/ BeginLock(c)
    \/ BeginSwap(c)

Runs(c) ==
    \/ CountRooms(c)
    \/ Scan(c)
    \/ \E b \in Bookings : LockRow(c, b)
    \/ ProbePasses(c)
    \/ Refuse(c)
    \/ CountRows(c)
    \/ Insert(c)
    \/ NumberTaken(c)
    \/ WriteRow(c)
    \/ Commit(c)
    \/ AbortDeadlock(c)

Next ==
    \/ \E c \in Clerks : Asks(c) \/ Runs(c)
    \/ AutoNoShow
    \/ HoldExpiry
    \/ \E r \in Rooms : SetRoomStatus(r)
    \/ SetGrid
    \/ \E id \in Bookings : HoldRunsOut(id)
    \/ NextDay

Spec == Init /\ [][Next]_allVars

\* The database goes on with every statement it can run.
FairSpec == Spec /\ \A c \in Clerks : WF_allVars(Runs(c))

-----------------------------------------------------------------------------
(* Properties *)

\* The tables are typed, and locks are held by requests in flight only.
TypeOK ==
    /\ resv \in [Bookings -> Rows]
    /\ roomStatus \in [Rooms -> RoomStatuses]
    /\ lock \in [Bookings -> Clerks \cup {Null}]
    /\ \A c \in Clerks : tx[c].pc \in {"idle", "probe", "scan", "lock", "count", "write"}
    /\ \A b \in Bookings : lock[b] # Null => tx[lock[b]].pc # "idle"

\* A request during which nobody else commits does exactly what the handler
\* does alone: reading before the transaction, and patching columns, lose
\* nothing by themselves.
SerialWhenIsolated ==
    [][\A c \in Clerks :
          (Commit(c) /\ ~disturbed[c]) => \E id \in Bookings : R!Request(id) \/ R!Insert(id)]_allVars

\* And it is refused only if the handler alone would have been.
RefusalHasCause(c) ==
    (Refuse(c) /\ ~disturbed[c])
    => \E i \in DOMAIN tx[c].plan.probes :
          LET q == tx[c].plan.probes[i]
          IN  ~Passes(q, {b \in Bookings : Clashes(q, b)}, Sellable(q.type))

RefusedForCause == [][\A c \in Clerks : RefusalHasCause(c)]_allVars

\* Two requests waiting for each other's rows, or one waiting for another, do
\* not wait for ever.
EveryRequestEnds == \A c \in Clerks : tx[c].pc # "idle" ~> tx[c].pc = "idle"

Clash(x, y) == /\ x.status \in Occupying /\ y.status \in Occupying
               /\ x.room # Null /\ x.room = y.room
               /\ overlaps(x.ci, x.co, y.ci, y.co)

\* What the row locks do buy: a commit that puts two bookings in one room for
\* a common night does so only if one of the two rows was changed by somebody
\* else after the request's first read.  A clash that was there to be read is
\* never written over.
ClashOnlyWithChangedRow ==
    [][\A c \in Clerks :
          Commit(c) =>
            \A x \in DOMAIN tx[c].plan.rows, y \in Bookings :
               (x # y /\ Clash(resv'[x], resv'[y]) /\ ~Clash(resv[x], resv[y]))
               => {x, y} \cap changed[c] # {}]_allVars

\* Reservation numbers are unique, whatever the creates in flight.
NumbersUnique ==
    \A a, b \in Bookings : a # b /\ number[a] # 0 => number[a] # number[b]

-----------------------------------------------------------------------------
(* What the code's comments say of requests that do overlap *)

\* ReservationsService, rule 2: "two clerks confirming the same room at the
\* same moment cannot both win".
NoDoubleBooking == R!NoDoubleBooking

\* reservation-rules.ts: terminal states "have no outgoing edges on purpose".
TerminalStatesFinal ==
    [][\A b \in Bookings :
          resv[b].status \in {"CHECKED_OUT", "CANCELLED", "NO_SHOW"}
          => resv'[b].status = resv[b].status]_allVars

\* update(): the total is derived "so rate and dates can only ever agree".
TotalAgreesWithDates == R!TotalAgreesWithDates

=============================================================================
