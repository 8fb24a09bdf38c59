---------------------------- MODULE Housekeeping ----------------------------
(***************************************************************************)
(* The turnover of rooms: HousekeepingService and WorkOrdersService (in    *)
(* src/src/modules/housekeeping) beside the front desk of Reservations.    *)
(* They meet in rooms.status: a check-out leaves a room DIRTY and raises a *)
(* cleaning task, the task and its inspection lead the room back, a work   *)
(* order takes it off the board and returns it.                            *)
(*                                                                         *)
(* A handler that moves a task or an order reads the row first and checks  *)
(* the move against what it read; its transaction then writes by id, from  *)
(* what was read.  Other staff, and the desk, act in between.              *)
(***************************************************************************)
EXTENDS ReservationPlans

CONSTANTS
    Starts,        \* reservations tables the run begins with
    DeskOps,       \* bound: the desk requests that are made
    Staff,         \* housekeepers and technicians, one call in flight each
    Supervisors,   \* those of them who hold task.assign and task.inspect
    MaxTasks,      \* bound: rows of housekeeping_tasks
    HandTasks,     \* are tasks also raised by hand?
    MaxOrders      \* bound: rows of work_orders

VARIABLES
    tasks,       \* housekeeping_tasks of rooms, in order of creation
    orders,      \* work_orders of rooms, in order of creation
    call,        \* the handler each member of staff has in flight
    owed,        \* history: rooms checked out of, no inspection passed since
    untouched    \* history: rooms checked out of, no cleaning begun or done since

houseVars == <<tasks, orders, call, owed, untouched>>
allVars == <<vars, houseVars>>

R == INSTANCE Reservations

NoCall == [table |-> "none"]

Init ==
    /\ resv \in Starts
    /\ roomStatus = [r \in Rooms |-> "AVAILABLE"]
    /\ grid \in Grids
    /\ today = 0
    /\ trail = [b \in Bookings |-> resv[b].status]
    /\ tasks = <<>> /\ orders = <<>>
    /\ call = [s \in Staff |-> NoCall]
    /\ owed = {} /\ untouched = {}

-----------------------------------------------------------------------------
(* Transition maps, and what a move does to the room *)

TaskTransitions == [PENDING     |-> {"IN_PROGRESS"},
                    IN_PROGRESS |-> {"COMPLETED"},
                    COMPLETED   |-> {"INSPECTED", "REJECTED"},
                    INSPECTED   |-> {},
                    REJECTED    |-> {}]

\* Mutant: a passed room is given a status that rooms do not have.
TaskMovesClean ==
    [start    |-> [to |-> "IN_PROGRESS", room |-> "CLEANING"],
     complete |-> [to |-> "COMPLETED",   room |-> "INSPECTED"],
     pass     |-> [to |-> "INSPECTED",   room |-> "CLEAN"],
     fail     |-> [to |-> "REJECTED",    room |-> "DIRTY"]]

\* The status a handler moves a task to, and the one it gives the room.
TaskMoves == [start    |-> [to |-> "IN_PROGRESS", room |-> "CLEANING"],
              complete |-> [to |-> "COMPLETED",   room |-> "INSPECTED"],
              pass     |-> [to |-> "INSPECTED",   room |-> "READY"],
              fail     |-> [to |-> "REJECTED",    room |-> "DIRTY"]]

OrderTransitions == [OPEN        |-> {"ACCEPTED", "CANCELLED"},
                     ACCEPTED    |-> {"IN_PROGRESS", "CANCELLED"},
                     IN_PROGRESS |-> {"PAUSED", "COMPLETED", "CANCELLED"},
                     PAUSED      |-> {"IN_PROGRESS", "CANCELLED"},
                     COMPLETED   |-> {},
                     CANCELLED   |-> {}]

\* Mutant: a cancelled order leaves the room where it put it.
OrderMovesCancelKeeps ==
    [accept   |-> [to |-> "ACCEPTED",    room |-> "MAINTENANCE"],
     start    |-> [to |-> "IN_PROGRESS", room |-> Null],
     pause    |-> [to |-> "PAUSED",      room |-> Null],
     complete |-> [to |-> "COMPLETED",   room |-> "DIRTY"],
     cancel   |-> [to |-> "CANCELLED",   room |-> Null]]

\* resume() moves and writes as start() does.
OrderMoves == [accept   |-> [to |-> "ACCEPTED",    room |-> "MAINTENANCE"],
               start    |-> [to |-> "IN_PROGRESS", room |-> Null],
               pause    |-> [to |-> "PAUSED",      room |-> Null],
               complete |-> [to |-> "COMPLETED",   room |-> "DIRTY"],
               cancel   |-> [to |-> "CANCELLED",   room |-> "DIRTY"]]

OpenTask == {"PENDING", "IN_PROGRESS", "COMPLETED"}
OpenTasks(r) == {i \in DOMAIN tasks : tasks[i].room = r /\ tasks[i].status \in OpenTask}
ActiveOrders(r) ==
    {i \in DOMAIN orders : /\ orders[i].room = r /\ orders[i].takesOut
                           /\ OrderTransitions[orders[i].status] # {}}

NewTask(r, auto, s) == [room |-> r, auto |-> auto, status |-> "PENDING", assignee |-> s]

-----------------------------------------------------------------------------
(* Tasks *)

RaiseTask(s, r) ==
    /\ HandTasks /\ Len(tasks) < MaxTasks
    /\ call[s] = NoCall
    /\ \E t \in Staff \cup {Null} : tasks' = Append(tasks, NewTask(r, FALSE, t))
    /\ UNCHANGED <<vars, orders, call, owed, untouched>>

AssignTask(s, id) ==
    /\ s \in Supervisors /\ call[s] = NoCall
    /\ \E t \in Staff : /\ tasks[id].assignee # t
                        /\ tasks' = [tasks EXCEPT ![id].assignee = t]
    /\ UNCHANGED <<vars, orders, call, owed, untouched>>

MayWork(s, task) == s \in Supervisors \/ task.assignee \in {s, Null}

\* start(), complete() and inspect() up to their transaction.
ReadTask(s, id, move) ==
    /\ call[s] = NoCall
    /\ IF move \in {"pass", "fail"} THEN s \in Supervisors ELSE MayWork(s, tasks[id])
    /\ TaskMoves[move].to \in TaskTransitions[tasks[id].status]
    /\ call' = [call EXCEPT ![s] = [table |-> "tasks", id |-> id, move |-> move,
                                    before |-> tasks[id]]]
    /\ UNCHANGED <<vars, tasks, orders, owed, untouched>>

\* A failed inspection raises the task afresh.
Redo(c) ==
    IF c.move = "fail" THEN <<NewTask(c.before.room, c.before.auto, c.before.assignee)>>
                       ELSE <<>>

\* The transaction: the task, its room and the redo.  start() also claims a
\* task that it read as nobody's.
WriteTask(s) ==
    LET c == call[s]
        r == c.before.room
        claim == IF c.before.assignee = Null THEN s ELSE c.before.assignee
        holder == IF c.move = "start" THEN claim ELSE tasks[c.id].assignee
    IN  /\ c.table = "tasks"
        /\ Len(tasks) + Len(Redo(c)) <= MaxTasks
        /\ tasks' = [tasks EXCEPT ![c.id].status = TaskMoves[c.move].to,
                                  ![c.id].assignee = holder] \o Redo(c)
        /\ roomStatus' = [roomStatus EXCEPT ![r] = TaskMoves[c.move].room]
        /\ call' = [call EXCEPT ![s] = NoCall]
        /\ owed' = IF c.move = "pass" THEN owed \ {r} ELSE owed
        /\ untouched' = IF c.move \in {"start", "complete"} THEN untouched \ {r}
                                                            ELSE untouched
        /\ UNCHANGED <<resv, grid, today, trail, orders>>

-----------------------------------------------------------------------------
(* Work orders *)

RaiseOrder(s, r) ==
    /\ Len(orders) < MaxOrders
    /\ call[s] = NoCall
    /\ \E out \in BOOLEAN :
         /\ orders' = Append(orders, [room |-> r, takesOut |-> out, status |-> "OPEN"])
         /\ roomStatus' = IF out THEN [roomStatus EXCEPT ![r] = "OUT_OF_ORDER"]
                                 ELSE roomStatus
    /\ UNCHANGED <<resv, grid, today, trail, tasks, call, owed, untouched>>

ReadOrder(s, id, move) ==
    /\ call[s] = NoCall
    /\ OrderMoves[move].to \in OrderTransitions[orders[id].status]
    /\ call' = [call EXCEPT ![s] = [table |-> "orders", id |-> id, move |-> move,
                                    before |-> orders[id]]]
    /\ UNCHANGED <<vars, tasks, orders, owed, untouched>>

WriteOrder(s) ==
    LET c == call[s]
        given == OrderMoves[c.move].room
    IN  /\ c.table = "orders"
        /\ orders' = [orders EXCEPT ![c.id].status = OrderMoves[c.move].to]
        /\ roomStatus' = IF c.before.takesOut /\ given # Null
                         THEN [roomStatus EXCEPT ![c.before.room] = given]
                         ELSE roomStatus
        /\ call' = [call EXCEPT ![s] = NoCall]
        /\ UNCHANGED <<resv, grid, today, trail, tasks, owed, untouched>>

-----------------------------------------------------------------------------
(* The desk *)

\* createCheckoutCleanForRoom(): nothing if the room has an open task.
CheckoutClean(r) ==
    IF r = Null \/ OpenTasks(r) # {} THEN <<>> ELSE <<NewTask(r, TRUE, Null)>>

CheckOut(id) ==
    LET r == resv[id].room
    IN  /\ "checkOut" \in DeskOps
        /\ Len(tasks) + Len(CheckoutClean(r)) <= MaxTasks
        /\ R!CheckOut(id)
        /\ tasks' = tasks \o CheckoutClean(r)
        /\ owed' = owed \cup ({r} \ {Null})
        /\ untouched' = untouched \cup ({r} \ {Null})
        /\ UNCHANGED <<orders, call>>

\* Every other request leaves housekeeping alone.
OtherRequest(id) ==
    /\ \/ "checkIn" \in DeskOps /\ R!CheckIn(id)
       \/ "move" \in DeskOps /\ R!MoveRoom(id)
       \/ "extend" \in DeskOps /\ R!ExtendStay(id)
       \/ "swap" \in DeskOps /\ \E other \in Bookings : R!SwapRooms(id, other)
    /\ UNCHANGED houseVars

-----------------------------------------------------------------------------
(* What the staff are shown *)

\* Mutant: the feed keeps to what is assigned already.
myTasksAssigned(s) ==
    {i \in DOMAIN tasks : /\ tasks[i].status \in {"PENDING", "IN_PROGRESS"}
                          /\ tasks[i].assignee = s}

\* The attendant's feed: tasks assigned to me, and unassigned ones I can claim.
myTasks(s) ==
    {i \in DOMAIN tasks : /\ tasks[i].status \in {"PENDING", "IN_PROGRESS"}
                          /\ tasks[i].assignee \in {s, Null}}

\* The supervisor's board: the newest open task of a room.
boardTask(r) == CHOOSE i \in OpenTasks(r) : \A j \in OpenTasks(r) : j <= i

-----------------------------------------------------------------------------
(* The specification *)

Next ==
    \/ \E s \in Staff :
         \/ \E r \in Rooms : RaiseTask(s, r) \/ RaiseOrder(s, r)
         \/ \E id \in DOMAIN tasks :
              AssignTask(s, id) \/ \E move \in DOMAIN TaskMoves : ReadTask(s, id, move)
         \/ \E id \in DOMAIN orders, move \in DOMAIN OrderMoves : ReadOrder(s, id, move)
         \/ WriteTask(s)
         \/ WriteOrder(s)
    \/ \E id \in Bookings : CheckOut(id) \/ OtherRequest(id)
    \/ \E r \in Rooms : R!SetRoomStatus(r) /\ UNCHANGED houseVars
    \/ R!NextDay /\ UNCHANGED houseVars

Spec == Init /\ [][Next]_allVars

-----------------------------------------------------------------------------
(* Properties *)

Tasks == [room : Rooms, auto : BOOLEAN, status : DOMAIN TaskTransitions,
          assignee : Staff \cup {Null}]
Orders == [room : Rooms, takesOut : BOOLEAN, status : DOMAIN OrderTransitions]

\* The tables are typed, and a call in flight is about a row of its table.
TypeOK ==
    /\ roomStatus \in [Rooms -> RoomStatuses]
    /\ \A i \in DOMAIN tasks : tasks[i] \in Tasks
    /\ \A i \in DOMAIN orders : orders[i] \in Orders
    /\ \A s \in Staff :
          \/ call[s] = NoCall
          \/ /\ call[s].table = "tasks" /\ call[s].id \in DOMAIN tasks
             /\ call[s].before \in Tasks /\ call[s].move \in DOMAIN TaskMoves
          \/ /\ call[s].table = "orders" /\ call[s].id \in DOMAIN orders
             /\ call[s].before \in Orders /\ call[s].move \in DOMAIN OrderMoves
    /\ untouched \subseteq Rooms /\ owed \subseteq Rooms

\* A room that a guest has checked out of is on the board, with an open task,
\* until an inspection of it passes: whatever else was open on it, however the
\* staff's calls cross, a failed inspection's "redo is never lost".
OwedRoomHasTask == \A r \in owed : OpenTasks(r) # {}

\* board(): "every room of the property with its open housekeeping task".  What
\* the board shows of a room that a guest has left waits for somebody: it is in
\* the feed of one who may do it, or finished and the supervisor's to inspect.
OwedWorkIsShown ==
    \A r \in owed :
        /\ OpenTasks(r) # {}
        /\ LET i == boardTask(r)
           IN  \/ tasks[i].status = "COMPLETED"
               \/ \E s \in Staff : i \in myTasks(s) /\ MayWork(s, tasks[i])

\* "The order took the room off the board ... so cancelling it must always put
\* the room back": a room off the board has an active order that took it off,
\* though accepting, completing and cancelling cross and several orders name it.
NoRoomStranded ==
    \A r \in Rooms :
        roomStatus[r] \in {"OUT_OF_ORDER", "MAINTENANCE"} => ActiveOrders(r) # {}

-----------------------------------------------------------------------------
(* What comments of the code say and the code does not do *)

\* checkOut(): "the room is not sellable until housekeeping has been through it".
UnmadeRoomNotSellable == \A r \in untouched : roomStatus[r] \notin Assignable

\* checkOut(): "the housekeeping board is never out of step with the rooms that
\* need making up".
DirtyRoomOnBoard == \A r \in Rooms : roomStatus[r] = "DIRTY" => OpenTasks(r) # {}

\* WorkOrdersService.create(): "A room flagged out of service is out NOW".
OutOfServiceNotSellable ==
    \A r \in Rooms : ActiveOrders(r) # {} => roomStatus[r] \notin Assignable

\* ASSIGNABLE_ROOM_STATUSES refuse a room "because someone or something is
\* still in the room": no two guests in house have the same room.
OneGuestPerRoom ==
    \A a, b \in Bookings :
        (a # b /\ resv[a].status = "CHECKED_IN" /\ resv[b].status = "CHECKED_IN")
        => resv[a].room # resv[b].room

\* board(): "newest first so the current one wins".  A task raised by hand on a
\* room that is being made up hides the task that somebody is doing there.
CurrentOneWins ==
    \A r \in Rooms :
        (\E i \in OpenTasks(r) : tasks[i].status = "IN_PROGRESS")
        => tasks[boardTask(r)].status = "IN_PROGRESS"

\* task-transitions.ts: "INSPECTED and REJECTED are terminal".
EndedTasksStay ==
    [][\A i \in DOMAIN tasks :
          tasks[i].status \in {"INSPECTED", "REJECTED"}
          => tasks'[i].status = tasks[i].status]_allVars

\* start(): "An attendant may only start a task assigned to them OR an
\* unassigned one, which they CLAIM here".
ClaimsRespected ==
    [][\A s \in Staff \ Supervisors :
          (WriteTask(s) /\ call[s].move = "start")
          => tasks[call[s].id].assignee \in {s, Null}]_allVars

=============================================================================
