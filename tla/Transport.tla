------------------------------ MODULE Transport ------------------------------
(***************************************************************************)
(* The travel desk (TransportService, VehiclesService) and its drivers.    *)
(* The desk assigns, takes back, cancels and completes a trip; the driver  *)
(* who has it walks it from door to door.                                  *)
(*                                                                         *)
(* A request reads the trip, refuses or carries on, and writes later what  *)
(* it decided.  A driver's step is a transaction that, after its write,    *)
(* looks the trip up again as its own and is undone if it is not.          *)
(***************************************************************************)
EXTENDS Absent, Naturals, FiniteSets

CONSTANTS
    Trips,         \* rows of transport_requests
    Drivers,
    Vehicles,
    Callers        \* requests that can be under way at once

VARIABLES
    trips,         \* transport_requests
    vehicles,      \* whether each is on the list
    callers        \* where each request stands

transportVars == <<trips, vehicles, callers>>

TRANSPORT_TRANSITIONS ==
    {<<"REQUESTED", "ASSIGNED">>, <<"REQUESTED", "CANCELLED">>,
     <<"ASSIGNED", "IN_PROGRESS">>, <<"ASSIGNED", "REQUESTED">>, <<"ASSIGNED", "CANCELLED">>,
     <<"IN_PROGRESS", "COMPLETED">>, <<"IN_PROGRESS", "CANCELLED">>}

DRIVER_STAGE_TRANSITIONS ==
    {<<Null, "ACCEPTED">>, <<"ACCEPTED", "EN_ROUTE">>, <<"EN_ROUTE", "ARRIVED">>,
     <<"ARRIVED", "PICKED_UP">>}

TripStatuses == {"REQUESTED", "ASSIGNED", "IN_PROGRESS", "COMPLETED", "CANCELLED"}

Stages == {"ACCEPTED", "EN_ROUTE", "ARRIVED", "PICKED_UP"}

TripRows == [status : TripStatuses, stage : Stages \cup {Null}, driver : Drivers \cup {Null},
             vehicle : Vehicles \cup {Null}, deleted : BOOLEAN]

\* driverStepStage: the stage a step leads to; complete leads to none.
StepStage == [accept |-> "ACCEPTED", onTheWay |-> "EN_ROUTE", arrived |-> "ARRIVED",
              pickedUp |-> "PICKED_UP", complete |-> Null]

Waiting == [op |-> "none", trip |-> Null, me |-> Null, patch |-> Null]

TransportInit ==
    /\ trips = [t \in Trips |-> Null]
    /\ vehicles = [v \in Vehicles |-> TRUE]
    /\ callers = [c \in Callers |-> Waiting]

requireRequest(t) == trips[t] # Null /\ ~trips[t].deleted

requireMyTrip(t, me) == requireRequest(t) /\ trips[t].driver = me

Decides(c, op, t, me, patch) ==
    /\ callers[c] = Waiting
    /\ callers' = [callers EXCEPT ![c] = [op |-> op, trip |-> t, me |-> me, patch |-> patch]]
    /\ UNCHANGED <<trips, vehicles>>

\* A patch is the fields a request sets, with their new values.
Patched(row, patch) == [f \in DOMAIN row |-> IF f \in DOMAIN patch THEN patch[f] ELSE row[f]]

-----------------------------------------------------------------------------
(* The desk *)

create(t) ==
    /\ trips[t] = Null
    /\ trips' = [trips EXCEPT ![t] = [status |-> "REQUESTED", stage |-> Null, driver |-> Null,
                                      vehicle |-> Null, deleted |-> FALSE]]
    /\ UNCHANGED <<vehicles, callers>>

\* An ASSIGNED trip passes the first test and not the second: there is no
\* ASSIGNED to ASSIGNED, so a trip is taken back before another driver has it.
assign(c, t, driver, v) ==
    /\ requireRequest(t)
    /\ trips[t].status \in {"REQUESTED", "ASSIGNED"}
    /\ <<trips[t].status, "ASSIGNED">> \in TRANSPORT_TRANSITIONS
    /\ v # Null => vehicles[v]
    /\ Decides(c, "desk", t, Null, [status |-> "ASSIGNED", driver |-> driver, vehicle |-> v])

PatchFor(to) ==
    IF to = "REQUESTED" THEN [status |-> to, driver |-> Null, vehicle |-> Null, stage |-> Null]
                        ELSE [status |-> to]

\* The desk may set any status the machine allows, IN_PROGRESS too.
setStatus(c, t, to) ==
    /\ requireRequest(t)
    /\ <<trips[t].status, to>> \in TRANSPORT_TRANSITIONS
    /\ Decides(c, "desk", t, Null, PatchFor(to))

remove(t) ==
    /\ requireRequest(t)
    /\ trips' = [trips EXCEPT ![t].deleted = TRUE]
    /\ UNCHANGED <<vehicles, callers>>

removeVehicle(v) ==
    /\ vehicles[v]
    /\ vehicles' = [vehicles EXCEPT ![v] = FALSE]
    /\ UNCHANGED <<trips, callers>>

WriteDesk(c) ==
    /\ callers[c].op = "desk"
    /\ trips' = [trips EXCEPT ![callers[c].trip] = Patched(@, callers[c].patch)]
    /\ callers' = [callers EXCEPT ![c] = Waiting]
    /\ UNCHANGED vehicles

-----------------------------------------------------------------------------
(* The driver *)

StepPatch(t, step) ==
    CASE step = "accept" -> [status |-> "IN_PROGRESS", stage |-> "ACCEPTED"]
      [] step = "complete" -> [status |-> "COMPLETED"]
      [] OTHER -> [stage |-> StepStage[step]]

StepAllowed(row, step) ==
    CASE step = "accept" -> /\ <<row.status, "IN_PROGRESS">> \in TRANSPORT_TRANSITIONS
                            /\ <<row.stage, "ACCEPTED">> \in DRIVER_STAGE_TRANSITIONS
      [] step = "complete" -> /\ <<row.status, "COMPLETED">> \in TRANSPORT_TRANSITIONS
                              /\ row.stage = "PICKED_UP"
      [] OTHER -> /\ row.status = "IN_PROGRESS"
                  /\ <<row.stage, StepStage[step]>> \in DRIVER_STAGE_TRANSITIONS

step(c, me, t, s) ==
    /\ requireMyTrip(t, me)
    /\ StepAllowed(trips[t], s)
    /\ Decides(c, "step", t, me, StepPatch(t, s))

\* Mutant: the trip is not looked up again after the write.
StillAnyones(t, me) == TRUE

StillMine(t, me) == requireMyTrip(t, me)

WriteStep(c) ==
    /\ callers[c].op = "step"
    /\ LET t == callers[c].trip
       IN  trips' = IF StillMine(t, callers[c].me)
                    THEN [trips EXCEPT ![t] = Patched(@, callers[c].patch)] ELSE trips
    /\ callers' = [callers EXCEPT ![c] = Waiting]
    /\ UNCHANGED vehicles

TransportNext ==
    \/ \E t \in Trips : create(t) \/ remove(t)
    \/ \E c \in Callers, t \in Trips, d \in Drivers, v \in Vehicles \cup {Null} : assign(c, t, d, v)
    \/ \E c \in Callers, t \in Trips, to \in TripStatuses : setStatus(c, t, to)
    \/ \E v \in Vehicles : removeVehicle(v)
    \/ \E c \in Callers, me \in Drivers, t \in Trips, s \in DOMAIN StepStage : step(c, me, t, s)
    \/ \E c \in Callers : WriteDesk(c) \/ WriteStep(c)

-----------------------------------------------------------------------------
(* Properties *)

TransportTypeOK ==
    /\ \A t \in Trips : trips[t] = Null \/ trips[t] \in TripRows
    /\ vehicles \in [Vehicles -> BOOLEAN]

\* A trip that was set off by a driver has one, whatever the desk did while the
\* driver's request was under way: taking it back clears the stage, and a step
\* is undone when the trip is no longer its driver's (transport.service.ts:
\* 283-287, 381-383).
StartedTripHasDriver ==
    \A t \in Trips : requireRequest(t) /\ trips[t].stage # Null => trips[t].driver # Null

=============================================================================
