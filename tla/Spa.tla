--------------------------------- MODULE Spa ---------------------------------
(***************************************************************************)
(* The spa (SpaServicesService, SpaAppointmentsService, SpaBillsService):  *)
(* a treatment is booked with a service, done, billed and settled, on the  *)
(* folio of a room or otherwise.                                           *)
(*                                                                         *)
(* A request reads a row, refuses or carries on, and writes later what it  *)
(* decided, with no lock in between: it is those two steps.  A bill is one *)
(* per appointment, so it has the appointment's name.                      *)
(***************************************************************************)
EXTENDS Folio

CONSTANTS
    Appointments,   \* rows of spa_appointments and of spa_bills
    Price,          \* of the bill of a treatment, its tax included
    Therapists,
    SpaDesks        \* requests that can be under way at once

VARIABLES
    service,        \* status of the one service on the list
    appointments,   \* status, therapist and stay of each appointment
    bills,          \* spa_bills
    spaDesk,        \* where each request stands
    crossed         \* appointments two requests worked on at once

spaVars == <<service, appointments, bills, spaDesk, crossed>>

APPOINTMENT_TRANSITIONS ==
    {<<"BOOKED", "IN_PROGRESS">>, <<"BOOKED", "CANCELLED">>, <<"BOOKED", "NO_SHOW">>,
     <<"IN_PROGRESS", "COMPLETED">>, <<"IN_PROGRESS", "CANCELLED">>}

BILL_TRANSITIONS == {<<"UNPAID", "PAID">>, <<"PAID", "REFUNDED">>}

AppointmentRows ==
    [status : {"BOOKED", "IN_PROGRESS", "COMPLETED", "CANCELLED", "NO_SHOW"},
     therapist : Therapists \cup {Null}]

BillRows == [status : {"UNPAID", "PAID", "REFUNDED"}, room : Stays \cup {Null}]

Quiet == [op |-> "none", appointment |-> Null, to |-> "none", room |-> Null]

SpaInit ==
    /\ service = "ACTIVE"
    /\ appointments = [a \in Appointments |-> Null]
    /\ bills = [a \in Appointments |-> Null]
    /\ spaDesk = [d \in SpaDesks |-> Quiet]
    /\ crossed = {}

StatusOf(a) == IF appointments[a] = Null THEN "none" ELSE appointments[a].status

BillStatusOf(a) == IF bills[a] = Null THEN "none" ELSE bills[a].status

-----------------------------------------------------------------------------
(* Services and appointments *)

setServiceStatus(status) ==
    /\ service' = status
    /\ UNCHANGED <<appointments, bills, spaDesk, crossed, folioVars>>

create(a, therapist) ==
    /\ service = "ACTIVE"
    /\ appointments[a] = Null
    /\ appointments' = [appointments EXCEPT ![a] = [status |-> "BOOKED", therapist |-> therapist]]
    /\ UNCHANGED <<service, bills, spaDesk, crossed, folioVars>>

\* assignTherapist: at any status; of what a request reads it writes nothing back.
assignTherapist(a, therapist) ==
    /\ appointments[a] # Null
    /\ appointments' = [appointments EXCEPT ![a].therapist = therapist]
    /\ UNCHANGED <<service, bills, spaDesk, crossed, folioVars>>

Takes(d, r) ==
    /\ spaDesk[d] = Quiet
    /\ spaDesk' = [spaDesk EXCEPT ![d] = r]
    /\ crossed' = crossed \cup {b \in {r.appointment} : \E e \in SpaDesks : spaDesk[e].appointment = b}
    /\ UNCHANGED <<service, appointments, bills, folioVars>>

\* A therapist moves only an appointment of their own; the desk moves any.
ReadToSetStatus(d, a, to, me) ==
    /\ <<StatusOf(a), to>> \in APPOINTMENT_TRANSITIONS
    /\ me \in {Null, appointments[a].therapist}
    /\ Takes(d, [op |-> "status", appointment |-> a, to |-> to, room |-> Null])

setStatus(d) ==
    /\ spaDesk[d].op = "status"
    /\ appointments' = [appointments EXCEPT ![spaDesk[d].appointment].status = spaDesk[d].to]
    /\ spaDesk' = [spaDesk EXCEPT ![d] = Quiet]
    /\ UNCHANGED <<service, bills, crossed, folioVars>>

-----------------------------------------------------------------------------
(* Bills *)

isBillable(a) == StatusOf(a) = "COMPLETED"

\* createForAppointment: the unique index makes the look-up and the insert one.
createForAppointment(a) ==
    /\ isBillable(a)
    /\ bills[a] = Null
    /\ bills' = [bills EXCEPT ![a] = [status |-> "UNPAID", room |-> Null]]
    /\ UNCHANGED <<service, appointments, spaDesk, crossed, folioVars>>

ReadToSettle(d, a, room) ==
    /\ BillStatusOf(a) = "UNPAID"
    /\ room # Null => ~stay[room].out
    /\ Takes(d, [op |-> "settle", appointment |-> a, to |-> "PAID", room |-> room])

\* The room is charged the bill and, by postCharge, its tax again.
settle(d) ==
    /\ spaDesk[d].op = "settle"
    /\ LET a == spaDesk[d].appointment
           room == spaDesk[d].room
       IN  /\ bills' = [bills EXCEPT ![a] = [status |-> "PAID", room |-> room]]
           /\ \/ room # Null /\ CanPost(a) /\ PostCharge(room, Price, a)
              \/ room = Null /\ UNCHANGED lines
    /\ spaDesk' = [spaDesk EXCEPT ![d] = Quiet]
    /\ UNCHANGED <<service, appointments, crossed, payments, cached, stay, drawer, shifts, account,
                   desk, disturbed>>

ReadToRefund(d, a) ==
    /\ <<BillStatusOf(a), "REFUNDED">> \in BILL_TRANSITIONS
    /\ Takes(d, [op |-> "refund", appointment |-> a, to |-> "REFUNDED", room |-> Null])

\* Record-only: a line on a folio stays there.
refund(d) ==
    /\ spaDesk[d].op = "refund"
    /\ bills' = [bills EXCEPT ![spaDesk[d].appointment].status = "REFUNDED"]
    /\ spaDesk' = [spaDesk EXCEPT ![d] = Quiet]
    /\ UNCHANGED <<service, appointments, crossed, folioVars>>

SpaNext ==
    \/ \E status \in {"ACTIVE", "ARCHIVED"} : setServiceStatus(status)
    \/ \E a \in Appointments, t \in Therapists \cup {Null} : create(a, t)
    \/ \E a \in Appointments, t \in Therapists : assignTherapist(a, t)
    \/ \E d \in SpaDesks, a \in Appointments, me \in Therapists \cup {Null} :
           \E to \in {"IN_PROGRESS", "COMPLETED", "CANCELLED", "NO_SHOW"} : ReadToSetStatus(d, a, to, me)
    \/ \E a \in Appointments : createForAppointment(a)
    \/ \E d \in SpaDesks, a \in Appointments, room \in Stays \cup {Null} : ReadToSettle(d, a, room)
    \/ \E d \in SpaDesks, a \in Appointments : ReadToRefund(d, a)
    \/ \E d \in SpaDesks : setStatus(d) \/ settle(d) \/ refund(d)

-----------------------------------------------------------------------------
(* Properties *)

SpaTypeOK ==
    /\ \A a \in Appointments : appointments[a] = Null \/ appointments[a] \in AppointmentRows
    /\ \A a \in Appointments : bills[a] = Null \/ bills[a] \in BillRows

\* A bill is for a treatment that was completed, is on a folio exactly when it
\* was settled to a room, and there at its own room, unless two requests worked
\* on it at once (every request reads without a lock and writes the status it
\* decided on; appointments.service.ts:166-184, bills.service.ts:152-206).
BillsFollowTreatments ==
    \A a \in Appointments \ crossed : bills[a] # Null =>
        /\ StatusOf(a) = "COMPLETED"
        /\ (bills[a].room # Null) = (LinePosted(a) # {})
        /\ \A l \in LinePosted(a) : lines[l].booking = bills[a].room

=============================================================================
