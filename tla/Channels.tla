------------------------------ MODULE Channels ------------------------------
(***************************************************************************)
(* The channel manager of one property (ChannexSyncService, its worker and *)
(* webhook, StaffChannelsService): what is free is pushed out, what was    *)
(* sold is pulled in and booked through ReservationsService.create.        *)
(*                                                                         *)
(* A sync run and a webhook may be served at once.  A booking is looked up *)
(* by its reference, created, and stamped with the reference, in three     *)
(* statements; a crash or another handler comes between any two of them.   *)
(***************************************************************************)
EXTENDS Absent, Naturals, Sequences, FiniteSets

CONSTANTS
    Sold,            \* bookings guests make on the channel
    Types,           \* room types
    TypeOf,          \* the type of each booking
    RoomCount,       \* rooms of each type
    Runs,            \* sync runs and webhooks served at once
    Manual,          \* whether an admin may start a run
    MaxFailures,     \* failed legs
    MaxCrashes,
    MaxDeliveries,   \* deliveries of one webhook event
    MaxHour,
    MaxStays         \* bound on the rows of reservations

VARIABLES
    channel,         \* each booking as the channel has it
    published,       \* rooms of each type the channel may still sell
    deliveries,      \* how often each webhook event was delivered
    connection,      \* the row of integration_connections
    hooks,           \* channex_webhook_events
    stays,           \* the reservations
    runs,
    hour,
    failures,
    crashes,
    raced            \* history: bookings two handlers, or a crash, met

channelVars == <<channel, published, deliveries, connection, hooks, stays, runs, hour, failures,
                 crashes, raced>>

\* A webhook event says that a booking was made or cancelled.
HookEvents == Sold \X {"new", "cancelled"}

Connections == [status : {"HEALTHY", "WARNING", "ERROR"}, errorCount : 0 .. 2,
                lastSyncAt : 0 .. MaxHour, mapped : SUBSET Types]

StayRows == [from : Sold \cup {Null}, type : Types, ref : Sold \cup {Null},
             status : {"CONFIRMED", "CANCELLED"}]

\* What no booking comes from is not a booking.
ASSUME SoldAssumption == Null \notin Sold /\ \A b \in Sold : TypeOf[b] \in Types

NoRun == [step |-> "IDLE", event |-> Null, left |-> {}, booking |-> Null, row |-> 0, ok |-> TRUE,
          errors |-> 0, since |-> 0, mapped |-> {}]

ChannelsInit ==
    /\ channel = [b \in Sold |-> [status |-> "NONE", at |-> 0]]
    /\ published = [t \in Types |-> RoomCount[t]]
    /\ deliveries = [e \in HookEvents |-> 0]
    /\ connection = [status |-> "HEALTHY", errorCount |-> 0, lastSyncAt |-> 0, mapped |-> Types]
    /\ hooks = [e \in HookEvents |-> "NONE"]
    /\ stays = << >>
    /\ runs = [r \in Runs |-> NoRun]
    /\ hour = 0
    /\ failures = 0
    /\ crashes = 0
    /\ raced = {}

Tick ==
    /\ hour < MaxHour
    /\ hour' = hour + 1
    /\ UNCHANGED <<channel, published, deliveries, connection, hooks, stays, runs, failures,
                   crashes, raced>>

(***************************************************************************)
(* The guests of the channel, and of the house.                            *)
(***************************************************************************)

BookOnChannel(b) ==
    /\ channel[b].status = "NONE"
    /\ published[TypeOf[b]] > 0
    /\ channel' = [channel EXCEPT ![b] = [status |-> "BOOKED", at |-> hour]]
    /\ published' = [published EXCEPT ![TypeOf[b]] = @ - 1]
    /\ UNCHANGED <<deliveries, connection, hooks, stays, runs, hour, failures, crashes, raced>>

CancelOnChannel(b) ==
    /\ channel[b].status = "BOOKED"
    /\ channel' = [channel EXCEPT ![b].status = "CANCELLED"]
    /\ UNCHANGED <<published, deliveries, connection, hooks, stays, runs, hour, failures, crashes,
                   raced>>

Occupied(t) == Cardinality({i \in DOMAIN stays : stays[i].type = t /\ stays[i].status = "CONFIRMED"})

\* ReservationsService.create refuses a booking the type has no room for.
Refused(t) == Occupied(t) >= RoomCount[t]

Books(b, t) ==
    /\ ~Refused(t)
    /\ Len(stays) < MaxStays
    /\ stays' = Append(stays, [from |-> b, type |-> t, ref |-> Null, status |-> "CONFIRMED"])

WalkIn(t) ==
    /\ Books(Null, t)
    /\ UNCHANGED <<channel, published, deliveries, connection, hooks, runs, hour, failures, crashes,
                   raced>>

CancelStay(i) ==
    /\ stays[i].status = "CONFIRMED"
    /\ stays' = [stays EXCEPT ![i].status = "CANCELLED"]
    /\ UNCHANGED <<channel, published, deliveries, connection, hooks, runs, hour, failures, crashes,
                   raced>>

(***************************************************************************)
(* A sync run.                                                             *)
(***************************************************************************)

\* activeConnections: what the worker polls, one run at a time; an admin may
\* start a run of any connection at any moment.
activeConnection == connection.status \in {"HEALTHY", "WARNING"}

syncConnection(r) ==
    /\ runs[r] = NoRun
    /\ activeConnection \/ Manual
    /\ Manual \/ \A s \in Runs : runs[s].step = "IDLE" \/ runs[s].event # Null
    /\ runs' = [runs EXCEPT ![r] = [NoRun EXCEPT !.step = "AVAILABILITY",
                                                 !.errors = connection.errorCount,
                                                 !.since = connection.lastSyncAt,
                                                 !.mapped = connection.mapped]]
    /\ UNCHANGED <<channel, published, deliveries, connection, hooks, stays, hour, failures,
                   crashes, raced>>

\* computeAvailability: rooms minus committed stays, and never below zero.
computeAvailability(t) == IF Occupied(t) < RoomCount[t] THEN RoomCount[t] - Occupied(t) ELSE 0

\* A leg that fails is logged, and the next leg is taken all the same.
LegFails(r, next) ==
    /\ failures < MaxFailures
    /\ failures' = failures + 1
    /\ runs' = [runs EXCEPT ![r].step = next, ![r].ok = FALSE]

pushAvailability(r) ==
    /\ runs[r].step = "AVAILABILITY"
    /\ \/ /\ published' = [t \in Types |-> IF t \in runs[r].mapped THEN computeAvailability(t)
                                           ELSE published[t]]
          /\ runs' = [runs EXCEPT ![r].step = "RATES"]
          /\ UNCHANGED failures
       \/ LegFails(r, "RATES") /\ UNCHANGED published
    /\ UNCHANGED <<channel, deliveries, connection, hooks, stays, hour, crashes, raced>>

pushRates(r) ==
    /\ runs[r].step = "RATES"
    /\ \/ runs' = [runs EXCEPT ![r].step = "PULL"] /\ UNCHANGED failures
       \/ LegFails(r, "PULL")
    /\ UNCHANGED <<channel, published, deliveries, connection, hooks, stays, hour, crashes, raced>>

\* getBookings: what was inserted at the watermark or after it.
getBookings(since) == {b \in Sold : channel[b].status # "NONE" /\ channel[b].at >= since}

\* A run goes by the payloads it fetched.  One that says cancelled is passed over
\* when its turn comes, which changes nothing: it is not kept.
Uncancelled(fetched) == {b \in fetched : channel[b].status # "CANCELLED"}

pullBookings(r) ==
    /\ runs[r].step = "PULL"
    /\ \/ runs' = [runs EXCEPT ![r].step = "NEXT",
                               ![r].left = Uncancelled(getBookings(runs[r].since))]
          /\ UNCHANGED failures
       \/ LegFails(r, "NEXT")
    /\ UNCHANGED <<channel, published, deliveries, connection, hooks, stays, hour, crashes, raced>>

\* updateHealth: lastSyncAt is set whether or not the run was a success.
Health(ok, errors) ==
    IF ok THEN [connection EXCEPT !.status = "HEALTHY", !.errorCount = 0, !.lastSyncAt = hour]
    ELSE [connection EXCEPT !.status = IF errors + 1 >= 2 THEN "ERROR" ELSE "WARNING",
                            !.errorCount = IF errors < 2 THEN errors + 1 ELSE 2,
                            !.lastSyncAt = hour]

updateHealth(r) ==
    /\ runs[r].step = "NEXT"
    /\ runs[r].left = {}
    /\ runs[r].event = Null
    /\ connection' = Health(runs[r].ok, runs[r].errors)
    /\ runs' = [runs EXCEPT ![r] = NoRun]
    /\ UNCHANGED <<channel, published, deliveries, hooks, stays, hour, failures, crashes, raced>>

(***************************************************************************)
(* One booking.                                                            *)
(***************************************************************************)

\* Mutation for BookedOnceUnlessRaced: the reference is not looked up.
NeverImported(b) == FALSE

Imported(b) == \E i \in DOMAIN stays : stays[i].ref = b

\* What else is passed over: types that were not mapped when the run read its
\* configuration.
Ingestible(r, b) == TypeOf[b] \in runs[r].mapped

\* Another handler is between its look and its stamp for the same booking.
Meets(r, b) == \E s \in Runs \ {r} : runs[s].step \in {"CREATE", "STAMP"} /\ runs[s].booking = b

\* ingestBooking, up to the call of the booking engine.
IngestLook(r, b) ==
    /\ runs[r].step = "NEXT"
    /\ b \in runs[r].left
    /\ runs' = IF Imported(b) \/ ~Ingestible(r, b)
               THEN [runs EXCEPT ![r].left = @ \ {b}]
               ELSE [runs EXCEPT ![r].step = "CREATE", ![r].booking = b, ![r].left = @ \ {b}]
    /\ raced' = IF Meets(r, b) THEN raced \cup {b} ELSE raced
    /\ UNCHANGED <<channel, published, deliveries, connection, hooks, stays, hour, failures, crashes>>

IngestCreate(r) ==
    LET b == runs[r].booking IN
    /\ runs[r].step = "CREATE"
    /\ \/ /\ Books(b, TypeOf[b])
          /\ runs' = [runs EXCEPT ![r].step = "STAMP", ![r].row = Len(stays')]
       \/ /\ Refused(TypeOf[b])
          /\ runs' = [runs EXCEPT ![r].step = "NEXT", ![r].booking = Null]
          /\ UNCHANGED stays
    /\ UNCHANGED <<channel, published, deliveries, connection, hooks, hour, failures, crashes, raced>>

\* The reference is unique in the property; a second row keeps none.
IngestStamp(r) ==
    LET b == runs[r].booking IN
    /\ runs[r].step = "STAMP"
    /\ stays' = IF Imported(b) THEN stays ELSE [stays EXCEPT ![runs[r].row].ref = b]
    /\ runs' = [runs EXCEPT ![r].step = "NEXT", ![r].booking = Null, ![r].row = 0]
    /\ UNCHANGED <<channel, published, deliveries, connection, hooks, hour, failures, crashes, raced>>

(***************************************************************************)
(* The webhook.                                                            *)
(***************************************************************************)

\* The channel says what happened, again and again until it is answered.
Happened(e) ==
    \/ e[2] = "new" /\ channel[e[1]].status # "NONE"
    \/ e[2] = "cancelled" /\ channel[e[1]].status = "CANCELLED"

\* handleChannexWebhook: the event is claimed by its row, and a claimed event is
\* answered and dropped, whether or not it was ever processed.
handleChannexWebhook(r, e) ==
    /\ Happened(e)
    /\ deliveries[e] < MaxDeliveries
    /\ runs[r] = NoRun
    /\ deliveries' = [deliveries EXCEPT ![e] = @ + 1]
    /\ IF hooks[e] # "NONE" THEN UNCHANGED <<hooks, runs>>
       ELSE /\ hooks' = [hooks EXCEPT ![e] = "CLAIMED"]
            /\ runs' = [runs EXCEPT ![r] = [NoRun EXCEPT !.step = "HOOK", !.event = e]]
    /\ UNCHANGED <<channel, published, connection, stays, hour, failures, crashes, raced>>

\* processWebhookPayload: the booking is read from the channel, or the event
\* is marked with the error.
processWebhookPayload(r) ==
    /\ runs[r].step = "HOOK"
    /\ \/ /\ activeConnection
          /\ runs' = [runs EXCEPT ![r].step = "NEXT",
                                  ![r].mapped = connection.mapped,
                                  ![r].left = Uncancelled({runs[r].event[1]} \cap getBookings(0))]
          /\ UNCHANGED <<hooks, failures>>
       \/ /\ IF activeConnection THEN failures < MaxFailures /\ failures' = failures + 1
             ELSE UNCHANGED failures
          /\ hooks' = [hooks EXCEPT ![runs[r].event] = "ERROR"]
          /\ runs' = [runs EXCEPT ![r] = NoRun]
    /\ UNCHANGED <<channel, published, deliveries, connection, stays, hour, crashes, raced>>

WebhookProcessed(r) ==
    /\ runs[r].step = "NEXT"
    /\ runs[r].left = {}
    /\ runs[r].event # Null
    /\ hooks' = [hooks EXCEPT ![runs[r].event] = "PROCESSED"]
    /\ runs' = [runs EXCEPT ![r] = NoRun]
    /\ UNCHANGED <<channel, published, deliveries, connection, stays, hour, failures, crashes, raced>>

\* mapRoomType and unmapRoomType.
mapRoomType(t) ==
    /\ connection' = [connection EXCEPT !.mapped = @ \cup {t}]
    /\ connection' # connection
    /\ UNCHANGED <<channel, published, deliveries, hooks, stays, runs, hour, failures, crashes, raced>>

unmapRoomType(t) ==
    /\ connection' = [connection EXCEPT !.mapped = @ \ {t}]
    /\ connection' # connection
    /\ UNCHANGED <<channel, published, deliveries, hooks, stays, runs, hour, failures, crashes, raced>>

\* The process stops: what was being served is not taken up again.
ChannelsCrash ==
    /\ crashes < MaxCrashes
    /\ crashes' = crashes + 1
    /\ raced' = raced \cup {runs[r].booking : r \in {s \in Runs : runs[s].step = "STAMP"}}
    /\ runs' = [r \in Runs |-> NoRun]
    /\ UNCHANGED <<channel, published, deliveries, connection, hooks, stays, hour, failures>>

SyncStep(r) == pushAvailability(r) \/ pushRates(r) \/ pullBookings(r) \/ updateHealth(r)

IngestStep(r) == IngestCreate(r) \/ IngestStamp(r) \/ \E b \in Sold : IngestLook(r, b)

HookStep(r) == processWebhookPayload(r) \/ WebhookProcessed(r)

ChannelsNext ==
    \/ Tick
    \/ \E b \in Sold : BookOnChannel(b) \/ CancelOnChannel(b)
    \/ \E t \in Types : WalkIn(t) \/ mapRoomType(t) \/ unmapRoomType(t)
    \/ \E i \in DOMAIN stays : CancelStay(i)
    \/ \E r \in Runs : syncConnection(r) \/ SyncStep(r) \/ IngestStep(r) \/ HookStep(r)
    \/ \E r \in Runs, e \in HookEvents : handleChannexWebhook(r, e)
    \/ ChannelsCrash

ChannelsSpec == ChannelsInit /\ [][ChannelsNext]_channelVars

(***************************************************************************)
(* Properties.                                                             *)
(***************************************************************************)

ChannelsTypeOK ==
    /\ connection \in Connections
    /\ stays \in Seq(StayRows)
    /\ Len(stays) <= MaxStays
    /\ \A t \in Types : published[t] \in 0 .. RoomCount[t]
    /\ \A e \in HookEvents : hooks[e] \in {"NONE", "CLAIMED", "PROCESSED", "ERROR"}
    /\ \A r \in Runs : runs[r].left \subseteq Sold

\* A booking of the channel becomes one reservation, however often its
\* webhook is delivered and however many runs fetch it, unless two handlers
\* were between the look and the stamp at once or a crash came between the
\* reservation and its stamp (ingestBooking).
BookedOnceUnlessRaced ==
    \A b \in Sold : b \notin raced => Cardinality({i \in DOMAIN stays : stays[i].from = b}) <= 1

\* What ingestBooking says of a cancellation it leaves alone: one for a
\* booking that was taken is handled by the webhook.
CancelledOnChannelIsFreed ==
    \A b \in Sold : hooks[<<b, "cancelled">>] = "PROCESSED" /\ (\A r \in Runs : runs[r] = NoRun)
        => \A i \in DOMAIN stays : stays[i].ref = b => stays[i].status = "CANCELLED"

\* What pullBookings promises: everything inserted since the last run has
\* been looked at by a run that ended, once the connection is healthy.
NothingMissed ==
    \A b \in Sold : /\ channel[b].status = "BOOKED"
                    /\ channel[b].at < connection.lastSyncAt
                    /\ connection.status = "HEALTHY"
                    /\ connection.mapped = Types
                    /\ Occupied(TypeOf[b]) < RoomCount[TypeOf[b]]
                    => Imported(b)
=============================================================================
