----------------------------- MODULE MCWorkers -----------------------------
(***************************************************************************)
(* The workers of workers.module.ts that must get something done, for TLC: *)
(* the sweeps of the bookings and the night audit, the subscription        *)
(* calendar, the delivery queue and the hourly pricing.  They share no     *)
(* row, so one of them is on the stage at a time: the initial state        *)
(* chooses which, and what is not of its scene is Null.                    *)
(***************************************************************************)
EXTENDS Integers, FiniteSets, Sequences

CONSTANT Null

VARIABLES
    scene,
    resv, roomStatus, grid, trail,
    today,
    running, at,
    snapshots, closed,
    owner, sub, archived, property, worker, clients, notices, warned, extensions,
    templates, outbox, notifiers, drains, phones, announcements, asked, stops, sent, disturbed,
    days, overrides, rules, sold, typed, crossed, pricing

all == <<scene, resv, roomStatus, grid, trail, today, running, at, snapshots,
         closed, owner, sub, archived, property, worker, clients, notices,
         warned, extensions, templates, outbox, notifiers, drains, phones,
         announcements, asked, stops, sent, disturbed, days, overrides,
         rules, sold, typed, crossed, pricing>>

\* A grid that restricts nothing.
OpenGrid ==
    [t \in {"standard"} |-> [d \in 0 .. 1 |->
        [cap |-> 1, minLos |-> 0, maxLos |-> 2, stopSell |-> FALSE,
         closedToArrival |-> FALSE, closedToDeparture |-> FALSE]]]

Term(trigger, least, kind, value, rank, on) ==
    [trigger |-> trigger, comparator |-> "GTE", threshold |-> least, from |-> on, to |-> on,
     kind |-> kind, value |-> value, priority |-> rank]
TwoTerms ==
    {Term("OCCUPANCY", 50, "PERCENT", 1000, 1, Null), Term("SEASON", 0, "FIXED", 20, 2, 1)}

-----------------------------------------------------------------------------
(* The components and the small hotels they run in. *)

\* The sweeps of the reservations table, with every worker injected as the
\* service's unit test does.
Sweeps == INSTANCE WorkerScheduler WITH
    BookingCount <- 2, RoomCount <- 1, Types <- {"standard"},
    TypeOf <- [r \in {1} |-> "standard"], Horizon <- 1, Grids <- {OpenGrid},
    HoldKinds <- {"none", "running"}, StaffSets <- {},
    Injected <- {"hold-expiry", "night-audit"}

\* The same service as Nest builds it, with none.
Wired == INSTANCE WorkerScheduler WITH
    BookingCount <- 2, RoomCount <- 1, Types <- {"standard"},
    TypeOf <- [r \in {1} |-> "standard"], Horizon <- 1, Grids <- {OpenGrid},
    HoldKinds <- {"none", "running"}, StaffSets <- {}, Injected <- {}

\* The night audit closes the days of the desk, and closes them again.
Audit == INSTANCE NightAudit WITH
    BookingCount <- 2, RoomCount <- 1, Types <- {"standard"},
    TypeOf <- [r \in {1} |-> "standard"], Horizon <- 1, Grids <- {OpenGrid},
    HoldKinds <- {"none"}, StaffSets <- {}

\* One subscription, its payments, and the lifecycle worker of the night.
Calendar == INSTANCE Tenancy WITH
    Days <- [p \in {"basic"} |-> 1], Price <- [p \in {"basic"} |-> 4],
    PropertyLimit <- [p \in {"basic"} |-> 1], NoticeDays <- 1, GraceDays <- 1, SuspendDays <- 2,
    WarningDays <- {}, ExtensionDays <- 1, Keys <- {}, Properties <- {}, Clients <- {"c1"},
    Operations <- {"settle"}, MaxDay <- 5, MaxEnd <- 4

\* One drain of the delivery queue, and a caller that may crash.
Dispatch == INSTANCE Notifications WITH
    Facts <- {"e1"}, OnceFacts <- {"e1"},
    ChannelsOf <- [e \in {"e1"} |-> <<"IN_APP", "EMAIL">>], Announcements <- {},
    Notifiers <- {"c1"}, Drains <- {"w1"}, Phones <- {"p"}, MAX_ATTEMPTS <- 2, MaxRows <- 2,
    MaxStops <- 1, MaxAsks <- 1

\* The hourly run over two rules of one night.
Prices == INSTANCE RevenueEngine WITH
    Nights <- {1}, Base <- 100, MaxPrice <- 150, FloorPrice <- 105, HandPrices <- {},
    Deltas <- {}, Overrides <- {}, OverrideOf <- <<>>, Rules <- {"x", "y"},
    Terms <- TwoTerms, Rooms <- 1, HourlyRun <- "w", Demands <- {}

-----------------------------------------------------------------------------
(* One component is on the stage, the variables of the others rest. *)

Parked(on) ==
    /\ IF "front" \in on THEN TRUE ELSE resv = Null /\ roomStatus = Null /\ grid = Null /\ trail = Null
    /\ IF "today" \in on THEN TRUE ELSE today = Null
    /\ IF "scheduler" \in on THEN TRUE ELSE running = Null /\ at = Null
    /\ IF "audit" \in on THEN TRUE ELSE snapshots = Null /\ closed = Null
    /\ IF "tenancy" \in on THEN TRUE ELSE owner = Null /\ sub = Null /\ archived = Null /\ property = Null /\ worker = Null /\ clients = Null /\ notices = Null /\ warned = Null /\ extensions = Null
    /\ IF "notices" \in on THEN TRUE ELSE templates = Null /\ outbox = Null /\ notifiers = Null /\ drains = Null /\ phones = Null /\ announcements = Null /\ asked = Null /\ stops = Null /\ sent = Null /\ disturbed = Null
    /\ IF "engine" \in on THEN TRUE ELSE days = Null /\ overrides = Null /\ rules = Null /\ sold = Null /\ typed = Null /\ crossed = Null /\ pricing = Null

Resting(on) ==
    /\ scene' = scene
    /\ IF "front" \in on THEN TRUE ELSE UNCHANGED <<resv, roomStatus, grid, trail>>
    /\ IF "today" \in on THEN TRUE ELSE UNCHANGED today
    /\ IF "scheduler" \in on THEN TRUE ELSE UNCHANGED <<running, at>>
    /\ IF "audit" \in on THEN TRUE ELSE UNCHANGED <<snapshots, closed>>
    /\ IF "tenancy" \in on THEN TRUE ELSE UNCHANGED <<owner, sub, archived, property, worker, clients, notices, warned, extensions>>
    /\ IF "notices" \in on THEN TRUE ELSE UNCHANGED <<templates, outbox, notifiers, drains, phones, announcements, asked, stops, sent, disturbed>>
    /\ IF "engine" \in on THEN TRUE ELSE UNCHANGED <<days, overrides, rules, sold, typed, crossed, pricing>>

Uses ==
    [sweeps |-> {"front", "scheduler", "today"},
     audit |-> {"front", "audit", "today"},
     calendar |-> {"tenancy", "today"},
     dispatch |-> {"notices"},
     prices |-> {"engine"}]

Plays(s) == scene = s /\ Resting(Uses[s])

Init ==
    /\ scene \in DOMAIN Uses /\ Parked(Uses[scene])
    /\ scene = "sweeps" => Sweeps!Init
    /\ scene = "audit" => Audit!AuditInit
    /\ scene = "calendar" => Calendar!TenancyInit
    /\ scene = "dispatch" => Dispatch!NotificationsInit
    /\ scene = "prices" => Prices!EngineInit

Next ==
    \/ Plays("sweeps") /\ Sweeps!Next
    \/ Plays("audit") /\ Audit!AuditNext
    \/ Plays("calendar") /\ Calendar!TenancyNext
    \/ Plays("dispatch") /\ Dispatch!NotificationsNext
    \/ Plays("prices") /\ Prices!EngineNext

\* Each worker's fairness, as its module states it: cron ticks again and again
\* and a run gets through; the queue is drained every minute and waits end; the
\* hourly pricing is worked off.  As the scene never changes, fairness of a
\* disjunction over the scenes is fairness in each of them.
Starts ==
    \/ Plays("sweeps") /\ Sweeps!Tick("hold-expiry")
    \/ Plays("calendar") /\ Calendar!StartLifecycle
    \/ Plays("dispatch") /\ Dispatch!Draining("w1")
    \/ Plays("prices") /\ Prices!RunStep("w")

Finishes ==
    \/ Plays("sweeps") /\ Sweeps!End("hold-expiry")
    \/ Plays("calendar") /\ (Calendar!Statement \/ Calendar!announce)
    \/ Plays("dispatch") /\ 1 \in DOMAIN outbox /\ Dispatch!BackoffEnds(1)

AlsoStarts ==
    \/ Plays("sweeps") /\ Sweeps!Tick("night-audit")
    \/ Plays("dispatch") /\ 2 \in DOMAIN outbox /\ Dispatch!BackoffEnds(2)

Fairness ==
    /\ WF_all(Starts) /\ WF_all(Finishes) /\ WF_all(AlsoStarts)
    /\ WF_all(Plays("sweeps") /\ Sweeps!End("night-audit"))
    /\ \A j \in Sweeps!Jobs : SF_all(Plays("sweeps") /\ Sweeps!Sweep(j))
    \* The lifecycle worker does not stop half-way every time.
    /\ ([]<>(scene = "calendar" /\ worker = 1) => []<><<Plays("calendar") /\ Calendar!announce>>_all)

Spec == Init /\ [][Next]_all /\ Fairness

\* The sweeps alone, of the service as it is wired, with the same fairness.
WiredSpec ==
    /\ scene = "sweeps" /\ Parked(Uses["sweeps"]) /\ Wired!Init
    /\ [][Plays("sweeps") /\ Wired!Next]_all
    /\ \A j \in Wired!Jobs : /\ WF_all(Plays("sweeps") /\ Wired!Tick(j))
                             /\ SF_all(Plays("sweeps") /\ Wired!Sweep(j))
                             /\ WF_all(Plays("sweeps") /\ Wired!End(j))

-----------------------------------------------------------------------------
(* Properties *)

\* expireHolds, autoNoShow: an enquiry whose deadline has passed, and a
\* confirmed booking whose guest never came, do not stay on the books, though
\* runs throw, overlap the next tick and die with the process: there comes a
\* moment when there is none.
Stale(claims) == scene = "sweeps" /\ claims # {}
StaleClaimsReleased ==
    /\ Stale(Sweeps!R!Lapsed) ~> ~Stale(Sweeps!R!Lapsed)
    /\ Stale(Sweeps!R!Missed) ~> ~Stale(Sweeps!R!Missed)

\* expireHolds(), "Unpaid enquiry holds lapse on the minute they said they
\* would": no hold outlives its deadline for ever.
HoldsLapse == Wired!HoldsLapse

\* SubscriptionLifecycleWorker: a period that was paid for and ended long ago
\* does not stay usable, though runs stop half-way, or are not made for days.
Overstays ==
    scene = "calendar" /\ sub.status \in Calendar!Usable /\ sub.paid /\ sub.end <= today - 2
LapsedLosesAccess == Overstays ~> ~Overstays

\* drain: every delivery comes to an end, whatever its provider answers.
Waits(i) == scene = "dispatch" /\ i \in DOMAIN outbox /\ outbox[i].status = "PENDING"
EveryDeliverySettles == \A i \in 1 .. 2 : Waits(i) ~> ~Waits(i)

\* RevenueRuleWorker: a night no rule matches any longer goes back to its own
\* price, as long as the property keeps some rule on.
Stranded == scene = "prices" /\ Prices!Orphaned(1) /\ Prices!Enabled # {}
UnmatchedReverts == Stranded ~> ~Stranded

=============================================================================
