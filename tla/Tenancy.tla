------------------------------- MODULE Tenancy -------------------------------
(***************************************************************************)
(* A hotel owner as a tenant of the platform: the subscription and its     *)
(* life by the calendar (SubscriptionsService, SubscriptionLifecycleWorker *)
(* and the plans), the owner's row (OwnersService) and the properties the  *)
(* plan allows (OwnerPortalService, EntitlementsService).                  *)
(*                                                                         *)
(* There is one owner.  The worker's statements are steps of their own: it *)
(* may stop between two of them and requests come in between.  A request   *)
(* that reads the subscription and writes it later is two steps.  Days are *)
(* counted from the day of the owner's creation; the worker's spans of 7,  *)
(* 7 and 14 days are constants, and run scaled down.                       *)
(***************************************************************************)
EXTENDS Absent, Integers, FiniteSets, FiniteSetsExt

CONSTANTS
    Days,           \* length of a period of each plan
    Price,          \* price of a period of each plan
    PropertyLimit,  \* property_limit of each plan
    NoticeDays,     \* ACTIVE becomes EXPIRING so many days before the end
    GraceDays,      \* EXPIRED may become GRACE_PERIOD for so many days
    SuspendDays,    \* GRACE_PERIOD becomes SUSPENDED so many days after the end
    WarningDays,    \* days before the end on which the owner is warned
    ExtensionDays,  \* what an admin extends by
    Keys,           \* idempotency keys of extensions
    Properties,     \* property rows
    Clients,        \* requests that can be under way at once
    Operations,     \* those of the run, of AllOperations
    MaxDay,
    MaxEnd          \* bound on the day a period can end

\* Periods are at least a day long and end within the bound, prices are not negative.
ASSUME PlansAssumption ==
    /\ MaxDay \in Nat /\ MaxEnd \in Nat /\ ExtensionDays \in Nat
    /\ \A p \in DOMAIN Days : Days[p] \in 1 .. MaxEnd /\ Price[p] \in Nat

VARIABLES
    today,
    owner,        \* status and deletion of the owner's row
    sub,          \* the latest subscription of the owner
    archived,     \* plans with status ARCHIVED
    property,     \* rows: none, live, archived by the platform, or deleted
    worker,       \* the worker's next statement
    clients,      \* what each request under way has read
    notices,      \* kinds of lifecycle notice that have a delivery row
    warned,       \* the ends of period the owner was warned of, and how early
    extensions    \* how often each key was applied

tenancyVars == <<today, owner, sub, archived, property, worker, clients, notices, warned,
                 extensions>>

Plans == DOMAIN Days

AllOperations == {"settle", "extend", "change", "status", "property", "delete", "plans"}

SubStatuses == {"TRIAL", "ACTIVE", "EXPIRING", "GRACE_PERIOD", "EXPIRED", "SUSPENDED", "CANCELLED"}

OwnerStatuses == {"PENDING", "ACTIVE", "SUSPENDED", "BLOCKED", "DEACTIVATED"}

\* What a request that writes later keeps of the subscription it read.
Periods == [plan : Plans, start : 0..MaxEnd, end : 0..MaxEnd]

\* byHand: the status was set by an admin, not by the calendar or a payment.
SubRows == [status : SubStatuses, plan : Plans, start : 0..MaxEnd, end : 0..MaxEnd,
            paid : BOOLEAN, byHand : BOOLEAN]

Statements == <<"trials", "expiring", "expired", "grace", "suspend", "announce">>

Waiting == [op |-> "none", row |-> Null, key |-> Null, plan |-> Null]

\* create: the owner, PENDING, with its subscription, in one transaction.  A
\* subscription the platform set up otherwise has the column's default, TRIAL.
TenancyInit ==
    /\ today = 0
    /\ owner = [status |-> "PENDING", deleted |-> FALSE]
    /\ \E p \in Plans, status \in {"ACTIVE", "TRIAL"} :
           sub = [status |-> status, plan |-> p, start |-> 0, end |-> Days[p],
                  paid |-> FALSE, byHand |-> FALSE]
    /\ archived = {}
    /\ property = [p \in Properties |-> "none"]
    /\ worker = 0
    /\ clients = [c \in Clients |-> Waiting]
    /\ notices = {} /\ warned = {}
    /\ extensions = [k \in Keys |-> 0]

platform == <<today, owner, archived, property>>
toldVars == <<notices, warned>>

DayPasses ==
    /\ today < MaxDay
    /\ today' = today + 1
    /\ UNCHANGED <<owner, sub, archived, property, worker, clients, toldVars, extensions>>

-----------------------------------------------------------------------------
(* SubscriptionLifecycleWorker.run: five UPDATEs, each with its predicate, *)
(* and the notices                                                         *)

StartLifecycle ==
    /\ worker = 0
    /\ worker' = 1
    /\ UNCHANGED <<platform, sub, clients, toldVars, extensions>>

\* Mutant: the run of the very day suspends, and a day without one never does.
SuspendedOnTheDay == sub.end = today - SuspendDays

SuspensionDue == sub.end <= today - SuspendDays

Due(statement) ==
    CASE statement = "trials" -> sub.status = "TRIAL" /\ sub.end <= today
      [] statement = "expiring" -> /\ sub.status = "ACTIVE"
                                   /\ today < sub.end /\ sub.end <= today + NoticeDays
      [] statement = "expired" -> sub.status \in {"ACTIVE", "EXPIRING"} /\ sub.end <= today
      [] statement = "grace" -> /\ sub.status = "EXPIRED" /\ sub.paid
                                /\ sub.end > today - GraceDays
      [] statement = "suspend" -> sub.status = "GRACE_PERIOD" /\ SuspensionDue
      [] OTHER -> FALSE

StatusAfter(statement) ==
    CASE statement = "expiring" -> "EXPIRING"
      [] statement = "grace" -> "GRACE_PERIOD"
      [] statement = "suspend" -> "SUSPENDED"
      [] OTHER -> "EXPIRED"

Statement ==
    /\ worker \in 1..5
    /\ sub' = IF Due(Statements[worker])
              THEN [sub EXCEPT !.status = StatusAfter(Statements[worker])] ELSE sub
    /\ worker' = worker + 1
    /\ UNCHANGED <<platform, clients, toldVars, extensions>>

\* The kinds of notice the subscription is in the audience of (those of
\* trials, which go the same way, are left out).
Audience ==
    (IF sub.status \in {"ACTIVE", "EXPIRING"}
     THEN {<<"expiring", d>> : d \in {w \in WarningDays : sub.end = today + w}} ELSE {})
    \cup (IF sub.status \in {"EXPIRED", "GRACE_PERIOD", "SUSPENDED"}
          THEN {<<sub.status, 0>>} ELSE {})

\* notifyOnceQuietly: one row for ever for a kind and a subscription.  The
\* audience leaves out owners that are deleted.
announce ==
    LET sent == IF owner.deleted THEN {} ELSE Audience \ notices
    IN  /\ worker = 6
        /\ notices' = notices \cup sent
        /\ warned' = warned \cup {<<n[2], sub.end>> : n \in {k \in sent : k[1] = "expiring"}}
        /\ worker' = 0
        /\ UNCHANGED <<platform, sub, clients, extensions>>

WorkerStops ==
    /\ worker # 0
    /\ worker' = 0
    /\ UNCHANGED <<platform, sub, clients, toldVars, extensions>>

-----------------------------------------------------------------------------
(* Requests about the subscription: read, then write *)

Reads(c, op, key, plan) ==
    /\ op \in Operations
    /\ clients[c] = Waiting
    /\ clients' = [clients EXCEPT ![c] =
           [op |-> op, key |-> key, plan |-> plan,
            row |-> [plan |-> sub.plan, start |-> sub.start, end |-> sub.end]]]
    /\ UNCHANGED <<platform, sub, worker, toldVars, extensions>>

Answer(c) == clients' = [clients EXCEPT ![c] = Waiting]

\* Mutant: a renewal of a lapsed subscription leaves its status to the worker.
RenewedStatusKept == sub.status

RenewedStatus == "ACTIVE"

Renewed(start, end) ==
    [sub EXCEPT !.start = start, !.end = end, !.status = RenewedStatus, !.byHand = FALSE]

\* BillingService.settleInTx, seen from the subscription.
Settle(c) ==
    LET start == Max({today, clients[c].row.end})
    IN  /\ clients[c].op = "settle"
        /\ start + Days[sub.plan] <= MaxEnd
        /\ sub' = [Renewed(start, start + Days[sub.plan]) EXCEPT !.paid = TRUE]
        /\ Answer(c)
        /\ UNCHANGED <<platform, worker, toldVars, extensions>>

KeyTaken(k) == extensions[k] > 0

\* A key that was applied is answered as a replay.
ExtendBegins(c, k) == ~KeyTaken(k) /\ Reads(c, "extend", k, Null)

\* The extension's row, with its unique key, commits with the new end; a
\* transaction that loses the key to another changes nothing.
Extend(c) ==
    LET k == clients[c].key
        from == Max({today, clients[c].row.end})
    IN  /\ clients[c].op = "extend"
        /\ from + ExtensionDays <= MaxEnd
        /\ IF KeyTaken(k) THEN UNCHANGED <<sub, extensions>>
           ELSE /\ sub' = Renewed(sub.start, from + ExtensionDays)
                /\ extensions' = [extensions EXCEPT ![k] = @ + 1]
        /\ Answer(c)
        /\ UNCHANGED <<platform, worker, toldVars>>

Rounded(a, b) == (2 * a + b) \div (2 * b)

\* computeProration: the unused part of the period is credited against the new
\* one; credit beyond its cost buys days of it.
computeProration(row, plan) ==
    LET total == Max({1, row.end - row.start})
        remaining == Min({total, Max({0, row.end - today})})
        credit == Rounded(Price[row.plan] * remaining, total)
        due == Price[plan] - credit
    IN  [credit |-> credit, due |-> Max({0, due}),
         end |-> today + Days[plan]
                 + (IF due < 0 /\ Price[plan] > 0 THEN (-due * Days[plan]) \div Price[plan] ELSE 0)]

ChangeBegins(c, plan) == plan # sub.plan /\ Reads(c, "change", Null, plan)

changePlan(c) ==
    LET p == clients[c].plan
        end == computeProration(clients[c].row, p).end
    IN  /\ clients[c].op = "change"
        /\ end <= MaxEnd
        /\ sub' = [Renewed(today, end) EXCEPT !.plan = p]
        /\ Answer(c)
        /\ UNCHANGED <<platform, worker, toldVars, extensions>>

\* update: the plan is exchanged as it stands, and the period kept.
updateSubscription(plan) ==
    /\ "status" \in Operations
    /\ sub.plan # plan
    /\ sub' = [sub EXCEPT !.plan = plan]
    /\ UNCHANGED <<platform, worker, clients, toldVars, extensions>>

\* Any status may be set.
setSubscriptionStatus(status) ==
    /\ "status" \in Operations
    /\ sub.status # status
    /\ sub' = [sub EXCEPT !.status = status, !.byHand = TRUE]
    /\ UNCHANGED <<platform, worker, clients, toldVars, extensions>>

-----------------------------------------------------------------------------
(* The owner's row and the plans *)

setOwnerStatus(status) ==
    /\ "delete" \in Operations
    /\ ~owner.deleted /\ owner.status # status
    /\ owner' = [owner EXCEPT !.status = status]
    /\ UNCHANGED <<today, sub, archived, property, worker, clients, toldVars, extensions>>

\* The row is stamped, a subscription that is not CANCELLED or EXPIRED is
\* cancelled and the properties are archived, in one transaction.
removeOwner ==
    /\ "delete" \in Operations
    /\ ~owner.deleted
    /\ owner' = [owner EXCEPT !.deleted = TRUE]
    /\ sub' = IF sub.status \in {"CANCELLED", "EXPIRED"} THEN sub
              ELSE [sub EXCEPT !.status = "CANCELLED", !.byHand = TRUE]
    /\ property' = [p \in Properties |-> IF property[p] = "live" THEN "archived" ELSE property[p]]
    /\ UNCHANGED <<today, archived, worker, clients, toldVars, extensions>>

setPlanStatus(p) ==
    /\ "plans" \in Operations
    /\ archived' = IF p \in archived THEN archived \ {p} ELSE archived \cup {p}
    /\ UNCHANGED <<today, owner, sub, property, worker, clients, toldVars, extensions>>

\* SubscriptionsService.create: a further subscription takes the place of the
\* last one; the plan's status is not asked.
createSubscription(p) ==
    /\ "plans" \in Operations
    /\ today + Days[p] <= MaxEnd
    /\ sub' = [status |-> "ACTIVE", plan |-> p, start |-> today, end |-> today + Days[p],
               paid |-> FALSE, byHand |-> FALSE]
    /\ UNCHANGED <<platform, worker, clients, toldVars, extensions>>

-----------------------------------------------------------------------------
(* Properties *)

Usable == {"TRIAL", "ACTIVE", "EXPIRING", "GRACE_PERIOD"}

\* SubscriptionStatusGuard, on every route that writes and is not exempt.
GuardPasses == sub.status \in Usable

\* currentLimit, in the owner's app.
currentLimit == IF sub.status \in Usable THEN PropertyLimit[sub.plan] ELSE 0

\* What counts against it: rows that are not deleted, archived ones included.
Counted == {p \in Properties : property[p] \in {"live", "archived"}}

PropertyBegins(c) ==
    /\ GuardPasses
    /\ Cardinality(Counted) < currentLimit
    /\ Reads(c, "property", Null, Null)

createProperty(c, p) ==
    /\ clients[c].op = "property"
    /\ property[p] = "none"
    /\ property' = [property EXCEPT ![p] = "live"]
    /\ Answer(c)
    /\ UNCHANGED <<today, owner, sub, archived, worker, toldVars, extensions>>

archiveOwned(p) ==
    /\ "property" \in Operations
    /\ GuardPasses
    /\ p \in Counted
    /\ property' = [property EXCEPT ![p] = "deleted"]
    /\ UNCHANGED <<today, owner, sub, archived, worker, clients, toldVars, extensions>>

-----------------------------------------------------------------------------

TenancyNext ==
    \/ DayPasses
    \/ StartLifecycle \/ Statement \/ announce \/ WorkerStops
    \/ \E c \in Clients :
          \/ Reads(c, "settle", Null, Null) \/ Settle(c)
          \/ \E k \in Keys : ExtendBegins(c, k)
          \/ \E p \in Plans : ChangeBegins(c, p)
          \/ Extend(c) \/ changePlan(c)
          \/ PropertyBegins(c)
          \/ \E p \in Properties : createProperty(c, p)
    \/ \E s \in SubStatuses : setSubscriptionStatus(s)
    \/ \E s \in OwnerStatuses \ {"PENDING"} : setOwnerStatus(s)
    \/ removeOwner
    \/ \E p \in Plans : updateSubscription(p) \/ setPlanStatus(p) \/ createSubscription(p)
    \/ \E p \in Properties : archiveOwned(p)

\* The scheduler starts the worker again and again, and a run that comes to a
\* statement does not stop there every time.
Fairness ==
    /\ WF_tenancyVars(StartLifecycle)
    /\ \A i \in 1..5 : SF_tenancyVars(worker = i /\ Statement)
    /\ WF_tenancyVars(announce)

TenancySpec == TenancyInit /\ [][TenancyNext]_tenancyVars /\ Fairness

-----------------------------------------------------------------------------
(* Properties *)

Kinds == ({"expiring"} \X WarningDays) \cup ({"EXPIRED", "GRACE_PERIOD", "SUSPENDED"} \X {0})

TenancyTypeOK ==
    /\ today \in 0..MaxDay
    /\ owner \in [status : OwnerStatuses, deleted : BOOLEAN]
    /\ sub \in SubRows
    /\ archived \subseteq Plans
    /\ property \in [Properties -> {"none", "live", "archived", "deleted"}]
    /\ worker \in 0..6
    /\ clients \in [Clients -> [op : {"none"} \cup AllOperations, row : Periods \cup {Null},
                                key : Keys \cup {Null}, plan : Plans \cup {Null}]]
    /\ notices \subseteq Kinds
    /\ warned \subseteq (WarningDays \X (0..MaxEnd))

\* Settlements, extensions and plan changes write over what the lifecycle
\* worker does between their read and their write: whatever the order, a
\* subscription whose period runs is never left cut off by the calendar.
CutOffOnlyWhenLapsed ==
    sub.status \in {"EXPIRED", "GRACE_PERIOD", "SUSPENDED"} /\ ~sub.byHand => sub.end <= today

\* Two requests with one idempotency key, both past the look-up, extend once.
ExtendedOncePerKey == \A k \in DOMAIN extensions : extensions[k] <= 1

\* The calendar, the requests and the desk together: no period that runs is cut off
\* by the calendar, and a key extends once.
SubscriptionsHold == CutOffOnlyWhenLapsed /\ ExtendedOncePerKey

\* A period that was paid for and ended long ago does not stay usable, though
\* runs of the worker stop half-way, or are not made for days.
LapsedLosesAccess ==
    (sub.status \in Usable /\ sub.paid /\ sub.end <= today - SuspendDays)
        ~> (sub.status \notin Usable \/ sub.end > today - SuspendDays)

\* "Days before expiry at which an owner is warned": a run of the worker that
\* gets through leaves no owner unwarned on such a day.
OwnerWarned ==
    [][announce /\ ~owner.deleted =>
          \A n \in Audience : n[1] = "expiring" => <<n[2], sub.end>> \in warned']_tenancyVars

=============================================================================
