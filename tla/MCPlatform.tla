----------------------------- MODULE MCPlatform -----------------------------
(***************************************************************************)
(* The platform around the hotels, for TLC: billing, subscriptions, the    *)
(* ways in, notifications, the channel manager, pricing, conversations,    *)
(* support and the staff of a hotel.                                       *)
(*                                                                         *)
(* These components keep tables of their own, so a run plays one small     *)
(* instance of one of them at a time: the initial state chooses the scene, *)
(* which never changes.  The components are extended, so that their        *)
(* properties are checked as they are stated and proved: the tables of     *)
(* those that are not on the stage rest as they start.                     *)
(***************************************************************************)
EXTENDS Billing, StaffTeam, RevenueEngine, Channels, Tenancy, Impersonation, Notifications,
        Conversations, Support

VARIABLE scene

Term(trigger, least, kind, value, rank, on) ==
    [trigger |-> trigger, comparator |-> "GTE", threshold |-> least, from |-> on, to |-> on,
     kind |-> kind, value |-> value, priority |-> rank]
TwoTerms ==
    {Term("OCCUPANCY", 50, "PERCENT", 1000, 1, Null), Term("SEASON", 0, "FIXED", 20, 2, 1)}
OneDear == [o \in Overrides |-> [from |-> 1, to |-> 1, rate |-> 200]]
EachGateway == [o \in Orders |-> IF o = "rzp" THEN "RAZORPAY" ELSE "CASHFREE"]
OneType == [b \in Sold |-> "dbl"]
TwoRooms == [t \in Types |-> 2]
OneFounder == [s \in {"h"} |-> [role |-> "HR", email |-> "e1"]]
PlanDays == [p \in {"basic", "pro"} |-> IF p = "basic" THEN 2 ELSE 3]
PlanPrice == [p \in {"basic", "pro"} |-> IF p = "basic" THEN 4 ELSE 9]
PlanLimit == [p \in {"basic", "pro"} |-> IF p = "basic" THEN 1 ELSE 2]
HisDevices == [d \in {"d1", "d2"} |-> "ravi"]
AnOwner == [p \in {"ravi"} |-> "OWNER"]
ByPhone == [e \in {"e1"} |-> <<"SMS", "WHATSAPP">>]
HisNumber == [s \in {"s1"} |-> "g"]

-----------------------------------------------------------------------------
(* The components and the small hotels they run in. *)

\* An admin who changes the plan and the status of a subscription by hand.
HandDesk == INSTANCE Tenancy WITH
    Keys <- {}, Clients <- {"c1"}, Operations <- {"change", "status"}, MaxDay <- 1, MaxEnd <- 4

\* An admin who edits the plans on sale.
PlanDesk == INSTANCE Tenancy WITH
    Keys <- {}, Clients <- {"c1"}, Operations <- {"status", "plans"}, MaxDay <- 1, MaxEnd <- 4

\* Two properties of an owner, a change of plan, the end of the account.
Homes == INSTANCE Tenancy WITH
    Keys <- {}, Properties <- {"p", "q"}, Clients <- {"c1"},
    Operations <- {"change", "delete", "property"}, MaxDay <- 1, MaxEnd <- 4

\* A phone of one of the staff, two refreshes whose answers may be lost.
OnePhone == INSTANCE Sessions WITH
    Devices <- {"d1"}, AudienceOf <- [p \in {"ravi"} |-> "STAFF"], Calls <- {"k1", "k2"},
    Codes <- {}, MaxTokens <- 3

\* The same phone, which signs in again and leaves a session behind.
TwoLogins == INSTANCE Sessions WITH
    Devices <- {"d1"}, AudienceOf <- [p \in {"ravi"} |-> "STAFF"], Calls <- {"k1", "k2"},
    Codes <- {}

\* An admin, by password and second factor.
AdminDesk == INSTANCE Sessions WITH
    Devices <- {"d1"}, AudienceOf <- [p \in {"ravi"} |-> "ADMIN"], Calls <- {"k1"},
    Codes <- {"c1"}

\* An event told once on two channels, a crash between its rows.
Outbox == INSTANCE Notifications WITH
    OnceFacts <- {"e1"}, ChannelsOf <- [e \in {"e1"} |-> <<"IN_APP", "EMAIL">>],
    Announcements <- {}, Drains <- {"w1"}, MaxRows <- 3, MaxAsks <- 2

\* The team with one request at a time.
OneCaller == INSTANCE StaffTeam WITH Callers <- {"c1"}

\* The nightly prices, which people type.
TwoRuns == INSTANCE RevenueEngine WITH Deltas <- {}

\* One of the staff who writes to a stay without a number, and the worker.
DeskChat == INSTANCE Conversations WITH
    GuestOf <- [s \in {"s1"} |-> Null], Writers <- {"p"}, Inbound <- {}, MaxDeaths <- 0

-----------------------------------------------------------------------------
(* One component is on the stage, the variables of the others rest. *)

Resting(on) ==
    /\ scene' = scene
    /\ IF "billing" \in on THEN TRUE ELSE UNCHANGED vars
    /\ IF "team" \in on THEN TRUE ELSE UNCHANGED teamVars
    /\ IF "engine" \in on THEN TRUE ELSE UNCHANGED engineVars
    /\ IF "channels" \in on THEN TRUE ELSE UNCHANGED channelVars
    /\ IF "tenancy" \in on THEN TRUE ELSE UNCHANGED tenancyVars
    /\ IF "sessions" \in on THEN TRUE ELSE UNCHANGED sessionVars
    /\ IF "shoes" \in on THEN TRUE ELSE UNCHANGED impersonationVars
    /\ IF "notices" \in on THEN TRUE ELSE UNCHANGED notificationVars
    /\ IF "talk" \in on THEN TRUE ELSE UNCHANGED talkVars
    /\ IF "support" \in on THEN TRUE ELSE UNCHANGED supportVars

Uses ==
    [webhooks |-> {"billing"}, cashfree |-> {"billing"}, refunds |-> {"billing"},
     till |-> {"billing"},
     renewal |-> {"tenancy"}, account |-> {"tenancy"}, pricelist |-> {"tenancy"},
     homes |-> {"tenancy"},
     phone |-> {"sessions"}, logins |-> {"sessions"},
     codes |-> {"sessions"}, admins |-> {"sessions"},
     shoes |-> {"shoes"},
     outbox |-> {"notices"}, notices |-> {"notices"},
     channel |-> {"channels"}, restart |-> {"channels"}, outage |-> {"channels"},
     later |-> {"channels"},
     grid |-> {"engine"}, hourly |-> {"engine"},
     chat |-> {"talk"}, desk |-> {"talk"}, tickets |-> {"support"},
     team |-> {"team"}, alone |-> {"team"}]

Plays(s) == scene = s /\ Resting(Uses[s])

\* What a scene of Billing plays with: payments, requests and refund rows, how
\* often a customer tries, how many months pass and numbers are drawn.
BillingScene(s, paid, asking, rows, attempts, months, numbers) ==
    /\ Plays(s) /\ Next
    /\ now' <= months /\ lastSeq' <= numbers
    /\ \A o \in Orders : IF o \in paid THEN gateway'[o].attempt <= attempts
                        ELSE gateway'[o].state = "none"
    /\ \A p \in Payments \ paid : payments'[p] = Null
    /\ \A h \in Handlers : IF h \in asking THEN handlers'[h].payment \in paid \cup {Null}
                          ELSE handlers'[h] = Idle
    /\ \A r \in Refunds \ rows : refunds'[r] = Null

\* The same for the channel manager: the handlers, whether runs may overlap, how
\* many legs fail, how often the process stops, the last hour, and how often a
\* webhook is delivered.
ChannelScene(s, served, overlap, failed, dying, hours, posted) ==
    /\ Plays(s) /\ ChannelsNext
    /\ \A e \in HookEvents : deliveries'[e] <= posted
    /\ hour' <= hours /\ failures' <= failed /\ crashes' <= dying
    /\ \A r \in Runs \ served : runs'[r] = NoRun
    /\ overlap \/ Cardinality({r \in Runs : runs'[r].step # "IDLE" /\ runs'[r].event = Null}) <= 1

\* A request that is about to write an account's address.
Moving(c) == calls[c].step = "PATCH" /\ calls[c].moved

PlatformInit ==
    /\ scene \in DOMAIN Uses
    /\ Init /\ ChannelsInit /\ EngineInit
    /\ IF scene = "alone" THEN OneCaller!TeamInit ELSE TeamInit
    /\ scene \notin {"grid", "hourly"} =>
           \A x \in Rules : rules[x].terms = CHOOSE t \in Terms : TRUE
    /\ CASE scene = "account" -> HandDesk!TenancyInit
         [] scene = "pricelist" -> PlanDesk!TenancyInit
         [] scene = "homes" -> Homes!TenancyInit
         [] OTHER -> TenancyInit
    /\ "tenancy" \notin Uses[scene] => sub.plan = "basic" /\ sub.status = "ACTIVE"
    /\ CASE scene = "phone" -> OnePhone!SessionsInit
         [] scene = "logins" -> TwoLogins!SessionsInit
         [] scene = "admins" -> AdminDesk!SessionsInit
         [] OTHER -> SessionsInit
    /\ ImpersonationInit
    /\ IF scene = "outbox" THEN Outbox!NotificationsInit ELSE NotificationsInit
    /\ scene \in {"outbox", "notices"} \/ templates = {}
    /\ IF scene = "desk" THEN DeskChat!TalkInit ELSE TalkInit
    /\ SupportInit

\* The channel manager alone.
ChannelStarts == PlatformInit /\ scene = "channel"

PlatformNext ==
    \* Two requests settle an order of Razorpay and a payment by hand.
    \/ BillingScene("webhooks", {"rzp", "cash"}, Handlers, {}, 1, 1, 2)
    \* An order of Cashfree, and the refund of it.
    \/ BillingScene("cashfree", {"cf"}, {"h1", Worker}, {1}, 2, 0, 1)
    \* Two refunds of one payment, asked for by hand and tried again by the worker.
    \/ BillingScene("refunds", {"rzp"}, {"h1", Worker}, Refunds, 1, 0, 1)
    \* Two refunds of a payment by hand.
    \/ BillingScene("till", {"cash"}, {"h1", Worker}, Refunds, 1, 0, 2)
    \* Two syncs or webhooks of one channel booking at once.
    \/ ChannelScene("channel", Runs, FALSE, 0, 0, 0, 1)
    \* The process dies in a sync or a webhook, and the event comes again.
    \/ ChannelScene("restart", {"r1"}, FALSE, 0, 1, 0, 2)
    \* One run at a time, and two failed legs: the connection ends up ERROR.
    \/ ChannelScene("outage", {"r1"}, TRUE, 2, 0, 0, 0)
    \* One run at a time, and syncs of a later hour.
    \/ ChannelScene("later", {"r1"}, TRUE, 0, 0, 1, 2)
    \* Two runs at once, and prices typed; one run, and prices changed in proportion.
    \/ Plays("grid") /\ TwoRuns!EngineNext
    \/ Plays("hourly") /\ EngineNext /\ \A d \in Demands : pricing'[d] = NoPricing
    \* Two requests to the team at once; addresses are moved by one alone.
    \/ Plays("team") /\ TeamNext /\ \A c \in Callers : ~Moving(c)'
    \/ Plays("alone") /\ OneCaller!TeamNext
    \* Two requests settle and extend a subscription over the night's worker.
    \/ Plays("renewal") /\ TenancyNext
    \/ Plays("account") /\ HandDesk!TenancyNext
    \/ Plays("pricelist") /\ PlanDesk!TenancyNext
    \/ Plays("homes") /\ Homes!TenancyNext
    \* A phone whose owner signs in once.
    \/ Plays("phone") /\ OnePhone!SessionsNext /\ \A s \in Slots \ {1} : sessions'[s] = Null
    \/ Plays("logins") /\ TwoLogins!SessionsNext
    \* An owner's second factor and recovery codes from two devices at once.
    \/ Plays("codes") /\ SessionsNext
    \/ Plays("admins") /\ AdminDesk!SessionsNext
    \* Two requests with an impersonation token.
    \/ Plays("shoes") /\ ImpersonationNext
    \/ Plays("outbox") /\ Outbox!NotificationsNext
    \* An announcement, and two drains that overlap.
    \/ Plays("notices") /\ NotificationsNext
    \* A guest who writes, a reader, and the worker of the automatic messages.
    \/ Plays("chat") /\ TalkNext
    \/ Plays("desk") /\ DeskChat!TalkNext
    \* Two requests at one ticket, with files.
    \/ Plays("tickets") /\ SupportNext

-----------------------------------------------------------------------------
(* Properties *)

\* Every component keeps its tables typed.
PlatformTypeOK ==
    /\ "billing" \in Uses[scene] => TypeOK
    /\ "team" \in Uses[scene] => TeamTypeOK
    /\ "engine" \in Uses[scene] => EngineTypeOK
    /\ "channels" \in Uses[scene] => ChannelsTypeOK
    /\ scene = "renewal" => TenancyTypeOK
    /\ scene = "account" => HandDesk!TenancyTypeOK
    /\ scene = "pricelist" => PlanDesk!TenancyTypeOK
    /\ scene = "homes" => Homes!TenancyTypeOK
    /\ scene = "phone" => OnePhone!SessionsTypeOK
    /\ scene = "logins" => TwoLogins!SessionsTypeOK
    /\ scene = "codes" => SessionsTypeOK
    /\ scene = "admins" => AdminDesk!SessionsTypeOK
    /\ scene = "shoes" => ImpersonationTypeOK
    /\ scene = "outbox" => Outbox!NotificationsTypeOK
    /\ scene = "notices" => NotificationsTypeOK
    /\ scene = "chat" => TalkTypeOK
    /\ scene = "desk" => DeskChat!TalkTypeOK
    /\ scene = "tickets" => SupportTypeOK
=============================================================================
