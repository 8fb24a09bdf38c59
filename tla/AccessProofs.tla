---------------------------- MODULE AccessProofs ----------------------------
(***************************************************************************)
(* What is proved of a tenant and of the ways in, for any number of plans, *)
(* keys, people, devices, sessions, codes and requests.                    *)
(*                                                                         *)
(* Tenants, the argument: only the calendar and the console write a status *)
(* that cuts off, the calendar in a statement that reads the period too;   *)
(* who writes a period writes ACTIVE with it, whatever he had read; a key  *)
(* is looked for again in the statement that extends.                      *)
(*                                                                         *)
(* Sessions, the argument: a device that is signed in has a session to     *)
(* itself and, unless somebody stopped waiting for a refresh of it, the    *)
(* token on record, so a token that is not on record is that of such a     *)
(* session.                                                                *)
(*                                                                         *)
(* Support, the argument: what a request was let in for is not taken from  *)
(* it, and a session never changes whom it is for.                         *)
(***************************************************************************)
EXTENDS Impersonation, Tenancy, NaturalsInduction, WellFoundedInduction, TLAPS

(***************************************************************************)
(* The subscription of a tenant.                                           *)
(***************************************************************************)

\* The later of two days, as the code takes it.
LEMMA LaterDay ==
    ASSUME NEW a \in Int, NEW b \in Int
    PROVE  Max({a, b}) \in {a, b} /\ Max({a, b}) >= a /\ Max({a, b}) >= b
  <1>1. PICK m \in {a, b} : \A y \in {a, b} : m >= y
    <2>1. CASE a >= b
      BY <2>1
    <2>2. CASE ~(a >= b)
      BY <2>2
    <2> QED
      BY <2>1, <2>2
  <1> QED
    BY <1>1 DEF Max

\* The earlier of two amounts.
LEMMA LesserOf ==
    ASSUME NEW a \in Int, NEW b \in Int
    PROVE  Min({a, b}) \in {a, b} /\ Min({a, b}) <= a /\ Min({a, b}) <= b
  <1>1. PICK m \in {a, b} : \A y \in {a, b} : m <= y
    <2>1. CASE a <= b
      BY <2>1
    <2>2. CASE ~(a <= b)
      BY <2>2
    <2> QED
      BY <2>1, <2>2
  <1> QED
    BY <1>1 DEF Min

\* What requests have read of a subscription is a period, with the key or the plan they
\* are for.
Asked ==
    \A c \in Clients :
        /\ clients[c].op # "none" => clients[c].row \in Periods
        /\ clients[c].op = "change" => clients[c].plan \in Plans

TenancyInv ==
    /\ TenancyTypeOK
    /\ extensions \in [Keys -> 0 .. 1]
    /\ Asked
    /\ CutOffOnlyWhenLapsed

\* A plan is never so cheap that the end of a proration is before its beginning.
LEMMA ProrationIsLater ==
    ASSUME NEW row \in Periods, NEW plan \in Plans, today \in Nat
    PROVE  /\ computeProration(row, plan).end \in Nat
           /\ computeProration(row, plan).end >= today
  <1> DEFINE total == Max({1, row.end - row.start})
             remaining == Min({total, Max({0, row.end - today})})
             credit == Rounded(Price[row.plan] * remaining, total)
             due == Price[plan] - credit
             extra == IF due < 0 /\ Price[plan] > 0 THEN (-due * Days[plan]) \div Price[plan] ELSE 0
  <1>1. /\ row.start \in Nat /\ row.end \in Nat /\ row.plan \in Plans
        /\ Price[plan] \in Nat /\ Days[plan] \in Nat /\ Price[row.plan] \in Nat
    BY PlansAssumption DEF Periods, Plans
  <1>2. total \in Int /\ total >= 1
    <2> DEFINE length == row.end - row.start
    <2>1. 1 \in Int /\ length \in Int
      BY <1>1
    <2> HIDE DEF length
    <2>2. total \in {1, length} /\ total >= 1
      BY <2>1, LaterDay, Zenon DEF length
    <2> HIDE DEF total
    <2> QED
      BY <2>1, <2>2
  <1> DEFINE left == Max({0, row.end - today})
  <1>3. left \in Nat
    <2> DEFINE length == row.end - today
    <2>1. 0 \in Int /\ length \in Int
      BY <1>1
    <2> HIDE DEF length
    <2>2. left \in {0, length} /\ left >= 0
      BY <2>1, LaterDay, Zenon DEF length
    <2> HIDE DEF left
    <2> QED
      BY <2>1, <2>2
  <1>4. remaining \in Nat
    <2> HIDE DEF total, left
    <2>1. total \in Int /\ left \in Int
      BY <1>2, <1>3
    <2>2. remaining \in {total, left}
      BY <2>1, LesserOf, Zenon DEF left
    <2> HIDE DEF remaining
    <2> QED
      BY <1>2, <1>3, <2>2
  <1>5. credit \in Int
    <2> HIDE DEF total, remaining
    <2>1. Price[row.plan] * remaining \in Nat
      BY <1>1, <1>4
    <2>2. 2 * (Price[row.plan] * remaining) + total \in Int /\ 2 * total \in Int /\ 2 * total > 0
      BY <2>1, <1>2
    <2> QED
      BY <2>2 DEF Rounded
  <1>6. extra \in Nat
    <2> HIDE DEF credit
    <2>1. due \in Int
      BY <1>1, <1>5
    <2> HIDE DEF due
    <2>2. CASE due < 0 /\ Price[plan] > 0
      <3>1. -due * Days[plan] \in Nat
        BY <2>1, <2>2, <1>1
      <3> QED
        BY <3>1, <2>2, <1>1
    <2> QED
      BY <2>2
  <1>7. computeProration(row, plan).end = today + Days[plan] + extra
    BY DEF computeProration
  <1> HIDE DEF extra
  <1> QED
    BY <1>1, <1>6, <1>7

\* A renewal leaves a row of a subscription that is active.
LEMMA RenewedRow ==
    ASSUME sub \in SubRows, NEW from \in 0 .. MaxEnd, NEW end \in 0 .. MaxEnd
    PROVE  /\ Renewed(from, end) \in SubRows
           /\ Renewed(from, end).status = "ACTIVE"
  BY DEF SubRows, SubStatuses, Renewed, RenewedStatus

LEMMA TenancyStarts == TenancyInit => TenancyInv
  <1> SUFFICES ASSUME TenancyInit PROVE TenancyInv
    OBVIOUS
  <1>1. PICK p \in Plans, status \in {"ACTIVE", "TRIAL"} :
           sub = [status |-> status, plan |-> p, start |-> 0, end |-> Days[p],
                  paid |-> FALSE, byHand |-> FALSE]
    BY DEF TenancyInit
  <1>2. sub \in SubRows /\ CutOffOnlyWhenLapsed
    BY <1>1, PlansAssumption DEF SubRows, SubStatuses, Plans, CutOffOnlyWhenLapsed
  <1> QED
    BY <1>2, PlansAssumption
    DEF TenancyInit, TenancyInv, TenancyTypeOK, Asked, Waiting, OwnerStatuses

\* A step of the lifecycle worker cuts off nobody whose period runs.
LEMMA StatementKeeps ==
    ASSUME TenancyInv, Statement
    PROVE  TenancyInv'
  <1>1. sub' \in SubRows
    BY DEF TenancyInv, TenancyTypeOK, Statement, SubRows, SubStatuses, StatusAfter
  <1>2. worker' \in 0 .. 6
    BY DEF Statement
  <1>3. CutOffOnlyWhenLapsed'
    BY DEF TenancyInv, TenancyTypeOK, Statement, SubRows, StatusAfter, Due, Statements,
       CutOffOnlyWhenLapsed, platform
  <1> QED
    BY <1>1, <1>2, <1>3 DEF TenancyInv, TenancyTypeOK, Asked, Statement, platform, toldVars

\* A request that answers leaves nothing it has read.
LEMMA AnswerKeeps ==
    ASSUME TenancyInv, NEW c \in Clients, Answer(c)
    PROVE  Asked' /\ clients' \in [Clients -> [op : {"none"} \cup AllOperations,
               row : Periods \cup {Null}, key : Keys \cup {Null}, plan : Plans \cup {Null}]]
  BY DEF TenancyInv, TenancyTypeOK, Asked, Answer, Waiting

\* Whatever writes an active subscription, and nothing else, cuts nobody off.
LEMMA ActiveKeeps ==
    ASSUME TenancyInv, NEW c \in Clients, Answer(c), sub' \in SubRows,
           sub' = sub \/ sub'.status = "ACTIVE",
           extensions' \in [Keys -> 0 .. 1], UNCHANGED <<platform, worker, toldVars>>
    PROVE  TenancyInv'
  <1>1. CutOffOnlyWhenLapsed'
    BY DEF TenancyInv, CutOffOnlyWhenLapsed, platform
  <1> QED
    BY <1>1, AnswerKeeps DEF TenancyInv, TenancyTypeOK, platform, toldVars

LEMMA SettleKeeps ==
    ASSUME TenancyInv, NEW c \in Clients, Settle(c)
    PROVE  TenancyInv'
  <1> DEFINE from == Max({today, clients[c].row.end})
  <1>1. sub \in SubRows /\ today \in Nat /\ clients[c].row.end \in Nat
    BY DEF TenancyInv, TenancyTypeOK, Asked, Settle, Periods
  <1>2. from \in Nat
    <2>1. today \in Int /\ clients[c].row.end \in Int
      BY <1>1
    <2>2. from \in {today, clients[c].row.end}
      BY <2>1, LaterDay, Zenon
    <2> QED
      BY <1>1, <2>2
  <1>6. Days[sub.plan] \in Nat /\ from + Days[sub.plan] <= MaxEnd
    BY <1>1, PlansAssumption DEF Settle, SubRows, Plans
  <1> HIDE DEF from
  <1>3. from \in 0 .. MaxEnd /\ from + Days[sub.plan] \in 0 .. MaxEnd
    BY <1>2, <1>6, PlansAssumption
  <1>4. sub' = [Renewed(from, from + Days[sub.plan]) EXCEPT !.paid = TRUE]
    BY DEF Settle, from
  <1>5. sub' \in SubRows /\ sub'.status = "ACTIVE"
    BY <1>1, <1>3, <1>4, RenewedRow DEF SubRows
  <1> QED
    BY <1>5, ActiveKeeps DEF Settle, TenancyInv

\* Extensions with one key, both past the look-up: the second finds the key taken.
LEMMA ExtendKeeps ==
    ASSUME TenancyInv, NEW c \in Clients, Extend(c)
    PROVE  TenancyInv'
  <1> DEFINE from == Max({today, clients[c].row.end})
             k == clients[c].key
  <1>1. sub \in SubRows /\ today \in Nat /\ clients[c].row.end \in Nat
    BY DEF TenancyInv, TenancyTypeOK, Asked, Extend, Periods
  <1>2. from \in Nat /\ from + ExtensionDays <= MaxEnd
    <2>1. today \in Int /\ clients[c].row.end \in Int
      BY <1>1
    <2>2. from \in {today, clients[c].row.end}
      BY <2>1, LaterDay, Zenon
    <2>3. from + ExtensionDays <= MaxEnd
      BY DEF Extend
    <2> QED
      BY <1>1, <2>2, <2>3
  <1>3. CASE KeyTaken(k)
    BY <1>3, <1>1, ActiveKeeps DEF Extend, TenancyInv
  <1>4. CASE ~KeyTaken(k)
    <2>1. extensions' \in [Keys -> 0 .. 1]
      <3>1. \A j \in Keys : extensions[j] \in 0 .. 1
        BY DEF TenancyInv
      <3>2. extensions' = [extensions EXCEPT ![k] = extensions[k] + 1]
        BY <1>4 DEF Extend
      <3>3. \A j \in Keys : j = k => extensions[j] = 0
        BY <3>1, <1>4 DEF KeyTaken
      <3>4. DOMAIN extensions = Keys /\ DOMAIN extensions' = Keys
        BY <3>2 DEF TenancyInv
      <3>5. ASSUME NEW j \in Keys
            PROVE  extensions'[j] \in 0 .. 1
        <4>1. CASE j = k
          BY <4>1, <3>2, <3>3, <3>4
        <4>2. CASE j # k
          BY <4>2, <3>1, <3>2, <3>4
        <4> QED
          BY <4>1, <4>2
      <3>6. extensions' = [j \in Keys |-> extensions'[j]]
        BY <3>2, <3>4 DEF TenancyInv
      <3> QED
        BY <3>5, <3>6
    <2> HIDE DEF from
    <2>2. from + ExtensionDays \in 0 .. MaxEnd
      BY <1>2, PlansAssumption
    <2>3. sub' = Renewed(sub.start, from + ExtensionDays)
      BY <1>4 DEF Extend, from
    <2>4. sub.start \in 0 .. MaxEnd
      BY <1>1 DEF SubRows
    <2>5. sub' \in SubRows /\ sub'.status = "ACTIVE"
      BY <1>1, <2>2, <2>3, <2>4, RenewedRow
    <2> QED
      BY <2>1, <2>5, ActiveKeeps DEF Extend
  <1> QED
    BY <1>3, <1>4

LEMMA ChangeKeeps ==
    ASSUME TenancyInv, NEW c \in Clients, changePlan(c)
    PROVE  TenancyInv'
  <1> DEFINE p == clients[c].plan
             end == computeProration(clients[c].row, p).end
  <1>1. sub \in SubRows /\ today \in Nat /\ clients[c].row \in Periods /\ p \in Plans
    BY DEF TenancyInv, TenancyTypeOK, Asked, changePlan
  <1>2. end \in Nat /\ end >= today /\ end <= MaxEnd
    BY <1>1, ProrationIsLater DEF changePlan
  <1> HIDE DEF end
  <1>3. today \in 0 .. MaxEnd /\ end \in 0 .. MaxEnd
    BY <1>1, <1>2, PlansAssumption
  <1>4. sub' = [Renewed(today, end) EXCEPT !.plan = p]
    BY DEF changePlan, end
  <1>5. sub' \in SubRows /\ sub'.status = "ACTIVE"
    BY <1>1, <1>3, <1>4, RenewedRow DEF SubRows
  <1> QED
    BY <1>5, ActiveKeeps DEF changePlan, TenancyInv

\* A request that has read what it needs, and nothing else has changed.
LEMMA ReadsKeep ==
    ASSUME TenancyInv, NEW c \in Clients, NEW op, NEW key \in Keys \cup {Null},
           NEW plan \in Plans \cup {Null}, Reads(c, op, key, plan),
           op \in AllOperations, op = "change" => plan \in Plans
    PROVE  TenancyInv'
  <1> DEFINE row == [plan |-> sub.plan, start |-> sub.start, end |-> sub.end]
             asked == [op |-> op, key |-> key, plan |-> plan, row |-> row]
             Asking == [op : {"none"} \cup AllOperations, row : Periods \cup {Null},
                        key : Keys \cup {Null}, plan : Plans \cup {Null}]
  <1>1. row \in Periods
    BY DEF TenancyInv, TenancyTypeOK, SubRows, Periods
  <1> HIDE DEF row
  <1>2. asked \in Asking
    BY <1>1
  <1>3. clients' = [clients EXCEPT ![c] = asked] /\ clients \in [Clients -> Asking]
    BY DEF Reads, TenancyInv, TenancyTypeOK, row
  <1>4. asked.row = row /\ asked.op = op /\ asked.plan = plan
    OBVIOUS
  <1> HIDE DEF asked, Asking
  <1>5. clients' \in [Clients -> Asking]
    BY <1>2, <1>3
  <1>6. Asked'
    <2> SUFFICES ASSUME NEW d \in Clients
                 PROVE  /\ clients'[d].op # "none" => clients'[d].row \in Periods
                        /\ clients'[d].op = "change" => clients'[d].plan \in Plans
      BY DEF Asked
    <2>1. CASE d = c
      BY <2>1, <1>1, <1>3, <1>4
    <2>2. CASE d # c
      BY <2>2, <1>3 DEF TenancyInv, Asked
    <2> QED
      BY <2>1, <2>2
  <1> QED
    BY <1>5, <1>6
    DEF Asking, Reads, TenancyInv, TenancyTypeOK, CutOffOnlyWhenLapsed, platform, toldVars

\* What the subscription is in the audience of is a kind of notice there is.
LEMMA AnnounceKeeps ==
    ASSUME TenancyInv, announce
    PROVE  TenancyInv'
  <1> DEFINE sent == IF owner.deleted THEN {} ELSE Audience \ notices
  <1>1. sub.status \in SubStatuses /\ sub.end \in 0 .. MaxEnd
    BY DEF TenancyInv, TenancyTypeOK, SubRows
  <1>2. ASSUME NEW n \in Audience
        PROVE  n \in Kinds /\ (n[1] = "expiring" => n[2] \in WarningDays)
    BY <1>2 DEF Audience, Kinds
  <1>3. sent \subseteq Kinds /\ \A n \in sent : n[1] = "expiring" => n[2] \in WarningDays
    BY <1>2
  <1>4. /\ notices' = notices \cup sent
        /\ warned' = warned \cup {<<n[2], sub.end>> : n \in {k \in sent : k[1] = "expiring"}}
        /\ worker' = 0
    BY DEF announce
  <1> HIDE DEF sent
  <1>5. notices' \subseteq Kinds /\ warned' \subseteq (WarningDays \X (0 .. MaxEnd))
    BY <1>1, <1>3, <1>4 DEF TenancyInv, TenancyTypeOK
  <1> QED
    BY <1>4, <1>5
    DEF announce, TenancyInv, TenancyTypeOK, Asked, CutOffOnlyWhenLapsed, platform, Kinds

LEMMA DayKeeps ==
    ASSUME TenancyInv, DayPasses
    PROVE  TenancyInv'
  <1>1. today' \in 0 .. MaxDay /\ today' > today
    BY PlansAssumption DEF TenancyInv, TenancyTypeOK, DayPasses
  <1>2. CutOffOnlyWhenLapsed'
    BY <1>1 DEF TenancyInv, TenancyTypeOK, SubRows, CutOffOnlyWhenLapsed, DayPasses
  <1> QED
    BY <1>1, <1>2
    DEF DayPasses, TenancyInv, TenancyTypeOK, Asked, toldVars, Kinds

\* The desk writes the row of a subscription with a status of its own.
LEMMA DeskKeeps ==
    ASSUME TenancyInv, sub' \in SubRows, CutOffOnlyWhenLapsed',
           UNCHANGED <<today, worker, clients, toldVars, extensions>>,
           owner' \in [status : OwnerStatuses, deleted : BOOLEAN],
           archived' \subseteq Plans,
           property' \in [Properties -> {"none", "live", "archived", "deleted"}]
    PROVE  TenancyInv'
  BY DEF TenancyInv, TenancyTypeOK, Asked, toldVars, Kinds

LEMMA PlanKeeps ==
    ASSUME TenancyInv, NEW p \in Plans,
           updateSubscription(p) \/ setPlanStatus(p) \/ createSubscription(p)
    PROVE  TenancyInv'
  <1>1. CASE updateSubscription(p)
    <2>1. sub' \in SubRows /\ CutOffOnlyWhenLapsed'
      BY <1>1
      DEF updateSubscription, TenancyInv, TenancyTypeOK, SubRows, CutOffOnlyWhenLapsed, platform
    <2> QED
      BY <1>1, <2>1, DeskKeeps DEF updateSubscription, TenancyInv, TenancyTypeOK, platform
  <1>2. CASE setPlanStatus(p)
    <2>1. archived' \subseteq Plans
      BY <1>2 DEF setPlanStatus, TenancyInv, TenancyTypeOK
    <2> QED
      BY <1>2, <2>1, DeskKeeps
      DEF setPlanStatus, TenancyInv, TenancyTypeOK, CutOffOnlyWhenLapsed
  <1>3. CASE createSubscription(p)
    <2>1. today \in Nat /\ Days[p] \in Nat /\ today + Days[p] <= MaxEnd
      BY <1>3, PlansAssumption DEF createSubscription, TenancyInv, TenancyTypeOK, Plans
    <2>2. today \in 0 .. MaxEnd /\ today + Days[p] \in 0 .. MaxEnd
      BY <2>1, PlansAssumption
    <2>3. sub' \in SubRows /\ CutOffOnlyWhenLapsed'
      BY <1>3, <2>2 DEF createSubscription, SubRows, SubStatuses, CutOffOnlyWhenLapsed
    <2> QED
      BY <1>3, <2>3, DeskKeeps DEF createSubscription, TenancyInv, TenancyTypeOK, platform
  <1> QED
    BY <1>1, <1>2, <1>3

\* An owner's row is stamped and what is left of the subscription is cancelled.
LEMMA RemovalKeeps ==
    ASSUME TenancyInv, removeOwner
    PROVE  TenancyInv'
  <1>1. sub' \in SubRows /\ CutOffOnlyWhenLapsed'
    BY DEF removeOwner, TenancyInv, TenancyTypeOK, SubRows, SubStatuses, CutOffOnlyWhenLapsed
  <1>2. /\ owner' \in [status : OwnerStatuses, deleted : BOOLEAN]
        /\ property' \in [Properties -> {"none", "live", "archived", "deleted"}]
    BY DEF removeOwner, TenancyInv, TenancyTypeOK
  <1> QED
    BY <1>1, <1>2, DeskKeeps DEF removeOwner, TenancyInv, TenancyTypeOK

LEMMA StatusesKeep ==
    ASSUME TenancyInv,
           \/ \E s \in SubStatuses : setSubscriptionStatus(s)
           \/ \E s \in OwnerStatuses \ {"PENDING"} : setOwnerStatus(s)
    PROVE  TenancyInv'
  <1>1. ASSUME NEW s \in SubStatuses, setSubscriptionStatus(s)
        PROVE  TenancyInv'
    <2>1. sub' \in SubRows /\ CutOffOnlyWhenLapsed'
      BY <1>1 DEF setSubscriptionStatus, TenancyInv, TenancyTypeOK, SubRows, CutOffOnlyWhenLapsed
    <2> QED
      BY <1>1, <2>1, DeskKeeps DEF setSubscriptionStatus, TenancyInv, TenancyTypeOK, platform
  <1>2. ASSUME NEW s \in OwnerStatuses \ {"PENDING"}, setOwnerStatus(s)
        PROVE  TenancyInv'
    <2>1. owner' \in [status : OwnerStatuses, deleted : BOOLEAN]
      BY <1>2 DEF setOwnerStatus, TenancyInv, TenancyTypeOK
    <2> QED
      BY <1>2, <2>1, DeskKeeps
      DEF setOwnerStatus, TenancyInv, TenancyTypeOK, CutOffOnlyWhenLapsed
  <1> QED
    BY <1>1, <1>2

LEMMA PropertyKeeps ==
    ASSUME TenancyInv, NEW p \in Properties,
           archiveOwned(p) \/ \E c \in Clients : createProperty(c, p)
    PROVE  TenancyInv'
  <1>1. CASE archiveOwned(p)
    <2>1. property' \in [Properties -> {"none", "live", "archived", "deleted"}]
      BY <1>1 DEF archiveOwned, TenancyInv, TenancyTypeOK
    <2> QED
      BY <1>1, <2>1, DeskKeeps DEF archiveOwned, TenancyInv, TenancyTypeOK, CutOffOnlyWhenLapsed
  <1>2. ASSUME NEW c \in Clients, createProperty(c, p)
        PROVE  TenancyInv'
    <2>1. property' \in [Properties -> {"none", "live", "archived", "deleted"}]
      BY <1>2 DEF createProperty, TenancyInv, TenancyTypeOK
    <2>2. CutOffOnlyWhenLapsed'
      BY <1>2 DEF createProperty, TenancyInv, CutOffOnlyWhenLapsed
    <2>3. Asked' /\ clients' \in [Clients -> [op : {"none"} \cup AllOperations,
              row : Periods \cup {Null}, key : Keys \cup {Null}, plan : Plans \cup {Null}]]
      BY <1>2, AnswerKeeps DEF createProperty
    <2> QED
      BY <1>2, <2>1, <2>2, <2>3 DEF createProperty, TenancyInv, TenancyTypeOK, toldVars, Kinds
  <1> QED
    BY <1>1, <1>2

LEMMA RequestKeeps ==
    ASSUME TenancyInv, NEW c \in Clients,
           \/ Reads(c, "settle", Null, Null) \/ Settle(c)
           \/ \E k \in Keys : ExtendBegins(c, k)
           \/ \E p \in Plans : ChangeBegins(c, p)
           \/ Extend(c) \/ changePlan(c)
           \/ PropertyBegins(c)
           \/ \E p \in Properties : createProperty(c, p)
    PROVE  TenancyInv'
  <1>1. CASE Reads(c, "settle", Null, Null)
    BY <1>1, ReadsKeep DEF AllOperations
  <1>2. CASE Settle(c)
    BY <1>2, SettleKeeps
  <1>3. ASSUME NEW k \in Keys, ExtendBegins(c, k)
        PROVE  TenancyInv'
    BY <1>3, ReadsKeep DEF AllOperations, ExtendBegins
  <1>4. ASSUME NEW p \in Plans, ChangeBegins(c, p)
        PROVE  TenancyInv'
    BY <1>4, ReadsKeep DEF AllOperations, ChangeBegins
  <1>5. CASE Extend(c)
    BY <1>5, ExtendKeeps
  <1>6. CASE changePlan(c)
    BY <1>6, ChangeKeeps
  <1>7. CASE PropertyBegins(c)
    BY <1>7, ReadsKeep DEF AllOperations, PropertyBegins
  <1>8. ASSUME NEW p \in Properties, createProperty(c, p)
        PROVE  TenancyInv'
    BY <1>8, PropertyKeeps
  <1> QED
    BY <1>1, <1>2, <1>3, <1>4, <1>5, <1>6, <1>7, <1>8

LEMMA TenancyKeeps == TenancyInv /\ [TenancyNext]_tenancyVars => TenancyInv'
  <1> SUFFICES ASSUME TenancyInv, [TenancyNext]_tenancyVars PROVE TenancyInv'
    OBVIOUS
  <1>1. CASE UNCHANGED tenancyVars
    BY <1>1 DEF tenancyVars, TenancyInv, TenancyTypeOK, Asked, CutOffOnlyWhenLapsed, Kinds
  <1>2. CASE DayPasses
    BY <1>2, DayKeeps
  <1>3. CASE StartLifecycle \/ WorkerStops
    BY <1>3 DEF StartLifecycle, WorkerStops, TenancyInv, TenancyTypeOK, Asked,
       CutOffOnlyWhenLapsed, platform, toldVars, Kinds
  <1>4. CASE Statement \/ announce
    BY <1>4, StatementKeeps, AnnounceKeeps
  <1>5. ASSUME NEW c \in Clients,
               \/ Reads(c, "settle", Null, Null) \/ Settle(c)
               \/ \E k \in Keys : ExtendBegins(c, k)
               \/ \E p \in Plans : ChangeBegins(c, p)
               \/ Extend(c) \/ changePlan(c)
               \/ PropertyBegins(c)
               \/ \E p \in Properties : createProperty(c, p)
        PROVE  TenancyInv'
    BY <1>5, RequestKeeps
  <1>6. CASE \/ \E s \in SubStatuses : setSubscriptionStatus(s)
             \/ \E s \in OwnerStatuses \ {"PENDING"} : setOwnerStatus(s)
    BY <1>6, StatusesKeep
  <1>7. CASE removeOwner
    BY <1>7, RemovalKeeps
  <1>8. ASSUME NEW p \in Plans,
               updateSubscription(p) \/ setPlanStatus(p) \/ createSubscription(p)
        PROVE  TenancyInv'
    BY <1>8, PlanKeeps
  <1>9. ASSUME NEW p \in Properties, archiveOwned(p)
        PROVE  TenancyInv'
    BY <1>9, PropertyKeeps
  <1> QED
    BY <1>1, <1>2, <1>3, <1>4, <1>5, <1>6, <1>7, <1>8, <1>9 DEF TenancyNext

\* Whatever the order of payments, extensions, changes of plan and runs of the worker that
\* stop half-way, a subscription whose period runs is not cut off by the calendar
\* (settleInTx, SubscriptionLifecycleWorker.run), and a key extends once (extend).
THEOREM SubscriptionsKept == TenancySpec => []SubscriptionsHold
  <1>1. TenancyInv => SubscriptionsHold
    BY DEF TenancyInv, SubscriptionsHold, ExtendedOncePerKey
  <1> QED
    BY <1>1, TenancyStarts, TenancyKeeps, PTL DEF TenancySpec

\* The rows of the tenancy, the worker's place among its statements and what requests keep
\* of what they read are of their types.
THEOREM TenancyTyped == TenancySpec => []TenancyTypeOK
  <1>1. TenancyInv => TenancyTypeOK
    BY DEF TenancyInv
  <1> QED
    BY <1>1, TenancyStarts, TenancyKeeps, PTL DEF TenancySpec

(***************************************************************************)
(* Signing in and staying signed in.                                       *)
(***************************************************************************)

DeviceRows ==
    [phase : {"OUT", "CODE_MATCHED", "CHALLENGED", "CLEARED", "RECOVERY_MATCHED", "IN",
              "REFRESHING"},
     session : Slots \cup {Null}, token : Nat \cup {Null}, row : Nat \cup Codes \cup {Null}]

CallRows == [device : Devices, session : Slots, token : Nat \cup {Null},
             stage : {"SENT", "VERIFIED"}, waiting : BOOLEAN]

SessionsTyped ==
    /\ sessions \in [Slots -> SessionRows \cup {Null}]
    /\ refreshes \in [Calls -> CallRows \cup {Null}]
    /\ devices \in [Devices -> DeviceRows]
    /\ tokens \in 0 .. MaxTokens
    /\ abandoned \subseteq Slots

Holds(d) == devices[d].phase \in {"IN", "REFRESHING"}

\* A device that is signed in holds a session, and no two hold the same.
Held ==
    /\ \A d \in Devices :
          Holds(d) => devices[d].session \in Slots /\ sessions[devices[d].session] \in SessionRows
    /\ \A d, e \in Devices :
          Holds(d) /\ Holds(e) /\ devices[d].session = devices[e].session => d = e

\* A refresh that is waited for is that of a device as it stands; one that is not was
\* abandoned.
UnderWay ==
    /\ \A k \in Calls : refreshes[k] # Null =>
          /\ sessions[refreshes[k].session] \in SessionRows
          /\ refreshes[k].waiting =>
                /\ devices[refreshes[k].device].phase = "REFRESHING"
                /\ devices[refreshes[k].device].session = refreshes[k].session
                /\ devices[refreshes[k].device].token = refreshes[k].token
          /\ ~refreshes[k].waiting => refreshes[k].session \in abandoned
    /\ \A k, j \in Calls :
          /\ refreshes[k] # Null /\ refreshes[j] # Null
          /\ refreshes[k].waiting /\ refreshes[j].waiting
          /\ refreshes[k].device = refreshes[j].device
          => k = j

\* Unless its session was abandoned, a device has the token on record.
UpToDate ==
    \A d \in Devices :
        Holds(d) /\ devices[d].session \notin abandoned
            => devices[d].token = sessions[devices[d].session].token

SignedInv == SessionsTyped /\ Held /\ UnderWay /\ UpToDate /\ SignedOutForCause

signedVars == <<sessions, refreshes, devices, tokens, abandoned>>

\* The tables of the sessions as they were.
LEMMA SignedStutters ==
    ASSUME SignedInv, UNCHANGED signedVars
    PROVE  SignedInv'
  BY DEF SignedInv, signedVars, SessionsTyped, Held, Holds, UnderWay, UpToDate, SignedOutForCause

\* Rows of sessions are marked, revoked or expired: the tokens on record stay.
Marked ==
    /\ sessions' \in [Slots -> SessionRows \cup {Null}]
    /\ \A s \in Slots :
          /\ sessions'[s] = Null <=> sessions[s] = Null
          /\ sessions[s] # Null =>
                /\ sessions'[s].token = sessions[s].token
                /\ sessions'[s].revoked = "REUSE" => sessions[s].revoked = "REUSE" \/ s \in abandoned

\* Rows are marked, refreshes are answered, and devices that no refresh is waited for on
\* are signed out or go on to sign in.
LEMMA FewerKeep ==
    ASSUME SignedInv, Marked,
           refreshes' \in [Calls -> CallRows \cup {Null}],
           \A k \in Calls : refreshes'[k] \in {refreshes[k], Null},
           devices' \in [Devices -> DeviceRows],
           \A d \in Devices :
              \/ devices'[d] = devices[d]
              \/ /\ devices'[d].phase \notin {"IN", "REFRESHING"}
                 /\ \A k \in Calls : refreshes'[k] # Null /\ refreshes'[k].waiting
                                        => refreshes'[k].device # d,
           UNCHANGED <<tokens, abandoned>>
    PROVE  SignedInv'
  <1>1. \A s \in Slots : sessions[s] \in SessionRows => sessions'[s] \in SessionRows
    BY SessionsAssumption DEF Marked
  <1>2. \A k \in Calls : refreshes[k] # Null =>
            refreshes[k].session \in Slots /\ refreshes[k].device \in Devices
    BY DEF SignedInv, SessionsTyped, CallRows
  <1>3. SessionsTyped'
    BY DEF SignedInv, SessionsTyped, Marked
  <1>4. \A d \in Devices : Holds(d)' => Holds(d) /\ devices'[d] = devices[d]
    BY DEF Holds
  <1>5. Held'
    BY <1>1, <1>4 DEF SignedInv, Held
  <1>6. UnderWay'
    <2>1. ASSUME NEW k \in Calls, refreshes'[k] # Null
          PROVE  /\ refreshes'[k] = refreshes[k]
                 /\ refreshes[k].waiting => devices'[refreshes[k].device] = devices[refreshes[k].device]
      BY <2>1, <1>2
    <2>2. ASSUME NEW k \in Calls, refreshes'[k] # Null
          PROVE  /\ sessions'[refreshes'[k].session] \in SessionRows
                 /\ ~refreshes'[k].waiting => refreshes'[k].session \in abandoned
      BY <2>1, <2>2, <1>1, <1>2 DEF SignedInv, UnderWay
    <2>3. ASSUME NEW k \in Calls, refreshes'[k] # Null, refreshes'[k].waiting
          PROVE  /\ devices'[refreshes'[k].device].phase = "REFRESHING"
                 /\ devices'[refreshes'[k].device].session = refreshes'[k].session
                 /\ devices'[refreshes'[k].device].token = refreshes'[k].token
      BY <2>1, <2>3 DEF SignedInv, UnderWay
    <2>4. ASSUME NEW k \in Calls, NEW j \in Calls, refreshes'[k] # Null, refreshes'[j] # Null,
                 refreshes'[k].waiting, refreshes'[j].waiting,
                 refreshes'[k].device = refreshes'[j].device
          PROVE  k = j
      BY <2>1, <2>4 DEF SignedInv, UnderWay
    <2> QED
      BY <2>2, <2>3, <2>4 DEF UnderWay
  <1>7. UpToDate'
    <2> SUFFICES ASSUME NEW d \in Devices, Holds(d)', devices'[d].session \notin abandoned
                 PROVE  devices'[d].token = sessions'[devices'[d].session].token
      BY DEF UpToDate
    <2>1. Holds(d) /\ devices'[d] = devices[d]
      BY <1>4
    <2>2. devices[d].session \in Slots /\ sessions[devices[d].session] # Null
      BY <2>1, SessionsAssumption DEF SignedInv, Held
    <2> QED
      BY <2>1, <2>2 DEF SignedInv, UpToDate, Marked
  <1>8. SignedOutForCause'
    BY DEF SignedInv, SignedOutForCause, Marked
  <1> QED
    BY <1>3, <1>5, <1>6, <1>7, <1>8 DEF SignedInv

\* Sessions that stay as they are, and those that a person, an admin or the clock ends.
LEMMA MarkedSame ==
    ASSUME SignedInv, UNCHANGED sessions
    PROVE  Marked
  BY DEF SignedInv, SessionsTyped, Marked

LEMMA MarkedRevoked ==
    ASSUME SignedInv, NEW ids, NEW by \in {"BY_PERSON", "BY_ADMIN", "REUSE"},
           by = "REUSE" => ids \subseteq abandoned,
           \A s \in Slots \cap ids : sessions[s] # Null,
           sessions' = Revoked(sessions, ids, by)
    PROVE  Marked
  <1>1. ASSUME NEW s \in Slots \cap ids
        PROVE  /\ sessions'[s] = [sessions[s] EXCEPT !.revoked = by]
               /\ sessions[s] \in SessionRows
    BY DEF Revoked, SignedInv, SessionsTyped
  <1>2. ASSUME NEW s \in Slots \cap ids
        PROVE  /\ sessions'[s] \in SessionRows /\ sessions'[s].token = sessions[s].token
               /\ sessions'[s].revoked = by
    BY <1>1 DEF SessionRows
  <1>3. \A s \in Slots \ ids : sessions'[s] = sessions[s]
    BY DEF Revoked
  <1>4. sessions' = [s \in Slots |-> sessions'[s]]
    BY DEF Revoked
  <1>5. \A s \in Slots : sessions'[s] \in SessionRows \cup {Null}
    BY <1>2, <1>3 DEF SignedInv, SessionsTyped
  <1>6. sessions' \in [Slots -> SessionRows \cup {Null}]
    BY <1>4, <1>5
  <1> QED
    BY <1>1, <1>2, <1>3, <1>6, SessionsAssumption DEF Marked

\* A session that runs out keeps its columns but one.
Expired(row) == [row EXCEPT !.expired = TRUE]

LEMMA RowExpires ==
    ASSUME NEW row \in SessionRows
    PROVE  /\ Expired(row) \in SessionRows
           /\ Expired(row).token = row.token /\ Expired(row).revoked = row.revoked
  <1>1. ASSUME NEW e \in BOOLEAN
        PROVE  LET x == [row EXCEPT !.expired = e]
               IN  x \in SessionRows /\ x.token = row.token /\ x.revoked = row.revoked
    BY SMT DEF SessionRows
  <1> QED
    BY <1>1, Zenon DEF Expired

LEMMA MarkedExpired ==
    ASSUME SignedInv, NEW s \in Slots, SessionExpires(s)
    PROVE  Marked
  <1>1. sessions[s] \in SessionRows /\ sessions' = [sessions EXCEPT ![s].expired = TRUE]
    BY DEF SessionExpires, SignedInv, SessionsTyped
  <1>2. sessions'[s] = Expired(sessions[s])
    BY <1>1 DEF SignedInv, SessionsTyped, Expired
  <1>3. /\ sessions'[s] \in SessionRows /\ sessions'[s].token = sessions[s].token
        /\ sessions'[s].revoked = sessions[s].revoked
    BY <1>1, <1>2, RowExpires
  <1>4. \A r \in Slots \ {s} : sessions'[r] = sessions[r]
    BY <1>1 DEF SignedInv, SessionsTyped
  <1>5. sessions' \in [Slots -> SessionRows \cup {Null}]
    BY <1>1, <1>2, <1>3 DEF SignedInv, SessionsTyped
  <1> QED
    BY <1>1, <1>3, <1>4, <1>5, SessionsAssumption DEF Marked

\* A device on its way to a session moves on, or gives it up.
LEMMA MovingKeeps ==
    ASSUME SignedInv, NEW d \in Devices, ~Holds(d) \/ devices[d].phase = "IN", Marked,
           NEW row \in DeviceRows, row.phase \notin {"IN", "REFRESHING"},
           devices' = [devices EXCEPT ![d] = row], UNCHANGED <<refreshes, tokens, abandoned>>
    PROVE  SignedInv'
  <1>1. devices' \in [Devices -> DeviceRows]
    BY DEF SignedInv, SessionsTyped
  <1>2. \A e \in Devices : devices'[e] = IF e = d THEN row ELSE devices[e]
    BY DEF SignedInv, SessionsTyped
  <1>3. devices[d].phase # "REFRESHING"
    BY DEF Holds
  <1>4. \A k \in Calls : refreshes[k] # Null /\ refreshes[k].waiting => refreshes[k].device # d
    BY <1>3 DEF SignedInv, UnderWay
  <1>5. refreshes' \in [Calls -> CallRows \cup {Null}]
    BY DEF SignedInv, SessionsTyped
  <1> QED
    BY <1>1, <1>2, <1>4, <1>5, FewerKeep

LEMMA StepTo ==
    ASSUME SignedInv, NEW d \in Devices, ~Holds(d),
           NEW phase \in {"CODE_MATCHED", "CHALLENGED", "CLEARED", "RECOVERY_MATCHED"},
           NEW row \in Nat \cup Codes \cup {Null}, To(d, phase, row),
           UNCHANGED <<sessions, refreshes, tokens, abandoned>>
    PROVE  SignedInv'
  <1> DEFINE r == [Out EXCEPT !.phase = phase, !.row = row]
  <1>1. Out \in DeviceRows
    BY DEF Out, DeviceRows
  <1>2. r \in DeviceRows /\ r.phase \notin {"IN", "REFRESHING"}
    BY <1>1 DEF DeviceRows
  <1>3. devices' = [devices EXCEPT ![d] = r]
    BY DEF To
  <1> HIDE DEF r
  <1> QED
    BY <1>2, <1>3, MovingKeeps, MarkedSame

LEMMA StepOut ==
    ASSUME SignedInv, NEW d \in Devices, ~Holds(d) \/ devices[d].phase = "IN", Marked,
           Leave(d), UNCHANGED <<refreshes, tokens, abandoned>>
    PROVE  SignedInv'
  <1>1. Out \in DeviceRows /\ Out.phase \notin {"IN", "REFRESHING"}
    BY DEF Out, DeviceRows
  <1> QED
    BY <1>1, MovingKeeps DEF Leave

\* The first session that is free.
LEMMA FirstFree ==
    ASSUME NEW free \in SUBSET Slots, free # {}
    PROVE  (CHOOSE s \in free : \A r \in free : s <= r) \in free
  <1>1. free \subseteq Nat
    BY SessionsAssumption
  <1>2. PICK s \in free : \A r \in free : ~ (<<r, s>> \in OpToRel(<, Nat))
    BY <1>1, NatLessThanWellFounded, WFMin
  <1>3. \A r \in free : s <= r
    <2>1. SUFFICES ASSUME NEW r \in free PROVE s <= r
      OBVIOUS
    <2>2. r \in Nat /\ s \in Nat
      BY <1>1
    <2>3. r < s => <<r, s>> \in OpToRel(<, Nat)
      BY <2>2 DEF OpToRel
    <2>4. ~(r < s)
      BY <1>2, <2>3
    <2> QED
      BY <2>2, <2>4
  <1> QED
    BY <1>3

\* A session is opened in a slot nobody holds and no refresh is on its way for.
LEMMA OpenKeeps ==
    ASSUME SignedInv, NEW d \in Devices, OpenSession(d)
    PROVE  SignedInv'
  <1> DEFINE p == PersonOf[d]
             free == {s \in Slots : sessions[s] = Null}
             s == CHOOSE x \in free : \A r \in free : x <= r
             row == [person |-> p, token |-> tokens', expired |-> FALSE, revoked |-> "NO"]
             held == [phase |-> "IN", session |-> s, token |-> tokens', row |-> Null]
  <1>1. ~Holds(d)
    BY DEF OpenSession, Holds
  <1>2. CASE ~MayOpen(p)
    BY <1>1, <1>2, StepOut, MarkedSame DEF OpenSession
  <1>3. CASE MayOpen(p)
    <2>1. /\ free # {} /\ tokens < MaxTokens /\ tokens' = tokens + 1
          /\ sessions' = [sessions EXCEPT ![s] = row]
          /\ devices' = [devices EXCEPT ![d] = held]
          /\ UNCHANGED <<refreshes, abandoned>>
      BY <1>3 DEF OpenSession
    <2>2. s \in free
      BY <2>1, FirstFree
    <2> HIDE DEF s
    <2>3. s \in Slots /\ sessions[s] = Null
      BY <2>2
    <2>4. tokens' \in 1 .. MaxTokens /\ tokens' \in Nat
      BY <2>1, SessionsAssumption DEF SignedInv, SessionsTyped
    <2>5. row \in SessionRows /\ row.token = tokens' /\ row.revoked = "NO"
      BY <2>4 DEF SessionRows, People
    <2>6. /\ held \in DeviceRows /\ held.phase = "IN" /\ held.session = s
          /\ held.token = tokens'
      BY <2>3, <2>4 DEF DeviceRows
    <2> HIDE DEF row, held
    <2>7. SessionsTyped'
      BY <2>1, <2>3, <2>4, <2>5, <2>6 DEF SignedInv, SessionsTyped
    <2>8. /\ \A r \in Slots : sessions'[r] = IF r = s THEN row ELSE sessions[r]
          /\ \A e \in Devices : devices'[e] = IF e = d THEN held ELSE devices[e]
      BY <2>1 DEF SignedInv, SessionsTyped
    <2>9. \A e \in Devices \ {d} : Holds(e)' => Holds(e) /\ devices'[e] = devices[e]
                                                /\ devices[e].session \in Slots \ {s}
      BY <2>3, <2>8, SessionsAssumption DEF Holds, SignedInv, Held
    <2>10. Held'
      BY <2>3, <2>5, <2>6, <2>8, <2>9 DEF Held, SignedInv
    <2>11. \A k \in Calls : refreshes[k] # Null =>
              /\ refreshes[k].session \in Slots \ {s}
              /\ refreshes[k].waiting => refreshes[k].device \in Devices \ {d}
      BY <1>1, <2>3, SessionsAssumption DEF SignedInv, SessionsTyped, UnderWay, CallRows, Holds
    <2>12. UnderWay'
      BY <2>1, <2>8, <2>11 DEF SignedInv, UnderWay
    <2>13. UpToDate'
      <3> SUFFICES ASSUME NEW e \in Devices, Holds(e)', devices'[e].session \notin abandoned
                   PROVE  devices'[e].token = sessions'[devices'[e].session].token
        BY <2>1 DEF UpToDate
      <3>1. CASE e = d
        BY <3>1, <2>3, <2>5, <2>6, <2>8
      <3>2. CASE e # d
        <4>1. Holds(e) /\ devices'[e] = devices[e] /\ devices[e].session \in Slots \ {s}
          BY <3>2, <2>9
        <4> QED
          BY <4>1, <2>8 DEF SignedInv, UpToDate
      <3> QED
        BY <3>1, <3>2
    <2>14. SignedOutForCause'
      BY <2>1, <2>5, <2>8 DEF SignedInv, SignedOutForCause
    <2> QED
      BY <2>7, <2>10, <2>12, <2>13, <2>14 DEF SignedInv
  <1> QED
    BY <1>2, <1>3

\* The client refreshes the token it has, one refresh at a time.
LEMMA RefreshOnceKeeps ==
    ASSUME SignedInv, NEW d \in Devices, NEW k \in Calls, _refreshOnce(d, k)
    PROVE  SignedInv'
  <1> DEFINE call == [device |-> d, session |-> devices[d].session, token |-> devices[d].token,
                      stage |-> "SENT", waiting |-> TRUE]
             row == [devices[d] EXCEPT !.phase = "REFRESHING"]
  <1>1. devices[d].phase = "IN" /\ Holds(d) /\ devices[d] \in DeviceRows
    BY DEF _refreshOnce, Holds, SignedInv, SessionsTyped
  <1>2. devices[d].session \in Slots /\ sessions[devices[d].session] \in SessionRows
    BY <1>1 DEF SignedInv, Held
  <1>3. /\ call \in CallRows /\ call.device = d /\ call.session = devices[d].session
        /\ call.token = devices[d].token /\ call.waiting
    BY <1>1, <1>2 DEF CallRows, DeviceRows
  <1>4. /\ row \in DeviceRows /\ row.phase = "REFRESHING" /\ row.session = devices[d].session
        /\ row.token = devices[d].token
    BY <1>1 DEF DeviceRows
  <1>5. /\ refreshes' = [refreshes EXCEPT ![k] = call] /\ refreshes[k] = Null
        /\ devices' = [devices EXCEPT ![d] = row]
        /\ UNCHANGED <<sessions, tokens, abandoned>>
    BY DEF _refreshOnce
  <1> HIDE DEF call, row
  <1>6. SessionsTyped'
    BY <1>3, <1>4, <1>5 DEF SignedInv, SessionsTyped
  <1>7. /\ \A j \in Calls : refreshes'[j] = IF j = k THEN call ELSE refreshes[j]
        /\ \A e \in Devices : devices'[e] = IF e = d THEN row ELSE devices[e]
    BY <1>5 DEF SignedInv, SessionsTyped
  <1>8. \A e \in Devices : /\ Holds(e)' <=> Holds(e)
                           /\ devices'[e].session = devices[e].session
                           /\ devices'[e].token = devices[e].token
    BY <1>1, <1>4, <1>7 DEF Holds
  <1>9. Held' /\ UpToDate' /\ SignedOutForCause'
    BY <1>5, <1>8 DEF SignedInv, Held, UpToDate, SignedOutForCause
  <1>10. \A j \in Calls \ {k} : refreshes[j] # Null /\ refreshes[j].waiting => refreshes[j].device # d
    BY <1>1 DEF SignedInv, UnderWay
  <1>11. \A j \in Calls : refreshes[j] # Null => refreshes[j].device \in Devices
    BY DEF SignedInv, SessionsTyped, CallRows
  <1>12. UnderWay'
    <2>1. ASSUME NEW j \in Calls, refreshes'[j] # Null
          PROVE  /\ sessions'[refreshes'[j].session] \in SessionRows
                 /\ refreshes'[j].waiting =>
                       /\ devices'[refreshes'[j].device].phase = "REFRESHING"
                       /\ devices'[refreshes'[j].device].session = refreshes'[j].session
                       /\ devices'[refreshes'[j].device].token = refreshes'[j].token
                 /\ ~refreshes'[j].waiting => refreshes'[j].session \in abandoned'
      <3>1. CASE j = k
        BY <3>1, <1>2, <1>3, <1>4, <1>5, <1>7
      <3>2. CASE j # k
        BY <3>2, <2>1, <1>5, <1>7, <1>10, <1>11 DEF SignedInv, UnderWay
      <3> QED
        BY <3>1, <3>2
    <2>2. ASSUME NEW i \in Calls, NEW j \in Calls, refreshes'[i] # Null, refreshes'[j] # Null,
                 refreshes'[i].waiting, refreshes'[j].waiting,
                 refreshes'[i].device = refreshes'[j].device
          PROVE  i = j
      BY <2>2, <1>3, <1>7, <1>10 DEF SignedInv, UnderWay
    <2> QED
      BY <2>1, <2>2 DEF UnderWay
  <1> QED
    BY <1>6, <1>9, <1>12 DEF SignedInv

\* A token that is not the one on record was presented for a session somebody stopped
\* waiting for.
LEMMA ReuseIsOfAbandoned ==
    ASSUME SignedInv, NEW k \in Calls, refreshes[k] # Null, ReuseSuspected(k)
    PROVE  refreshes[k].session \in abandoned
  <1>1. refreshes[k] \in CallRows
    BY DEF SignedInv, SessionsTyped
  <1>2. refreshes[k].device \in Devices
    BY <1>1 DEF CallRows
  <1> SUFFICES ASSUME refreshes[k].session \notin abandoned PROVE FALSE
    OBVIOUS
  <1>3. refreshes[k].waiting
    BY DEF SignedInv, UnderWay
  <1>4. /\ devices[refreshes[k].device].phase = "REFRESHING"
        /\ devices[refreshes[k].device].session = refreshes[k].session
        /\ devices[refreshes[k].device].token = refreshes[k].token
    BY <1>3 DEF SignedInv, UnderWay
  <1> QED
    BY <1>2, <1>4 DEF SignedInv, UpToDate, Holds, ReuseSuspected

\* A refresh is answered, and the device that may wait for it is sent away.
LEMMA AnsweredKeeps ==
    ASSUME SignedInv, Marked, NEW k \in Calls, refreshes[k] # Null, Answered(k),
           SentAway(k) \/ (~refreshes[k].waiting /\ UNCHANGED devices),
           UNCHANGED <<tokens, abandoned>>
    PROVE  SignedInv'
  <1>1. refreshes[k] \in CallRows /\ refreshes[k].device \in Devices
    BY DEF SignedInv, SessionsTyped, CallRows
  <1>2. Out \in DeviceRows /\ Out.phase \notin {"IN", "REFRESHING"}
    BY DEF Out, DeviceRows
  <1>3. \/ devices' = devices
        \/ refreshes[k].waiting /\ devices' = [devices EXCEPT ![refreshes[k].device] = Out]
    BY DEF SentAway, SignedInv, SessionsTyped
  <1>4. \A j \in Calls : refreshes'[j] = IF j = k THEN Null ELSE refreshes[j]
    BY DEF Answered, SignedInv, SessionsTyped
  <1>5. refreshes' \in [Calls -> CallRows \cup {Null}]
    BY DEF Answered, SignedInv, SessionsTyped
  <1>6. devices' \in [Devices -> DeviceRows]
    BY <1>1, <1>2, <1>3 DEF SignedInv, SessionsTyped
  <1>7. ASSUME NEW d \in Devices, devices'[d] # devices[d]
        PROVE  /\ devices'[d] = Out
               /\ \A j \in Calls : refreshes'[j] # Null /\ refreshes'[j].waiting
                                      => refreshes'[j].device # d
    <2>1. /\ refreshes[k].waiting /\ d = refreshes[k].device
          /\ devices' = [devices EXCEPT ![d] = Out]
      BY <1>3, <1>7 DEF SignedInv, SessionsTyped
    <2>2. devices'[d] = Out
      BY <2>1 DEF SignedInv, SessionsTyped
    <2>3. ASSUME NEW j \in Calls, refreshes'[j] # Null, refreshes'[j].waiting,
                 refreshes'[j].device = d
          PROVE  FALSE
      <3>1. j # k /\ refreshes[j] # Null /\ refreshes[j].waiting /\ refreshes[j].device = d
        BY <2>3, <1>4
      <3> QED
        BY <2>1, <3>1 DEF SignedInv, UnderWay
    <2> QED
      BY <2>2, <2>3
  <1> QED
    BY <1>2, <1>4, <1>5, <1>6, <1>7, FewerKeep

LEMMA VerifyKeeps ==
    ASSUME SignedInv, NEW k \in Calls, VerifyRefresh(k)
    PROVE  SignedInv'
  <1> DEFINE s == refreshes[k].session
             goes == Live(s) /\ ~ReuseSuspected(k) /\ MayRotate(sessions[s].person)
  <1>1. /\ refreshes[k] # Null /\ refreshes[k] \in CallRows /\ s \in Slots
        /\ UNCHANGED <<tokens, abandoned>>
    BY DEF VerifyRefresh, SignedInv, SessionsTyped, CallRows
  <1>2. CASE goes
    <2> DEFINE call == [refreshes[k] EXCEPT !.stage = "VERIFIED"]
    <2>1. refreshes' = [refreshes EXCEPT ![k] = call] /\ UNCHANGED <<sessions, devices>>
      BY <1>2 DEF VerifyRefresh
    <2>2. /\ call \in CallRows /\ call.device = refreshes[k].device /\ call.session = s
          /\ call.token = refreshes[k].token /\ call.waiting = refreshes[k].waiting
      BY <1>1 DEF CallRows
    <2> HIDE DEF call
    <2>3. \A j \in Calls : refreshes'[j] = IF j = k THEN call ELSE refreshes[j]
      BY <2>1 DEF SignedInv, SessionsTyped
    <2>4. SessionsTyped'
      BY <1>1, <2>1, <2>2 DEF SignedInv, SessionsTyped
    <2>5. \A j \in Calls : refreshes'[j] # Null =>
              /\ refreshes[j] # Null
              /\ refreshes'[j].device = refreshes[j].device
              /\ refreshes'[j].session = refreshes[j].session
              /\ refreshes'[j].token = refreshes[j].token
              /\ refreshes'[j].waiting = refreshes[j].waiting
      BY <1>1, <2>2, <2>3
    <2>6. UnderWay'
      BY <1>1, <2>1, <2>5 DEF SignedInv, UnderWay
    <2>7. Held' /\ UpToDate' /\ SignedOutForCause'
      BY <1>1, <2>1 DEF SignedInv, Held, Holds, UpToDate, SignedOutForCause
    <2> QED
      BY <2>4, <2>6, <2>7 DEF SignedInv
  <1>3. CASE ~goes
    <2>1. Answered(k) /\ SentAway(k)
      BY <1>3 DEF VerifyRefresh
    <2>2. sessions' = IF Live(s) /\ ReuseSuspected(k) THEN Revoked(sessions, {s}, "REUSE")
                      ELSE sessions
      BY <1>3 DEF VerifyRefresh
    <2>3. Marked
      <3>1. CASE Live(s) /\ ReuseSuspected(k)
        <4>1. s \in abandoned
          BY <1>1, <3>1, ReuseIsOfAbandoned
        <4>2. sessions[s] # Null
          BY <3>1 DEF Live
        <4>3. sessions' = Revoked(sessions, {s}, "REUSE")
          BY <2>2, <3>1
        <4> HIDE DEF s
        <4> QED
          BY <4>1, <4>2, <4>3, MarkedRevoked
      <3>2. CASE ~(Live(s) /\ ReuseSuspected(k))
        BY <2>2, <3>2, MarkedSame
      <3> QED
        BY <3>1, <3>2
    <2> QED
      BY <1>1, <2>1, <2>3, AnsweredKeeps
  <1> QED
    BY <1>2, <1>3

\* The row keeps the new token, and so does the device, unless it stopped waiting.
LEMMA RotateKeeps ==
    ASSUME SignedInv, NEW k \in Calls, RotateRefresh(k)
    PROVE  SignedInv'
  <1> DEFINE s == refreshes[k].session
             d == refreshes[k].device
             row == [sessions[s] EXCEPT !.token = tokens']
             held == IF refreshes[k].waiting THEN Saved(devices[d], tokens') ELSE devices[d]
  <1>1. /\ refreshes[k] # Null /\ tokens < MaxTokens /\ tokens' = tokens + 1 /\ Answered(k)
        /\ sessions' = [sessions EXCEPT ![s] = row]
        /\ devices' = [devices EXCEPT ![d] = held] /\ UNCHANGED abandoned
    BY DEF RotateRefresh
  <1>2. refreshes[k] \in CallRows /\ s \in Slots /\ d \in Devices /\ sessions[s] \in SessionRows
    BY <1>1 DEF SignedInv, SessionsTyped, CallRows, UnderWay
  <1>3. tokens' \in 1 .. MaxTokens /\ tokens' \in Nat /\ tokens' \in 0 .. MaxTokens
    BY <1>1, SessionsAssumption DEF SignedInv, SessionsTyped
  <1>4. row \in SessionRows /\ row.token = tokens' /\ row.revoked = sessions[s].revoked
    BY <1>2, <1>3 DEF SessionRows
  <1>5. devices[d] \in DeviceRows
    BY <1>2 DEF SignedInv, SessionsTyped
  <1>6. refreshes[k].waiting =>
           /\ devices[d].phase = "REFRESHING" /\ devices[d].session = s
           /\ held.phase = "IN" /\ held.session = s /\ held.token = tokens'
           /\ held \in DeviceRows
    BY <1>1, <1>3, <1>5 DEF SignedInv, UnderWay, Saved, DeviceRows
  <1>7. ~refreshes[k].waiting => held = devices[d] /\ s \in abandoned
    BY <1>1 DEF SignedInv, UnderWay
  <1>8. held \in DeviceRows
    BY <1>5, <1>6, <1>7
  <1> HIDE DEF row, held
  <1>9. /\ \A r \in Slots : sessions'[r] = IF r = s THEN row ELSE sessions[r]
        /\ \A e \in Devices : devices'[e] = IF e = d THEN held ELSE devices[e]
        /\ \A j \in Calls : refreshes'[j] = IF j = k THEN Null ELSE refreshes[j]
    BY <1>1 DEF SignedInv, SessionsTyped, Answered
  <1>10. SessionsTyped'
    BY <1>1, <1>2, <1>3, <1>4, <1>8 DEF SignedInv, SessionsTyped, Answered
  <1>11. \A e \in Devices : /\ Holds(e)' <=> Holds(e)
                            /\ devices'[e].session = devices[e].session
    BY <1>6, <1>7, <1>9 DEF Holds
  <1>12. \A r \in Slots : sessions[r] \in SessionRows => sessions'[r] \in SessionRows
    BY <1>4, <1>9
  <1>13. Held'
    BY <1>11, <1>12 DEF SignedInv, Held
  <1>14. UnderWay'
    <2>1. ASSUME NEW j \in Calls, refreshes'[j] # Null
          PROVE  /\ j # k /\ refreshes'[j] = refreshes[j]
                 /\ refreshes[j].session \in Slots /\ refreshes[j].device \in Devices
                 /\ refreshes[j].waiting => refreshes[j].device # d \/ devices'[d] = devices[d]
      <3>1. j # k /\ refreshes'[j] = refreshes[j] /\ refreshes[j] \in CallRows
        BY <2>1, <1>9, <1>10 DEF SessionsTyped
      <3>2. refreshes[k].waiting /\ refreshes[j].waiting => refreshes[j].device # d
        BY <1>1, <2>1, <3>1 DEF SignedInv, UnderWay
      <3> QED
        BY <1>2, <1>7, <1>9, <3>1, <3>2 DEF CallRows
    <2>2. ASSUME NEW j \in Calls, refreshes'[j] # Null
          PROVE  /\ sessions'[refreshes'[j].session] \in SessionRows
                 /\ ~refreshes'[j].waiting => refreshes'[j].session \in abandoned'
                 /\ refreshes'[j].waiting =>
                       /\ devices'[refreshes'[j].device].phase = "REFRESHING"
                       /\ devices'[refreshes'[j].device].session = refreshes'[j].session
                       /\ devices'[refreshes'[j].device].token = refreshes'[j].token
      BY <2>1, <2>2, <1>1, <1>9, <1>12 DEF SignedInv, UnderWay
    <2>3. ASSUME NEW i \in Calls, NEW j \in Calls, refreshes'[i] # Null, refreshes'[j] # Null,
                 refreshes'[i].waiting, refreshes'[j].waiting,
                 refreshes'[i].device = refreshes'[j].device
          PROVE  i = j
      BY <2>1, <2>3 DEF SignedInv, UnderWay
    <2> QED
      BY <2>2, <2>3 DEF UnderWay
  <1>15. UpToDate'
    <2> SUFFICES ASSUME NEW e \in Devices, Holds(e)', devices'[e].session \notin abandoned
                 PROVE  devices'[e].token = sessions'[devices'[e].session].token
      BY <1>1 DEF UpToDate
    <2>1. Holds(e) /\ devices'[e].session = devices[e].session /\ devices[e].session \in Slots
      BY <1>11 DEF SignedInv, Held
    <2>2. CASE devices[e].session = s
      <3>1. refreshes[k].waiting
        BY <1>7, <2>1, <2>2
      <3>2. Holds(d) /\ devices[d].session = s
        BY <1>6, <3>1 DEF Holds
      <3>3. e = d
        BY <1>2, <2>1, <2>2, <3>2 DEF SignedInv, Held
      <3> QED
        BY <1>2, <1>4, <1>6, <1>9, <2>1, <2>2, <3>1, <3>3
    <2>3. CASE devices[e].session # s
      <3>1. devices'[e] = devices[e]
        BY <1>6, <1>7, <1>9, <2>3
      <3> QED
        BY <1>9, <2>1, <2>3, <3>1 DEF SignedInv, UpToDate
    <2> QED
      BY <2>2, <2>3
  <1>16. SignedOutForCause'
    BY <1>1, <1>2, <1>4, <1>9, SessionsAssumption DEF SignedInv, SignedOutForCause
  <1> QED
    BY <1>10, <1>13, <1>14, <1>15, <1>16 DEF SignedInv

\* The client stops waiting: its session counts as abandoned from then on.
LEMMA GiveUpKeeps ==
    ASSUME SignedInv, NEW k \in Calls, GiveUp(k)
    PROVE  SignedInv'
  <1> DEFINE s == refreshes[k].session
             d == refreshes[k].device
             call == [refreshes[k] EXCEPT !.waiting = FALSE]
             row == IF AudienceOf[PersonOf[d]] = "STAFF" THEN [devices[d] EXCEPT !.phase = "IN"]
                    ELSE Out
  <1>1. /\ refreshes[k] # Null /\ refreshes[k].waiting
        /\ refreshes' = [refreshes EXCEPT ![k] = call]
        /\ devices' = [devices EXCEPT ![d] = row]
        /\ abandoned' = abandoned \cup {s} /\ UNCHANGED <<sessions, tokens>>
    BY DEF GiveUp
  <1>2. refreshes[k] \in CallRows /\ s \in Slots /\ d \in Devices /\ sessions[s] \in SessionRows
    BY <1>1 DEF SignedInv, SessionsTyped, CallRows, UnderWay
  <1>3. call \in CallRows /\ call.session = s /\ ~call.waiting
    BY <1>2 DEF CallRows
  <1>4. devices[d] \in DeviceRows /\ devices[d].phase = "REFRESHING" /\ devices[d].session = s
    BY <1>1, <1>2 DEF SignedInv, SessionsTyped, UnderWay
  <1>5. /\ row \in DeviceRows /\ row.phase # "REFRESHING"
        /\ row.phase = "IN" => row.session = s
    BY <1>4 DEF DeviceRows, Out
  <1> HIDE DEF call, row
  <1>6. /\ \A e \in Devices : devices'[e] = IF e = d THEN row ELSE devices[e]
        /\ \A j \in Calls : refreshes'[j] = IF j = k THEN call ELSE refreshes[j]
    BY <1>1 DEF SignedInv, SessionsTyped
  <1>7. SessionsTyped'
    BY <1>1, <1>2, <1>3, <1>5 DEF SignedInv, SessionsTyped
  <1>8. \A e \in Devices : Holds(e)' =>
            /\ Holds(e) /\ devices'[e].session = devices[e].session
            /\ e # d => devices'[e] = devices[e]
    BY <1>4, <1>5, <1>6 DEF Holds
  <1>9. Held'
    BY <1>1, <1>8 DEF SignedInv, Held
  <1>10. ASSUME NEW j \in Calls, refreshes'[j] # Null, refreshes'[j].waiting
         PROVE  /\ j # k /\ refreshes[j] = refreshes'[j] /\ refreshes[j].device # d
                /\ refreshes[j].device \in Devices
    <2>1. j # k /\ refreshes[j] = refreshes'[j]
      BY <1>3, <1>6, <1>10
    <2> QED
      BY <2>1, <1>1, <1>10 DEF SignedInv, SessionsTyped, UnderWay, CallRows
  <1>11. UnderWay'
    <2>1. ASSUME NEW j \in Calls, refreshes'[j] # Null
          PROVE  /\ sessions'[refreshes'[j].session] \in SessionRows
                 /\ ~refreshes'[j].waiting => refreshes'[j].session \in abandoned'
      <3>1. CASE j = k
        BY <3>1, <1>1, <1>2, <1>3, <1>6
      <3>2. CASE j # k
        BY <3>2, <2>1, <1>1, <1>6 DEF SignedInv, UnderWay
      <3> QED
        BY <3>1, <3>2
    <2>2. ASSUME NEW j \in Calls, refreshes'[j] # Null, refreshes'[j].waiting
          PROVE  /\ devices'[refreshes'[j].device].phase = "REFRESHING"
                 /\ devices'[refreshes'[j].device].session = refreshes'[j].session
                 /\ devices'[refreshes'[j].device].token = refreshes'[j].token
      BY <1>6, <1>10, <2>2 DEF SignedInv, UnderWay
    <2>3. ASSUME NEW i \in Calls, NEW j \in Calls, refreshes'[i] # Null, refreshes'[j] # Null,
                 refreshes'[i].waiting, refreshes'[j].waiting,
                 refreshes'[i].device = refreshes'[j].device
          PROVE  i = j
      BY <1>10, <2>3 DEF SignedInv, UnderWay
    <2> QED
      BY <2>1, <2>2, <2>3 DEF UnderWay
  <1>12. UpToDate'
    <2> SUFFICES ASSUME NEW e \in Devices, Holds(e)', devices'[e].session \notin abandoned'
                 PROVE  devices'[e].token = sessions'[devices'[e].session].token
      BY DEF UpToDate
    <2>1. Holds(e) /\ devices[e].session \notin abandoned /\ devices[e].session # s
      BY <1>1, <1>8
    <2>2. devices'[e] = devices[e]
      BY <1>4, <1>8, <2>1
    <2> QED
      BY <1>1, <2>1, <2>2 DEF SignedInv, UpToDate
  <1>13. SignedOutForCause'
    BY <1>1 DEF SignedInv, SignedOutForCause
  <1> QED
    BY <1>7, <1>9, <1>11, <1>12, <1>13 DEF SignedInv

LEMMA LoseKeeps ==
    ASSUME SignedInv, NEW k \in Calls, LoseCall(k)
    PROVE  SignedInv'
  BY MarkedSame, AnsweredKeeps DEF LoseCall

\* Whoever ends sessions ends those there are, by name and not for reuse.
LEMMA EndedKeeps ==
    ASSUME SignedInv, NEW ids, NEW by \in {"BY_PERSON", "BY_ADMIN"},
           \A s \in Slots \cap ids : sessions[s] # Null,
           sessions' = Revoked(sessions, ids, by) \/ UNCHANGED sessions,
           UNCHANGED <<refreshes, devices, tokens, abandoned>>
    PROVE  SignedInv'
  <1>1. Marked
    BY MarkedRevoked, MarkedSame
  <1>2. /\ refreshes' \in [Calls -> CallRows \cup {Null}]
        /\ devices' \in [Devices -> DeviceRows]
    BY DEF SignedInv, SessionsTyped
  <1> QED
    BY <1>1, <1>2, FewerKeep

LEMMA ConsoleKeeps ==
    ASSUME SignedInv, NEW p, \/ requestOtp(p) \/ LockEnds(p) \/ revokeAllSessions(p)
                             \/ removeAccount(p) \/ \E s \in Slots : revokeSession(p, s)
                             \/ \E status \in {"ACTIVE", "BLOCKED"} : setAccountStatus(p, status)
    PROVE  SignedInv'
  <1>1. CASE requestOtp(p) \/ LockEnds(p) \/ removeAccount(p)
    BY <1>1, SignedStutters DEF requestOtp, LockEnds, removeAccount, signedVars
  <1>2. CASE revokeAllSessions(p)
    BY <1>2, EndedKeeps DEF revokeAllSessions, LiveSessionsOf
  <1>3. ASSUME NEW s \in Slots, revokeSession(p, s)
        PROVE  SignedInv'
    BY <1>3, EndedKeeps DEF revokeSession
  <1>4. ASSUME NEW status, setAccountStatus(p, status)
        PROVE  SignedInv'
    BY <1>4, EndedKeeps DEF setAccountStatus, LiveSessionsOf
  <1> QED
    BY <1>1, <1>2, <1>3, <1>4

LEMMA SignedInKeeps ==
    ASSUME SignedInv, NEW d \in Devices, SignedIn(d)
    PROVE  SignedInv'
  <1>1. CASE logout(d)
    <2>1. devices[d].phase = "IN" /\ sessions[devices[d].session] # Null
      BY <1>1, SessionsAssumption DEF logout, Admitted, SignedInv, Held, Holds
    <2>2. Marked
      BY <1>1, <2>1, MarkedRevoked DEF logout
    <2> QED
      BY <1>1, <2>1, <2>2, StepOut DEF logout
  <1>2. CASE revokeAll(d)
    BY <1>2, EndedKeeps DEF revokeAll, LiveSessionsOf
  <1>3. ASSUME NEW s \in Slots, revoke(d, s)
        PROVE  SignedInv'
    BY <1>3, EndedKeeps DEF revoke, LiveSessionsOf
  <1>4. CASE verifyEnrolment(d) \/ disable(d)
    BY <1>4, SignedStutters DEF verifyEnrolment, disable, signedVars
  <1>5. ASSUME NEW c \in Codes, enroll(d, c)
        PROVE  SignedInv'
    BY <1>5, SignedStutters DEF enroll, signedVars
  <1> QED
    BY <1>1, <1>2, <1>3, <1>4, <1>5 DEF SignedIn

\* The people, their codes and their second factors.
PersonsTyped ==
    /\ accounts \in [People -> {"ACTIVE", "BLOCKED", "DELETED"}]
    /\ mfa \in [People -> {"OFF", "STARTED", "ON"}]
    /\ otps \in [People -> Seq(OtpRows)]
    /\ tries \in [People -> 0 .. MaxGuesses]

\* The newest open code of a number is one of its rows.
LEMMA LatestIsARow ==
    ASSUME PersonsTyped, NEW p \in People, LatestOtp(p) # 0
    PROVE  /\ LatestOtp(p) \in 1 .. Len(otps[p]) /\ otps[p] \in Seq(OtpRows)
           /\ LatestOtp(p) \in Nat
  <1> DEFINE open == {i \in DOMAIN otps[p] : ~otps[p][i].consumed}
             n == Len(otps[p])
             Ages == {n - i : i \in open}
  <1>1. otps[p] \in Seq(OtpRows) /\ n \in Nat /\ DOMAIN otps[p] = 1 .. n
    BY DEF PersonsTyped
  <1>2. open # {} /\ LatestOtp(p) = CHOOSE i \in open : \A j \in open : j <= i
    BY DEF LatestOtp
  <1>3. open \subseteq 1 .. n
    BY <1>1
  <1> HIDE DEF open, n
  <1>4. Ages \subseteq Nat /\ Ages # {}
    <2>1. ASSUME NEW i \in open
          PROVE  n - i \in Nat
      <3>1. i \in 1 .. n
        BY <1>3
      <3>2. n \in Nat
        BY <1>1
      <3> HIDE DEF n
      <3> QED
        BY <3>1, <3>2
    <2>2. PICK i \in open : TRUE
      BY <1>2
    <2>3. n - i \in Ages
      BY <2>2
    <2> QED
      BY <2>1, <2>3
  <1>5. PICK a \in Ages : \A b \in Ages : ~ (<<b, a>> \in OpToRel(<, Nat))
    BY <1>4, NatLessThanWellFounded, WFMin
  <1>6. PICK i \in open : a = n - i
    BY <1>5
  <1>7. \A j \in open : j <= i
    <2>1. SUFFICES ASSUME NEW j \in open PROVE j <= i
      OBVIOUS
    <2>2. n - j \in Nat /\ a \in Nat /\ n - j \in Ages
      BY <1>4
    <2>3. n - j < a => <<n - j, a>> \in OpToRel(<, Nat)
      BY <2>2 DEF OpToRel
    <2>4. ~(n - j < a)
      BY <1>5, <2>2, <2>3
    <2>5. i \in Int /\ j \in Int
      BY <1>1, <1>3
    <2> QED
      BY <1>1, <1>6, <2>2, <2>4, <2>5
  <1>8. LatestOtp(p) \in open
    BY <1>2, <1>7
  <1>9. LatestOtp(p) \in 1 .. n
    BY <1>3, <1>8
  <1> QED
    BY <1>1, <1>9 DEF n

LEMMA SignInKeeps ==
    ASSUME SignedInv, PersonsTyped, NEW d \in Devices, SignIn(d)
    PROVE  SignedInv'
  <1>1. CASE PresentOtp(d)
    <2>1. LatestOtp(PersonOf[d]) \in Nat /\ ~Holds(d)
      BY <1>1, LatestIsARow DEF PresentOtp, People, Holds
    <2> QED
      BY <1>1, <2>1, StepTo DEF PresentOtp
  <1>2. CASE MistypeOtp(d) \/ recordFailure(d)
    BY <1>2, SignedStutters DEF MistypeOtp, recordFailure, signedVars
  <1>3. CASE ConsumeOtp(d)
    <2>1. ~Holds(d)
      BY <1>3 DEF ConsumeOtp, Holds
    <2> QED
      BY <1>3, <2>1, StepTo, StepOut, MarkedSame DEF ConsumeOtp, Gate
  <1>4. CASE google(d)
    <2>1. ~Holds(d)
      BY <1>4 DEF google, Holds
    <2> QED
      BY <1>4, <2>1, StepTo DEF google, Gate
  <1>5. CASE consumeTotp(d)
    <2>1. ~Holds(d)
      BY <1>5 DEF consumeTotp, Answerable, Holds
    <2> QED
      BY <1>5, <2>1, StepTo DEF consumeTotp
  <1>6. CASE BurnRecoveryCode(d)
    <2>1. ~Holds(d)
      BY <1>6 DEF BurnRecoveryCode, Holds
    <2>2. To(d, "CLEARED", Null) \/ To(d, "CHALLENGED", Null)
      BY <1>6 DEF BurnRecoveryCode
    <2> QED
      BY <1>6, <2>1, <2>2, StepTo DEF BurnRecoveryCode
  <1>7. CASE ChallengeLapses(d)
    <2>1. ~Holds(d)
      BY <1>7 DEF ChallengeLapses, Holds
    <2> QED
      BY <1>7, <2>1, StepOut, MarkedSame DEF ChallengeLapses
  <1>8. CASE OpenSession(d)
    BY <1>8, OpenKeeps
  <1>9. ASSUME NEW c \in Codes, MatchRecoveryCode(d, c)
        PROVE  SignedInv'
    <2>1. ~Holds(d)
      BY <1>9 DEF MatchRecoveryCode, Answerable, Holds
    <2> QED
      BY <1>9, <2>1, StepTo DEF MatchRecoveryCode
  <1> QED
    BY <1>1, <1>2, <1>3, <1>4, <1>5, <1>6, <1>7, <1>8, <1>9 DEF SignIn

LEMMA RefreshKeeps ==
    ASSUME SignedInv, NEW k \in Calls, Refresh(k)
    PROVE  SignedInv'
  BY VerifyKeeps, RotateKeeps, GiveUpKeeps, LoseKeeps, RefreshOnceKeeps DEF Refresh

LEMMA SignedKeeps ==
    ASSUME SignedInv, PersonsTyped, SessionsNext
    PROVE  SignedInv'
  <1>1. ASSUME NEW d \in Devices, SignIn(d) \/ SignedIn(d)
        PROVE  SignedInv'
    BY <1>1, SignInKeeps, SignedInKeeps
  <1>2. ASSUME NEW k \in Calls, Refresh(k)
        PROVE  SignedInv'
    BY <1>2, RefreshKeeps
  <1>3. ASSUME NEW p \in People, Administration(p)
        PROVE  SignedInv'
    BY <1>3, ConsoleKeeps DEF Administration
  <1>4. ASSUME NEW s \in Slots, SessionExpires(s)
        PROVE  SignedInv'
    <2>1. /\ refreshes' \in [Calls -> CallRows \cup {Null}]
          /\ devices' \in [Devices -> DeviceRows]
      BY <1>4 DEF SignedInv, SessionsTyped, SessionExpires
    <2> QED
      BY <1>4, <2>1, MarkedExpired, FewerKeep DEF SessionExpires
  <1>5. CASE Restart
    BY <1>5, SignedStutters DEF Restart, signedVars
  <1> QED
    BY <1>1, <1>2, <1>3, <1>4, <1>5 DEF SessionsNext

\* The statements on the tables of people: who asks for codes, mistypes them, is locked
\* out, enrols and is moved by the console.
LEMMA OtpsKeep ==
    ASSUME PersonsTyped, NEW p \in People,
           NEW i \in Nat, NEW row \in OtpRows,
           \/ otps' = [otps EXCEPT ![p] = Append(otps[p], row)]
           \/ i \in 1 .. Len(otps[p]) /\ otps' = [otps EXCEPT ![p] = [otps[p] EXCEPT ![i] = row]]
    PROVE  otps' \in [People -> Seq(OtpRows)]
  <1>1. otps[p] \in Seq(OtpRows)
    BY DEF PersonsTyped
  <1>2. Append(otps[p], row) \in Seq(OtpRows)
    BY <1>1
  <1>3. i \in 1 .. Len(otps[p]) => [otps[p] EXCEPT ![i] = row] \in Seq(OtpRows)
    BY <1>1
  <1> QED
    BY <1>2, <1>3 DEF PersonsTyped

LEMMA SignInTyped ==
    ASSUME PersonsTyped, NEW d \in Devices, SignIn(d)
    PROVE  PersonsTyped'
  <1> DEFINE p == PersonOf[d]
  <1>1. p \in People
    BY DEF People
  <1>2. CASE PresentOtp(d) \/ google(d) \/ ChallengeLapses(d) \/ OpenSession(d)
    BY <1>2 DEF PersonsTyped, PresentOtp, google, ChallengeLapses, OpenSession
  <1>3. CASE MistypeOtp(d)
    <2> DEFINE i == LatestOtp(p)
               row == [otps[p][i] EXCEPT !.wrong = otps[p][i].wrong + 1]
    <2>1. i \in 1 .. Len(otps[p]) /\ otps[p] \in Seq(OtpRows) /\ i \in Nat
      BY <1>1, <1>3, LatestIsARow DEF MistypeOtp
    <2>2. otps[p][i] \in OtpRows /\ otps[p][i].wrong < MaxGuesses
      BY <1>3, <2>1 DEF MistypeOtp
    <2>3. row \in OtpRows
      BY <2>2, SessionsAssumption DEF OtpRows
    <2>4. otps' = [otps EXCEPT ![p] = [otps[p] EXCEPT ![i] = row]]
      BY <1>1, <1>3 DEF MistypeOtp
    <2> HIDE DEF i, row, p
    <2>5. otps' \in [People -> Seq(OtpRows)]
      BY <1>1, <2>1, <2>3, <2>4, OtpsKeep
    <2> QED
      BY <1>3, <2>5 DEF PersonsTyped, MistypeOtp
  <1>4. CASE ConsumeOtp(d)
    <2> DEFINE i == devices[d].row
               row == [otps[p][i] EXCEPT !.consumed = TRUE]
    <2>1. otps' = [otps EXCEPT ![p] = [otps[p] EXCEPT ![i] = row]]
      BY <1>4 DEF ConsumeOtp
    <2>2. otps[p] \in Seq(OtpRows)
      BY <1>1 DEF PersonsTyped
    <2>3. otps' \in [People -> Seq(OtpRows)]
      <3>1. CASE i \in 1 .. Len(otps[p])
        <4>1. otps[p][i] \in OtpRows /\ i \in Nat
          BY <2>2, <3>1
        <4>2. row \in OtpRows
          BY <4>1 DEF OtpRows
        <4> HIDE DEF i, row, p
        <4> QED
          BY <1>1, <2>1, <3>1, <4>1, <4>2, OtpsKeep
      <3>2. CASE i \notin 1 .. Len(otps[p])
        <4>1. DOMAIN otps[p] = 1 .. Len(otps[p])
          BY <2>2
        <4>2. [otps[p] EXCEPT ![i] = row] = otps[p]
          BY <2>2, <3>2, <4>1
        <4> HIDE DEF i, row, p
        <4> QED
          BY <1>1, <2>1, <2>2, <4>2 DEF PersonsTyped
      <3> QED
        BY <3>1, <3>2
    <2> QED
      BY <1>4, <2>3 DEF PersonsTyped, ConsumeOtp
  <1>5. CASE consumeTotp(d) \/ recordFailure(d) \/ BurnRecoveryCode(d)
    <2>1. tries[p] \in 0 .. MaxGuesses
      BY <1>1 DEF PersonsTyped
    <2>2. tries' = [tries EXCEPT ![p] = tries'[p]] /\ tries'[p] \in 0 .. MaxGuesses
      <3>1. PICK n : /\ n \in {0, tries[p]} \/ (tries[p] < MaxGuesses /\ n = tries[p] + 1)
                     /\ tries' = [tries EXCEPT ![p] = n]
        BY <1>5 DEF consumeTotp, recordFailure, BurnRecoveryCode, Answerable, assertNotLocked
      <3>2. n \in 0 .. MaxGuesses
        BY <2>1, <3>1, SessionsAssumption
      <3> QED
        BY <1>1, <3>1, <3>2 DEF PersonsTyped
    <2>3. tries' \in [People -> 0 .. MaxGuesses]
      BY <2>2 DEF PersonsTyped
    <2> QED
      BY <1>5, <2>3 DEF PersonsTyped, consumeTotp, recordFailure, BurnRecoveryCode
  <1>6. ASSUME NEW c \in Codes, MatchRecoveryCode(d, c)
        PROVE  PersonsTyped'
    BY <1>6 DEF PersonsTyped, MatchRecoveryCode
  <1> QED
    BY <1>2, <1>3, <1>4, <1>5, <1>6 DEF SignIn

LEMMA ConsoleTyped ==
    ASSUME PersonsTyped, NEW p \in People, Administration(p)
    PROVE  PersonsTyped'
  <1>1. CASE requestOtp(p)
    <2>1. otps' = [otps EXCEPT ![p] = Append(otps[p], [wrong |-> 0, consumed |-> FALSE])]
      BY <1>1 DEF requestOtp
    <2>2. [wrong |-> 0, consumed |-> FALSE] \in OtpRows
      BY SessionsAssumption DEF OtpRows
    <2>3. otps' \in [People -> Seq(OtpRows)]
      BY <2>1, <2>2, OtpsKeep
    <2> QED
      BY <1>1, <2>3 DEF PersonsTyped, requestOtp
  <1>2. CASE LockEnds(p)
    BY <1>2, SessionsAssumption DEF PersonsTyped, LockEnds
  <1>3. CASE revokeAllSessions(p) \/ \E s \in Slots : revokeSession(p, s)
    BY <1>3 DEF PersonsTyped, revokeAllSessions, revokeSession
  <1>4. CASE removeAccount(p)
    BY <1>4 DEF PersonsTyped, removeAccount
  <1>5. ASSUME NEW status \in {"ACTIVE", "BLOCKED"}, setAccountStatus(p, status)
        PROVE  PersonsTyped'
    BY <1>5 DEF PersonsTyped, setAccountStatus
  <1> QED
    BY <1>1, <1>2, <1>3, <1>4, <1>5 DEF Administration

LEMMA PersonsKeep ==
    ASSUME PersonsTyped, SessionsNext
    PROVE  PersonsTyped'
  <1>1. ASSUME NEW d \in Devices, SignedIn(d)
        PROVE  PersonsTyped'
    <2>1. PersonOf[d] \in People
      BY DEF People
    <2>2. CASE logout(d) \/ revokeAll(d) \/ \E s \in Slots : revoke(d, s)
      BY <2>2 DEF PersonsTyped, logout, revokeAll, revoke
    <2>3. CASE verifyEnrolment(d) \/ disable(d)
      BY <2>1, <2>3 DEF PersonsTyped, verifyEnrolment, disable
    <2>4. ASSUME NEW c \in Codes, enroll(d, c)
          PROVE  PersonsTyped'
      BY <2>1, <2>4 DEF PersonsTyped, enroll
    <2> QED
      BY <1>1, <2>2, <2>3, <2>4 DEF SignedIn
  <1>2. ASSUME NEW k \in Calls, Refresh(k)
        PROVE  PersonsTyped'
    <2>1. UNCHANGED <<accounts, mfa, otps, tries>>
      BY <1>2 DEF Refresh, VerifyRefresh, RotateRefresh, GiveUp, LoseCall, _refreshOnce
    <2> QED
      BY <2>1 DEF PersonsTyped
  <1>3. ASSUME NEW s \in Slots, SessionExpires(s)
        PROVE  PersonsTyped'
    BY <1>3 DEF PersonsTyped, SessionExpires
  <1>4. CASE Restart
    BY <1>4, SessionsAssumption DEF PersonsTyped, Restart
  <1> QED
    BY <1>1, <1>2, <1>3, <1>4, SignInTyped, ConsoleTyped DEF SessionsNext

\* Recovery codes: one that is unused has opened nothing, and the one a request has
\* matched is a row.
CodesInv ==
    /\ recovery \in [Codes -> CodeRows \cup {Null}]
    /\ spent \in [Codes -> 0 .. 1]
    /\ \A c \in Codes : recovery[c] = Null \/ recovery[c].status = "UNUSED" => spent[c] = 0
    /\ \A d \in Devices : devices[d].phase = "RECOVERY_MATCHED" =>
          devices[d].row \in Codes /\ recovery[devices[d].row] # Null

\* No device has matched a code that had not.
Unmatched ==
    \A d \in Devices : devices'[d].phase = "RECOVERY_MATCHED" => devices'[d] = devices[d]

LEMMA CodesStand ==
    ASSUME CodesInv, Unmatched, UNCHANGED <<recovery, spent>>
    PROVE  CodesInv'
  BY DEF CodesInv, Unmatched

LEMMA UnmatchedMove ==
    ASSUME SessionsTyped, NEW d \in Devices, NEW row,
           row.phase # "RECOVERY_MATCHED" \/ row = devices[d],
           devices' = [devices EXCEPT ![d] = row]
    PROVE  Unmatched
  <1>1. \A e \in Devices : devices'[e] = IF e = d THEN row ELSE devices[e]
    BY DEF SessionsTyped
  <1> QED
    BY <1>1 DEF Unmatched

LEMMA UnmatchedLeave ==
    ASSUME SessionsTyped, NEW d \in Devices, Leave(d)
    PROVE  Unmatched
  BY UnmatchedMove DEF Leave, Out

LEMMA UnmatchedTo ==
    ASSUME SessionsTyped, NEW d \in Devices, NEW phase, NEW row, phase # "RECOVERY_MATCHED",
           To(d, phase, row)
    PROVE  Unmatched
  <1> DEFINE r == [Out EXCEPT !.phase = phase, !.row = row]
  <1>1. r.phase = phase
    BY DEF Out
  <1>2. devices' = [devices EXCEPT ![d] = r]
    BY DEF To
  <1> HIDE DEF r
  <1> QED
    BY <1>1, <1>2, UnmatchedMove

LEMMA BurnKeeps ==
    ASSUME CodesInv, SessionsTyped, NEW d \in Devices, BurnRecoveryCode(d)
    PROVE  CodesInv'
  <1> DEFINE c == devices[d].row
  <1>1. c \in Codes /\ recovery[c] \in CodeRows
    BY DEF BurnRecoveryCode, CodesInv
  <1>2. CASE ~Burnable(c)
    <2>1. To(d, "CHALLENGED", Null) /\ UNCHANGED <<recovery, spent>>
      BY <1>2 DEF BurnRecoveryCode
    <2> QED
      BY <2>1, UnmatchedTo, CodesStand
  <1>3. CASE Burnable(c)
    <2> DEFINE row == [recovery[c] EXCEPT !.status = "USED"]
    <2>1. /\ recovery' = [recovery EXCEPT ![c] = row]
          /\ spent' = [spent EXCEPT ![c] = spent[c] + 1]
          /\ To(d, "CLEARED", Null)
      BY <1>3, <1>1 DEF BurnRecoveryCode, CodesInv
    <2>2. row \in CodeRows /\ row.status = "USED"
      BY <1>1 DEF CodeRows
    <2>3. spent[c] = 0
      BY <1>1, <1>3 DEF Burnable, CodesInv
    <2>4. Unmatched
      BY <2>1, UnmatchedTo
    <2> HIDE DEF c, row
    <2>5. recovery' \in [Codes -> CodeRows \cup {Null}] /\ spent' \in [Codes -> 0 .. 1]
      BY <1>1, <2>1, <2>2, <2>3 DEF CodesInv
    <2>6. \A x \in Codes : /\ recovery'[x] = IF x = c THEN row ELSE recovery[x]
                           /\ x # c => spent'[x] = spent[x]
      BY <2>1 DEF CodesInv
    <2>7. \A x \in Codes : recovery'[x] = Null \/ recovery'[x].status = "UNUSED" => spent'[x] = 0
      BY <2>2, <2>6, SessionsAssumption DEF CodesInv
    <2>8. \A e \in Devices : devices'[e].phase = "RECOVERY_MATCHED" =>
              devices'[e].row \in Codes /\ recovery'[devices'[e].row] # Null
      BY <2>2, <2>4, <2>6, SessionsAssumption DEF CodesInv, Unmatched
    <2> QED
      BY <2>5, <2>7, <2>8 DEF CodesInv
  <1> QED
    BY <1>2, <1>3

LEMMA MatchKeeps ==
    ASSUME CodesInv, SessionsTyped, NEW d \in Devices, NEW c \in Codes, MatchRecoveryCode(d, c)
    PROVE  CodesInv'
  <1> DEFINE row == [Out EXCEPT !.phase = "RECOVERY_MATCHED", !.row = c]
  <1>1. row.row = c
    BY DEF Out
  <1>2. devices' = [devices EXCEPT ![d] = row] /\ UNCHANGED <<recovery, spent>>
    BY DEF MatchRecoveryCode, To
  <1>3. recovery[c] \in CodeRows
    BY DEF MatchRecoveryCode, CodeRows, People
  <1> HIDE DEF row
  <1>4. \A e \in Devices : devices'[e] = IF e = d THEN row ELSE devices[e]
    BY <1>2 DEF SessionsTyped
  <1> QED
    BY <1>1, <1>2, <1>3, <1>4, SessionsAssumption DEF CodesInv

\* Codes that are replaced or deleted stay rows.
LEMMA WithoutTyped ==
    ASSUME CodesInv, NEW p
    PROVE  /\ WithoutCodesOf(p) \in [Codes -> CodeRows \cup {Null}]
           /\ \A c \in Codes : /\ WithoutCodesOf(p)[c] = Null <=> recovery[c] = Null
                               /\ recovery[c] # Null /\ WithoutCodesOf(p)[c].status = "UNUSED"
                                     => recovery[c].status = "UNUSED"
  <1> DEFINE row(c) == [recovery[c] EXCEPT !.status = "DELETED"]
  <1>1. \A c \in Codes : recovery[c] # Null => row(c) \in CodeRows /\ row(c).status = "DELETED"
    BY DEF CodesInv, CodeRows
  <1>2. \A c \in Codes : WithoutCodesOf(p)[c] =
            IF recovery[c] # Null /\ recovery[c].person = p THEN row(c) ELSE recovery[c]
    BY DEF WithoutCodesOf
  <1> HIDE DEF row
  <1>3. WithoutCodesOf(p) = [c \in Codes |-> WithoutCodesOf(p)[c]]
    BY DEF WithoutCodesOf
  <1>4. \A c \in Codes : WithoutCodesOf(p)[c] \in CodeRows \cup {Null}
    BY <1>1, <1>2 DEF CodesInv
  <1>5. WithoutCodesOf(p) \in [Codes -> CodeRows \cup {Null}]
    BY <1>3, <1>4
  <1> QED
    BY <1>1, <1>2, <1>5, SessionsAssumption

LEMMA EnrolKeeps ==
    ASSUME CodesInv, NEW d \in Devices,
           disable(d) \/ \E c \in Codes : enroll(d, c)
    PROVE  CodesInv'
  <1> DEFINE p == PersonOf[d]
  <1>1. CASE disable(d)
    <2>1. recovery' = WithoutCodesOf(p) /\ UNCHANGED <<devices, spent>>
      BY <1>1 DEF disable
    <2> QED
      BY <2>1, WithoutTyped DEF CodesInv
  <1>2. ASSUME NEW c \in Codes, enroll(d, c)
        PROVE  CodesInv'
    <2> DEFINE row == [person |-> p, status |-> "UNUSED"]
               rest == WithoutCodesOf(p)
    <2>1. /\ recovery[c] = Null /\ recovery' = [rest EXCEPT ![c] = row]
          /\ UNCHANGED <<devices, spent>>
      BY <1>2 DEF enroll
    <2>2. row \in CodeRows
      BY DEF CodeRows, People
    <2>3. /\ rest \in [Codes -> CodeRows \cup {Null}]
          /\ \A x \in Codes : /\ rest[x] = Null <=> recovery[x] = Null
                              /\ recovery[x] # Null /\ rest[x].status = "UNUSED"
                                    => recovery[x].status = "UNUSED"
      BY WithoutTyped
    <2> HIDE DEF row, rest
    <2>4. /\ recovery' \in [Codes -> CodeRows \cup {Null}]
          /\ \A x \in Codes : recovery'[x] = IF x = c THEN row ELSE rest[x]
      BY <2>1, <2>2, <2>3
    <2> QED
      BY <2>1, <2>2, <2>3, <2>4, SessionsAssumption DEF CodesInv
  <1> QED
    BY <1>1, <1>2

LEMMA CodesKeep ==
    ASSUME CodesInv, SessionsTyped, SessionsNext
    PROVE  CodesInv'
  <1>1. ASSUME NEW d \in Devices, SignIn(d)
        PROVE  CodesInv'
    <2>1. CASE PresentOtp(d)
      <3>1. Unmatched
        BY <2>1, UnmatchedTo DEF PresentOtp
      <3> QED
        BY <2>1, <3>1, CodesStand DEF PresentOtp
    <2>2. CASE MistypeOtp(d) \/ recordFailure(d)
      BY <2>2, CodesStand DEF MistypeOtp, recordFailure, Unmatched
    <2>3. CASE ConsumeOtp(d) \/ google(d)
      <3>1. Unmatched
        BY <2>3, UnmatchedTo, UnmatchedLeave DEF ConsumeOtp, google, Gate
      <3> QED
        BY <2>3, <3>1, CodesStand DEF ConsumeOtp, google
    <2>4. CASE consumeTotp(d)
      <3>1. Unmatched
        BY <2>4, UnmatchedTo DEF consumeTotp
      <3> QED
        BY <2>4, <3>1, CodesStand DEF consumeTotp
    <2>5. CASE ChallengeLapses(d)
      <3>1. Unmatched
        BY <2>5, UnmatchedLeave DEF ChallengeLapses
      <3> QED
        BY <2>5, <3>1, CodesStand DEF ChallengeLapses
    <2>6. CASE OpenSession(d)
      <3>1. Leave(d) \/ \E row : row.phase = "IN" /\ devices' = [devices EXCEPT ![d] = row]
        BY <2>6 DEF OpenSession
      <3>2. Unmatched
        BY <3>1, UnmatchedLeave, UnmatchedMove
      <3> QED
        BY <2>6, <3>2, CodesStand DEF OpenSession
    <2> QED
      BY <1>1, <2>1, <2>2, <2>3, <2>4, <2>5, <2>6, BurnKeeps, MatchKeeps DEF SignIn
  <1>2. ASSUME NEW d \in Devices, SignedIn(d)
        PROVE  CodesInv'
    <2>1. CASE logout(d)
      <3>1. Unmatched
        BY <2>1, UnmatchedLeave DEF logout
      <3> QED
        BY <2>1, <3>1, CodesStand DEF logout
    <2>2. CASE revokeAll(d) \/ verifyEnrolment(d) \/ \E s \in Slots : revoke(d, s)
      BY <2>2, CodesStand DEF revokeAll, verifyEnrolment, revoke, Unmatched
    <2>3. CASE disable(d) \/ \E c \in Codes : enroll(d, c)
      BY <2>3, EnrolKeeps
    <2> QED
      BY <1>2, <2>1, <2>2, <2>3 DEF SignedIn
  <1>3. ASSUME NEW k \in Calls, Refresh(k)
        PROVE  CodesInv'
    <2>1. UNCHANGED <<recovery, spent>>
      BY <1>3 DEF Refresh, VerifyRefresh, RotateRefresh, GiveUp, LoseCall, _refreshOnce
    <2>2. ASSUME NEW e \in Devices
          PROVE  devices'[e] = devices[e] \/ devices'[e].phase # "RECOVERY_MATCHED"
      <3>1. CASE VerifyRefresh(k)
        BY <3>1 DEF VerifyRefresh, SentAway, SessionsTyped, Out
      <3>2. CASE RotateRefresh(k)
        BY <3>2 DEF RotateRefresh, SessionsTyped, Saved, DeviceRows
      <3>3. CASE GiveUp(k)
        BY <3>3 DEF GiveUp, SessionsTyped, DeviceRows, Out
      <3>4. CASE LoseCall(k)
        BY <3>4 DEF LoseCall
      <3>5. ASSUME NEW d \in Devices, _refreshOnce(d, k)
            PROVE  devices'[e] = devices[e] \/ devices'[e].phase # "RECOVERY_MATCHED"
        BY <3>5 DEF _refreshOnce, SessionsTyped, DeviceRows
      <3> QED
        BY <1>3, <3>1, <3>2, <3>3, <3>4, <3>5 DEF Refresh
    <2> QED
      BY <2>1, <2>2, CodesStand DEF Unmatched
  <1>4. ASSUME NEW p \in People, Administration(p)
        PROVE  CodesInv'
    BY <1>4, CodesStand DEF Administration, requestOtp, LockEnds, revokeAllSessions,
       removeAccount, revokeSession, setAccountStatus, Unmatched
  <1>5. ASSUME NEW s \in Slots, SessionExpires(s)
        PROVE  CodesInv'
    BY <1>5, CodesStand DEF SessionExpires, Unmatched
  <1>6. CASE Restart
    BY <1>6, CodesStand DEF Restart, Unmatched
  <1> QED
    BY <1>1, <1>2, <1>3, <1>4, <1>5, <1>6 DEF SessionsNext

SessionsInv == SignedInv /\ PersonsTyped /\ CodesInv

LEMMA SessionsStart == SessionsInit => SessionsInv
  <1> SUFFICES ASSUME SessionsInit PROVE SessionsInv
    OBVIOUS
  <1>1. Out \in DeviceRows /\ Out.phase = "OUT"
    BY DEF Out, DeviceRows
  <1>2. /\ \A d \in Devices : devices[d] = Out
        /\ \A k \in Calls : refreshes[k] = Null
        /\ \A s \in Slots : sessions[s] = Null
    BY DEF SessionsInit
  <1>3. SessionsTyped
    BY <1>1, SessionsAssumption DEF SessionsInit, SessionsTyped
  <1>4. Held /\ UnderWay /\ UpToDate /\ SignedOutForCause
    BY <1>1, <1>2 DEF Held, UnderWay, UpToDate, SignedOutForCause, Holds
  <1>5. << >> \in Seq(OtpRows)
    OBVIOUS
  <1>6. PersonsTyped
    BY <1>5, SessionsAssumption DEF SessionsInit, PersonsTyped
  <1>7. CodesInv
    BY <1>1, <1>2 DEF SessionsInit, CodesInv
  <1> QED
    BY <1>3, <1>4, <1>6, <1>7 DEF SessionsInv, SignedInv

LEMMA SessionsKeep == SessionsInv /\ [SessionsNext]_sessionVars => SessionsInv'
  <1> SUFFICES ASSUME SessionsInv, [SessionsNext]_sessionVars PROVE SessionsInv'
    OBVIOUS
  <1>1. CASE SessionsNext
    <2>1. SessionsTyped
      BY DEF SessionsInv, SignedInv
    <2> QED
      BY <1>1, <2>1, SignedKeeps, PersonsKeep, CodesKeep DEF SessionsInv
  <1>2. CASE UNCHANGED sessionVars
    <2>1. SignedInv'
      BY <1>2, SignedStutters DEF SessionsInv, sessionVars, signedVars
    <2>2. PersonsTyped' /\ CodesInv'
      BY <1>2 DEF SessionsInv, sessionVars, PersonsTyped, CodesInv
    <2> QED
      BY <2>1, <2>2 DEF SessionsInv
  <1> QED
    BY <1>1, <1>2

(***************************************************************************)
(* Support in an owner's shoes.                                            *)
(***************************************************************************)

VisitRows ==
    [session : Impersonations, method : Methods,
     at : {"session", "owner", "served", "refused"}, target : Targets \cup {Null},
     late : BOOLEAN]

\* Whoever was let past the first read was let in for the owner of a session that had not
\* ended when the request came, and is served reads only.
ShoesInv ==
    /\ shoes \in [Impersonations -> Rows \cup {Null}]
    /\ \A s \in Impersonations : shoes[s] # Null =>
          /\ (shoes[s].status = "ACTIVE") <=> (shoes[s].ended = Null)
          /\ shoes[s].type = "OWNER" => ((shoes[s].user = Null) <=> (shoes[s].owner = Null))
    /\ standing \in [Targets -> Standings]
    /\ tick \in 0 .. LastTick
    /\ visits \in [Visitors -> VisitRows \cup {Null}]
    /\ \A q \in Visitors : visits[q] # Null =>
          /\ shoes[visits[q].session] \in Rows
          /\ visits[q].late => shoes[visits[q].session].ended # Null
          /\ visits[q].at \in {"owner", "served"} =>
                /\ ~visits[q].late
                /\ shoes[visits[q].session].type = "OWNER"
                /\ visits[q].target \in {shoes[visits[q].session].user,
                                         shoes[visits[q].session].owner}
          /\ visits[q].at = "served" => visits[q].method \in READ_ONLY_METHODS

\* A session is opened: for an owner it names its target in both columns or in neither.
LEMMA StartKeeps ==
    ASSUME ShoesInv, NEW s \in Impersonations, start(s)
    PROVE  ShoesInv'
  <1>1. PICK type \in TargetTypes, u \in Targets \cup {Null}, o \in Targets \cup {Null} :
           shoes' = [shoes EXCEPT ![s] =
                     [type |-> type, user |-> Filled(type, u, o), owner |-> Filled(type, o, u),
                      status |-> "ACTIVE", started |-> tick, ended |-> Null]]
    BY DEF start
  <1> DEFINE row == [type |-> type, user |-> Filled(type, u, o), owner |-> Filled(type, o, u),
                     status |-> "ACTIVE", started |-> tick, ended |-> Null]
  <1>2. row \in Rows
    BY DEF Rows, Filled, ShoesInv
  <1>3. /\ row.status = "ACTIVE" /\ row.ended = Null
        /\ row.type = "OWNER" => ((row.user = Null) <=> (row.owner = Null))
    BY DEF Filled
  <1>4. shoes' = [shoes EXCEPT ![s] = row] /\ shoes[s] = Null /\ UNCHANGED <<standing, visits, tick>>
    BY <1>1 DEF start
  <1> HIDE DEF row
  <1>5. \A r \in Impersonations : shoes'[r] = IF r = s THEN row ELSE shoes[r]
    BY <1>4 DEF ShoesInv
  <1>6. shoes' \in [Impersonations -> Rows \cup {Null}]
    BY <1>2, <1>4 DEF ShoesInv
  <1>7. \A q \in Visitors : visits[q] # Null =>
            visits[q].session # s /\ shoes'[visits[q].session] = shoes[visits[q].session]
    BY <1>4, <1>5, ImpersonationAssumption DEF ShoesInv, VisitRows
  <1> QED
    BY <1>3, <1>4, <1>5, <1>6, <1>7 DEF ShoesInv

\* A session is ended, for the first time or again: whom it was for stays.
LEMMA TerminateKeeps ==
    ASSUME ShoesInv, NEW s \in Impersonations, terminate(s)
    PROVE  ShoesInv'
  <1> DEFINE row == [shoes[s] EXCEPT !.status = "TERMINATED", !.ended = tick]
  <1>1. shoes[s] \in Rows
    BY DEF terminate, ShoesInv
  <1>2. /\ row \in Rows /\ row.status = "TERMINATED" /\ row.ended = tick
        /\ row.type = shoes[s].type /\ row.user = shoes[s].user /\ row.owner = shoes[s].owner
    BY <1>1 DEF Rows, ShoesInv
  <1>3. tick # Null
    BY ImpersonationAssumption DEF ShoesInv
  <1>4. shoes' = [shoes EXCEPT ![s] = row] /\ UNCHANGED <<standing, visits, tick>>
    BY <1>1 DEF terminate, ShoesInv
  <1> HIDE DEF row
  <1>5. \A r \in Impersonations : shoes'[r] = IF r = s THEN row ELSE shoes[r]
    BY <1>4 DEF ShoesInv
  <1>6. shoes' \in [Impersonations -> Rows \cup {Null}]
    BY <1>2, <1>4 DEF ShoesInv
  <1>7. \A r \in Impersonations : shoes'[r] # Null =>
          /\ (shoes'[r].status = "ACTIVE") <=> (shoes'[r].ended = Null)
          /\ shoes'[r].type = "OWNER" => ((shoes'[r].user = Null) <=> (shoes'[r].owner = Null))
    <2> SUFFICES ASSUME NEW r \in Impersonations, shoes'[r] # Null
                 PROVE  /\ (shoes'[r].status = "ACTIVE") <=> (shoes'[r].ended = Null)
                        /\ shoes'[r].type = "OWNER"
                              => ((shoes'[r].user = Null) <=> (shoes'[r].owner = Null))
      OBVIOUS
    <2>1. CASE r = s
      BY <1>1, <1>2, <1>3, <1>5, <2>1, ImpersonationAssumption DEF ShoesInv
    <2>2. CASE r # s
      BY <1>5, <2>2 DEF ShoesInv
    <2> QED
      BY <2>1, <2>2
  <1>8. \A r \in Impersonations : shoes[r] \in Rows =>
            /\ shoes'[r] \in Rows /\ shoes'[r].type = shoes[r].type
            /\ shoes'[r].user = shoes[r].user /\ shoes'[r].owner = shoes[r].owner
            /\ shoes[r].ended # Null => shoes'[r].ended # Null
    BY <1>2, <1>3, <1>5
  <1>9. \A q \in Visitors : visits[q] # Null => visits[q].session \in Impersonations
    BY DEF ShoesInv, VisitRows
  <1> QED
    BY <1>4, <1>6, <1>7, <1>8, <1>9 DEF ShoesInv

\* A request moves on: what it has come to is granted by the rows as they stand.
LEMMA VisitKeeps ==
    ASSUME ShoesInv, NEW q \in Visitors, NEW row \in VisitRows,
           visits' = [visits EXCEPT ![q] = row], UNCHANGED <<shoes, standing, tick>>,
           shoes[row.session] \in Rows,
           row.late => shoes[row.session].ended # Null,
           row.at \in {"owner", "served"} =>
                /\ ~row.late
                /\ shoes[row.session].type = "OWNER"
                /\ row.target \in {shoes[row.session].user, shoes[row.session].owner},
           row.at = "served" => row.method \in READ_ONLY_METHODS
    PROVE  ShoesInv'
  <1>1. \A r \in Visitors : visits'[r] = IF r = q THEN row ELSE visits[r]
    BY DEF ShoesInv
  <1>2. visits' \in [Visitors -> VisitRows \cup {Null}]
    BY DEF ShoesInv
  <1> QED
    BY <1>1, <1>2 DEF ShoesInv

LEMMA ArriveKeeps ==
    ASSUME ShoesInv, NEW q \in Visitors, NEW s \in Impersonations, Arrive(q, s)
    PROVE  ShoesInv'
  <1>1. PICK method \in Methods :
           visits' = [visits EXCEPT ![q] =
                      [session |-> s, method |-> method, at |-> "session", target |-> Null,
                       late |-> shoes[s].ended # Null]]
    BY DEF Arrive
  <1> DEFINE row == [session |-> s, method |-> method, at |-> "session", target |-> Null,
                     late |-> shoes[s].ended # Null]
  <1>2. row \in VisitRows /\ row.session = s /\ row.at = "session"
    BY DEF VisitRows
  <1>3. row.late => shoes[s].ended # Null
    OBVIOUS
  <1>4. shoes[s] \in Rows /\ UNCHANGED <<shoes, standing, tick>>
    BY DEF Arrive, ShoesInv
  <1>5. visits' = [visits EXCEPT ![q] = row]
    BY <1>1
  <1> HIDE DEF row
  <1> QED
    BY <1>2, <1>3, <1>4, <1>5, VisitKeeps

\* The first read: the row is live as it is read, so it was when the request came.
LEMMA AuthenticateKeeps ==
    ASSUME ShoesInv, NEW q \in Visitors, authenticate(q)
    PROVE  ShoesInv'
  <1> DEFINE visit == visits[q]
             now == shoes[visit.session]
             grants == StandsIn(now) /\ now.type = "OWNER" /\ TargetOf(now) # Null
             row == [visit EXCEPT !.at = IF grants THEN "owner" ELSE "refused",
                                  !.target = IF grants THEN TargetOf(now) ELSE Null]
  <1>1. /\ visit \in VisitRows /\ now \in Rows
        /\ visit.late => now.ended # Null
    BY DEF authenticate, ShoesInv
  <1>2. TargetOf(now) \in {now.user, now.owner} /\ TargetOf(now) \in Targets \cup {Null}
    BY <1>1 DEF TargetOf, Rows
  <1>3. /\ row \in VisitRows /\ row.session = visit.session /\ row.late = visit.late
        /\ row.at = IF grants THEN "owner" ELSE "refused"
        /\ grants => row.target = TargetOf(now)
    <2> HIDE DEF grants, now
    <2> QED
      BY <1>1, <1>2 DEF VisitRows
  <1>4. grants => ~visit.late /\ now.type = "OWNER"
    BY <1>1 DEF StandsIn
  <1>5. visits' = [visits EXCEPT ![q] = row] /\ UNCHANGED <<shoes, standing, tick>>
    BY DEF authenticate, ShoesInv
  <1> HIDE DEF row, grants
  <1> QED
    BY <1>1, <1>2, <1>3, <1>4, <1>5, VisitKeeps

\* The second read: the owner's row, and the method.
LEMMA AcceptKeeps ==
    ASSUME ShoesInv, NEW q \in Visitors, acceptImpersonation(q)
    PROVE  ShoesInv'
  <1> DEFINE visit == visits[q]
             served == assertReadOnly(visit.method) /\ standing[visit.target] = "ACTIVE"
             row == [visit EXCEPT !.at = IF served THEN "served" ELSE "refused"]
  <1>1. /\ visit \in VisitRows /\ visit.at = "owner" /\ shoes[visit.session] \in Rows
        /\ visit.late => shoes[visit.session].ended # Null
        /\ ~visit.late /\ shoes[visit.session].type = "OWNER"
        /\ visit.target \in {shoes[visit.session].user, shoes[visit.session].owner}
    BY DEF acceptImpersonation, ShoesInv
  <1>2. /\ row \in VisitRows /\ row.session = visit.session /\ row.late = visit.late
        /\ row.at = IF served THEN "served" ELSE "refused"
        /\ row.target = visit.target /\ row.method = visit.method
    <2> HIDE DEF served
    <2> QED
      BY <1>1 DEF VisitRows
  <1>3. served => visit.method \in READ_ONLY_METHODS
    BY DEF assertReadOnly
  <1>4. visits' = [visits EXCEPT ![q] = row] /\ UNCHANGED <<shoes, standing, tick>>
    BY DEF acceptImpersonation, AnswerVisit, ShoesInv
  <1> HIDE DEF row, served
  <1> QED
    BY <1>1, <1>2, <1>3, <1>4, VisitKeeps

LEMMA ShoesStart == ImpersonationInit => ShoesInv
  BY ImpersonationAssumption DEF ImpersonationInit, ShoesInv, Standings

LEMMA ShoesKeep == ShoesInv /\ [ImpersonationNext]_impersonationVars => ShoesInv'
  <1> SUFFICES ASSUME ShoesInv, [ImpersonationNext]_impersonationVars PROVE ShoesInv'
    OBVIOUS
  <1>1. ASSUME NEW s \in Impersonations,
               start(s) \/ terminate(s) \/ \E q \in Visitors : Arrive(q, s)
        PROVE  ShoesInv'
    BY <1>1, StartKeeps, TerminateKeeps, ArriveKeeps
  <1>2. ASSUME NEW o \in Targets, moveOwner(o)
        PROVE  ShoesInv'
    <2>1. standing' \in [Targets -> Standings] /\ UNCHANGED <<shoes, visits, tick>>
      BY <1>2 DEF moveOwner, ShoesInv
    <2> QED
      BY <2>1 DEF ShoesInv
  <1>3. ASSUME NEW q \in Visitors, authenticate(q) \/ acceptImpersonation(q)
        PROVE  ShoesInv'
    BY <1>3, AuthenticateKeeps, AcceptKeeps
  <1>4. CASE Minute
    <2>1. tick' \in 0 .. LastTick /\ UNCHANGED <<shoes, standing, visits>>
      BY <1>4, ImpersonationAssumption DEF Minute, ShoesInv
    <2> QED
      BY <2>1 DEF ShoesInv
  <1>5. CASE UNCHANGED impersonationVars
    BY <1>5 DEF ShoesInv, impersonationVars
  <1> QED
    BY <1>1, <1>2, <1>3, <1>4, <1>5 DEF ImpersonationNext

(***************************************************************************)
(* The ways in.                                                            *)
(***************************************************************************)

AccessInv == SessionsInv /\ ShoesInv

LEMMA AccessStarts == AccessInit => AccessInv
  BY SessionsStart, ShoesStart DEF AccessInit, AccessInv

LEMMA AccessKeeps ==
    AccessInv /\ [AccessNext]_<<sessionVars, impersonationVars>> => AccessInv'
  <1> SUFFICES ASSUME AccessInv, [AccessNext]_<<sessionVars, impersonationVars>>
               PROVE  AccessInv'
    OBVIOUS
  <1>1. [SessionsNext]_sessionVars /\ [ImpersonationNext]_impersonationVars
    BY DEF AccessNext
  <1> QED
    BY <1>1, SessionsKeep, ShoesKeep DEF AccessInv

LEMMA AccessHolds == AccessInv => AccessEndsForCause
  <1> SUFFICES ASSUME AccessInv PROVE AccessEndsForCause
    OBVIOUS
  <1>1. RecoveryCodeOnce
    BY DEF AccessInv, SessionsInv, CodesInv, RecoveryCodeOnce
  <1>2. StoodInForAsLongAsAllowed
    BY DEF AccessInv, ShoesInv, StoodInForAsLongAsAllowed
  <1> QED
    BY <1>1, <1>2 DEF AccessInv, SessionsInv, SignedInv, AccessEndsForCause

\* A session is ended for reuse only after a client stopped waiting for a refresh of it
\* (rotate, _refreshOnce), a recovery code opens the way once however many requests had
\* matched it (consumeCode), and a token of support serves reads only, for the owner its
\* session named and that had not ended when the request came (authenticate).
THEOREM AccessKept == AccessSpec => []AccessEndsForCause
  BY AccessStarts, AccessKeeps, AccessHolds, PTL DEF AccessSpec

\* The rows of the sessions, the codes, the second factors and the refreshes on their way
\* are of their types, and so are those of impersonation.
THEOREM AccessTyped == AccessSpec => [](SessionsTypeOK /\ ImpersonationTypeOK)
  <1>1. AccessInv => SessionsTypeOK
    BY DEF AccessInv, SessionsInv, SignedInv, SessionsTyped, PersonsTyped, CodesInv,
       DeviceRows, SessionsTypeOK
  <1>2. AccessInv => ImpersonationTypeOK
    BY DEF AccessInv, ShoesInv, VisitRows, ImpersonationTypeOK
  <1> QED
    BY <1>1, <1>2, AccessStarts, AccessKeeps, PTL DEF AccessSpec

=============================================================================
