--------------------------- MODULE Notifications ---------------------------
(***************************************************************************)
(* Telling people (NotificationDeliveryService, its channels, the device   *)
(* tokens, AnnouncementsService and the workers that drain and publish).   *)
(*                                                                         *)
(* A delivery is queued by inserting a row per target, one at a time; a    *)
(* drain reads the rows that are due, sends each and marks it afterwards.  *)
(* A crash, or a second drain, comes between any two of these steps.       *)
(***************************************************************************)
EXTENDS Absent, Integers, Sequences, FiniteSets, Functions

CONSTANTS
    Facts,           \* what someone is told of
    OnceFacts,       \* those told by notifyOnceQuietly
    ChannelsOf,      \* the channels each fact is told on, in order
    Announcements,   \* rows of announcements
    Notifiers,       \* requests that can be queueing at once
    Drains,          \* passes of the dispatch worker that can overlap
    Phones,          \* device tokens
    MAX_ATTEMPTS,
    MaxRows,         \* bound on notification_deliveries
    MaxStops,        \* bound on how often the process stops
    MaxAsks          \* bound on how often a fact is asked for

VARIABLES
    templates,       \* channels that have an active template
    outbox,          \* notification_deliveries, in the order of insertion
    notifiers,       \* what each caller has still to insert
    drains,          \* what each drain has still to send
    phones,          \* device_tokens that are registered and not revoked
    announcements,   \* status of each announcement row
    asked,           \* how often each fact was asked for
    stops,
    sent,            \* history: how often each row was handed to its channel
    disturbed        \* history: rows that a crash or a second drain met

notificationVars == <<templates, outbox, notifiers, drains, phones, announcements, asked, stops,
                      sent, disturbed>>

Channels == {"EMAIL", "SMS", "IN_APP", "PUSH", "WHATSAPP"}

\* Channels whose provider does not exist: never marked SENT.
Unavailable == {"WHATSAPP"}

NotificationStatuses == {"PENDING", "SENT", "FAILED", "SKIPPED"}

DeliveryRows == [event : Facts \cup Announcements, channel : Channels,
                 status : NotificationStatuses, attempts : 0 .. MAX_ATTEMPTS, due : BOOLEAN]

\* A row that is due, as a drain reads it.
ReadRows == [id : 1 .. MaxRows, attempts : 0 .. MAX_ATTEMPTS - 1]

Quiet == [event |-> Null, todo |-> << >>]

\* todo holds the rows as they were read, now the row that has been sent.
NoPass == [todo |-> {}, now |-> Null, outcome |-> Null]

ASSUME NotificationsAssumption ==
    /\ MAX_ATTEMPTS \in Nat \ {0} /\ MaxRows \in Nat
    /\ ChannelsOf \in [Facts -> Seq(Channels)]
    /\ Null \notin Facts /\ Null \notin Announcements /\ Null \notin ReadRows

NotificationsInit ==
    /\ templates \in SUBSET {"EMAIL", "IN_APP"}
    /\ outbox = << >>
    /\ notifiers = [c \in Notifiers |-> Quiet]
    /\ drains = [w \in Drains |-> NoPass]
    /\ phones = Phones
    /\ announcements = [a \in Announcements |-> Null]
    /\ asked = [e \in Facts |-> 0]
    /\ stops = 0
    /\ sent = << >>
    /\ disturbed = {}

(***************************************************************************)
(* Queueing.                                                               *)
(***************************************************************************)

\* Every message to the inbox goes to the phone as well, once.
withMirroredPush(channels) ==
    IF "IN_APP" \in Range(channels) /\ "PUSH" \notin Range(channels)
    THEN Append(channels, "PUSH") ELSE channels

\* A push message uses the copy of the inbox when it has none of its own.
Rendered(channel) == channel \in templates \/ (channel = "PUSH" /\ "IN_APP" \in templates)

NewRow(e, channel) ==
    [event |-> e, channel |-> channel, attempts |-> 0, due |-> TRUE,
     status |-> IF Rendered(channel) THEN "PENDING" ELSE "SKIPPED"]

Known(e) == \E i \in DOMAIN outbox : outbox[i].event = e

\* notifyQuietly, and notifyOnceQuietly up to its look at what is queued.
Ask(c, e) ==
    /\ notifiers[c] = Quiet
    /\ asked[e] < MaxAsks
    /\ asked' = [asked EXCEPT ![e] = @ + 1]
    /\ notifiers' = IF e \in OnceFacts /\ Known(e) THEN notifiers
                    ELSE [notifiers EXCEPT ![c] =
                             [event |-> e, todo |-> withMirroredPush(ChannelsOf[e])]]
    /\ UNCHANGED <<templates, outbox, drains, phones, announcements, stops, sent, disturbed>>

\* notify: one insert, in a statement of its own.
notify(c) ==
    /\ notifiers[c].todo # << >>
    /\ Len(outbox) < MaxRows
    /\ outbox' = Append(outbox, NewRow(notifiers[c].event, Head(notifiers[c].todo)))
    /\ sent' = Append(sent, 0)
    /\ notifiers' = [notifiers EXCEPT ![c] =
                        IF Len(notifiers[c].todo) = 1 THEN Quiet
                        ELSE [event |-> notifiers[c].event, todo |-> Tail(notifiers[c].todo)]]
    /\ UNCHANGED <<templates, drains, phones, announcements, asked, stops, disturbed>>

(***************************************************************************)
(* Draining.                                                               *)
(***************************************************************************)

\* Mutation for SentOnceUnlessCut: the status of the row is not looked at.
DueWhateverTheStatus == {i \in DOMAIN outbox : outbox[i].due}

\* Mutation for EveryDeliverySettles: only rows that were never tried.
DueUntried == {i \in DOMAIN outbox : outbox[i].status = "PENDING"
                                             /\ outbox[i].attempts = 0}

DueRows == {i \in DOMAIN outbox : outbox[i].status = "PENDING" /\ outbox[i].due}

Holds(v, i) == \/ \E row \in drains[v].todo : row.id = i
               \/ drains[v].now # Null /\ drains[v].now.id = i

\* drain: the rows that are due are read, and nothing marks them as taken.
drain(w) ==
    /\ drains[w] = NoPass
    /\ DueRows # {}
    /\ drains' = [drains EXCEPT ![w] =
                     [todo |-> {[id |-> i, attempts |-> outbox[i].attempts] : i \in DueRows},
                      now |-> Null, outcome |-> Null]]
    /\ disturbed' = disturbed \cup {i \in DueRows : \E v \in Drains : Holds(v, i)}
    /\ UNCHANGED <<templates, outbox, notifiers, phones, announcements, asked, stops, sent>>

\* How a channel may answer: the message is delivered, it can never be, or
\* the provider failed and may be tried again.
Answers(channel) ==
    IF channel \in Unavailable THEN {"unavailable"}
    ELSE IF channel = "PUSH" /\ phones = {} THEN {"never"}
    ELSE {"delivered", "failed"} \cup (IF channel = "SMS" THEN {"never"} ELSE {})

\* FcmPushChannel: phones that are unregistered are dropped in the same pass.
InvalidTokens(channel) == IF channel = "PUSH" THEN SUBSET phones ELSE {{}}

\* The rows go by the time they are scheduled for, which a retry moves: in any order.
send(w) ==
    /\ drains[w].now = Null
    /\ \E row \in drains[w].todo :
       \E outcome \in Answers(outbox[row.id].channel),
          gone \in InvalidTokens(outbox[row.id].channel) :
          /\ phones' = phones \ gone
          /\ sent' = [sent EXCEPT ![row.id] = IF outcome = "delivered" THEN @ + 1 ELSE @]
          /\ drains' = [drains EXCEPT ![w] = [todo |-> drains[w].todo \ {row}, now |-> row,
                                              outcome |-> outcome]]
    /\ UNCHANGED <<templates, outbox, notifiers, announcements, asked, stops, disturbed>>

\* What a row is marked with; attempts is the count that was read.
Marked(outcome, attempts) ==
    CASE outcome = "delivered" -> [status |-> "SENT", due |-> TRUE]
      [] outcome \in {"never", "unavailable"} -> [status |-> "SKIPPED", due |-> TRUE]
      [] outcome = "failed" /\ attempts + 1 >= MAX_ATTEMPTS -> [status |-> "FAILED", due |-> TRUE]
      [] OTHER -> [status |-> "PENDING", due |-> FALSE]

mark(w) ==
    LET row == drains[w].now
        m == Marked(drains[w].outcome, row.attempts)
    IN  /\ row # Null
        /\ outbox' = [outbox EXCEPT ![row.id].status = m.status, ![row.id].due = m.due,
                                    ![row.id].attempts = row.attempts + 1]
        /\ drains' = [drains EXCEPT ![w] = [todo |-> drains[w].todo, now |-> Null,
                                            outcome |-> Null]]
        /\ UNCHANGED <<templates, notifiers, phones, announcements, asked, stops, sent, disturbed>>

\* backoffMs: the wait before a row is due again comes to its end.
BackoffEnds(i) ==
    /\ ~outbox[i].due
    /\ outbox' = [outbox EXCEPT ![i].due = TRUE]
    /\ UNCHANGED <<templates, notifiers, drains, phones, announcements, asked, stops, sent,
                   disturbed>>

\* The process stops: what was being queued or drained is forgotten.
Stop ==
    /\ stops < MaxStops
    /\ stops' = stops + 1
    /\ disturbed' = disturbed \cup {drains[w].now.id : w \in {v \in Drains : drains[v].now # Null}}
    /\ notifiers' = [c \in Notifiers |-> Quiet]
    /\ drains' = [w \in Drains |-> NoPass]
    /\ UNCHANGED <<templates, outbox, phones, announcements, asked, sent>>

(***************************************************************************)
(* Templates, phones and announcements.                                    *)
(***************************************************************************)

upsertTemplate(channel) ==
    /\ templates' \in {templates \cup {channel}, templates \ {channel}}
    /\ templates' # templates
    /\ UNCHANGED <<outbox, notifiers, drains, phones, announcements, asked, stops, sent,
                   disturbed>>

register(p) ==
    /\ p \notin phones
    /\ phones' = phones \cup {p}
    /\ UNCHANGED <<templates, outbox, notifiers, drains, announcements, asked, stops, sent,
                   disturbed>>

revokeToken(p) ==
    /\ p \in phones
    /\ phones' = phones \ {p}
    /\ UNCHANGED <<templates, outbox, notifiers, drains, announcements, asked, stops, sent,
                   disturbed>>

AnnouncementUnchanged == UNCHANGED <<templates, outbox, drains, phones, asked, stops, sent,
                                     disturbed>>

\* create, and update with a status: whatever status the console names.
editAnnouncement(a, status) ==
    /\ announcements[a] # status
    /\ announcements' = [announcements EXCEPT ![a] = status]
    /\ AnnouncementUnchanged
    /\ UNCHANGED notifiers

\* publish and announce: the audience is told after the row is PUBLISHED.
publish(a, c) ==
    /\ announcements[a] # Null
    /\ notifiers[c] = Quiet
    /\ announcements' = [announcements EXCEPT ![a] = "PUBLISHED"]
    /\ notifiers' = [notifiers EXCEPT ![c] =
                        [event |-> a, todo |-> withMirroredPush(<<"IN_APP">>)]]
    /\ AnnouncementUnchanged

removeAnnouncement(a) ==
    /\ announcements[a] # Null
    /\ announcements' = [announcements EXCEPT ![a] = Null]
    /\ AnnouncementUnchanged
    /\ UNCHANGED notifiers

\* AnnouncementPublisherWorker: what is scheduled is published and what has
\* expired is taken down; nobody is told.
publishScheduled(due, expired) ==
    /\ announcements' = [a \in Announcements |->
         LET old == announcements[a]
             now == IF old = "DRAFT" /\ a \in due THEN "PUBLISHED" ELSE old
         IN  IF now = "PUBLISHED" /\ a \in expired THEN "EXPIRED" ELSE now]
    /\ announcements' # announcements
    /\ AnnouncementUnchanged
    /\ UNCHANGED notifiers

Draining(w) == drain(w) \/ send(w) \/ mark(w)

Announcing(a) ==
    \/ \E status \in {"DRAFT", "PUBLISHED"} : editAnnouncement(a, status)
    \/ \E c \in Notifiers : publish(a, c)
    \/ removeAnnouncement(a)

NotificationsNext ==
    \/ \E c \in Notifiers : notify(c) \/ \E e \in Facts : Ask(c, e)
    \/ \E w \in Drains : Draining(w)
    \/ \E i \in DOMAIN outbox : BackoffEnds(i)
    \/ Stop
    \/ \E channel \in {"EMAIL", "IN_APP"} : upsertTemplate(channel)
    \/ \E p \in Phones : register(p) \/ revokeToken(p)
    \/ \E a \in Announcements : Announcing(a)
    \/ \E due, expired \in SUBSET Announcements : publishScheduled(due, expired)

NotificationsSpec == NotificationsInit /\ [][NotificationsNext]_notificationVars

\* The dispatch worker runs every minute, and a wait comes to its end.
NotificationsFairness ==
    /\ \A w \in Drains : WF_notificationVars(Draining(w))
    /\ \A i \in 1 .. MaxRows : WF_notificationVars(i \in DOMAIN outbox /\ BackoffEnds(i))

(***************************************************************************)
(* Properties.                                                             *)
(***************************************************************************)

NotificationsTypeOK ==
    /\ templates \subseteq Channels
    /\ outbox \in Seq(DeliveryRows) /\ Len(outbox) <= MaxRows
    /\ sent \in Seq(Nat) /\ Len(sent) = Len(outbox)
    /\ notifiers \in [Notifiers -> [event : Facts \cup Announcements \cup {Null},
                                    todo : Seq(Channels)]]
    /\ phones \subseteq Phones
    /\ announcements \in [Announcements -> {Null, "DRAFT", "PUBLISHED", "EXPIRED"}]

\* A message is handed to its channel once, unless a crash came between the
\* sending and the mark, or two drains had the row at once (drain, mark).
SentOnceUnlessCut ==
    \A i \in DOMAIN outbox : i \notin disturbed => sent[i] <= 1

\* Every delivery comes to an end, whatever its provider answers (drain).
EveryDeliverySettles ==
    \A i \in 1 .. MaxRows :
        (i \in DOMAIN outbox /\ outbox[i].status = "PENDING")
            ~> (i \in DOMAIN outbox /\ outbox[i].status # "PENDING")

\* What the lifecycle worker relies on: a run that a crash cut short is caught
\* up with by the next one (notifyOnceQuietly, once more asked than crashed).
CaughtUpAfterCrash ==
    \A e \in OnceFacts :
        asked[e] > stops /\ Known(e) /\ (\A c \in Notifiers : notifiers[c].event # e)
            => \A n \in DOMAIN ChannelsOf[e] :
                   \E i \in DOMAIN outbox : outbox[i].event = e
                                                   /\ outbox[i].channel = ChannelsOf[e][n]
=============================================================================
