---------------------------- MODULE Conversations ----------------------------
(***************************************************************************)
(* Messages between a hotel and its guests (ConversationsService): staff   *)
(* write by thread or by reservation, guests write in through a webhook,   *)
(* and an hourly worker writes before arrival and after departure.  The    *)
(* thread is looked up and opened in two statements, a message is inserted *)
(* and the thread touched in two more, and an automated message is marked  *)
(* sent after it is.                                                       *)
(***************************************************************************)
EXTENDS Absent, Integers, FiniteSets, Sequences

CONSTANTS
    Stays,
    Guests,      \* the numbers guests write from
    GuestOf,     \* stay -> the number on its booking, or Null
    Threads,     \* 1 .. n: rows of conversations
    Messages,    \* 1 .. n: rows of messages
    Writers,     \* requests of staff
    Inbound,     \* calls of the webhook
    StayWorker,  \* StayAutomationWorker
    Readers,     \* staff that open a thread
    MaxDeaths    \* bound on how often a run of the worker is cut short

VARIABLES
    threads,     \* row -> [stay, guest, unread], or Null
    messages,    \* row -> [thread, direction, status, stay, key], or Null
    phase,       \* stay -> how far it is
    automationsSent,  \* stay_automations_sent
    writing,     \* request -> what it writes, and how far it is
    todo,        \* the stays the worker's run has yet to look at
    reading,     \* reader -> [thread, unread] as selected, or Null
    seen,        \* messages the desk was shown
    deaths,
    cut,         \* history: what the worker was sending when it died
    interleaved  \* history: threads written to between a reader's statements

talkVars == <<threads, messages, phase, automationsSent, writing, todo, reading, seen, deaths, cut,
              interleaved>>

Correspondents == Writers \cup Inbound \cup {StayWorker}
Phases == <<"AHEAD", "ARRIVING", "STAYING", "DEPARTED", "PAST">>
AutomationKeys == {"stay.pre_arrival", "stay.review_request"}

Writes(stay, guest, direction, channel, key) ==
    [stay |-> stay, guest |-> guest, direction |-> direction, channel |-> channel, key |-> key]

\* Where a request stands: what it writes, on which thread, as which message.
Point(step, write, thread, row) == [step |-> step, write |-> write, thread |-> thread, row |-> row]

NotWriting == Point("IDLE", Null, Null, Null)

ThreadRows == [stay : Stays \cup {Null}, guest : Guests \cup {Null}, unread : Nat]

MessageRows ==
    [thread : Threads, direction : {"IN", "OUT"}, stay : Stays \cup {Null},
     status : {"QUEUED", "SENT", "FAILED", "RECEIVED"}, key : AutomationKeys \cup {Null}]

ASSUME ConversationsAssumption ==
    /\ GuestOf \in [Stays -> Guests \cup {Null}]
    /\ IsFiniteSet(Messages) /\ IsFiniteSet(Writers) /\ IsFiniteSet(Inbound)
    /\ StayWorker \notin Writers \cup Inbound
    /\ Null \notin Stays /\ Null \notin AutomationKeys
    /\ Null \notin Threads /\ Null \notin Messages
    /\ Null \notin ThreadRows /\ Null \notin MessageRows

TalkInit ==
    /\ threads = [t \in Threads |-> Null]
    /\ messages = [m \in Messages |-> Null]
    /\ phase = [s \in Stays |-> 1]
    /\ automationsSent = {}
    /\ writing = [p \in Correspondents |-> NotWriting]
    /\ todo = {}
    /\ reading = [v \in Readers |-> Null]
    /\ seen = {}
    /\ deaths = 0 /\ cut = {} /\ interleaved = {}

(***************************************************************************)
(* threadFor: by reservation, else by number; opened if none is found.     *)
(***************************************************************************)
\* Whichever row the database returns first.
Matching(stay, guest) ==
    {t \in Threads : threads[t] # Null /\ IF stay # Null THEN threads[t].stay = stay
                                                         ELSE threads[t].guest = guest}

FindThread(p, w) ==
    LET found == Matching(w.stay, w.guest)
    IN  \/ \E t \in found : writing' = [writing EXCEPT ![p] = Point("INSERT", w, t, Null)]
        \/ found = {} /\ writing' = [writing EXCEPT ![p] = Point("OPEN", w, Null, Null)]

NextOf(rows, of) == {r \in of : rows[r] = Null /\ \A q \in of : rows[q] = Null => r <= q}

OpenThread(p) ==
    /\ writing[p].step = "OPEN"
    /\ \E t \in NextOf(threads, Threads) :
          LET w == writing[p].write
          IN  /\ threads' = [threads EXCEPT ![t] =
                                [stay |-> w.stay, guest |-> w.guest, unread |-> 0]]
              /\ writing' = [writing EXCEPT ![p] = Point("INSERT", w, t, Null)]
    /\ UNCHANGED <<messages, phase, automationsSent, todo, reading, seen, deaths, cut, interleaved>>

(***************************************************************************)
(* send and receive.                                                       *)
(***************************************************************************)
\* A member of staff writes about a stay, or on a thread.
BeginWrite(p) ==
    /\ writing[p] = NotWriting
    /\ \E channel \in {"SMS", "INTERNAL"} :
          \/ \E s \in Stays : FindThread(p, Writes(s, GuestOf[s], "OUT", channel, Null))
          \/ \E t \in Threads :
                 /\ threads[t] # Null
                 /\ writing' = [writing EXCEPT ![p] =
                        LET row == threads[t]
                        IN  Point("INSERT", Writes(row.stay, row.guest, "OUT", channel, Null),
                                  t, Null)]
    /\ UNCHANGED <<threads, messages, phase, automationsSent, todo, reading, seen, deaths, cut,
                   interleaved>>

BeginReceive(p) ==
    /\ writing[p] = NotWriting
    /\ \E g \in Guests : FindThread(p, Writes(Null, g, "IN", "SMS", Null))
    /\ UNCHANGED <<threads, messages, phase, automationsSent, todo, reading, seen, deaths, cut,
                   interleaved>>

FirstStatus(w) ==
    IF w.direction = "IN" THEN "RECEIVED" ELSE IF w.channel = "INTERNAL" THEN "SENT" ELSE "QUEUED"

InsertMessage(p) ==
    /\ writing[p].step = "INSERT"
    /\ \E m \in NextOf(messages, Messages) :
          LET w == writing[p].write
          IN  /\ messages' = [messages EXCEPT ![m] =
                     [thread |-> writing[p].thread, direction |-> w.direction,
                      status |-> FirstStatus(w), stay |-> w.stay, key |-> w.key]]
              /\ writing' = [writing EXCEPT ![p] = Point("TOUCH", w, writing[p].thread, m)]
    /\ UNCHANGED <<threads, phase, automationsSent, todo, reading, seen, deaths, cut, interleaved>>

BetweenReads(v, t) == reading[v] # Null /\ reading[v].thread = t

\* Mutation for UnseenIsCounted: the thread is brought up without counting.
UnreadUncounted(t, w) == threads[t].unread

Unread(t, w) == threads[t].unread + (IF w.direction = "IN" THEN 1 ELSE 0)

\* Only what goes out has a delivery to follow.
Touch(p) ==
    LET t == writing[p].thread
        w == writing[p].write
    IN  /\ writing[p].step = "TOUCH"
        /\ threads' = [threads EXCEPT ![t].unread = Unread(t, w)]
        /\ interleaved' = IF w.direction = "IN" /\ \E v \in Readers : BetweenReads(v, t)
                        THEN interleaved \cup {t} ELSE interleaved
        /\ writing' = [writing EXCEPT ![p] =
                           IF w.direction = "IN" \/ w.channel = "INTERNAL" THEN NotWriting
                           ELSE Point("DELIVER", w, t, writing[p].row)]
        /\ UNCHANGED <<messages, phase, automationsSent, todo, reading, seen, deaths, cut>>

\* The notification is queued if there is a number, and the message says SENT.
Deliver(p) ==
    LET r == writing[p]
    IN  /\ r.step = "DELIVER"
        /\ messages' = [messages EXCEPT ![r.row].status =
                           IF threads[r.thread].guest = Null THEN "FAILED" ELSE "SENT"]
        /\ writing' = [writing EXCEPT ![p] =
                           IF p = StayWorker THEN Point("MARK", r.write, Null, Null)
                           ELSE NotWriting]
        /\ UNCHANGED <<threads, phase, automationsSent, todo, reading, seen, deaths, cut,
                       interleaved>>

(***************************************************************************)
(* thread: what the desk is shown, and the count that is then reset.       *)
(***************************************************************************)
ReadThread(v) ==
    /\ reading[v] = Null
    /\ \E t \in Threads :
          /\ threads[t] # Null
          /\ reading' = [reading EXCEPT ![v] = [thread |-> t, unread |-> threads[t].unread]]
          /\ seen' = seen \cup {m \in Messages : messages[m] # Null /\ messages[m].thread = t}
    /\ UNCHANGED <<threads, messages, phase, automationsSent, writing, todo, deaths, cut,
                   interleaved>>

ResetUnread(v) ==
    /\ reading[v] # Null
    /\ threads' = [threads EXCEPT ![reading[v].thread].unread =
                      IF reading[v].unread > 0 THEN 0 ELSE @]
    /\ reading' = [reading EXCEPT ![v] = Null]
    /\ UNCHANGED <<messages, phase, automationsSent, writing, todo, seen, deaths, cut, interleaved>>

(***************************************************************************)
(* The worker: the stays that arrive tomorrow and those that left          *)
(* yesterday, each unless the sent-table has it.                           *)
(***************************************************************************)
KeyOf(s) == IF Phases[phase[s]] = "ARRIVING" THEN "stay.pre_arrival" ELSE "stay.review_request"

DueStays == {s \in Stays : Phases[phase[s]] \in {"ARRIVING", "DEPARTED"}}

BeginRun ==
    /\ writing[StayWorker] = NotWriting /\ todo = {}
    /\ todo' = {<<s, KeyOf(s)>> : s \in DueStays} /\ todo' # {}
    /\ UNCHANGED <<threads, messages, phase, automationsSent, writing, reading, seen, deaths, cut,
                   interleaved>>

alreadySent(s, key) == <<s, key>> \in automationsSent

LookAt ==
    /\ writing[StayWorker] = NotWriting
    /\ \E due \in todo :
          /\ todo' = todo \ {due}
          /\ IF alreadySent(due[1], due[2]) THEN UNCHANGED writing
             ELSE FindThread(StayWorker, Writes(due[1], GuestOf[due[1]], "OUT", "SMS", due[2]))
    /\ UNCHANGED <<threads, messages, phase, automationsSent, reading, seen, deaths, cut,
                   interleaved>>

markSent ==
    /\ writing[StayWorker].step = "MARK"
    /\ automationsSent' = automationsSent \cup
          {<<writing[StayWorker].write.stay, writing[StayWorker].write.key>>}
    /\ writing' = [writing EXCEPT ![StayWorker] = NotWriting]
    /\ UNCHANGED <<threads, messages, phase, todo, reading, seen, deaths, cut, interleaved>>

\* The process goes down in the middle of a run.
RunDies ==
    /\ deaths < MaxDeaths
    /\ writing[StayWorker] # NotWriting
    /\ deaths' = deaths + 1
    /\ cut' = cut \cup {<<writing[StayWorker].write.stay, writing[StayWorker].write.key>>}
    /\ writing' = [writing EXCEPT ![StayWorker] = NotWriting]
    /\ todo' = {}
    /\ UNCHANGED <<threads, messages, phase, automationsSent, reading, seen, interleaved>>

NextDay(s) ==
    /\ phase[s] < Len(Phases)
    /\ phase' = [phase EXCEPT ![s] = @ + 1]
    /\ UNCHANGED <<threads, messages, automationsSent, writing, todo, reading, seen, deaths, cut,
                   interleaved>>

TalkNext ==
    \/ \E p \in Writers : BeginWrite(p)
    \/ \E p \in Inbound : BeginReceive(p)
    \/ \E p \in Correspondents : OpenThread(p) \/ InsertMessage(p) \/ Touch(p) \/ Deliver(p)
    \/ \E v \in Readers : ReadThread(v) \/ ResetUnread(v)
    \/ BeginRun \/ LookAt \/ markSent \/ RunDies
    \/ \E s \in Stays : NextDay(s)

TalkSpec == TalkInit /\ [][TalkNext]_talkVars

(***************************************************************************)
(* Properties.                                                             *)
(***************************************************************************)

\* Rows have their columns.
TalkTypeOK ==
    /\ threads \in [Threads -> ThreadRows \cup {Null}]
    /\ messages \in [Messages -> MessageRows \cup {Null}]
    /\ \A m \in Messages : messages[m] # Null => threads[messages[m].thread] # Null
    /\ automationsSent \subseteq Stays \X AutomationKeys

Automated(s, key) == {m \in DOMAIN messages : messages[m] # Null /\ messages[m].stay = s
                                              /\ messages[m].key = key}

\* stay_automations_sent, "Once per reservation per automation key": unless the
\* worker went down while it was sending that message.
AutomationOnceUnlessCut ==
    \A s \in DOMAIN phase, key \in AutomationKeys :
        <<s, key>> \notin cut => Cardinality(Automated(s, key)) <= 1

\* runAutomations(), "the sent-table makes re-runs harmless": the message goes out
\* before the table knows.
AutomationOnce ==
    \A s \in DOMAIN phase, key \in AutomationKeys : Cardinality(Automated(s, key)) <= 1

Unseen(t) == {m \in DOMAIN messages \ seen : messages[m] # Null /\ messages[m].thread = t
                                              /\ messages[m].direction = "IN"}
UncountedYet(t) ==
    {p \in DOMAIN writing : writing[p].step = "TOUCH" /\ writing[p].thread = t
                            /\ writing[p].write.direction = "IN"}

\* "lands as an unread message on the guest's thread": what the desk has not been
\* shown is counted, unless it came between a reader's statements.
UnseenIsCounted ==
    \A t \in DOMAIN threads \ interleaved : threads[t] # Null =>
        Cardinality(Unseen(t)) <= threads[t].unread + Cardinality(UncountedYet(t))

\* The two together: no guest is written to twice by the worker, and no word of a
\* guest is passed over.
GuestsAreAnswered == AutomationOnceUnlessCut /\ UnseenIsCounted

\* The same with no exception: what came between the two is never shown as unread.
UnseenIsUnread ==
    \A t \in Threads : threads[t] # Null =>
        Cardinality(Unseen(t)) <= threads[t].unread + Cardinality(UncountedYet(t))

\* "Conversations: one thread per guest, every message in both directions": a guest
\* who wrote in first has another thread once the desk writes about the stay.
OneThreadPerGuest ==
    \A g \in Guests : Cardinality({t \in Threads : threads[t] # Null /\ threads[t].guest = g}) <= 1
=============================================================================
