------------------------------- MODULE Support -------------------------------
(***************************************************************************)
(* Support tickets, from the two ends: the administrators' SupportService  *)
(* and the owners' OwnerSupportService.  An owner opens a ticket and its   *)
(* first message in one transaction, an administrator in two statements;   *)
(* an attachment is a message, then an object in the store, then a row.    *)
(***************************************************************************)
EXTENDS Absent, Integers, FiniteSets

CONSTANTS
    Tickets,     \* rows that may be inserted
    Posts,       \* 1 .. n: rows of support_messages, in order
    Answerers    \* requests that run at once

VARIABLES
    tickets,     \* row -> [owned, status, responded, resolved, assigned], or Null
    posts,       \* row -> [ticket, author, note], or Null
    objects,     \* messages whose file is in the object store
    attachments, \* messages that have a row in support_attachments
    answering,   \* request -> what it is in the middle of
    told         \* messages the owner of the ticket was told of

supportVars == <<tickets, posts, objects, attachments, answering, told>>

TicketStatuses == {"OPEN", "IN_PROGRESS", "WAITING_FOR_OWNER", "RESOLVED", "CLOSED"}
AtRest == [step |-> "IDLE"]

SupportInit ==
    /\ tickets = [t \in Tickets |-> Null]
    /\ posts = [m \in Posts |-> Null]
    /\ objects = {} /\ attachments = {}
    /\ answering = [p \in Answerers |-> AtRest]
    /\ told = {}

Opened(owned) == [owned |-> owned, status |-> "OPEN", responded |-> FALSE, resolved |-> FALSE,
                  assigned |-> FALSE]
Message(t, author, note) == [ticket |-> t, author |-> author, note |-> note]

NextMessage == {m \in Posts : posts[m] = Null /\ \A k \in Posts : posts[k] = Null => m <= k}

TicketExists(t) == tickets[t] # Null

(***************************************************************************)
(* Opening a ticket.                                                       *)
(***************************************************************************)
createByOwner(t) ==
    /\ tickets[t] = Null
    /\ \E m \in NextMessage :
          /\ tickets' = [tickets EXCEPT ![t] = Opened(TRUE)]
          /\ posts' = [posts EXCEPT ![m] = Message(t, "OWNER", FALSE)]
    /\ UNCHANGED <<objects, attachments, answering, told>>

\* An administrator's ticket may be of an owner or of none, with a body or not.
createByAdmin(p, t) ==
    /\ answering[p] = AtRest
    /\ tickets[t] = Null
    /\ \E owned, body \in BOOLEAN :
          /\ tickets' = [tickets EXCEPT ![t] = Opened(owned)]
          /\ answering' = IF body THEN [answering EXCEPT ![p] = [step |-> "BODY", ticket |-> t]]
                         ELSE answering
    /\ UNCHANGED <<posts, objects, attachments, told>>

InsertBody(p) ==
    /\ answering[p].step = "BODY"
    /\ \E m \in NextMessage :
          posts' = [posts EXCEPT ![m] = Message(answering[p].ticket, "ADMIN", FALSE)]
    /\ answering' = [answering EXCEPT ![p] = AtRest]
    /\ UNCHANGED <<tickets, objects, attachments, told>>

(***************************************************************************)
(* Messages.  The time of the first response is stamped by whatever an     *)
(* administrator writes first; a note is told to nobody.                   *)
(***************************************************************************)
postMessage(p, t) ==
    /\ answering[p] = AtRest
    /\ TicketExists(t)
    /\ \E note \in BOOLEAN, m \in NextMessage :
          /\ posts' = [posts EXCEPT ![m] = Message(t, "ADMIN", note)]
          /\ answering' = [answering EXCEPT ![p] = [step |-> "STAMP", ticket |-> t, row |-> m]]
    /\ UNCHANGED <<tickets, objects, attachments, told>>

Stamp(p) ==
    /\ answering[p].step = "STAMP"
    /\ tickets' = [tickets EXCEPT ![answering[p].ticket].responded = TRUE]
    /\ answering' = [answering EXCEPT ![p].step = "TELL"]
    /\ UNCHANGED <<posts, objects, attachments, told>>

Announced(m) == ~posts[m].note /\ tickets[posts[m].ticket].owned

announceReply(p) ==
    LET m == answering[p].row
    IN  /\ answering[p].step = "TELL"
        /\ told' = IF Announced(m) THEN told \cup {m} ELSE told
        /\ answering' = [answering EXCEPT ![p] = AtRest]
        /\ UNCHANGED <<tickets, posts, objects, attachments>>

addMessage(t) ==
    /\ TicketExists(t) /\ tickets[t].owned
    /\ \E m \in NextMessage : posts' = [posts EXCEPT ![m] = Message(t, "OWNER", FALSE)]
    /\ UNCHANGED <<tickets, objects, attachments, answering, told>>

\* What the owner is shown of a ticket.
Visible(t) == {m \in Posts : posts[m] # Null /\ posts[m].ticket = t /\ ~posts[m].note}

(***************************************************************************)
(* Attachments: the message that carries one, the file, the row.           *)
(***************************************************************************)
addAttachment(p, t) ==
    /\ answering[p] = AtRest
    /\ TicketExists(t)
    /\ \E author \in IF tickets[t].owned THEN {"ADMIN", "OWNER"} ELSE {"ADMIN"}, m \in NextMessage :
          /\ posts' = [posts EXCEPT ![m] = Message(t, author, FALSE)]
          /\ answering' = [answering EXCEPT ![p] = [step |-> "STORE", row |-> m]]
    /\ UNCHANGED <<tickets, objects, attachments, told>>

\* A store that refuses the file ends the request; its message stays.
AfterFailedPut == {"IDLE"}

PutObject(p) ==
    /\ answering[p].step = "STORE"
    /\ \/ /\ objects' = objects \cup {answering[p].row}
          /\ answering' = [answering EXCEPT ![p].step = "ROW"]
       \/ /\ \E step \in AfterFailedPut : answering' = [answering EXCEPT ![p] =
                 IF step = "IDLE" THEN AtRest ELSE [@ EXCEPT !.step = step]]
          /\ UNCHANGED objects
    /\ UNCHANGED <<tickets, posts, attachments, told>>

InsertAttachment(p) ==
    /\ answering[p].step = "ROW"
    /\ attachments' = attachments \cup {answering[p].row}
    /\ answering' = [answering EXCEPT ![p] = AtRest]
    /\ UNCHANGED <<tickets, posts, objects, told>>

(***************************************************************************)
(* The administrators' desk.                                               *)
(***************************************************************************)
assign(t) ==
    /\ TicketExists(t)
    /\ tickets' = [tickets EXCEPT ![t].assigned = TRUE]
    /\ UNCHANGED <<posts, objects, attachments, answering, told>>

\* Whatever the status was; the time of the resolution is never taken back.
setTicketStatus(t) ==
    /\ TicketExists(t)
    /\ \E status \in TicketStatuses \ {"OPEN"} :
          tickets' = [tickets EXCEPT ![t].status = status,
                                     ![t].resolved = @ \/ status = "RESOLVED"]
    /\ UNCHANGED <<posts, objects, attachments, answering, told>>

SupportNext ==
    \/ \E t \in Tickets : \/ createByOwner(t) \/ addMessage(t) \/ assign(t) \/ setTicketStatus(t)
                          \/ \E p \in Answerers : \/ createByAdmin(p, t) \/ postMessage(p, t)
                                                 \/ addAttachment(p, t)
    \/ \E p \in Answerers : \/ InsertBody(p) \/ Stamp(p) \/ announceReply(p)
                           \/ PutObject(p) \/ InsertAttachment(p)

SupportSpec == SupportInit /\ [][SupportNext]_supportVars

(***************************************************************************)
(* Properties.                                                             *)
(***************************************************************************)

\* "An internal note is admin-to-admin: the owner must never see it": neither on the
\* ticket nor in what the owner is told.
NotesStayInside == \A m \in told : m \in Visible(posts[m].ticket)

\* addAttachment: a row that hands out a download has its file in the store, though
\* the store may refuse a file halfway.
AttachmentIsStored == attachments \subseteq objects

\* Rows have their columns, and what the owner may see and download is there.
SupportTypeOK ==
    /\ \A t \in Tickets : TicketExists(t) => tickets[t].status \in TicketStatuses
    /\ \A m \in Posts : posts[m] # Null => TicketExists(posts[m].ticket)
    /\ objects \subseteq Posts /\ told \subseteq Posts
    /\ NotesStayInside /\ AttachmentIsStored

\* "it is not a reply and raises nothing": the first response the owner is shown is an
\* answer the owner can read.  An internal note stamps it too.
FirstResponseIsAReply ==
    \A t \in Tickets : TicketExists(t) /\ tickets[t].responded =>
        \E m \in Visible(t) : posts[m].author = "ADMIN"

\* create (owners): "a ticket with no message would render as an empty thread, so the
\* two are one transaction".  An administrator's is not, and needs no message.
NoEmptyThread == \A t \in Tickets : TicketExists(t) => Visible(t) # {}
=============================================================================
