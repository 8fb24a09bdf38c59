---------------------------- MODULE GuestJourney -----------------------------
(***************************************************************************)
(* The guest's own page (GuestJourneyService): one link per reservation,   *)
(* sent and re-sent by the desk, with which a guest checks in online,      *)
(* uploads an ID, takes services onto the folio and asks to leave.  The    *)
(* link is looked up first; what it found is used in later statements.     *)
(***************************************************************************)
EXTENDS Integers, FiniteSets

CONSTANTS
    Stays,      \* reservations
    Tokens,     \* 1 .. n: the links that may be issued, in order
    Desks,      \* staff that send links at once
    Visitors,   \* open pages of guests
    Services,   \* add-ons sold online
    Notes,      \* what a guest or the desk may write on a booking
    LastDay,    \* bound: days after arrival, and of a stay
    Null

VARIABLES
    stays,      \* stay -> [status, leaves (its check-out day), notes, idProof, charged, paid]
    links,      \* token -> the row of guest_links, or Null
    sending,    \* desk -> the link it will insert, the old one deleted, or Null
    visits,     \* visitor -> the link it resolved, and what it uses of the row that led to
    day,        \* days since the arrival date
    crossed     \* history: stays whose link two desks were sending at once

journeyVars == <<stays, links, sending, visits, day, crossed>>

Over == {"CHECKED_OUT", "CANCELLED", "NO_SHOW"}
NoVisit == [token |-> Null]

\* A link lives to the end of the day of the check-out as it is when the link is sent.
Link(s) ==
    [stay |-> s, expires |-> stays[s].leaves, opened |-> FALSE, checkin |-> FALSE,
     checkout |-> FALSE]

JourneyInit ==
    /\ stays \in [Stays -> [status : {"PENDING", "CONFIRMED"}, leaves : {1}, notes : {{}},
                            idProof : {FALSE}, charged : {{}}, paid : {{}}]]
    /\ links = [t \in Tokens |-> Null]
    /\ sending = [d \in Desks |-> Null]
    /\ visits = [v \in Visitors |-> NoVisit]
    /\ day = 0
    /\ crossed = {}

LinksOf(s) == {t \in Tokens : links[t] # Null /\ links[t].stay = s}

(***************************************************************************)
(* Issuing a link: the old one is deleted and then a new one inserted, in  *)
(* two statements.                                                         *)
(***************************************************************************)
\* Mutation for OneLinkUnlessRaced: a link the guest has not opened is kept.
RetiredOpened(s) == {t \in LinksOf(s) : links[t].opened}

Retired(s) == LinksOf(s)

issue(d, s) ==
    /\ sending[d] = Null
    /\ stays[s].status \notin Over
    /\ links' = [t \in Tokens |-> IF t \in Retired(s) THEN Null ELSE links[t]]
    /\ sending' = [sending EXCEPT ![d] = Link(s)]
    /\ crossed' = crossed \cup (IF \E o \in Desks : sending[o] # Null /\ sending[o].stay = s
                              THEN {s} ELSE {})
    /\ UNCHANGED <<stays, visits, day>>

\* Tokens are drawn at random: one that never was in use.
Unused == {t \in Tokens : /\ \A u \in Tokens : u >= t => links[u] = Null
                          /\ \A v \in Visitors : visits[v].token # t}

InsertLink(d) ==
    /\ sending[d] # Null
    /\ \E t \in Unused :
          /\ \A u \in Unused : t <= u
          /\ links' = [links EXCEPT ![t] = sending[d]]
    /\ sending' = [sending EXCEPT ![d] = Null]
    /\ UNCHANGED <<stays, visits, day, crossed>>

(***************************************************************************)
(* The guest's requests.  A link is not looked at again once it is         *)
(* resolved.                                                               *)
(***************************************************************************)
Live(t) == links[t] # Null /\ day <= links[t].expires

resolve(v, t) ==
    /\ Live(t)
    /\ links' = [links EXCEPT ![t].opened = TRUE]
    /\ LET s == links[t].stay
       IN  visits' = [visits EXCEPT ![v] = [token |-> t, stay |-> s, status |-> stays[s].status,
                                           notes |-> stays[s].notes, written |-> FALSE]]
    /\ UNCHANGED <<stays, sending, day, crossed>>

\* A request that has resolved its link and written nothing.
Open(v) == visits[v] # NoVisit /\ ~visits[v].written

Done(v) == visits' = [visits EXCEPT ![v] = NoVisit]

\* The row of the link is updated if it is still there.
MarkLink(v, column) ==
    LET t == visits[v].token
    IN  links' = [links EXCEPT ![t] =
                     IF @ = Null THEN @
                     ELSE IF column = "checkin" THEN [@ EXCEPT !.checkin = TRUE]
                     ELSE [@ EXCEPT !.checkout = TRUE]]

\* ReservationsService.update: it reads the reservation again, but only asks that it is
\* there, since no date moves.  A note is added to the notes as they were when the link
\* was resolved.
submitCheckin(v) ==
    /\ Open(v)
    /\ visits[v].status \in {"PENDING", "CONFIRMED"}
    /\ \E n \in Notes \cup {Null} :
          stays' = [stays EXCEPT ![visits[v].stay].notes =
                       IF n = Null THEN @ ELSE visits[v].notes \cup {n}]
    /\ visits' = [visits EXCEPT ![v].written = TRUE]
    /\ UNCHANGED <<links, sending, day, crossed>>

\* The link says so in a statement of its own.
MarkCheckin(v) ==
    /\ visits[v] # NoVisit /\ visits[v].written
    /\ MarkLink(v, "checkin")
    /\ Done(v)
    /\ UNCHANGED <<stays, sending, day, crossed>>

\* A form with nothing filled in is refused.
EmptyCheckin(v) ==
    /\ Open(v)
    /\ Done(v)
    /\ UNCHANGED <<stays, links, sending, day, crossed>>

upload(v) ==
    /\ Open(v)
    /\ stays' = [stays EXCEPT ![visits[v].stay].idProof = TRUE]
    /\ Done(v)
    /\ UNCHANGED <<links, sending, day, crossed>>

\* Whatever the status of the stay.
requestServices(v) ==
    /\ Open(v)
    /\ \E picks \in (SUBSET Services) \ {{}} :
          stays' = [stays EXCEPT ![visits[v].stay].charged = @ \cup picks]
    /\ Done(v)
    /\ UNCHANGED <<links, sending, day, crossed>>

requestCheckout(v) ==
    /\ Open(v)
    /\ visits[v].status = "CHECKED_IN"
    /\ MarkLink(v, "checkout")
    /\ Done(v)
    /\ UNCHANGED <<stays, sending, day, crossed>>

(***************************************************************************)
(* The desk, and the days.                                                 *)
(***************************************************************************)
DeskStep(s) ==
    /\ \/ stays[s].status = "PENDING" /\ \E to \in {"CONFIRMED", "CANCELLED"} :
             stays' = [stays EXCEPT ![s].status = to]
       \/ stays[s].status = "CONFIRMED"
             /\ \E to \in {"CHECKED_IN", "CANCELLED"} \cup (IF day > 0 THEN {"NO_SHOW"} ELSE {}) :
                    stays' = [stays EXCEPT ![s].status = to]
       \/ stays[s].status = "CHECKED_IN" /\ stays[s].charged \subseteq stays[s].paid
             /\ stays' = [stays EXCEPT ![s].status = "CHECKED_OUT"]
       \/ stays[s].status \notin Over
             /\ \/ stays' = [stays EXCEPT ![s].paid = stays[s].charged]
                \/ \E d \in 1 .. LastDay : stays' = [stays EXCEPT ![s].leaves = d]
       \/ \E n \in Notes : stays' = [stays EXCEPT ![s].notes = @ \cup {n}]
    /\ UNCHANGED <<links, sending, visits, day, crossed>>

NextDay ==
    /\ day < LastDay
    /\ day' = day + 1
    /\ UNCHANGED <<stays, links, sending, visits, crossed>>

JourneyNext ==
    \/ \E d \in Desks : (\E s \in Stays : issue(d, s)) \/ InsertLink(d)
    \/ \E v \in Visitors : \/ \E t \in Tokens : resolve(v, t)
                           \/ submitCheckin(v) \/ MarkCheckin(v) \/ EmptyCheckin(v)
                           \/ upload(v)
                           \/ requestServices(v) \/ requestCheckout(v)
    \/ \E s \in Stays : DeskStep(s)
    \/ NextDay

JourneySpec == JourneyInit /\ [][JourneyNext]_journeyVars

(***************************************************************************)
(* Properties.                                                             *)
(***************************************************************************)

\* Rows have their columns.
JourneyTypeOK ==
    /\ stays \in [Stays -> [status : {"PENDING", "CONFIRMED", "CHECKED_IN"} \cup Over,
                            leaves : 1 .. LastDay, notes : SUBSET Notes, idProof : BOOLEAN,
                            charged : SUBSET Services, paid : SUBSET Services]]
    /\ \A t \in Tokens : links[t] # Null => links[t].stay \in Stays
    /\ crossed \subseteq Stays

\* issue(): "Re-sending mints a new token and retires the old one", unless two desks
\* were sending the link of one stay at once.
OneLinkUnlessRaced == \A s \in Stays \ crossed : Cardinality(LinksOf(s)) <= 1

\* issue(): "the guest always holds exactly one live link", and the board's "a
\* reservation holds at most one live link": not when two desks send it at once.
OneLiveLink == \A s \in Stays : Cardinality(LinksOf(s)) <= 1

\* requestCheckout(): "the desk does the checkout (the folio must balance)": a guest
\* who has left owes nothing.  The link outlives the stay, and charges are taken
\* without asking its status.
DepartedOwesNothing ==
    \A s \in Stays : stays[s].status = "CHECKED_OUT" => stays[s].charged \subseteq stays[s].paid
=============================================================================
