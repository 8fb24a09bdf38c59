------------------------------ MODULE KeyCards ------------------------------
(***************************************************************************)
(* The cards the desk cuts against a stay (KeyCardsService).  Each request *)
(* reads the stay or the card, then writes; a new card takes the count of  *)
(* the hotel's cards plus one as its number and moves on past a number     *)
(* another desk took meanwhile, NUMBER_RETRIES times.                      *)
(***************************************************************************)
EXTENDS Integers, FiniteSets

CONSTANTS
    CardStays,       \* bookings of the hotel
    Cards,           \* 1 .. n: rows of key_cards, in order
    CardDesks,       \* requests that run at once
    NUMBER_RETRIES,
    LastDay,         \* the clock stops here
    Null

VARIABLES
    cards,       \* row -> [stay, number, status, expires, desk], or Null
    bookings,    \* stay -> [status, checkOut]
    desks,       \* request -> what it is in the middle of
    clock,       \* half days: 2d is the day d before 11:00, 2d + 1 from then on
    marks        \* the cards reported lost; whether an issue gave up too early

cardVars == <<cards, bookings, desks, clock, marks>>

Free == [step |-> "IDLE"]
Cut == {k \in Cards : cards[k] # Null}

CardsInit ==
    /\ cards = [k \in Cards |-> Null]
    /\ bookings \in [CardStays -> [status : {"CONFIRMED"}, checkOut : {1}]]
    /\ desks = [d \in CardDesks |-> Free]
    /\ clock = 0
    /\ marks = [lost |-> {}, early |-> FALSE]

\* Check-out day at 11:00.
ExpiresAt(stay) == 2 * bookings[stay].checkOut + 1

\* EXPIRED is derived: no job ever writes it.
StatusShown(k) == IF cards[k].status = "ACTIVE" /\ cards[k].expires <= clock
                  THEN "EXPIRED" ELSE cards[k].status

Issuing(stay, retired) ==
    [step |-> "COUNT", stay |-> stay, expires |-> ExpiresAt(stay), retired |-> retired]

issue(d) ==
    /\ desks[d] = Free
    /\ \E s \in CardStays :
          /\ bookings[s].status \in {"CONFIRMED", "CHECKED_IN"}
          /\ desks' = [desks EXCEPT ![d] = Issuing(s, Null)]
    /\ UNCHANGED <<cards, bookings, clock, marks>>

requireCard(d, k) == desks[d] = Free /\ k \in Cut /\ cards[k].status = "ACTIVE"

deactivate(d, k) ==
    /\ requireCard(d, k)
    /\ \E why \in {"LOST", "DEACTIVATED"} :
          desks' = [desks EXCEPT ![d] = [step |-> "KILL", card |-> k, why |-> why]]
    /\ UNCHANGED <<cards, bookings, clock, marks>>

Kill(d) ==
    LET q == desks[d]
    IN  /\ q.step = "KILL"
        /\ cards' = [cards EXCEPT ![q.card].status = q.why]
        /\ marks' = IF q.why = "LOST" THEN [marks EXCEPT !.lost = @ \cup {q.card}] ELSE marks
        /\ desks' = [desks EXCEPT ![d] = Free]
        /\ UNCHANGED <<bookings, clock>>

\* The stay is read, its status is not asked.
replace(d, k) ==
    /\ requireCard(d, k)
    /\ desks' = [desks EXCEPT ![d] = [Issuing(cards[k].stay, k) EXCEPT !.step = "RETIRE"]]
    /\ UNCHANGED <<cards, bookings, clock, marks>>

Retire(d) ==
    /\ desks[d].step = "RETIRE"
    /\ cards' = [cards EXCEPT ![desks[d].retired].status = "DEACTIVATED"]
    /\ desks' = [desks EXCEPT ![d].step = "COUNT"]
    /\ UNCHANGED <<bookings, clock, marks>>

(***************************************************************************)
(* insertCard: the count, then one insert after the other.                 *)
(***************************************************************************)
Counted == Cardinality(Cut)

CountCards(d) ==
    /\ desks[d].step = "COUNT"
    /\ desks' = [desks EXCEPT ![d] = [step |-> "INSERT", stay |-> @.stay, expires |-> @.expires,
                                      count |-> Counted, bump |-> 0, since |-> Cardinality(Cut)]]
    /\ UNCHANGED <<cards, bookings, clock, marks>>

NumberTried(q) == q.count + 1 + q.bump
NumberTaken(n) == \E k \in Cut : cards[k].number = n

InsertCard(d) ==
    LET q == desks[d]
    IN  /\ q.step = "INSERT" /\ q.bump < NUMBER_RETRIES
        /\ IF NumberTaken(NumberTried(q))
           THEN /\ desks' = [desks EXCEPT ![d].bump = @ + 1]
                /\ UNCHANGED cards
           ELSE /\ \E k \in Cards \ Cut :
                      /\ \A j \in Cards \ Cut : k <= j
                      /\ cards' = [cards EXCEPT ![k] =
                            [stay |-> q.stay, number |-> NumberTried(q), status |-> "ACTIVE",
                             expires |-> q.expires]]
                /\ desks' = [desks EXCEPT ![d] = Free]
        /\ UNCHANGED <<bookings, clock, marks>>

numberExhausted(d) ==
    LET q == desks[d]
    IN  /\ q.step = "INSERT" /\ q.bump = NUMBER_RETRIES
        /\ marks' = [marks EXCEPT !.early = @ \/ Cardinality(Cut) - q.since < NUMBER_RETRIES]
        /\ desks' = [desks EXCEPT ![d] = Free]
        /\ UNCHANGED <<cards, bookings, clock>>

\* The stay goes on: the guest comes, leaves (early or not), stays longer, does not come.
StayGoesOn ==
    /\ \E s \in CardStays :
          \/ /\ bookings[s].status = "CONFIRMED"
             /\ \E to \in {"CHECKED_IN", "CANCELLED"} : bookings' = [bookings EXCEPT ![s].status = to]
          \/ /\ bookings[s].status = "CHECKED_IN"
             /\ bookings' = [bookings EXCEPT ![s].status = "CHECKED_OUT"]
          \/ /\ bookings[s].status \in {"CONFIRMED", "CHECKED_IN"}
             /\ bookings[s].checkOut < LastDay
             /\ bookings' = [bookings EXCEPT ![s].checkOut = @ + 1]
    /\ UNCHANGED <<cards, desks, clock, marks>>

HalfDay ==
    /\ clock < 2 * LastDay + 1
    /\ clock' = clock + 1
    /\ UNCHANGED <<cards, bookings, desks, marks>>

CardsNext ==
    \/ StayGoesOn \/ HalfDay
    \/ \E d \in CardDesks : \/ issue(d) \/ Kill(d) \/ Retire(d) \/ CountCards(d) \/ InsertCard(d)
                            \/ numberExhausted(d)
                            \/ \E k \in Cards : deactivate(d, k) \/ replace(d, k)

CardsSpec == CardsInit /\ [][CardsNext]_cardVars

(***************************************************************************)
(* Properties.                                                             *)
(***************************************************************************)

\* Rows have their columns.
CardsTypeOK ==
    /\ \A k \in Cut : /\ cards[k].stay \in CardStays /\ cards[k].number \in Nat
                      /\ cards[k].status \in {"ACTIVE", "DEACTIVATED", "LOST"}
    /\ clock \in 0 .. 2 * LastDay + 1

\* insertCard: whatever desks collide, the numbers in use are 1, 2, .. n without a gap.
NumbersAreConsecutive == {cards[k].number : k \in Cut} = 1 .. Cardinality(Cut)

\* "retries a few times rather than failing the desk": an issue gives up only after as
\* many cards were cut by others as it has tries.
ExhaustedOnlyWhenOvertaken == ~marks.early

\* issue: "The card dies with the stay".  It is cut for the check-out date of that
\* moment: a guest who leaves early, or whose booking is cancelled, keeps a live card.
CardDiesWithStay ==
    \A k \in Cut : StatusShown(k) = "ACTIVE" => bookings[cards[k].stay].status \in {"CONFIRMED", "CHECKED_IN"}

\* deactivate: "`lost` records WHY it died".  Two desks that both read an active card
\* write over each other, and the card reported lost ends as one put away.
LostStaysLost == \A k \in marks.lost : cards[k].status = "LOST"
=============================================================================
