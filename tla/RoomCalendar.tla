---------------------------- MODULE RoomCalendar ----------------------------
(***************************************************************************)
(* What the booking engine promises about rooms, without saying how: each  *)
(* night of each room is free or held by one booking, and a held night     *)
(* reaches another booking only by being let go first, or by an exchange   *)
(* in which two bookings take each other's room.                           *)
(***************************************************************************)
CONSTANTS Rooms, Nights, Bookings

VARIABLE book    \* book[r][n]: the bookings that hold night n of room r

Init == book = [r \in Rooms |-> [n \in Nights |-> {}]]

\* Any bookings give up any of their nights: a cancellation, a departure, a
\* worker's sweep.
Release ==
    /\ \A r \in Rooms, n \in Nights : book'[r][n] \subseteq book[r][n]
    /\ book' \in [Rooms -> [Nights -> SUBSET Bookings]]

\* One booking redraws its claim, over nights that nobody else holds: it is
\* confirmed, its dates move, it is extended, it is given another room.
Rebook(b) ==
    /\ \A r \in Rooms, n \in Nights :
         /\ book'[r][n] \ {b} = book[r][n] \ {b}
         /\ b \in book'[r][n] => book[r][n] \subseteq {b}
    /\ book' \in [Rooms -> [Nights -> SUBSET Bookings]]

\* An allocation run: several bookings claim free nights, no two the same.
Allocate ==
    /\ \A r \in Rooms, n \in Nights :
         \/ book'[r][n] = book[r][n]
         \/ book[r][n] = {} /\ \E b \in Bookings : book'[r][n] = {b}
    /\ book' \in [Rooms -> [Nights -> SUBSET Bookings]]

\* a leaves room q for room r, b leaves r for q, for the nights each held.
Exchange(a, b, q, r) ==
    LET held(x, s) == {n \in Nights : x \in book[s][n]}
    IN  /\ q # r
        /\ \A n \in held(a, q) : book[r][n] \subseteq {a, b}
        /\ \A n \in held(b, r) : book[q][n] \subseteq {a, b}
        /\ book' = [s \in Rooms |-> [n \in Nights |->
                      (book[s][n] \ {a, b})
                        \cup (IF s = r /\ n \in held(a, q) THEN {a} ELSE {})
                        \cup (IF s = q /\ n \in held(b, r) THEN {b} ELSE {})]]

Next ==
    \/ Release
    \/ \E b \in Bookings : Rebook(b)
    \/ Allocate
    \/ \E a, b \in Bookings, q, r \in Rooms : Exchange(a, b, q, r)

Spec == Init /\ [][Next]_book

TypeOK == book \in [Rooms -> [Nights -> SUBSET Bookings]]

\* No night of a room is ever promised to two bookings.
OneHolder ==
    \A r \in Rooms, n \in Nights : \A a, b \in book[r][n] : a = b

=============================================================================
