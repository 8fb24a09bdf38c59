---------------------- MODULE MCReservationsConcurrent ----------------------
(* ReservationsConcurrent on the small hotels, for TLC. *)
EXTENDS ReservationsConcurrent, SmallHotels, TLC

ClerkSymmetry == Permutations(Clerks)

\* A row as create(), confirm() and a check-in on day 0 leave it.
Booked(status, t, r, ci, co) ==
    [status |-> status, type |-> t, room |-> r, ci |-> ci, co |-> co,
     nights |-> nightsBetween(ci, co), locked |-> FALSE, hold |-> "none"]

Stays == {stay \in Days \X Days : stay[1] < stay[2]}

BookedRows ==
    {Booked(s, t, r, stay[1], stay[2]) :
        s \in {"PENDING", "CONFIRMED", "CHECKED_IN"}, t \in Types,
        r \in Rooms \cup {Null}, stay \in Stays}

\* The tables that serial requests of day 0 can leave: rows in order of id,
\* guests in house in a room of theirs, no clash and no oversold night.
Legal(table) ==
    LET Covers(b, n) == table[b].status \in Occupying /\ coversDate(table[b], n)
    IN  /\ \A b \in Bookings \ {1} : table[b] # NoRow => table[b - 1] # NoRow
        /\ \A b \in Bookings : table[b].room # Null => TypeOf[table[b].room] = table[b].type
        /\ \A b \in Bookings :
              table[b].status = "CHECKED_IN" => table[b].room # Null /\ coversDate(table[b], 0)
        /\ \A a, b \in Bookings : a # b => ~Clash(table[a], table[b])
        /\ \A t \in Types, n \in Days :
              Cardinality({b \in Bookings : table[b].type = t /\ Covers(b, n)})
                <= Cardinality({r \in Rooms : TypeOf[r] = t})

LegalStarts == {table \in [Bookings -> BookedRows \cup {NoRow}] : Legal(table)}
Empty == {[b \in Bookings |-> NoRow]}

\* Every booking has the first room, while there may be others to go to.
ContestedStarts == {table \in LegalStarts : \A b \in Bookings : table[b].room = 1}

\* Each booking has the room of its own number.
OwnRoomStarts ==
    {table \in LegalStarts : \A b \in Bookings : table[b] # NoRow => table[b].room = b}

=============================================================================
