--------------------------- MODULE MCReservations ---------------------------
(* Reservations and the boards drawn of them, on the small hotels, for TLC. *)
EXTENDS DeskBoards, SmallHotels
=============================================================================
