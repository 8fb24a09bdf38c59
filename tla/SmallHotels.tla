---------------------------- MODULE SmallHotels -----------------------------
(* Hotels small enough for TLC: the types of their rooms, their rates grids. *)
EXTENDS ReservationPlans

\* A hotel with one room type, and one whose last room is of a second type.
OneType == [r \in Rooms |-> "standard"]
LastIsSuite == [r \in Rooms |-> IF r = RoomCount THEN "suite" ELSE "standard"]

\* Rates grids: nothing restricted; the last night capped at one room, with a
\* two-night minimum on the first arrival day; day 1 closed in every way.
OpenGrid == [t \in Types |-> NoRules]
TightGrid ==
    [t \in Types |-> [d \in Days |->
        [OpenDay EXCEPT !.cap = IF d = Horizon - 1 THEN 1 ELSE RoomCount,
                        !.minLos = IF d = 0 THEN 2 ELSE 0]]]
ClosedGrid ==
    [t \in Types |-> [d \in Days |->
        [OpenDay EXCEPT !.stopSell = (d = 1), !.closedToArrival = (d = 1),
                        !.closedToDeparture = (d = 1)]]]

OnlyOpen == {OpenGrid}
OpenOrTight == {OpenGrid, TightGrid}
AllGrids == {OpenGrid, TightGrid, ClosedGrid}

=============================================================================
