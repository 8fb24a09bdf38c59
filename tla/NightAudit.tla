----------------------------- MODULE NightAudit ------------------------------
(***************************************************************************)
(* The end-of-day close (NightAuditWorker): no-shows first, then one row   *)
(* of figures per business date, written over when the date is closed      *)
(* again.  The scheduler runs it just after midnight, and management by    *)
(* hand at any hour (StaffNightAuditController): before noon it closes     *)
(* yesterday, after noon today.                                            *)
(***************************************************************************)
EXTENDS DeskBoards

VARIABLES
    snapshots,   \* property_daily_snapshots: business date -> figures, or Null
    closed       \* history: the figures of the first close of each date

auditVars == <<snapshots, closed>>

AuditInit ==
    /\ Init
    /\ snapshots = [d \in Days |-> Null]
    /\ closed = snapshots

\* The figures of a date; the guests whose nightly rate is revenue stand for it.
Figures(rows, day) ==
    LET In(statuses) == {b \in Bookings : rows[b].status \in statuses}
        sleeping(statuses) == {b \in In(statuses) : coversDate(rows[b], day)}
    IN  [arrivals       |-> Cardinality({b \in In({"CHECKED_IN", "CHECKED_OUT"}) : rows[b].ci = day}),
         departures     |-> Cardinality({b \in In({"CHECKED_OUT"}) : rows[b].co = day}),
         roomsSold      |-> Cardinality(sleeping({"CHECKED_IN"})),
         roomsAvailable |-> RoomsIn(RoomStatuses \ {"OUT_OF_ORDER"}),
         noShows        |-> Cardinality({b \in In({"NO_SHOW"}) : rows[b].ci = day}),
         revenue        |-> sleeping({"CHECKED_IN", "CHECKED_OUT"})]

SweptNoShows == [b \in Bookings |-> IF b \in Missed THEN [resv[b] EXCEPT !.status = "NO_SHOW"]
                                                   ELSE resv[b]]

snapshot(day) ==
    /\ snapshots' = [snapshots EXCEPT ![day] = Figures(resv', day)]
    /\ closed' = [closed EXCEPT ![day] = IF @ = Null THEN Figures(resv', day) ELSE @]

\* NightAuditWorker.run: "the day that just ended" is that of twelve hours ago.
CloseDay ==
    /\ resv' = SweptNoShows
    /\ \E day \in {today - 1, today} \cap Days : snapshot(day)
    /\ UNCHANGED <<roomStatus, grid, today, trail>>

AuditNext ==
    \/ Next /\ UNCHANGED auditVars
    \/ CloseDay

(***************************************************************************)
(* Properties.                                                             *)
(***************************************************************************)

\* A date's row has the columns of its table.
AuditTypeOK ==
    /\ TypeOK
    /\ \A d \in Days : snapshots[d] # Null =>
          /\ snapshots[d].roomsSold \in 0 .. BookingCount
          /\ snapshots[d].revenue \subseteq Bookings
    /\ \A d \in Days : (closed[d] = Null) = (snapshots[d] = Null)

\* NightAuditWorker, "both idempotent so a re-run (or a boot that missed midnight) is
\* safe": a date closed again, with the same guests' nights earned, has the same rooms
\* sold.  It has not: a guest who has left by then earns revenue and sold no room.
RerunIsSafe ==
    \A d \in Days :
        snapshots[d] # Null /\ snapshots[d].revenue = closed[d].revenue =>
            snapshots[d].roomsSold = closed[d].roomsSold
=============================================================================
