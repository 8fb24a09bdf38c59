--------------------------- MODULE WorkerScheduler ---------------------------
(***************************************************************************)
(* WorkerSchedulerService (src/src/modules/workers) over the booking       *)
(* engine: cron ticks call the two workers that sweep the reservations     *)
(* table, behind a guard that skips a tick while the last run of that      *)
(* worker goes on and swallows what a run throws.  The night audit can     *)
(* also be run by hand, past the guard (StaffNightAuditController).        *)
(*                                                                         *)
(* The service reaches its workers through constructor parameters.  Nest   *)
(* passes a class its dependencies only if TypeScript recorded their       *)
(* types, which it does for classes with a decorator of their own.  Which  *)
(* workers the service was given is the constant Injected: all of them     *)
(* where its unit test builds it, none where Nest does.                    *)
(***************************************************************************)
EXTENDS ReservationPlans

CONSTANT Injected    \* the workers the service has a reference to

Jobs == {"hold-expiry", "night-audit"}

VARIABLES
    running,   \* names in the guard's set
    at         \* how far the last call of each worker has come

allVars == <<vars, running, at>>

R == INSTANCE Reservations

Init ==
    /\ R!Init
    /\ running = {}
    /\ at = [j \in Jobs |-> "idle"]

-----------------------------------------------------------------------------
(* guard(): add the name, await run(), swallow an error, delete the name *)

\* A tick of a worker that was not injected adds the name, throws a TypeError
\* and deletes the name again: nothing changes.
Tick(j) ==
    /\ j \in Injected
    /\ j \notin running
    /\ running' = running \cup {j}
    /\ at' = [at EXCEPT ![j] = "started"]
    /\ UNCHANGED vars

\* The worker's one UPDATE, which may find nothing to write.
Sweep(j) ==
    /\ at[j] = "started"
    /\ at' = [at EXCEPT ![j] = "swept"]
    /\ IF j = "night-audit"
       THEN R!AutoNoShow \/ (R!Missed = {} /\ UNCHANGED vars)
       ELSE R!HoldExpiry \/ (R!Lapsed = {} /\ UNCHANGED vars)
    /\ UNCHANGED running

\* Mutant: the name is deleted only after a run that did not throw.
EndWithoutFinally(j) ==
    /\ at[j] # "idle"
    /\ at' = [at EXCEPT ![j] = "idle"]
    /\ running' = IF at[j] = "swept" THEN running \ {j} ELSE running
    /\ UNCHANGED vars

\* The run returns, or throws: before its UPDATE, or after it in the snapshots
\* of the night audit.  Either way the name goes.
End(j) ==
    /\ at[j] # "idle"
    /\ at' = [at EXCEPT ![j] = "idle"]
    /\ running' = running \ {j}
    /\ UNCHANGED vars

\* The process stops, and the set with it; the next one starts with none.
Restart ==
    /\ running' = {}
    /\ at' = [j \in Jobs |-> "idle"]
    /\ UNCHANGED vars

\* POST night-audit/run calls the worker itself.
CloseByHand == R!AutoNoShow /\ UNCHANGED <<running, at>>

Next ==
    \/ \E j \in Jobs : Tick(j) \/ Sweep(j) \/ End(j)
    \/ Restart
    \/ CloseByHand
    \/ R!DayToDay /\ UNCHANGED <<running, at>>

\* Cron ticks again and again; the process and the database are not down for
\* ever, so a worker whose runs start again and again gets its UPDATE through;
\* a run returns.
Spec ==
    /\ Init /\ [][Next]_allVars
    /\ \A j \in Jobs : /\ WF_allVars(Tick(j))
                       /\ SF_allVars(Sweep(j))
                       /\ WF_allVars(End(j))

-----------------------------------------------------------------------------
(* Properties *)

\* The guard's set names exactly the workers with a run under way.
TypeOK ==
    /\ at \in [Jobs -> {"idle", "started", "swept"}]
    /\ running = {j \in Jobs : at[j] # "idle"}

\* What the workers are for: an enquiry whose deadline has passed, and a
\* confirmed booking whose guest never came, do not stay on the books, though
\* runs throw, overlap the next tick and die with the process.
StaleClaimsReleased ==
    \A b \in Bookings :
        /\ b \in R!Lapsed ~> b \notin R!Lapsed
        /\ b \in R!Missed ~> b \notin R!Missed

\* expireHolds(), "Unpaid enquiry holds lapse on the minute they said they
\* would": no hold outlives its deadline for ever.
HoldsLapse == \A b \in Bookings : b \in R!Lapsed ~> b \notin R!Lapsed

=============================================================================
