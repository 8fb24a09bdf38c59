---------------------------- MODULE Impersonation ----------------------------
(***************************************************************************)
(* Support staff in a customer's shoes: ImpersonationService mints a       *)
(* session row and a signed token, ImpersonationAccessService and          *)
(* OwnerJwtGuard decide on every request of the owner API whether the      *)
(* token is still worth anything.                                          *)
(*                                                                         *)
(* A request passes two reads: the session's row, then the owner's.  The   *)
(* console ends sessions and moves owners between any two of them.  A      *)
(* token is known by its session: it carries the row's id, its jti and the *)
(* target the row was given.                                               *)
(***************************************************************************)
EXTENDS Sessions, Integers

CONSTANTS
    Impersonations,  \* impersonation_sessions
    Targets,         \* people a session may name, as user or as owner
    Visitors,        \* requests that carry an impersonation token
    Lifetime,        \* IMPERSONATION_TTL_SECONDS, in ticks
    LastTick         \* bound: ticks of the clock

TargetTypes == {"OWNER", "GM", "AGM"}
Standings == {"ACTIVE", "SUSPENDED", "DELETED"}
READ_ONLY_METHODS == {"GET", "HEAD", "OPTIONS"}
Methods == {"GET", "POST"}

VARIABLES
    shoes,       \* impersonation_sessions, Null where there is no row yet
    standing,    \* owners: status and deleted_at
    visits,      \* each request with a token, Null before it arrives
    tick         \* the clock

impersonationVars == <<shoes, standing, visits, tick>>

Rows == [type : TargetTypes, user : Targets \cup {Null}, owner : Targets \cup {Null},
         status : {"ACTIVE", "TERMINATED"}, started : 0 .. LastTick,
         ended : (0 .. LastTick) \cup {Null}]

\* Null is no row and no time.
ASSUME ImpersonationAssumption ==
    LastTick \in Nat /\ Null \notin Rows /\ Null \notin 0 .. LastTick

ImpersonationInit ==
    /\ shoes = [s \in Impersonations |-> Null]
    /\ standing = [o \in Targets |-> "ACTIVE"]
    /\ visits = [q \in Visitors |-> Null]
    /\ tick = 0

-----------------------------------------------------------------------------
(* The console *)

\* For an OWNER the user and the owner are one person: either fills the other.
Filled(type, given, other) ==
    IF given = Null /\ type = "OWNER" THEN other ELSE given

start(s) ==
    /\ shoes[s] = Null
    /\ \E type \in TargetTypes, user, owner \in Targets \cup {Null} :
         shoes' = [shoes EXCEPT ![s] =
                     [type |-> type, user |-> Filled(type, user, owner),
                      owner |-> Filled(type, owner, user),
                      status |-> "ACTIVE", started |-> tick, ended |-> Null]]
    /\ UNCHANGED <<standing, visits, tick>>

\* A session that has ended already is ended again.
terminate(s) ==
    /\ shoes[s] # Null
    /\ shoes' = [shoes EXCEPT ![s].status = "TERMINATED", ![s].ended = tick]
    /\ UNCHANGED <<standing, visits, tick>>

\* The console suspends, restores and deletes owners.
moveOwner(o) ==
    /\ standing[o] # "DELETED"
    /\ \E to \in Standings \ {standing[o]} : standing' = [standing EXCEPT ![o] = to]
    /\ UNCHANGED <<shoes, visits, tick>>

-----------------------------------------------------------------------------
(* A request of the owner API that carries the session's token *)

\* History: who the request would serve and why not, as things are when it arrives.
Arrive(q, s) ==
    /\ visits[q] = Null /\ shoes[s] # Null
    /\ \E method \in Methods :
         visits' = [visits EXCEPT ![q] =
                      [session |-> s, method |-> method, at |-> "session", target |-> Null,
                       late |-> shoes[s].ended # Null]]
    /\ UNCHANGED <<shoes, standing, tick>>

AnswerVisit(q, how) == visits' = [visits EXCEPT ![q].at = how]

\* verifyAsync(): the signature carries the expiry.
Unexpired(row) == tick < row.started + Lifetime

StandsIn(row) == Unexpired(row) /\ row.status = "ACTIVE" /\ row.ended = Null

\* The row is the authority; a target of the user, else of the owner.
TargetOf(row) == IF row.user # Null THEN row.user ELSE row.owner

authenticate(q) ==
    LET row == shoes[visits[q].session]
        grants == StandsIn(row) /\ row.type = "OWNER" /\ TargetOf(row) # Null
    IN  /\ visits[q] # Null /\ visits[q].at = "session"
        /\ visits' = [visits EXCEPT ![q].at = IF grants THEN "owner" ELSE "refused",
                                    ![q].target = IF grants THEN TargetOf(row) ELSE Null]
        /\ UNCHANGED <<shoes, standing, tick>>

\* WRITE_ALLOWLIST is empty.
assertReadOnly(method) == method \in READ_ONLY_METHODS

acceptImpersonation(q) ==
    /\ visits[q] # Null /\ visits[q].at = "owner"
    /\ AnswerVisit(q, IF /\ assertReadOnly(visits[q].method)
                         /\ standing[visits[q].target] = "ACTIVE"
                      THEN "served" ELSE "refused")
    /\ UNCHANGED <<shoes, standing, tick>>

\* Bound: a minute goes by, as long as the run lasts.
Minute ==
    /\ tick < LastTick
    /\ tick' = tick + 1
    /\ UNCHANGED <<shoes, standing, visits>>

ImpersonationNext ==
    \/ \E s \in Impersonations : start(s) \/ terminate(s) \/ \E q \in Visitors : Arrive(q, s)
    \/ \E o \in Targets : moveOwner(o)
    \/ \E q \in Visitors : authenticate(q) \/ acceptImpersonation(q)
    \/ Minute

ImpersonationSpec == ImpersonationInit /\ [][ImpersonationNext]_impersonationVars

-----------------------------------------------------------------------------
(* The ways in: a person signs in and stays signed in (Sessions), or one of *)
(* support stands in for an owner.  The two keep tables of their own.       *)

AccessInit == SessionsInit /\ ImpersonationInit

AccessNext ==
    \/ SessionsNext /\ UNCHANGED impersonationVars
    \/ ImpersonationNext /\ UNCHANGED sessionVars

AccessSpec == AccessInit /\ [][AccessNext]_<<sessionVars, impersonationVars>>

-----------------------------------------------------------------------------
(* Properties *)

\* Rows are typed, an end is stamped with its status, an owner session names
\* its target in both columns or in neither, or as two people the console gave.
ImpersonationTypeOK ==
    /\ \A s \in Impersonations :
          shoes[s] # Null =>
             /\ shoes[s] \in Rows
             /\ (shoes[s].status = "ACTIVE") <=> (shoes[s].ended = Null)
             /\ shoes[s].type = "OWNER" =>
                   ((shoes[s].user = Null) <=> (shoes[s].owner = Null))
    /\ standing \in [Targets -> Standings]
    /\ \A q \in Visitors :
          visits[q] # Null => visits[q].at \in {"session", "owner", "served", "refused"}

\* authenticate(): "a terminated session must stop working on the next request,
\* not when the ~60-minute token expires", and the request is a read as the
\* person the session was opened for: so every request that is served.
StoodInForAsLongAsAllowed ==
    \A q \in Visitors :
        (visits[q] # Null /\ visits[q].at = "served") =>
            LET row == shoes[visits[q].session]
            IN  /\ ~visits[q].late
                /\ visits[q].method \in READ_ONLY_METHODS
                /\ row.type = "OWNER" /\ visits[q].target \in {row.user, row.owner}

\* Refresh rotation, recovery codes, impersonation: a session ends for a cause, a recovery
\* code opens the way once, and who stands in for an owner does so for as long as that was
\* granted (rotate, consumeCode, authenticate).
AccessEndsForCause == SignedOutForCause /\ RecoveryCodeOnce /\ StoodInForAsLongAsAllowed

=============================================================================
