------------------------------ MODULE StaffTeam ------------------------------
(***************************************************************************)
(* The accounts of a hotel's staff, from the three ends that write them:   *)
(* the hotel's own managers and HR (StaffTeamService), the owner           *)
(* (OwnerPortalService) and the platform (StaffService).  A request passes *)
(* the guard, reads the account it is about and writes it later; another   *)
(* request may come in between.                                            *)
(***************************************************************************)
EXTENDS Absent, Integers, FiniteSets

CONSTANTS
    Staff,       \* rows of hotel_staff
    Founders,    \* the rows there at first -> [role, email]
    Emails,
    OtherRoles,  \* operational roles, e.g. RECEPTIONIST
    Stopped,     \* the statuses that stop an account: BLOCKED, SUSPENDED, DEACTIVATED
    Callers      \* requests that run at once

VARIABLES
    staff,       \* row -> [role, status, email, live], or Null
    hotelArchived,    \* the owner archived the hotel
    calls,       \* caller -> what it is in the middle of
    put,         \* rows somebody who may approve put into service
    overtaken    \* rows brought back by a decision taken before they were stopped

teamVars == <<staff, hotelArchived, calls, put, overtaken>>

MANAGEMENT_ROLES == {"GENERAL_MANAGER", "ASSISTANT_GENERAL_MANAGER"}
Roles == MANAGEMENT_ROLES \cup {"HR"} \cup OtherRoles
Statuses == {"INVITED", "PENDING_APPROVAL", "APPROVED", "ACTIVE"} \cup Stopped

\* What a role may do to the team; an AGM is a GM without what is withheld.
AGM_WITHHELD == {"staff.delete"}
Team == {"staff.create", "staff.update", "staff.approve", "staff.delete"}
permissionsForRole(role) ==
    CASE role = "GENERAL_MANAGER" -> Team
      [] role = "ASSISTANT_GENERAL_MANAGER" -> Team \ AGM_WITHHELD
      [] role = "HR" -> {"staff.create", "staff.update"}
      [] OTHER -> {}

staffCreatableRoleValues == Roles \ MANAGEMENT_ROLES

creatableRolesFor(role) ==
    IF "staff.create" \notin permissionsForRole(role) THEN {}
    ELSE IF role = "HR" THEN staffCreatableRoleValues \ {role}
    ELSE staffCreatableRoleValues

NoCall == [step |-> "IDLE"]
AccountRow(role, status, email) == [role |-> role, status |-> status, email |-> email, live |-> TRUE]
Exists(s) == staff[s] # Null /\ staff[s].live

TeamInit ==
    /\ staff = [s \in Staff |-> IF s \in DOMAIN Founders
                                THEN AccountRow(Founders[s].role, "ACTIVE", Founders[s].email) ELSE Null]
    /\ hotelArchived = FALSE
    /\ calls = [c \in Callers |-> NoCall]
    /\ put = DOMAIN Founders
    /\ overtaken = {}

(***************************************************************************)
(* A request arrives.  The guard reads the caller's row: it must be live   *)
(* and ACTIVE, and its role is the one the whole request goes by.          *)
(***************************************************************************)
canActivate(c, me) ==
    /\ calls[c] = NoCall
    /\ Exists(me) /\ staff[me].status = "ACTIVE"
    /\ calls' = [calls EXCEPT ![c] = [step |-> "GUARDED", me |-> me, role |-> staff[me].role]]
    /\ UNCHANGED <<staff, hotelArchived, put, overtaken>>

Has(c, permission) == permission \in permissionsForRole(calls[c].role)

\* (property_id, email) is unique among the rows that are not deleted.
EmailTaken(email, except) == \E s \in Staff \ {except} : Exists(s) /\ staff[s].email = email

Insert(role, status, email) ==
    \E s \in Staff : /\ staff[s] = Null
                     /\ \A t \in Staff : ~EmailTaken(email, t)
                     /\ staff' = [staff EXCEPT ![s] = AccountRow(role, status, email)]
                     /\ put' = IF status = "ACTIVE" THEN put \cup {s} ELSE put

\* HR's accounts wait, whatever its body asks for.
StatusOfNew(c, activate) ==
    IF Has(c, "staff.approve") /\ activate THEN "ACTIVE" ELSE "PENDING_APPROVAL"

create(c) ==
    /\ calls[c].step = "GUARDED" /\ Has(c, "staff.create")
    /\ \E role \in creatableRolesFor(calls[c].role), email \in Emails, activate \in BOOLEAN :
          Insert(role, StatusOfNew(c, activate), email)
    /\ calls' = [calls EXCEPT ![c] = NoCall]
    /\ UNCHANGED <<hotelArchived, overtaken>>

\* The write a decision leaves to be made; `may`: whoever took it may approve.
Write(s, status, may) ==
    [step |-> "WRITE", row |-> s, status |-> status, stopped |-> staff[s].status \in Stopped, may |-> may]

\* The one choke point: a live account of the hotel, and never one's own.
requireTeamMember(c, s) == calls[c].me # s /\ Exists(s)

Decide(c, s, status) ==
    /\ calls' = [calls EXCEPT ![c] = Write(s, status, Has(c, "staff.approve"))]
    /\ UNCHANGED <<staff, hotelArchived, put, overtaken>>

approve(c, s) ==
    /\ calls[c].step = "GUARDED" /\ Has(c, "staff.approve")
    /\ requireTeamMember(c, s)
    /\ staff[s].status \in {"PENDING_APPROVAL", "APPROVED"}
    /\ Decide(c, s, "ACTIVE")

\* Mutation for ServedByApproval: staff.update buys the way into service too.
MoveAllowedToAll(c, status) == Has(c, "staff.update")

MoveAllowed(c, status) == Has(c, "staff.update") /\ (status = "ACTIVE" => Has(c, "staff.approve"))

setStatus(c, s) ==
    /\ calls[c].step = "GUARDED"
    /\ \E status \in {"ACTIVE"} \cup Stopped :
          /\ MoveAllowed(c, status)
          /\ requireTeamMember(c, s)
          /\ Decide(c, s, status)

remove(c, s) ==
    /\ calls[c].step = "GUARDED" /\ Has(c, "staff.delete")
    /\ requireTeamMember(c, s)
    /\ calls' = [calls EXCEPT ![c] = [step |-> "DELETE", row |-> s]]
    /\ UNCHANGED <<staff, hotelArchived, put, overtaken>>

TurnedAway(c) ==
    /\ calls[c].step = "GUARDED"
    /\ calls' = [calls EXCEPT ![c] = NoCall]
    /\ UNCHANGED <<staff, hotelArchived, put, overtaken>>

(***************************************************************************)
(* The owner, who appoints management and whose accounts are in service at *)
(* once, and the platform, which may set any account's status.             *)
(***************************************************************************)
createStaff ==
    /\ ~hotelArchived
    /\ \E role \in MANAGEMENT_ROLES, email \in Emails : Insert(role, "ACTIVE", email)
    /\ UNCHANGED <<hotelArchived, calls, overtaken>>

loadOwnedStaff(c, s) == calls[c] = NoCall /\ ~hotelArchived /\ Exists(s)

setStaffStatus(c, s) ==
    /\ loadOwnedStaff(c, s)
    /\ \E status \in {"ACTIVE", "BLOCKED"} :
          calls' = [calls EXCEPT ![c] = Write(s, status, TRUE)]
    /\ UNCHANGED <<staff, hotelArchived, put, overtaken>>

setStatusByAdmin(c, s) ==
    /\ calls[c] = NoCall /\ Exists(s)
    /\ \E status \in {"ACTIVE"} \cup Stopped :
          calls' = [calls EXCEPT ![c] = Write(s, status, TRUE)]
    /\ UNCHANGED <<staff, hotelArchived, put, overtaken>>

deleteStaff(c, s) ==
    /\ loadOwnedStaff(c, s)
    /\ calls' = [calls EXCEPT ![c] = [step |-> "DELETE", row |-> s]]
    /\ UNCHANGED <<staff, hotelArchived, put, overtaken>>

\* A new address is probed first; a role may only move between the two of management,
\* whatever the account's role is.
updateStaff(c, s) ==
    /\ loadOwnedStaff(c, s)
    /\ \E role \in MANAGEMENT_ROLES \cup {staff[s].role}, email \in Emails :
          /\ <<role, email>> # <<staff[s].role, staff[s].email>>
          /\ email # staff[s].email => ~EmailTaken(email, s)
          /\ calls' = [calls EXCEPT ![c] = [step |-> "PATCH", row |-> s, role |-> role, email |-> email,
                                            regraded |-> role # staff[s].role,
                                            moved |-> email # staff[s].email]]
    /\ UNCHANGED <<staff, hotelArchived, put, overtaken>>

archiveProperty ==
    /\ ~hotelArchived /\ hotelArchived' = TRUE
    /\ UNCHANGED <<staff, calls, put, overtaken>>

(***************************************************************************)
(* The writes, by the row's id alone: what was read is not asked again.    *)
(***************************************************************************)
WriteStatus(c) ==
    LET q == calls[c]
        s == q.row
    IN  /\ q.step = "WRITE"
        /\ staff' = [staff EXCEPT ![s].status = q.status]
        /\ put' = IF q.status # "ACTIVE" THEN put \ {s} ELSE IF q.may THEN put \cup {s} ELSE put
        /\ overtaken' = IF q.status # "ACTIVE" THEN overtaken \ {s}
                        ELSE IF staff[s].status \in Stopped /\ ~q.stopped
                        THEN overtaken \cup {s} ELSE overtaken
        /\ calls' = [calls EXCEPT ![c] = NoCall]
        /\ UNCHANGED hotelArchived

Delete(c) ==
    /\ calls[c].step = "DELETE"
    /\ staff' = [staff EXCEPT ![calls[c].row].live = FALSE]
    /\ calls' = [calls EXCEPT ![c] = NoCall]
    /\ UNCHANGED <<hotelArchived, put, overtaken>>

Patch(c) ==
    LET q == calls[c]
        s == q.row
    IN  /\ q.step = "PATCH"
        /\ staff' = IF q.moved /\ staff[s].live /\ EmailTaken(q.email, s) THEN staff
                    ELSE [staff EXCEPT ![s].role = IF q.regraded THEN q.role ELSE @,
                                       ![s].email = IF q.moved THEN q.email ELSE @]
        /\ calls' = [calls EXCEPT ![c] = NoCall]
        /\ UNCHANGED <<hotelArchived, put, overtaken>>

TeamNext ==
    \/ createStaff \/ archiveProperty
    \/ \E c \in Callers : \/ create(c) \/ TurnedAway(c) \/ WriteStatus(c) \/ Delete(c) \/ Patch(c)
                          \/ \E s \in Staff : \/ canActivate(c, s) \/ approve(c, s) \/ setStatus(c, s)
                                              \/ remove(c, s) \/ setStaffStatus(c, s)
                                              \/ setStatusByAdmin(c, s) \/ deleteStaff(c, s)
                                              \/ updateStaff(c, s)

TeamSpec == TeamInit /\ [][TeamNext]_teamVars

(***************************************************************************)
(* Properties.                                                             *)
(***************************************************************************)

\* Rows have their columns.
TeamTypeOK ==
    /\ \A s \in Staff : staff[s] # Null => staff[s] \in [role : Roles, status : Statuses,
                                                         email : Emails, live : BOOLEAN]
    /\ hotelArchived \in BOOLEAN /\ put \subseteq Staff /\ overtaken \subseteq Staff

\* setStatus: "This is what stops HR from raising a row and then activating it itself":
\* whoever is in service was put there by somebody who may approve, by way of create,
\* approve, setStatus, the owner or the platform, in any order and however they overlap.
ServedByApproval == \A s \in Staff : Exists(s) /\ staff[s].status = "ACTIVE" => s \in put

\* approve: "Cannot approve a member in status BLOCKED".  The status is read and the row
\* is written by its id, so that an approval undoes a block that came in between.
StoppedStaysStopped == overtaken = {}

=============================================================================
