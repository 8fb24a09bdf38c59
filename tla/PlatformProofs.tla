--------------------------- MODULE PlatformProofs ---------------------------
(***************************************************************************)
(* What is proved of five components of the platform: nobody serves        *)
(* unapproved in a hotel's team, a booking of the channel is booked once,  *)
(* a price that somebody typed, or that a rule made, stands, a             *)
(* notification is handed over once, and guests are written to once and    *)
(* read; for any team, bookings, nights, rules, rows, drains, threads and  *)
(* requests at once.                                                       *)
(***************************************************************************)
EXTENDS StaffTeam, Channels, RevenueEngine, Notifications, Conversations, FiniteSetTheorems,
        SequenceTheorems, WellFoundedInduction, TLAPS

(***************************************************************************)
(* The staff of a hotel.                                                   *)
(***************************************************************************)

Shaped(row) == DOMAIN row = {"role", "status", "email", "live"}

\* A write that is under way is about a row, and one that puts it into service was decided
\* by somebody who may approve.
TeamInv ==
    /\ DOMAIN staff = Staff /\ DOMAIN calls = Callers
    /\ \A s \in Staff : Exists(s) => Shaped(staff[s])
    /\ \A c \in Callers :
          /\ calls[c].step \in {"WRITE", "DELETE", "PATCH"} =>
                calls[c].row \in Staff /\ Shaped(staff[calls[c].row])
          /\ calls[c].step = "WRITE" /\ calls[c].status = "ACTIVE" => calls[c].may
    /\ ServedByApproval

\* A request that is read, guarded or refused changes no account.
LEMMA CallKeeps ==
    ASSUME TeamInv, NEW c \in Callers, NEW call,
           call.step \in {"WRITE", "DELETE", "PATCH"} =>
              call.row \in Staff /\ Shaped(staff[call.row]),
           call.step = "WRITE" /\ call.status = "ACTIVE" => call.may,
           calls' = [calls EXCEPT ![c] = call], staff' = staff, put' = put
    PROVE  TeamInv'
  BY DEF TeamInv, Exists, ServedByApproval

\* An account that is added is in service only as somebody who may approve asked.
LEMMA InsertKeeps ==
    ASSUME TeamInv, NEW role, NEW status, NEW email, Insert(role, status, email)
    PROVE  /\ DOMAIN staff' = Staff
           /\ \A s \in Staff : Exists(s)' => Shaped(staff[s])'
           /\ \A s \in Staff : Shaped(staff[s]) => Shaped(staff[s])'
           /\ ServedByApproval'
  <1>1. PICK s \in Staff : /\ staff' = [staff EXCEPT ![s] = AccountRow(role, status, email)]
                           /\ put' = IF status = "ACTIVE" THEN put \cup {s} ELSE put
    BY DEF Insert
  <1>2. Shaped(AccountRow(role, status, email)) /\ AccountRow(role, status, email).status = status
    BY DEF Shaped, AccountRow
  <1>3. QED
    BY <1>1, <1>2 DEF TeamInv, Exists, ServedByApproval

\* One row is changed and the request is over.
LEMMA WriteKeeps ==
    ASSUME TeamInv, NEW c \in Callers, NEW s \in Staff, NEW row, Shaped(row),
           staff' = [staff EXCEPT ![s] = row] \/ staff' = staff,
           calls' = [calls EXCEPT ![c] = NoCall],
           \A t \in Staff \ {s} : t \in put => t \in put',
           Exists(s)' /\ staff'[s].status = "ACTIVE" => s \in put'
    PROVE  TeamInv'
  <1>1. NoCall.step \notin {"WRITE", "DELETE", "PATCH"}
    BY DEF NoCall
  <1>2. \A t \in Staff : Shaped(staff[t]) => Shaped(staff'[t])
    BY DEF TeamInv
  <1>3. \A t \in Staff : Exists(t)' => Shaped(staff'[t])
    BY DEF TeamInv, Exists
  <1>4. ServedByApproval'
    BY DEF TeamInv, Exists, ServedByApproval
  <1>5. QED
    BY <1>1, <1>2, <1>3, <1>4 DEF TeamInv

\* Nobody serves but by a decision of somebody who may approve: neither HR, nor a request
\* that was read before the account was stopped, nor two of them at once.
THEOREM NobodyServesUnapproved ==
    ASSUME ~Shaped(Null)
    PROVE  TeamSpec => []ServedByApproval
  <1>1. TeamInit => TeamInv
    <2> SUFFICES ASSUME TeamInit PROVE TeamInv
      OBVIOUS
    <2>1. \A s \in Staff : Exists(s) => Shaped(staff[s])
      BY DEF TeamInit, Exists, Shaped, AccountRow
    <2>2. \A s \in Staff : Exists(s) /\ staff[s].status = "ACTIVE" => s \in put
      BY DEF TeamInit, Exists, AccountRow
    <2>3. \A c \in Callers : calls[c].step = "IDLE"
      BY DEF TeamInit, NoCall
    <2>4. QED
      BY <2>1, <2>2, <2>3 DEF TeamInit, TeamInv, ServedByApproval
  <1>2. TeamInv /\ [TeamNext]_teamVars => TeamInv'
    <2> SUFFICES ASSUME TeamInv, [TeamNext]_teamVars PROVE TeamInv'
      OBVIOUS
    <2>1. CASE createStaff
      <3>1. PICK role, email : Insert(role, "ACTIVE", email)
        BY <2>1 DEF createStaff
      <3>2. calls' = calls
        BY <2>1 DEF createStaff
      <3>3. QED
        BY <3>1, <3>2, InsertKeeps DEF TeamInv
    <2>2. CASE archiveProperty \/ UNCHANGED teamVars
      BY <2>2 DEF archiveProperty, teamVars, TeamInv, Exists, ServedByApproval
    <2>3. ASSUME NEW c \in Callers, create(c) PROVE TeamInv'
      <3>1. PICK role, email, activate : Insert(role, StatusOfNew(c, activate), email)
        BY <2>3 DEF create
      <3>2. calls' = [calls EXCEPT ![c] = NoCall]
        BY <2>3 DEF create
      <3>3. QED
        BY <3>1, <3>2, InsertKeeps DEF TeamInv, NoCall
    <2>4. ASSUME NEW c \in Callers, TurnedAway(c) PROVE TeamInv'
      BY <2>4, CallKeeps DEF TurnedAway, NoCall
    <2>5. ASSUME NEW c \in Callers, WriteStatus(c) PROVE TeamInv'
      <3> DEFINE s == calls[c].row
                 row == [staff[s] EXCEPT !.status = calls[c].status]
      <3>1. s \in Staff /\ Shaped(staff[s])
        BY <2>5 DEF WriteStatus, TeamInv
      <3>2. Shaped(row) /\ row.status = calls[c].status
        BY <3>1 DEF Shaped
      <3>3. staff' = [staff EXCEPT ![s] = row] /\ calls' = [calls EXCEPT ![c] = NoCall]
        BY <2>5 DEF WriteStatus
      <3>4. /\ \A t \in Staff \ {s} : t \in put => t \in put'
            /\ calls[c].status = "ACTIVE" => s \in put'
        BY <2>5 DEF WriteStatus, TeamInv
      <3> HIDE DEF s, row
      <3>5. staff'[s] = row
        BY <3>1, <3>3 DEF TeamInv
      <3>6. QED
        BY <3>1, <3>2, <3>3, <3>4, <3>5, WriteKeeps
    <2>6. ASSUME NEW c \in Callers, Delete(c) PROVE TeamInv'
      <3> DEFINE s == calls[c].row
                 row == [staff[s] EXCEPT !.live = FALSE]
      <3>1. s \in Staff /\ Shaped(staff[s])
        BY <2>6 DEF Delete, TeamInv
      <3>2. Shaped(row) /\ row.live = FALSE
        BY <3>1 DEF Shaped
      <3>3. staff' = [staff EXCEPT ![s] = row] /\ calls' = [calls EXCEPT ![c] = NoCall] /\ put' = put
        BY <2>6 DEF Delete
      <3> HIDE DEF s, row
      <3>4. staff'[s].live = FALSE
        BY <3>1, <3>2, <3>3 DEF TeamInv
      <3>5. QED
        BY <3>1, <3>2, <3>3, <3>4, WriteKeeps DEF Exists
    <2>7. ASSUME NEW c \in Callers, Patch(c) PROVE TeamInv'
      <3>1. PICK s \in Staff : s = calls[c].row /\ Shaped(staff[s])
        BY <2>7 DEF Patch, TeamInv
      <3> DEFINE q == calls[c]
                 row == [staff[s] EXCEPT !.role = IF q.regraded THEN q.role ELSE @,
                                         !.email = IF q.moved THEN q.email ELSE @]
      <3>2. staff' = staff \/ staff' = [staff EXCEPT ![s] = row]
        BY <2>7, <3>1 DEF Patch, TeamInv
      <3>3. calls' = [calls EXCEPT ![c] = NoCall] /\ put' = put
        BY <2>7 DEF Patch
      <3>4. Shaped(row) /\ row.live = staff[s].live /\ row.status = staff[s].status
        BY <3>1 DEF Shaped
      <3> HIDE DEF q, row
      <3>5. staff'[s].live = staff[s].live /\ staff'[s].status = staff[s].status
        BY <3>1, <3>2, <3>4 DEF TeamInv
      <3>6. staff[s] # Null
        BY <3>1
      <3>7. Exists(s)' /\ staff'[s].status = "ACTIVE" => s \in put'
        BY <3>3, <3>5, <3>6 DEF TeamInv, Exists, ServedByApproval
      <3>8. PICK new : new = row
        OBVIOUS
      <3>9. QED
        BY <3>2, <3>3, <3>4, <3>7, <3>8, WriteKeeps
    <2>8. ASSUME NEW c \in Callers, NEW s \in Staff, canActivate(c, s) PROVE TeamInv'
      BY <2>8, CallKeeps DEF canActivate
    <2>9. ASSUME NEW c \in Callers, NEW s \in Staff, approve(c, s) \/ setStatus(c, s)
          PROVE  TeamInv'
      <3>1. PICK status : /\ Decide(c, s, status) /\ Exists(s)
                          /\ status = "ACTIVE" => Has(c, "staff.approve")
        BY <2>9 DEF approve, setStatus, requireTeamMember, MoveAllowed
      <3> DEFINE call == Write(s, status, Has(c, "staff.approve"))
      <3>2. /\ call.step = "WRITE" /\ call.row = s /\ call.status = status
            /\ call.may = Has(c, "staff.approve")
        BY DEF Write
      <3>3. calls' = [calls EXCEPT ![c] = call] /\ staff' = staff /\ put' = put
        BY <3>1 DEF Decide
      <3> HIDE DEF call
      <3>4. QED
        BY <3>1, <3>2, <3>3, CallKeeps DEF TeamInv
    <2>10. ASSUME NEW c \in Callers, NEW s \in Staff,
                  setStaffStatus(c, s) \/ setStatusByAdmin(c, s)
           PROVE  TeamInv'
      <3>1. PICK status : calls' = [calls EXCEPT ![c] = Write(s, status, TRUE)]
        BY <2>10 DEF setStaffStatus, setStatusByAdmin
      <3>2. Exists(s) /\ staff' = staff /\ put' = put
        BY <2>10 DEF setStaffStatus, setStatusByAdmin, loadOwnedStaff
      <3>3. QED
        BY <3>1, <3>2, CallKeeps DEF TeamInv, Write
    <2>11. ASSUME NEW c \in Callers, NEW s \in Staff, remove(c, s) \/ deleteStaff(c, s)
           PROVE  TeamInv'
      <3>1. /\ calls' = [calls EXCEPT ![c] = [step |-> "DELETE", row |-> s]]
            /\ Exists(s) /\ staff' = staff /\ put' = put
        BY <2>11 DEF remove, deleteStaff, requireTeamMember, loadOwnedStaff
      <3>2. QED
        BY <3>1, CallKeeps DEF TeamInv
    <2>12. ASSUME NEW c \in Callers, NEW s \in Staff, updateStaff(c, s) PROVE TeamInv'
      <3>1. PICK role, email :
               calls' = [calls EXCEPT ![c] = [step |-> "PATCH", row |-> s, role |-> role,
                                              email |-> email, regraded |-> role # staff[s].role,
                                              moved |-> email # staff[s].email]]
        BY <2>12 DEF updateStaff
      <3>2. Exists(s) /\ staff' = staff /\ put' = put
        BY <2>12 DEF updateStaff, loadOwnedStaff
      <3>3. QED
        BY <3>1, <3>2, CallKeeps DEF TeamInv
    <2>13. QED
      BY <2>1, <2>2, <2>3, <2>4, <2>5, <2>6, <2>7, <2>8, <2>9, <2>10, <2>11, <2>12 DEF TeamNext
  <1>3. TeamInv => ServedByApproval
    BY DEF TeamInv
  <1>4. QED
    BY <1>1, <1>2, <1>3, PTL DEF TeamSpec

-----------------------------------------------------------------------------
(* The channel manager *)

RunFields == {"step", "event", "left", "booking", "row", "ok", "errors", "since", "mapped"}

\* A run that has looked a booking up and not found it, up to the stamp.
Ingesting(x) == x.step \in {"CREATE", "STAMP"}
Handling(b) == {r \in Runs : Ingesting(runs[r]) /\ runs[r].booking = b}

RowsOf(b) == {i \in DOMAIN stays : stays[i].from = b}

\* What a run has in hand is a booking, and its own row once that is made.
InHand(x) ==
    /\ DOMAIN x = RunFields
    /\ Ingesting(x) => x.booking \in Sold
    /\ x.step = "STAMP" => x.row \in RowsOf(x.booking)

\* While the handlers of a booking do not meet: it has a row at most, which bears its
\* reference unless the only handler is about to stamp it, and none before it is created.
Once(b) ==
    /\ \A r, s \in Handling(b) : r = s
    /\ \A i, j \in RowsOf(b) : i = j
    /\ \A i \in RowsOf(b) :
          stays[i].ref = b \/ \E r \in Handling(b) : runs[r].step = "STAMP" /\ runs[r].row = i
    /\ \A r \in Handling(b) : runs[r].step = "CREATE" => RowsOf(b) = {}

ChannelInv ==
    /\ DOMAIN runs = Runs /\ stays \in Seq(StayRows)
    /\ \A r \in Runs : InHand(runs[r])
    /\ \A i \in DOMAIN stays : stays[i].ref \in {Null, stays[i].from}
    /\ \A b \in Sold \ raced : Once(b)

\* A row is added behind those there are.
LEMMA Appended ==
    ASSUME NEW S, NEW s \in Seq(S), NEW x \in S, NEW t, t = Append(s, x)
    PROVE  /\ t \in Seq(S) /\ DOMAIN t = DOMAIN s \cup {Len(t)} /\ Len(t) \notin DOMAIN s
           /\ \A i \in DOMAIN s : t[i] = s[i]
           /\ t[Len(t)] = x
  OBVIOUS

\* The stays keep where they came from and the reference they bear.
SameRows ==
    /\ stays' \in Seq(StayRows) /\ DOMAIN stays' = DOMAIN stays
    /\ \A i \in DOMAIN stays : stays'[i].from = stays[i].from /\ stays'[i].ref = stays[i].ref

\* The runs go on with the bookings they have.
LEMMA RowsRest ==
    ASSUME ChannelInv, SameRows, runs' = runs, raced \subseteq raced'
    PROVE  ChannelInv'
  <1>1. \A b : RowsOf(b)' = RowsOf(b) /\ Handling(b)' = Handling(b)
    BY DEF RowsOf, Handling, SameRows
  <1>2. \A r \in Runs : InHand(runs[r])'
    BY <1>1 DEF InHand, ChannelInv
  <1>3. ASSUME NEW b \in Sold, Once(b) PROVE Once(b)'
    <2>1. \A i \in RowsOf(b) : stays'[i].ref = stays[i].ref
      BY DEF RowsOf, SameRows
    <2>2. QED
      BY <1>1, <1>3, <2>1 DEF Once
  <1>4. QED
    BY <1>2, <1>3 DEF ChannelInv, SameRows

\* A run goes on that has no row to stamp, and takes no booking up.
LEMMA RunGoesOn ==
    ASSUME ChannelInv, stays' = stays, raced \subseteq raced', NEW r \in Runs, NEW x,
           runs[r].step # "STAMP", DOMAIN x = RunFields, ~Ingesting(x),
           runs' = [runs EXCEPT ![r] = x]
    PROVE  ChannelInv'
  <1>1. \A s \in Runs : runs'[s] = IF s = r THEN x ELSE runs[s]
    BY DEF ChannelInv
  <1>2. \A b : RowsOf(b)' = RowsOf(b) /\ Handling(b)' = Handling(b) \ {r}
    BY <1>1 DEF RowsOf, Handling
  <1>3. \A s \in Runs : InHand(runs[s])'
    BY <1>1, <1>2 DEF InHand, ChannelInv, Ingesting
  <1>4. ASSUME NEW b \in Sold, Once(b) PROVE Once(b)'
    <2>1. \A s \in Handling(b)' : runs'[s] = runs[s]
      BY <1>1, <1>2 DEF Handling
    <2>2. \A s \in Handling(b) : runs[s].step = "STAMP" => s \in Handling(b)'
      BY <1>2
    <2>3. QED
      BY <1>2, <1>4, <2>1, <2>2 DEF Once
  <1>5. DOMAIN runs' = Runs
    BY DEF ChannelInv
  <1>6. QED
    BY <1>3, <1>4, <1>5 DEF ChannelInv

\* A booking is taken up after a look that found it nowhere.
LEMMA LookKeeps ==
    ASSUME ChannelInv, NEW r \in Runs, NEW b \in Sold, IngestLook(r, b)
    PROVE  ChannelInv'
  <1>1. /\ runs[r].step = "NEXT" /\ DOMAIN runs[r] = RunFields /\ stays' = stays
        /\ raced' = IF Meets(r, b) THEN raced \cup {b} ELSE raced
    BY DEF IngestLook, ChannelInv, InHand
  <1>2. CASE Imported(b) \/ ~Ingestible(r, b)
    <2> DEFINE x == [runs[r] EXCEPT !.left = @ \ {b}]
    <2>1. runs' = [runs EXCEPT ![r] = x]
      BY <1>2 DEF IngestLook
    <2>2. DOMAIN x = RunFields /\ x.step = "NEXT"
      BY <1>1 DEF RunFields
    <2> HIDE DEF x
    <2>3. QED
      BY <1>1, <2>1, <2>2, RunGoesOn DEF Ingesting
  <1>3. CASE ~Imported(b) /\ Ingestible(r, b)
    <2> DEFINE x == [runs[r] EXCEPT !.step = "CREATE", !.booking = b, !.left = @ \ {b}]
    <2>1. runs' = [runs EXCEPT ![r] = x]
      BY <1>3 DEF IngestLook
    <2>2. DOMAIN x = RunFields /\ x.step = "CREATE" /\ x.booking = b
      BY <1>1 DEF RunFields
    <2> HIDE DEF x
    <2>3. DOMAIN runs' = Runs /\ \A s \in Runs : runs'[s] = IF s = r THEN x ELSE runs[s]
      BY <2>1 DEF ChannelInv
    <2>4. /\ \A c : RowsOf(c)' = RowsOf(c)
          /\ Handling(b)' = Handling(b) \cup {r}
          /\ \A c \in Sold \ {b} : Handling(c)' = Handling(c)
      BY <1>1, <2>2, <2>3 DEF RowsOf, Handling, Ingesting
    <2>5. \A s \in Runs : InHand(runs[s])'
      BY <2>2, <2>3, <2>4 DEF InHand, ChannelInv, Ingesting
    <2>6. ASSUME b \notin raced' PROVE Once(b)'
      <3>1. Once(b) /\ ~Meets(r, b)
        BY <1>1, <2>6 DEF ChannelInv
      <3>2. Handling(b) = {}
        BY <1>1, <3>1 DEF Meets, Handling, Ingesting
      <3>3. RowsOf(b) = {}
        BY <1>3, <3>1, <3>2 DEF Once, Imported, RowsOf
      <3>4. Handling(b)' = {r} /\ RowsOf(b)' = {}
        BY <2>4, <3>2, <3>3
      <3>5. QED
        BY <3>4 DEF Once
    <2>7. ASSUME NEW c \in Sold \ {b}, Once(c) PROVE Once(c)'
      <3>1. \A s \in Handling(c) : runs'[s] = runs[s]
        BY <1>1, <2>3 DEF Handling, Ingesting
      <3>2. QED
        BY <1>1, <2>4, <2>7, <3>1 DEF Once
    <2>8. QED
      BY <1>1, <2>3, <2>5, <2>6, <2>7 DEF ChannelInv
  <1>4. QED
    BY <1>2, <1>3

\* The reservation is made by the one handler of the booking, which has it stamp its row.
LEMMA CreateKeeps ==
    ASSUME ChannelInv, NEW r \in Runs, IngestCreate(r)
    PROVE  ChannelInv'
  <1>1. PICK b \in Sold :
           /\ runs[r].step = "CREATE" /\ DOMAIN runs[r] = RunFields /\ runs[r].booking = b
           /\ raced' = raced
    BY DEF IngestCreate, ChannelInv, InHand, Ingesting
  <1>2. ASSUME stays' = stays,
               runs' = [runs EXCEPT ![r].step = "NEXT", ![r].booking = Null]
        PROVE  ChannelInv'
    <2> DEFINE x == [runs[r] EXCEPT !.step = "NEXT", !.booking = Null]
    <2>1. runs' = [runs EXCEPT ![r] = x]
      BY <1>2
    <2>2. DOMAIN x = RunFields /\ x.step = "NEXT"
      BY <1>1 DEF RunFields
    <2> HIDE DEF x
    <2>3. QED
      BY <1>1, <1>2, <2>1, <2>2, RunGoesOn DEF Ingesting
  <1>3. ASSUME Books(b, TypeOf[b]),
               runs' = [runs EXCEPT ![r].step = "STAMP", ![r].row = Len(stays')]
        PROVE  ChannelInv'
    <2> DEFINE new == [from |-> b, type |-> TypeOf[b], ref |-> Null, status |-> "CONFIRMED"]
               x == [runs[r] EXCEPT !.step = "STAMP", !.row = Len(stays')]
    <2>1. stays' = Append(stays, new) /\ new \in StayRows /\ new.from = b /\ new.ref = Null
      BY <1>1, <1>3, SoldAssumption DEF Books, StayRows
    <2>2. runs' = [runs EXCEPT ![r] = x]
      BY <1>3
    <2>3. /\ DOMAIN x = RunFields /\ x.step = "STAMP" /\ x.booking = b
          /\ x.row = Len(stays')
      BY <1>1 DEF RunFields
    <2> HIDE DEF new, x
    <2>4. /\ stays' \in Seq(StayRows) /\ DOMAIN stays' = DOMAIN stays \cup {Len(stays')}
          /\ Len(stays') \notin DOMAIN stays /\ stays'[Len(stays')] = new
          /\ \A i \in DOMAIN stays : stays'[i] = stays[i]
      BY <2>1, Appended DEF ChannelInv
    <2>5. DOMAIN runs' = Runs /\ \A s \in Runs : runs'[s] = IF s = r THEN x ELSE runs[s]
      BY <2>2 DEF ChannelInv
    <2>6. PICK made : made = Len(stays')
      OBVIOUS
    <2>7. /\ RowsOf(b)' = RowsOf(b) \cup {made}
          /\ \A c \in Sold \ {b} : RowsOf(c)' = RowsOf(c)
          /\ \A c : Handling(c)' = Handling(c)
      BY <1>1, <2>1, <2>3, <2>4, <2>5, <2>6 DEF RowsOf, Handling, Ingesting
    <2>8. \A s \in Runs : InHand(runs[s])'
      <3>1. InHand(runs[r])'
        BY <1>1, <2>3, <2>5, <2>6, <2>7 DEF InHand
      <3>2. ASSUME NEW s \in Runs \ {r} PROVE InHand(runs[s])'
        <4>1. runs'[s] = runs[s] /\ InHand(runs[s])
          BY <2>5 DEF ChannelInv
        <4>2. ASSUME NEW c \in Sold PROVE RowsOf(c) \subseteq RowsOf(c)'
          BY <2>7
        <4>3. QED
          BY <4>1, <4>2 DEF InHand, Ingesting
      <3>3. QED
        BY <3>1, <3>2
    <2>9. ASSUME Once(b) PROVE Once(b)'
      <3>1. r \in Handling(b)
        BY <1>1 DEF Handling, Ingesting
      <3>2. RowsOf(b)' = {made} /\ \A s \in Handling(b) : s = r
        BY <1>1, <2>7, <2>9, <3>1 DEF Once
      <3>3. r \in Runs /\ runs'[r].step = "STAMP" /\ runs'[r].row = made
        BY <2>3, <2>5, <2>6
      <3>4. QED
        BY <2>7, <3>1, <3>2, <3>3 DEF Once
    <2>10. ASSUME NEW c \in Sold \ {b}, Once(c) PROVE Once(c)'
      <3>1. \A s \in Handling(c) : runs'[s] = runs[s]
        BY <1>1, <2>5 DEF Handling
      <3>2. \A i \in RowsOf(c) : stays'[i] = stays[i]
        BY <2>4 DEF RowsOf
      <3>3. QED
        BY <2>7, <2>10, <3>1, <3>2 DEF Once
    <2>11. \A i \in DOMAIN stays' : stays'[i].ref \in {Null, stays'[i].from}
      BY <2>1, <2>4 DEF ChannelInv
    <2>12. QED
      BY <1>1, <2>4, <2>5, <2>8, <2>9, <2>10, <2>11 DEF ChannelInv
  <1>4. \/ /\ Books(b, TypeOf[b])
           /\ runs' = [runs EXCEPT ![r].step = "STAMP", ![r].row = Len(stays')]
        \/ /\ stays' = stays
           /\ runs' = [runs EXCEPT ![r].step = "NEXT", ![r].booking = Null]
    BY <1>1 DEF IngestCreate
  <1>5. QED
    BY <1>2, <1>3, <1>4

\* The stamp leaves the row with the reference, and the booking without a handler.
LEMMA StampKeeps ==
    ASSUME ChannelInv, NEW r \in Runs, IngestStamp(r)
    PROVE  ChannelInv'
  <1>1. PICK b \in Sold :
           /\ runs[r].step = "STAMP" /\ DOMAIN runs[r] = RunFields /\ runs[r].booking = b
           /\ raced' = raced /\ runs[r].row \in RowsOf(b)
    BY DEF IngestStamp, ChannelInv, InHand, Ingesting
  <1>2. PICK own : own = runs[r].row /\ own \in DOMAIN stays /\ stays[own].from = b
    BY <1>1 DEF RowsOf
  <1>3. b # Null
    BY SoldAssumption
  <1>4. stays' = IF Imported(b) THEN stays ELSE [stays EXCEPT ![own].ref = b]
    BY <1>1, <1>2 DEF IngestStamp
  <1> DEFINE row == [stays[own] EXCEPT !.ref = b]
             x == [runs[r] EXCEPT !.step = "NEXT", !.booking = Null, !.row = 0]
  <1>5. stays[own] \in StayRows /\ stays \in Seq(StayRows)
    BY <1>2 DEF ChannelInv
  <1>6. row \in StayRows /\ row.from = b /\ row.ref = b
    BY <1>2, <1>5 DEF StayRows
  <1>7. stays' = IF Imported(b) THEN stays ELSE [stays EXCEPT ![own] = row]
    BY <1>4
  <1>8. runs' = [runs EXCEPT ![r] = x]
    BY DEF IngestStamp
  <1>9. DOMAIN x = RunFields /\ x.step = "NEXT"
    BY <1>1 DEF RunFields
  <1> HIDE DEF row, x
  <1>10. /\ DOMAIN stays' = DOMAIN stays /\ stays' \in Seq(StayRows)
         /\ \A i \in DOMAIN stays : stays'[i] = IF ~Imported(b) /\ i = own THEN row ELSE stays[i]
    BY <1>2, <1>5, <1>6, <1>7
  <1>11. DOMAIN runs' = Runs /\ \A s \in Runs : runs'[s] = IF s = r THEN x ELSE runs[s]
    BY <1>8 DEF ChannelInv
  <1>12. /\ \A c : RowsOf(c)' = RowsOf(c)
         /\ \A c : Handling(c)' = Handling(c) \ {r}
    BY <1>2, <1>6, <1>9, <1>10, <1>11 DEF RowsOf, Handling, Ingesting
  <1>13. \A s \in Runs : InHand(runs[s])'
    BY <1>9, <1>11, <1>12 DEF InHand, ChannelInv, Ingesting
  <1>14. \A i \in DOMAIN stays' : stays'[i].ref \in {Null, stays'[i].from}
    BY <1>6, <1>10 DEF ChannelInv
  <1>15. ASSUME Once(b) PROVE Once(b)'
    <2>1. r \in Handling(b) /\ own \in RowsOf(b)
      BY <1>1, <1>2 DEF Handling, Ingesting
    <2>2. Handling(b)' = {} /\ RowsOf(b)' = {own}
      BY <1>12, <1>15, <2>1 DEF Once
    <2>3. Imported(b) => stays[own].ref = b
      BY <1>2, <1>3, <1>15, <2>1 DEF Imported, ChannelInv, Once, RowsOf
    <2>4. stays'[own].ref = b
      BY <1>2, <1>6, <1>10, <2>3
    <2>5. QED
      BY <2>2, <2>4 DEF Once
  <1>16. ASSUME NEW c \in Sold \ {b}, Once(c) PROVE Once(c)'
    <2>1. r \notin Handling(c) /\ \A s \in Handling(c) : runs'[s] = runs[s]
      BY <1>1, <1>11 DEF Handling
    <2>2. \A i \in RowsOf(c) : stays'[i] = stays[i]
      BY <1>2, <1>10 DEF RowsOf
    <2>3. QED
      BY <1>12, <1>16, <2>1, <2>2 DEF Once
  <1>17. QED
    BY <1>1, <1>10, <1>11, <1>13, <1>14, <1>15, <1>16 DEF ChannelInv

\* A stay of the house comes from no booking.
LEMMA WalkInKeeps ==
    ASSUME ChannelInv, NEW t \in Types, WalkIn(t)
    PROVE  ChannelInv'
  <1> DEFINE new == [from |-> Null, type |-> t, ref |-> Null, status |-> "CONFIRMED"]
  <1>1. /\ stays' = Append(stays, new) /\ new \in StayRows /\ new.from = Null /\ new.ref = Null
        /\ runs' = runs /\ raced' = raced
    BY DEF WalkIn, Books, StayRows
  <1> HIDE DEF new
  <1>2. /\ stays' \in Seq(StayRows) /\ DOMAIN stays' = DOMAIN stays \cup {Len(stays')}
        /\ stays'[Len(stays')] = new
        /\ \A i \in DOMAIN stays : stays'[i] = stays[i]
    BY <1>1, Appended DEF ChannelInv
  <1>3. ASSUME NEW b \in Sold PROVE RowsOf(b)' = RowsOf(b) /\ Handling(b)' = Handling(b)
    BY <1>1, <1>2, SoldAssumption DEF RowsOf, Handling
  <1>4. \A r \in Runs : InHand(runs[r])'
    BY <1>1, <1>3 DEF InHand, ChannelInv, Ingesting
  <1>5. ASSUME NEW b \in Sold, Once(b) PROVE Once(b)'
    <2>1. \A i \in RowsOf(b) : stays'[i] = stays[i]
      BY <1>2 DEF RowsOf
    <2>2. RowsOf(b)' = RowsOf(b) /\ Handling(b)' = Handling(b) /\ runs' = runs
      BY <1>1, <1>3
    <2>3. QED
      BY <1>5, <2>1, <2>2 DEF Once
  <1>6. QED
    BY <1>1, <1>2, <1>4, <1>5 DEF ChannelInv

\* A crash lets go of every booking; those that had a row without its reference are known.
LEMMA CrashKeeps ==
    ASSUME ChannelInv, ChannelsCrash
    PROVE  ChannelInv'
  <1>1. /\ runs' = [r \in Runs |-> NoRun] /\ stays' = stays
        /\ raced' = raced \cup {runs[r].booking : r \in {s \in Runs : runs[s].step = "STAMP"}}
    BY DEF ChannelsCrash
  <1>2. NoRun.step = "IDLE" /\ DOMAIN NoRun = RunFields
    BY DEF NoRun, RunFields
  <1>3. \A r \in Runs : InHand(runs[r])'
    BY <1>1, <1>2 DEF InHand, Ingesting
  <1>4. \A b : RowsOf(b)' = RowsOf(b) /\ Handling(b)' = {}
    BY <1>1, <1>2 DEF RowsOf, Handling, Ingesting
  <1>5. ASSUME NEW b \in Sold \ raced' PROVE Once(b)'
    <2>1. Once(b) /\ \A r \in Handling(b) : runs[r].step # "STAMP"
      BY <1>1 DEF ChannelInv, Handling
    <2>2. \A i \in RowsOf(b) : stays'[i].ref = b
      BY <1>1, <2>1 DEF Once
    <2>3. QED
      BY <1>4, <2>1, <2>2 DEF Once
  <1>6. QED
    BY <1>1, <1>3, <1>5 DEF ChannelInv

LEMMA ChannelInit ==
    ASSUME ChannelsInit
    PROVE  ChannelInv
  <1>1. NoRun.step = "IDLE" /\ DOMAIN NoRun = RunFields
    BY DEF NoRun, RunFields
  <1>2. \A r \in Runs : runs[r] = NoRun
    BY DEF ChannelsInit
  <1>3. \A r \in Runs : InHand(runs[r])
    BY <1>1, <1>2 DEF InHand, Ingesting
  <1>4. stays = << >> /\ DOMAIN runs = Runs
    BY DEF ChannelsInit
  <1>5. stays \in Seq(StayRows) /\ DOMAIN stays = {}
    BY <1>4
  <1>6. \A b : RowsOf(b) = {} /\ Handling(b) = {}
    BY <1>1, <1>2, <1>5 DEF RowsOf, Handling, Ingesting
  <1>7. \A b \in Sold : Once(b)
    BY <1>6 DEF Once
  <1>8. QED
    BY <1>3, <1>4, <1>5, <1>7 DEF ChannelInv

\* The legs of a run, and the webhook, neither look a booking up nor stamp one.
LEMMA RunKeeps ==
    ASSUME ChannelInv, NEW r \in Runs,
           \/ syncConnection(r) \/ SyncStep(r) \/ HookStep(r)
           \/ \E e \in HookEvents : handleChannexWebhook(r, e)
    PROVE  ChannelInv'
  <1>1. stays' = stays /\ raced' = raced
    BY DEF syncConnection, SyncStep, pushAvailability, pushRates, pullBookings, updateHealth,
           HookStep, processWebhookPayload, WebhookProcessed, handleChannexWebhook
  <1>2. DOMAIN runs[r] = RunFields
    BY DEF ChannelInv, InHand
  <1>3. DOMAIN NoRun = RunFields /\ NoRun.step = "IDLE"
    BY DEF NoRun, RunFields
  <1>4. ASSUME NEW x, DOMAIN x = RunFields, ~Ingesting(x), runs[r].step # "STAMP",
               runs' = [runs EXCEPT ![r] = x]
        PROVE  ChannelInv'
    BY <1>1, <1>4, RunGoesOn
  <1>5. CASE syncConnection(r)
    <2> DEFINE x == [NoRun EXCEPT !.step = "AVAILABILITY", !.errors = connection.errorCount,
                                  !.since = connection.lastSyncAt, !.mapped = connection.mapped]
    <2>1. runs[r] = NoRun /\ runs' = [runs EXCEPT ![r] = x]
      BY <1>5 DEF syncConnection
    <2>2. DOMAIN x = RunFields /\ x.step = "AVAILABILITY"
      BY <1>3 DEF RunFields
    <2> HIDE DEF x
    <2>3. QED
      BY <1>3, <1>4, <2>1, <2>2 DEF Ingesting
  <1>6. ASSUME NEW next, next \notin {"CREATE", "STAMP"}, runs[r].step # "STAMP", LegFails(r, next)
        PROVE  ChannelInv'
    <2> DEFINE x == [runs[r] EXCEPT !.step = next, !.ok = FALSE]
    <2>1. runs' = [runs EXCEPT ![r] = x]
      BY <1>6 DEF LegFails
    <2>2. DOMAIN x = RunFields /\ x.step = next
      BY <1>2 DEF RunFields
    <2> HIDE DEF x
    <2>3. QED
      BY <1>4, <1>6, <2>1, <2>2 DEF Ingesting
  <1>7. ASSUME NEW next, next \notin {"CREATE", "STAMP"}, runs[r].step # "STAMP", NEW left,
               \/ runs' = [runs EXCEPT ![r].step = next]
               \/ runs' = [runs EXCEPT ![r].step = next, ![r].left = left]
        PROVE  ChannelInv'
    <2>1. PICK x : /\ x \in {[runs[r] EXCEPT !.step = next],
                             [runs[r] EXCEPT !.step = next, !.left = left]}
                   /\ runs' = [runs EXCEPT ![r] = x]
      BY <1>7
    <2>2. DOMAIN x = RunFields /\ x.step = next
      BY <1>2, <2>1 DEF RunFields
    <2>3. QED
      BY <1>4, <1>7, <2>1, <2>2 DEF Ingesting
  <1>8. CASE pushAvailability(r) \/ pushRates(r) \/ pullBookings(r)
    BY <1>6, <1>7, <1>8 DEF pushAvailability, pushRates, pullBookings
  <1>9. CASE updateHealth(r) \/ WebhookProcessed(r)
    BY <1>3, <1>4, <1>9 DEF updateHealth, WebhookProcessed, Ingesting
  <1>10. CASE processWebhookPayload(r)
    <2>1. runs[r].step = "HOOK"
      BY <1>10 DEF processWebhookPayload
    <2>2. ASSUME runs' = [runs EXCEPT ![r] = NoRun] PROVE ChannelInv'
      BY <1>3, <1>4, <2>1, <2>2 DEF Ingesting
    <2> DEFINE x == [runs[r] EXCEPT !.step = "NEXT", !.mapped = connection.mapped,
                                    !.left = Uncancelled({runs[r].event[1]} \cap getBookings(0))]
    <2>3. runs' = [runs EXCEPT ![r] = NoRun] \/ runs' = [runs EXCEPT ![r] = x]
      BY <1>10 DEF processWebhookPayload
    <2>4. DOMAIN x = RunFields /\ x.step = "NEXT"
      BY <1>2 DEF RunFields
    <2> HIDE DEF x
    <2>5. QED
      BY <1>4, <2>1, <2>2, <2>3, <2>4 DEF Ingesting
  <1>11. ASSUME NEW e \in HookEvents, handleChannexWebhook(r, e) PROVE ChannelInv'
    <2>1. runs[r] = NoRun
      BY <1>11 DEF handleChannexWebhook
    <2> DEFINE x == [NoRun EXCEPT !.step = "HOOK", !.event = e]
    <2>2. runs' = runs \/ runs' = [runs EXCEPT ![r] = x]
      BY <1>11 DEF handleChannexWebhook
    <2>3. DOMAIN x = RunFields /\ x.step = "HOOK"
      BY <1>3 DEF RunFields
    <2>4. CASE runs' = runs
      BY <1>1, <2>4, RowsRest DEF SameRows, ChannelInv
    <2> HIDE DEF x
    <2>5. QED
      BY <1>3, <1>4, <2>1, <2>2, <2>3, <2>4 DEF Ingesting
  <1>12. QED
    BY <1>5, <1>8, <1>9, <1>10, <1>11 DEF SyncStep, HookStep

LEMMA ChannelNext ==
    ASSUME ChannelInv, [ChannelsNext]_channelVars
    PROVE  ChannelInv'
  <1>1. ASSUME UNCHANGED <<stays, runs, raced>> PROVE ChannelInv'
    BY <1>1, RowsRest DEF SameRows, ChannelInv
  <1>2. ASSUME NEW b \in Sold, BookOnChannel(b) \/ CancelOnChannel(b) PROVE ChannelInv'
    BY <1>1, <1>2 DEF BookOnChannel, CancelOnChannel
  <1>3. ASSUME NEW t \in Types, mapRoomType(t) \/ unmapRoomType(t) PROVE ChannelInv'
    BY <1>1, <1>3 DEF mapRoomType, unmapRoomType
  <1>4. ASSUME NEW i \in DOMAIN stays, CancelStay(i) PROVE ChannelInv'
    <2> DEFINE row == [stays[i] EXCEPT !.status = "CANCELLED"]
    <2>1. stays' = [stays EXCEPT ![i] = row] /\ runs' = runs /\ raced' = raced
      BY <1>4 DEF CancelStay
    <2>2. stays \in Seq(StayRows) /\ stays[i] \in StayRows
      BY DEF ChannelInv
    <2>3. row \in StayRows /\ row.from = stays[i].from /\ row.ref = stays[i].ref
      BY <2>2 DEF StayRows
    <2> HIDE DEF row
    <2>4. SameRows
      BY <2>1, <2>2, <2>3 DEF SameRows
    <2>5. QED
      BY <2>1, <2>4, RowsRest
  <1>5. ASSUME NEW r \in Runs, IngestStep(r) PROVE ChannelInv'
    BY <1>5, LookKeeps, CreateKeeps, StampKeeps DEF IngestStep
  <1>6. CASE Tick \/ UNCHANGED channelVars
    BY <1>1, <1>6 DEF Tick, channelVars
  <1>7. ASSUME NEW r \in Runs, syncConnection(r) \/ SyncStep(r) \/ HookStep(r) PROVE ChannelInv'
    BY <1>7, RunKeeps
  <1>8. ASSUME NEW r \in Runs, NEW e \in HookEvents, handleChannexWebhook(r, e) PROVE ChannelInv'
    BY <1>8, RunKeeps
  <1>9. QED
    BY <1>2, <1>3, <1>4, <1>5, <1>6, <1>7, <1>8, WalkInKeeps, CrashKeeps DEF ChannelsNext

\* However often a booking of the channel is announced and fetched, and wherever the process
\* stops, it becomes one reservation, unless two handlers of it met between the look and the
\* stamp, or a crash came between the row and its stamp.
THEOREM ChannelBooksOnce ==
    ChannelsSpec => []BookedOnceUnlessRaced
  <1>1. ChannelsInit => ChannelInv
    BY ChannelInit
  <1>2. ChannelInv /\ [ChannelsNext]_channelVars => ChannelInv'
    BY ChannelNext
  <1>3. ChannelInv => BookedOnceUnlessRaced
    <2> SUFFICES ASSUME ChannelInv, NEW b \in Sold \ raced
                 PROVE  Cardinality({i \in DOMAIN stays : stays[i].from = b}) <= 1
      BY DEF BookedOnceUnlessRaced
    <2>1. \A i, j \in {k \in DOMAIN stays : stays[k].from = b} : i = j
      BY DEF ChannelInv, Once, RowsOf
    <2>2. CASE {k \in DOMAIN stays : stays[k].from = b} = {}
      BY <2>2, FS_EmptySet
    <2>3. CASE {k \in DOMAIN stays : stays[k].from = b} # {}
      <3>1. PICK i : {k \in DOMAIN stays : stays[k].from = b} = {i}
        BY <2>1, <2>3
      <3>2. Cardinality({i}) = 1
        BY FS_Singleton
      <3>3. QED
        BY <3>1, <3>2
    <2>4. QED
      BY <2>2, <2>3
  <1>4. QED
    BY <1>1, <1>2, <1>3, PTL DEF ChannelsSpec

-----------------------------------------------------------------------------
(* Prices *)

\* Every non-empty finite set has a member of the highest rate.
LEMMA Highest ==
    ASSUME NEW S, IsFiniteSet(S), S # {}, NEW rate, \A s \in S : rate[s] \in Int
    PROVE  \E x \in S : \A y \in S : rate[y] <= rate[x]
  <1> DEFINE Bad == {T \in SUBSET S : T # {} /\ ~\E x \in T : \A y \in T : rate[y] <= rate[x]}
  <1>1. SUFFICES ASSUME Bad # {} PROVE FALSE
    OBVIOUS
  <1>2. PICK T \in Bad : \A U \in Bad : ~(<<U, T>> \in StrictSubsetOrdering(S))
    <2>1. Bad \subseteq FiniteSubsetsOf(S)
      BY FS_FiniteSubsetsOfFinite
    <2>2. IsWellFoundedOn(StrictSubsetOrdering(S), FiniteSubsetsOf(S))
      BY FS_StrictSubsetOrderingWellFounded
    <2> HIDE DEF Bad
    <2>3. PICK t \in Bad : TRUE
      BY <1>1
    <2>4. QED
      BY <2>1, <2>2, <2>3, WFMin
  <1>3. PICK t \in T : TRUE
    OBVIOUS
  <1>4. T \ {t} \notin Bad
    BY <1>2, <1>3 DEF StrictSubsetOrdering
  <1>5. CASE T \ {t} = {}
    BY <1>3, <1>5
  <1>6. CASE T \ {t} # {}
    <2>1. PICK m \in T \ {t} : \A y \in T \ {t} : rate[y] <= rate[m]
      BY <1>4, <1>6
    <2>2. CASE rate[t] <= rate[m]
      BY <2>1, <2>2
    <2>3. CASE rate[m] < rate[t]
      BY <2>1, <2>3
    <2>4. QED
      BY <2>1, <2>2, <2>3
  <1>7. QED
    BY <1>5, <1>6

\* What a rule may be applied to, and what it makes of that.
Bases == {Base} \cup {OverrideOf[o].rate : o \in Overrides}
Ruled == {AtLeast(FloorPrice, apply(b, t)) : b \in Bases, t \in Terms}

\* The rates under the grid are bases: there is a dearest override, and an earliest.
LEMMA BaseIsBase ==
    ASSUME NEW n \in Nights, overrides \subseteq Overrides
    PROVE  baseWithoutRule(n) \in Bases
  <1>1. CASE Covering(n) = {}
    BY <1>1 DEF baseWithoutRule, Bases
  <1>2. CASE Covering(n) # {}
    <2>1. IsFiniteSet(Covering(n)) /\ Covering(n) \subseteq Overrides
      BY PricesAssumption, FS_Subset DEF Covering
    <2>2. \A o \in Covering(n) : RateOf(o) = OverrideOf[o].rate
      BY <2>1, PricesAssumption DEF RateOf
    <2>3. Dearest(n) \in Covering(n)
      <3> DEFINE rate == [o \in Covering(n) |-> RateOf(o)]
      <3>1. \A o \in Covering(n) : rate[o] \in Int
        BY <2>1, <2>2, PricesAssumption
      <3>2. \E o \in Covering(n) : \A p \in Covering(n) : rate[p] <= rate[o]
        BY <1>2, <2>1, <3>1, Highest
      <3>3. \E o \in Covering(n) : \A p \in Covering(n) : RateOf(p) <= RateOf(o)
        BY <3>2
      <3>4. QED
        BY <3>3 DEF Dearest
    <2>4. Earliest(n) \in Covering(n)
      <3> DEFINE late == [o \in Covering(n) |-> -OverrideOf[o].from]
      <3>1. \A o \in Covering(n) : late[o] \in Int /\ OverrideOf[o].from \in Int
        BY <2>1, PricesAssumption
      <3>2. \E o \in Covering(n) : \A p \in Covering(n) : late[p] <= late[o]
        BY <1>2, <2>1, <3>1, Highest
      <3>3. \E o \in Covering(n) : \A p \in Covering(n) : OverrideOf[o].from <= OverrideOf[p].from
        BY <3>1, <3>2
      <3>4. QED
        BY <3>3 DEF Earliest
    <2>5. \A o \in Covering(n) : RateOf(o) \in Bases
      BY <2>1, <2>2 DEF Bases
    <2>6. QED
      BY <1>2, <2>3, <2>4, <2>5 DEF baseWithoutRule
  <1>3. QED
    BY <1>1, <1>2

PricingFields == {"step", "rules", "cells", "left"}

\* A run applies rules as they were, and to a base, unless the night had a price when it
\* read the grid.
Sound(x) ==
    /\ DOMAIN x = PricingFields
    /\ x.step # "IDLE" => \A y \in DOMAIN x.rules : x.rules[y] \in Terms
    /\ x.step = "PRICING" =>
          \A n \in Nights : x.cells[n].day.price = Null => x.cells[n].price \in Bases

\* A run that is still to come to a night knows the price of it for a hand's.
Spares(x, n) == x.step = "PRICING" /\ n \in x.left => handTyped(x.cells[n])

\* Where no run has crossed a hand, its price is there, no rule's, and every run under way
\* will pass it over.
EngineInv ==
    /\ DOMAIN days = Nights /\ DOMAIN typed = Nights /\ DOMAIN pricing = Pricers
    /\ overrides \subseteq Overrides /\ rules \in [Rules -> RuleRows]
    /\ \A c \in Pricers : Sound(pricing[c])
    /\ \A n \in Nights : days[n].rule # Null => days[n].price \in Ruled
    /\ \A n \in Nights \ crossed : typed[n] # Null =>
          /\ days[n].price = typed[n] /\ days[n].rule = Null
          /\ \A c \in Pricers : Spares(pricing[c], n)

\* One cell is written, unless it has the price.
LEMMA OneCell ==
    ASSUME DOMAIN days = Nights, NEW n \in Nights, NEW price, NEW tag, bulkUpdate(n, price, tag)
    PROVE  /\ DOMAIN days' = Nights
           /\ \A k \in Nights \ {n} : days'[k] = days[k]
           /\ days'[n].price = price
           /\ days'[n].rule = tag \/ (days'[n] = days[n] /\ days[n].price = price)
  BY DEF bulkUpdate

\* A person puts a price on a night.
LEMMA TypeKeeps ==
    ASSUME EngineInv, NEW n \in Nights, NEW price, TypePrice(n, price)
    PROVE  EngineInv'
  <1>1. /\ bulkUpdate(n, price, Null) /\ typed' = [typed EXCEPT ![n] = price]
        /\ UNCHANGED <<overrides, rules, sold, pricing>>
        /\ crossed' = IF InFlight(n) \/ (days[n].rule # Null /\ days[n].price = price)
                      THEN crossed \cup {n} ELSE crossed \ {n}
    BY DEF TypePrice
  <1>2. /\ DOMAIN days' = Nights
        /\ \A k \in Nights \ {n} : days'[k] = days[k]
        /\ days'[n].price = price
        /\ days'[n].rule = Null \/ (days'[n] = days[n] /\ days[n].price = price)
    BY <1>1, OneCell DEF EngineInv
  <1>3. /\ DOMAIN typed' = Nights /\ typed'[n] = price
        /\ \A k \in Nights \ {n} : typed'[k] = typed[k]
    BY <1>1 DEF EngineInv
  <1>4. \A k \in Nights : days'[k].rule # Null => days'[k].price \in Ruled
    BY <1>2 DEF EngineInv
  <1>5. ASSUME n \notin crossed'
        PROVE  days'[n].rule = Null /\ \A c \in Pricers : Spares(pricing[c], n)
    <2>1. ~InFlight(n) /\ ~(days[n].rule # Null /\ days[n].price = price)
      BY <1>1, <1>5
    <2>2. QED
      BY <1>2, <2>1 DEF InFlight, Spares
  <1>6. \A k \in Nights \ {n} : k \notin crossed' => k \notin crossed
    BY <1>1
  <1>7. QED
    BY <1>1, <1>2, <1>3, <1>4, <1>5, <1>6 DEF EngineInv, Sound, Spares

\* A run takes the rules that are on.
LEMMA StartKeeps ==
    ASSUME EngineInv, NEW c \in Pricers, StartRun(c)
    PROVE  EngineInv'
  <1> DEFINE known == [x \in Enabled |-> rules[x].terms]
             run == [NoPricing EXCEPT !.step = "GRID", !.rules = known]
  <1>1. /\ pricing' = [pricing EXCEPT ![c] = run]
        /\ UNCHANGED <<days, overrides, rules, typed, crossed>>
    BY DEF StartRun
  <1>2. \A y \in DOMAIN known : known[y] \in Terms
    BY DEF EngineInv, Enabled, RuleRows
  <1> HIDE DEF known
  <1>3. DOMAIN run = PricingFields /\ run.step = "GRID" /\ run.rules = known
    BY DEF NoPricing, PricingFields
  <1> HIDE DEF run
  <1>4. DOMAIN pricing' = Pricers /\ \A d \in Pricers : pricing'[d] = IF d = c THEN run ELSE pricing[d]
    BY <1>1 DEF EngineInv
  <1>5. Sound(run) /\ \A n \in Nights : Spares(run, n)
    BY <1>2, <1>3 DEF Sound, Spares
  <1>6. \A d \in Pricers : Sound(pricing[d])'
    BY <1>4, <1>5 DEF EngineInv, Sound
  <1>7. QED
    BY <1>1, <1>4, <1>5, <1>6 DEF EngineInv, Spares

\* A run reads the grid: a hand's price for one, and a base where there is none.
LEMMA GridKeeps ==
    ASSUME EngineInv, NEW c \in Pricers, ReadGrid(c)
    PROVE  EngineInv'
  <1>1. PICK pick \in [Nights -> overrides \cup {Null}] :
           /\ \A n \in Nights : pick[n] \in (IF Covering(n) = {} THEN {Null} ELSE Covering(n))
           /\ pricing' = [pricing EXCEPT ![c].step = "PRICING", ![c].left = Nights,
                                         ![c].cells = [n \in Nights |-> GridCell(n, pick[n])]]
    BY DEF ReadGrid
  <1> DEFINE cells == [n \in Nights |-> GridCell(n, pick[n])]
             run == [pricing[c] EXCEPT !.step = "PRICING", !.left = Nights, !.cells = cells]
  <1>2. pricing' = [pricing EXCEPT ![c] = run] /\ UNCHANGED <<days, overrides, rules, typed, crossed>>
    BY <1>1 DEF ReadGrid
  <1>3. DOMAIN pricing[c] = PricingFields /\ \A y \in DOMAIN pricing[c].rules : pricing[c].rules[y] \in Terms
    BY DEF EngineInv, Sound, ReadGrid
  <1>4. \A n \in Nights : cells[n].day = days[n]
                          /\ (cells[n].day.price = Null => cells[n].price = RateOf(pick[n]))
    BY DEF GridCell
  <1>5. \A n \in Nights : RateOf(pick[n]) \in Bases
    BY <1>1, PricesAssumption DEF EngineInv, RateOf, Bases, Covering
  <1> HIDE DEF cells
  <1>6. /\ DOMAIN run = PricingFields /\ run.step = "PRICING" /\ run.left = Nights
        /\ run.cells = cells /\ run.rules = pricing[c].rules
    BY <1>3 DEF PricingFields
  <1> HIDE DEF run
  <1>7. DOMAIN pricing' = Pricers /\ \A d \in Pricers : pricing'[d] = IF d = c THEN run ELSE pricing[d]
    BY <1>2 DEF EngineInv
  <1>8. Sound(run)
    BY <1>3, <1>4, <1>5, <1>6 DEF Sound
  <1>9. ASSUME NEW n \in Nights \ crossed, typed[n] # Null PROVE Spares(run, n)
    <2>1. days[n].price # Null /\ days[n].rule = Null
      BY <1>9 DEF EngineInv
    <2>2. QED
      BY <1>4, <1>6, <2>1 DEF Spares, handTyped
  <1>10. \A d \in Pricers : Sound(pricing[d])'
    BY <1>7, <1>8 DEF EngineInv, Sound
  <1>11. QED
    BY <1>2, <1>7, <1>9, <1>10 DEF EngineInv, Spares

\* What a rule makes of a night is one application of it to a base.
LEMMA TargetIsRuled ==
    ASSUME EngineInv, NEW c \in Pricers, pricing[c].step = "PRICING", NEW n \in Nights,
           NEW x \in Best(c, n)
    PROVE  Target(c, n, x) \in Ruled
  <1>1. x \in DOMAIN pricing[c].rules
    BY DEF Best
  <1>2. PICK t \in Terms : t = pricing[c].rules[x]
    BY <1>1 DEF EngineInv, Sound
  <1>3. PICK b \in Bases :
           b = IF pricing[c].cells[n].day.price # Null THEN baseWithoutRule(n)
               ELSE pricing[c].cells[n].price
    BY BaseIsBase DEF EngineInv, Sound
  <1>4. Target(c, n, x) = AtLeast(FloorPrice, apply(b, t))
    BY <1>2, <1>3 DEF Target
  <1>5. QED
    BY <1>4 DEF Ruled

\* A night is priced: a hand's is passed over, any other gets what a rule makes of a base,
\* or goes back to its own.
LEMMA NightKeeps ==
    ASSUME EngineInv, NEW c \in Pricers, NEW n \in Nights, PriceNight(c, n)
    PROVE  EngineInv'
  <1>1. /\ pricing[c].step = "PRICING" /\ n \in pricing[c].left
        /\ UNCHANGED <<overrides, rules, sold, typed, crossed>>
    BY DEF PriceNight
  <1>2. DOMAIN pricing[c] = PricingFields
    BY DEF EngineInv, Sound
  <1> DEFINE rest == [pricing[c] EXCEPT !.left = @ \ {n}]
             run == IF pricing[c].left = {n} THEN NoPricing ELSE rest
  <1>3. pricing' = [pricing EXCEPT ![c] = run]
    BY DEF PriceNight
  <1>4. /\ DOMAIN rest = PricingFields /\ rest.step = "PRICING"
        /\ rest.rules = pricing[c].rules /\ rest.cells = pricing[c].cells
        /\ rest.left = pricing[c].left \ {n}
    BY <1>1, <1>2 DEF PricingFields
  <1>5. DOMAIN NoPricing = PricingFields /\ NoPricing.step = "IDLE"
    BY DEF NoPricing, PricingFields
  <1> HIDE DEF rest
  <1>6. Sound(run) /\ \A k \in Nights : Spares(pricing[c], k) => Spares(run, k)
    BY <1>1, <1>4, <1>5 DEF EngineInv, Sound, Spares
  <1> HIDE DEF run
  <1>7. DOMAIN pricing' = Pricers /\ \A d \in Pricers : pricing'[d] = IF d = c THEN run ELSE pricing[d]
    BY <1>3 DEF EngineInv
  <1>8. \A d \in Pricers : Sound(pricing[d])'
    BY <1>6, <1>7 DEF EngineInv, Sound
  <1>9. \/ days' = days
        \/ /\ ~handTyped(pricing[c].cells[n])
           /\ \E price \in Ruled : \E x : bulkUpdate(n, price, x)
        \/ ~handTyped(pricing[c].cells[n]) /\ bulkUpdate(n, Null, Null)
    BY <1>1, TargetIsRuled DEF PriceNight, ApplyRule, Revert
  <1>10. /\ DOMAIN days' = Nights
         /\ \A k \in Nights \ {n} : days'[k] = days[k]
         /\ handTyped(pricing[c].cells[n]) => days'[n] = days[n]
         /\ days'[n].rule # Null => days'[n].price \in Ruled
    <2>1. CASE days' = days
      BY <2>1 DEF EngineInv
    <2>2. ASSUME ~handTyped(pricing[c].cells[n]), NEW price \in Ruled, NEW x, bulkUpdate(n, price, x)
          PROVE  /\ DOMAIN days' = Nights
                 /\ \A k \in Nights \ {n} : days'[k] = days[k]
                 /\ handTyped(pricing[c].cells[n]) => days'[n] = days[n]
                 /\ days'[n].rule # Null => days'[n].price \in Ruled
      BY <2>2, OneCell DEF EngineInv
    <2>3. CASE ~handTyped(pricing[c].cells[n]) /\ bulkUpdate(n, Null, Null)
      BY <2>3, OneCell DEF EngineInv
    <2>4. QED
      BY <1>9, <2>1, <2>2, <2>3
  <1>11. ASSUME NEW k \in Nights \ crossed, typed[k] # Null
         PROVE  days'[k] = days[k] /\ Spares(run, k)
    <2>1. Spares(pricing[c], k) /\ Spares(run, k)
      BY <1>6, <1>11 DEF EngineInv
    <2>2. QED
      BY <1>1, <1>10, <2>1 DEF Spares
  <1>12. QED
    BY <1>1, <1>7, <1>8, <1>10, <1>11 DEF EngineInv, Spares

LEMMA EngineStart ==
    ASSUME EngineInit
    PROVE  EngineInv
  <1>1. DOMAIN NoPricing = PricingFields /\ NoPricing.step = "IDLE"
    BY DEF NoPricing, PricingFields
  <1>2. \A c \in Pricers : Sound(pricing[c])
    BY <1>1 DEF EngineInit, Sound
  <1>3. \A n \in Nights : days[n].rule = Null /\ typed[n] = Null
    BY DEF EngineInit, Unpriced
  <1>4. rules \in [Rules -> RuleRows]
    BY DEF EngineInit
  <1>5. QED
    BY <1>2, <1>3, <1>4 DEF EngineInit, EngineInv

LEMMA EngineStep ==
    ASSUME EngineInv, [EngineNext]_engineVars
    PROVE  EngineInv'
  <1>1. ASSUME UNCHANGED <<days, typed, crossed, pricing>>,
               overrides' \subseteq Overrides, rules' \in [Rules -> RuleRows]
        PROVE  EngineInv'
    BY <1>1 DEF EngineInv, Sound, Spares
  <1>2. overrides \subseteq Overrides /\ rules \in [Rules -> RuleRows]
    BY DEF EngineInv
  <1>3. ASSUME NEW n \in Nights, setPrice(n) \/ changePrice(n) PROVE EngineInv'
    BY <1>3, TypeKeeps DEF setPrice, changePrice
  <1>4. ASSUME NEW n \in Nights, Sell(n) PROVE EngineInv'
    BY <1>1, <1>2, <1>4 DEF Sell
  <1>5. ASSUME NEW o \in Overrides, createOverride(o) \/ removeOverride(o) PROVE EngineInv'
    BY <1>1, <1>2, <1>5 DEF createOverride, removeOverride
  <1>6. ASSUME NEW x \in Rules, NEW row \in RuleRows, WriteRule(x, row) PROVE EngineInv'
    BY <1>1, <1>2, <1>6 DEF WriteRule
  <1>7. ASSUME NEW x \in Rules,
               createPricingRule(x) \/ updatePricingRule(x) \/ removePricingRule(x)
        PROVE  EngineInv'
    <2>1. rules[x] \in RuleRows
      BY <1>2
    <2>2. \A t \in Terms, on \in BOOLEAN :
             /\ [status |-> "LIVE", enabled |-> TRUE, terms |-> t] \in RuleRows
             /\ [rules[x] EXCEPT !.enabled = on, !.terms = t] \in RuleRows
             /\ [rules[x] EXCEPT !.status = "DELETED"] \in RuleRows
      BY <2>1 DEF RuleRows
    <2>3. PICK row \in RuleRows : WriteRule(x, row)
      <3>1. CASE createPricingRule(x)
        BY <2>2, <3>1 DEF createPricingRule
      <3>2. CASE updatePricingRule(x)
        BY <2>2, <3>2 DEF updatePricingRule
      <3>3. CASE removePricingRule(x)
        <4>1. [rules[x] EXCEPT !.status = "DELETED"] \in RuleRows
          BY <2>1 DEF RuleRows
        <4>2. QED
          BY <3>3, <4>1 DEF removePricingRule
      <3>4. QED
        BY <1>7, <3>1, <3>2, <3>3
    <2>4. QED
      BY <1>6, <2>3
  <1>8. ASSUME NEW c \in Pricers, RunStep(c) PROVE EngineInv'
    BY <1>8, StartKeeps, GridKeeps, NightKeeps DEF RunStep
  <1>9. CASE UNCHANGED engineVars
    BY <1>1, <1>2, <1>9 DEF engineVars
  <1>10. QED
    BY <1>3, <1>4, <1>5, <1>7, <1>8, <1>9 DEF EngineNext

\* Whatever is edited, and however many runs overlap: a night a rule priced costs what one
\* application of a rule to a base makes, and a price a person typed stands unless a run
\* was between its reading and its writing of that night.
THEOREM PricesHold ==
    EngineSpec => []PricesStand
  <1>1. EngineInit => EngineInv
    BY EngineStart
  <1>2. EngineInv /\ [EngineNext]_engineVars => EngineInv'
    BY EngineStep
  <1>3. EngineInv => PricesStand
    BY DEF EngineInv, PricesStand, NeverCompounds, PersonWins, Ruled, Bases
  <1>4. QED
    BY <1>1, <1>2, <1>3, PTL DEF EngineSpec

(***************************************************************************)
(* What is told to people.                                                 *)
(***************************************************************************)

Outcomes == {"delivered", "failed", "never", "unavailable"}

Passes == [todo : SUBSET ReadRows, now : ReadRows \cup {Null}, outcome : Outcomes \cup {Null}]

\* A drain works on rows that are there, each read once, and knows how the last one went.
PassesFine ==
    /\ drains \in [Drains -> Passes]
    /\ \A w \in Drains : \A row \in drains[w].todo : row.id \in DOMAIN outbox
    /\ \A w \in Drains : drains[w].now # Null =>
          drains[w].now.id \in DOMAIN outbox /\ drains[w].outcome \in Outcomes
    /\ \A w \in Drains : \A x, y \in drains[w].todo : x.id = y.id => x = y

\* A row that may be tried again has been tried less often than it may be.
TriesLeft ==
    \A i \in DOMAIN outbox : outbox[i].status = "PENDING" => outbox[i].attempts < MAX_ATTEMPTS

\* What is queued is queued about something.
QueuedAbout ==
    \A c \in Notifiers :
        notifiers[c].todo # << >> => notifiers[c].event \in Facts \cup Announcements

QueueInv == NotificationsTypeOK /\ QueuedAbout /\ PassesFine /\ TriesLeft

LEMMA QueueRows ==
    ASSUME QueueInv
    PROVE  /\ Len(outbox) \in Nat /\ DOMAIN outbox = 1 .. Len(outbox)
           /\ DOMAIN outbox \subseteq 1 .. MaxRows
           /\ DOMAIN sent = DOMAIN outbox /\ Len(sent) = Len(outbox)
           /\ \A i \in DOMAIN outbox : outbox[i] \in DeliveryRows /\ sent[i] \in Nat
  <1>1. /\ outbox \in Seq(DeliveryRows) /\ Len(outbox) <= MaxRows
        /\ sent \in Seq(Nat) /\ Len(sent) = Len(outbox)
    BY DEF QueueInv, NotificationsTypeOK
  <1>2. /\ Len(outbox) \in Nat /\ DOMAIN outbox = 1 .. Len(outbox)
        /\ outbox \in [1 .. Len(outbox) -> DeliveryRows]
    BY <1>1, LenProperties
  <1>3. DOMAIN sent = 1 .. Len(sent) /\ sent \in [1 .. Len(sent) -> Nat]
    BY <1>1, LenProperties
  <1>4. DOMAIN outbox \subseteq 1 .. MaxRows
    BY <1>1, <1>2, NotificationsAssumption DEF NotificationsAssumption
  <1> QED  BY <1>1, <1>2, <1>3, <1>4

\* Writing a row of the outbox leaves the others as they are.
LEMMA RowWritten ==
    ASSUME QueueInv, NEW i \in DOMAIN outbox, NEW row \in DeliveryRows,
           outbox' = [outbox EXCEPT ![i] = row]
    PROVE  /\ outbox' \in Seq(DeliveryRows) /\ Len(outbox') = Len(outbox)
           /\ DOMAIN outbox' = DOMAIN outbox
           /\ outbox'[i] = row
           /\ \A j \in DOMAIN outbox : j # i => outbox'[j] = outbox[j]
  <1>1. outbox \in Seq(DeliveryRows) /\ DOMAIN outbox = 1 .. Len(outbox) /\ Len(outbox) \in Nat
    BY QueueRows DEF QueueInv, NotificationsTypeOK
  <1>2. outbox' \in Seq(DeliveryRows) /\ Len(outbox') = Len(outbox)
    BY <1>1, ExceptSeq
  <1>3. DOMAIN outbox' = DOMAIN outbox
    BY <1>1
  <1> QED  BY <1>1, <1>2, <1>3

\* mark, as one row that is written.
LEMMA MarkWrites ==
    ASSUME QueueInv, NEW w \in Drains, mark(w)
    PROVE  /\ drains[w].now \in ReadRows /\ drains[w].now.id \in DOMAIN outbox
           /\ LET i == drains[w].now.id
              IN  /\ outbox'[i] \in DeliveryRows
                  /\ outbox' = [outbox EXCEPT ![i] = outbox'[i]]
                  /\ outbox'[i].attempts = drains[w].now.attempts + 1
                  /\ outbox'[i].status = "PENDING" =>
                        outbox'[i].attempts < MAX_ATTEMPTS /\ drains[w].outcome # "delivered"
  <1> DEFINE now == drains[w].now
             i == now.id
             m == Marked(drains[w].outcome, now.attempts)
  <1>1. now # Null /\ i \in DOMAIN outbox /\ now \in ReadRows
    BY DEF mark, QueueInv, PassesFine, Passes
  <1>2. /\ MAX_ATTEMPTS \in Nat /\ now.attempts \in Nat /\ now.attempts + 1 \in 0 .. MAX_ATTEMPTS
    BY <1>1, NotificationsAssumption DEF NotificationsAssumption, ReadRows
  <1>3. m.status \in NotificationStatuses /\ m.due \in BOOLEAN
    BY DEF Marked, NotificationStatuses
  <1>4. m.status = "PENDING" => now.attempts + 1 < MAX_ATTEMPTS /\ drains[w].outcome # "delivered"
    <2>1. drains[w].outcome \in Outcomes
      BY <1>1 DEF QueueInv, PassesFine
    <2>2. CASE drains[w].outcome = "failed" /\ now.attempts + 1 >= MAX_ATTEMPTS
      BY <2>2 DEF Marked
    <2>3. CASE drains[w].outcome = "failed" /\ ~(now.attempts + 1 >= MAX_ATTEMPTS)
      BY <2>3, <1>2
    <2>4. CASE drains[w].outcome # "failed"
      BY <2>1, <2>4 DEF Marked, Outcomes
    <2> QED  BY <2>2, <2>3, <2>4
  <1>5. outbox[i] \in DeliveryRows
    BY <1>1, QueueRows
  <1>6. outbox' = [outbox EXCEPT ![i].status = m.status, ![i].due = m.due,
                                 ![i].attempts = now.attempts + 1]
    BY DEF mark
  <1> DEFINE row == [outbox[i] EXCEPT !.status = m.status, !.due = m.due,
                                      !.attempts = now.attempts + 1]
  <1>7. /\ row \in DeliveryRows /\ row.status = m.status
        /\ row.attempts = now.attempts + 1
    BY <1>2, <1>3, <1>5 DEF DeliveryRows
  <1>8. outbox' = [outbox EXCEPT ![i] = row]
    BY <1>6, <1>1
  <1> HIDE DEF row
  <1>9. outbox'[i] = row
    BY <1>8, <1>1
  <1> QED  BY <1>1, <1>4, <1>7, <1>8, <1>9

LEMMA MirrorTyped ==
    ASSUME NEW q \in Seq(Channels)
    PROVE  withMirroredPush(q) \in Seq(Channels)
  BY DEF withMirroredPush, Channels

\* What a notifier is left with: an event that is there, and the channels to come.
LEMMA QueuedSoFar ==
    ASSUME QueueInv, NEW c \in Notifiers, NEW e \in Facts \cup Announcements,
           NEW q \in Seq(Channels),
           notifiers' = [notifiers EXCEPT ![c] = [event |-> e, todo |-> q]]
    PROVE  /\ notifiers' \in [Notifiers -> [event : Facts \cup Announcements \cup {Null},
                                            todo : Seq(Channels)]]
           /\ QueuedAbout'
  <1>1. notifiers \in [Notifiers -> [event : Facts \cup Announcements \cup {Null},
                                     todo : Seq(Channels)]]
    BY DEF QueueInv, NotificationsTypeOK
  <1>2. notifiers'[c] = [event |-> e, todo |-> q]
    BY <1>1
  <1>3. \A d \in Notifiers : d # c => notifiers'[d] = notifiers[d]
    BY <1>1
  <1>4. QueuedAbout'
    BY <1>2, <1>3 DEF QueueInv, QueuedAbout
  <1> QED  BY <1>1, <1>4

LEMMA QuietAgain ==
    ASSUME QueueInv, NEW c \in Notifiers, notifiers' = [notifiers EXCEPT ![c] = Quiet]
    PROVE  /\ notifiers' \in [Notifiers -> [event : Facts \cup Announcements \cup {Null},
                                            todo : Seq(Channels)]]
           /\ QueuedAbout'
  <1>1. notifiers \in [Notifiers -> [event : Facts \cup Announcements \cup {Null},
                                     todo : Seq(Channels)]]
    BY DEF QueueInv, NotificationsTypeOK
  <1>2. Quiet \in [event : Facts \cup Announcements \cup {Null}, todo : Seq(Channels)]
        /\ Quiet.todo = << >>
    BY DEF Quiet
  <1> HIDE DEF Quiet
  <1>3. notifiers'[c] = Quiet /\ \A d \in Notifiers : d # c => notifiers'[d] = notifiers[d]
    BY <1>1
  <1>4. QueuedAbout'
    BY <1>2, <1>3 DEF QueueInv, QueuedAbout
  <1> QED  BY <1>1, <1>2, <1>4

\* notify: the row is added at the end, the others stay where they are.
LEMMA NotifyAppends ==
    ASSUME QueueInv, NEW c \in Notifiers, notify(c)
    PROVE  LET n == Len(outbox) + 1
           IN  /\ n \in 1 .. MaxRows /\ n \notin DOMAIN outbox
               /\ outbox' \in Seq(DeliveryRows) /\ Len(outbox') = n
               /\ sent' \in Seq(Nat) /\ Len(sent') = n
               /\ DOMAIN outbox' = DOMAIN outbox \cup {n}
               /\ \A i \in DOMAIN outbox : outbox'[i] = outbox[i] /\ sent'[i] = sent[i]
               /\ outbox'[n].attempts = 0 /\ sent'[n] = 0
  <1> DEFINE q == notifiers[c].todo
             row == NewRow(notifiers[c].event, Head(q))
             n == Len(outbox) + 1
  <1>1. q \in Seq(Channels) /\ q # << >> /\ notifiers[c].event \in Facts \cup Announcements
    BY DEF notify, QueueInv, QueuedAbout, NotificationsTypeOK
  <1>2. Head(q) \in Channels
    BY <1>1
  <1>3. row \in DeliveryRows /\ row.attempts = 0
    BY <1>1, <1>2, NotificationsAssumption
    DEF NotificationsAssumption, NewRow, DeliveryRows, NotificationStatuses
  <1>4. outbox' = Append(outbox, row) /\ sent' = Append(sent, 0) /\ Len(outbox) < MaxRows
    BY DEF notify
  <1> HIDE DEF row
  <1>5. /\ outbox \in Seq(DeliveryRows) /\ DOMAIN outbox = 1 .. Len(outbox) /\ Len(outbox) \in Nat
        /\ sent \in Seq(Nat) /\ Len(sent) = Len(outbox)
    BY QueueRows DEF QueueInv, NotificationsTypeOK
  <1>6. /\ outbox' \in Seq(DeliveryRows) /\ Len(outbox') = n /\ outbox'[n] = row
        /\ \A i \in 1 .. Len(outbox) : outbox'[i] = outbox[i]
    BY <1>3, <1>4, <1>5, AppendProperties
  <1>7. /\ sent' \in Seq(Nat) /\ Len(sent') = n /\ sent'[n] = 0
        /\ \A i \in 1 .. Len(outbox) : sent'[i] = sent[i]
    BY <1>4, <1>5, AppendProperties
  <1>8. DOMAIN outbox' = 1 .. n
    BY <1>6, LenProperties
  <1>9. n \in 1 .. MaxRows
    BY <1>4, <1>5, NotificationsAssumption DEF NotificationsAssumption
  <1> QED  BY <1>3, <1>5, <1>6, <1>7, <1>8, <1>9

LEMMA NotifyKept ==
    ASSUME QueueInv, NEW c \in Notifiers, notify(c)
    PROVE  QueueInv'
  <1> DEFINE q == notifiers[c].todo
  <1>1. q \in Seq(Channels) /\ q # << >> /\ notifiers[c].event \in Facts \cup Announcements
    BY DEF notify, QueueInv, QueuedAbout, NotificationsTypeOK
  <1>2. Tail(q) \in Seq(Channels)
    BY <1>1
  <1>3. \/ notifiers' = [notifiers EXCEPT ![c] = Quiet]
        \/ notifiers' = [notifiers EXCEPT ![c] = [event |-> notifiers[c].event, todo |-> Tail(q)]]
    BY DEF notify
  <1>4. /\ notifiers' \in [Notifiers -> [event : Facts \cup Announcements \cup {Null},
                                         todo : Seq(Channels)]]
        /\ QueuedAbout'
    BY <1>1, <1>2, <1>3, QueuedSoFar, QuietAgain
  <1>5. NotificationsTypeOK'
    <2>1. /\ outbox' \in Seq(DeliveryRows) /\ Len(outbox') <= MaxRows
          /\ sent' \in Seq(Nat) /\ Len(sent') = Len(outbox')
      BY NotifyAppends
    <2>2. templates' = templates /\ phones' = phones /\ announcements' = announcements
      BY DEF notify
    <2> QED  BY <1>4, <2>1, <2>2 DEF NotificationsTypeOK, QueueInv
  <1>6. PassesFine'
    BY NotifyAppends DEF PassesFine, QueueInv, notify
  <1>7. TriesLeft'
    BY NotifyAppends, NotificationsAssumption DEF TriesLeft, QueueInv, NotificationsAssumption
  <1> QED  BY <1>4, <1>5, <1>6, <1>7 DEF QueueInv

LEMMA AskKept ==
    ASSUME QueueInv, NEW c \in Notifiers, NEW e \in Facts, Ask(c, e)
    PROVE  QueueInv'
  <1> DEFINE q == withMirroredPush(ChannelsOf[e])
  <1>1. q \in Seq(Channels)
    BY MirrorTyped, NotificationsAssumption DEF NotificationsAssumption
  <1>2. notifiers' = notifiers \/ notifiers' = [notifiers EXCEPT ![c] = [event |-> e, todo |-> q]]
    BY DEF Ask
  <1>3. /\ notifiers' \in [Notifiers -> [event : Facts \cup Announcements \cup {Null},
                                         todo : Seq(Channels)]]
        /\ QueuedAbout'
    BY <1>1, <1>2, QueuedSoFar DEF QueueInv, NotificationsTypeOK, QueuedAbout
  <1>4. NotificationsTypeOK'
    BY <1>3 DEF NotificationsTypeOK, Ask, QueueInv
  <1> QED  BY <1>3, <1>4 DEF QueueInv, Ask, PassesFine, TriesLeft

LEMMA DueFacts ==
    ASSUME QueueInv, NEW i \in DueRows
    PROVE  /\ i \in DOMAIN outbox /\ outbox[i].status = "PENDING"
           /\ [id |-> i, attempts |-> outbox[i].attempts] \in ReadRows
  <1>1. i \in DOMAIN outbox /\ outbox[i].status = "PENDING"
    BY DEF DueRows
  <1>2. outbox[i] \in DeliveryRows /\ i \in 1 .. MaxRows /\ outbox[i].attempts < MAX_ATTEMPTS
    BY <1>1, QueueRows DEF QueueInv, TriesLeft
  <1>3. outbox[i].attempts \in 0 .. MAX_ATTEMPTS - 1
    BY <1>2, NotificationsAssumption DEF NotificationsAssumption, DeliveryRows
  <1> QED  BY <1>1, <1>2, <1>3 DEF ReadRows

LEMMA DrainKept ==
    ASSUME QueueInv, NEW w \in Drains, drain(w)
    PROVE  QueueInv'
  <1> DEFINE rows == {[id |-> i, attempts |-> outbox[i].attempts] : i \in DueRows}
             pass == [todo |-> rows, now |-> Null, outcome |-> Null]
  <1>1. \A row \in rows : row \in ReadRows /\ row.id \in DOMAIN outbox
    BY DueFacts
  <1>2. \A x, y \in rows : x.id = y.id => x = y
    OBVIOUS
  <1>3. pass \in Passes /\ pass.todo = rows /\ pass.now = Null
    BY <1>1 DEF Passes
  <1>4. drains' = [drains EXCEPT ![w] = pass]
    BY DEF drain
  <1> HIDE DEF rows, pass
  <1>5. /\ drains' \in [Drains -> Passes] /\ drains'[w] = pass
        /\ \A v \in Drains : v # w => drains'[v] = drains[v]
    BY <1>3, <1>4 DEF QueueInv, PassesFine
  <1>6. outbox' = outbox
    BY DEF drain
  <1>7. PassesFine'
    BY <1>1, <1>2, <1>3, <1>5, <1>6 DEF QueueInv, PassesFine
  <1>8. NotificationsTypeOK' /\ QueuedAbout' /\ TriesLeft'
    BY DEF drain, QueueInv, NotificationsTypeOK, QueuedAbout, TriesLeft
  <1> QED  BY <1>7, <1>8 DEF QueueInv

LEMMA SendChooses ==
    ASSUME QueueInv, NEW w \in Drains, send(w)
    PROVE  \E row \in drains[w].todo, outcome \in Outcomes :
              /\ row \in ReadRows /\ row.id \in DOMAIN outbox /\ drains[w].now = Null
              /\ sent' = [sent EXCEPT ![row.id] = IF outcome = "delivered" THEN sent[row.id] + 1
                                                  ELSE sent[row.id]]
              /\ drains' = [drains EXCEPT ![w] = [todo |-> drains[w].todo \ {row}, now |-> row,
                                                  outcome |-> outcome]]
              /\ [todo |-> drains[w].todo \ {row}, now |-> row, outcome |-> outcome] \in Passes
              /\ phones' \subseteq phones
  <1>0. PICK row \in drains[w].todo :
          \E outcome \in Answers(outbox[row.id].channel),
             gone \in InvalidTokens(outbox[row.id].channel) :
          /\ phones' = phones \ gone
          /\ sent' = [sent EXCEPT ![row.id] = IF outcome = "delivered" THEN @ + 1 ELSE @]
          /\ drains' = [drains EXCEPT ![w] = [todo |-> drains[w].todo \ {row}, now |-> row,
                                              outcome |-> outcome]]
    BY DEF send
  <1>1. PICK outcome \in Answers(outbox[row.id].channel),
             gone \in InvalidTokens(outbox[row.id].channel) :
          /\ phones' = phones \ gone
          /\ sent' = [sent EXCEPT ![row.id] = IF outcome = "delivered" THEN @ + 1 ELSE @]
          /\ drains' = [drains EXCEPT ![w] = [todo |-> drains[w].todo \ {row}, now |-> row,
                                              outcome |-> outcome]]
    BY <1>0
  <1>2. outcome \in Outcomes
    BY DEF Answers, Outcomes
  <1>3. /\ row \in ReadRows /\ row.id \in DOMAIN outbox /\ drains[w].todo \subseteq ReadRows
    BY DEF QueueInv, PassesFine, Passes
  <1>4. [todo |-> drains[w].todo \ {row}, now |-> row, outcome |-> outcome] \in Passes
    BY <1>2, <1>3 DEF Passes
  <1>5. sent' = [sent EXCEPT ![row.id] = IF outcome = "delivered" THEN sent[row.id] + 1
                                         ELSE sent[row.id]]
    BY <1>1
  <1> QED  BY <1>1, <1>2, <1>3, <1>4, <1>5 DEF send

LEMMA SendKept ==
    ASSUME QueueInv, NEW w \in Drains, send(w)
    PROVE  QueueInv'
  <1>1. PICK row \in drains[w].todo, outcome \in Outcomes :
              /\ row \in ReadRows /\ row.id \in DOMAIN outbox /\ drains[w].now = Null
              /\ sent' = [sent EXCEPT ![row.id] = IF outcome = "delivered" THEN sent[row.id] + 1
                                                  ELSE sent[row.id]]
              /\ drains' = [drains EXCEPT ![w] = [todo |-> drains[w].todo \ {row}, now |-> row,
                                                  outcome |-> outcome]]
              /\ [todo |-> drains[w].todo \ {row}, now |-> row, outcome |-> outcome] \in Passes
              /\ phones' \subseteq phones
    BY SendChooses
  <1> DEFINE pass == [todo |-> drains[w].todo \ {row}, now |-> row, outcome |-> outcome]
  <1>2. pass.todo = drains[w].todo \ {row} /\ pass.now = row /\ pass.outcome = outcome
    OBVIOUS
  <1>3. pass \in Passes /\ drains' = [drains EXCEPT ![w] = pass]
    BY <1>1
  <1> HIDE DEF pass
  <1>4. /\ drains' \in [Drains -> Passes] /\ drains'[w] = pass
        /\ \A v \in Drains : v # w => drains'[v] = drains[v]
    BY <1>3 DEF QueueInv, PassesFine
  <1>5. outbox' = outbox
    BY DEF send
  <1>6. PassesFine'
    BY <1>1, <1>2, <1>4, <1>5 DEF QueueInv, PassesFine
  <1>7. sent' \in Seq(Nat) /\ Len(sent') = Len(sent)
    <2>1. sent \in Seq(Nat) /\ row.id \in 1 .. Len(sent)
      BY <1>1, QueueRows DEF QueueInv, NotificationsTypeOK
    <2>2. sent[row.id] \in Nat
      BY <2>1
    <2> DEFINE e == IF outcome = "delivered" THEN sent[row.id] + 1 ELSE sent[row.id]
    <2>3. e \in Nat /\ sent' = [sent EXCEPT ![row.id] = e]
      BY <1>1, <2>2
    <2> HIDE DEF e
    <2> QED  BY <2>1, <2>3, ExceptSeq
  <1>8. NotificationsTypeOK' /\ QueuedAbout' /\ TriesLeft'
    BY <1>1, <1>7 DEF send, QueueInv, NotificationsTypeOK, QueuedAbout, TriesLeft
  <1> QED  BY <1>6, <1>8 DEF QueueInv

LEMMA MarkKept ==
    ASSUME QueueInv, NEW w \in Drains, mark(w)
    PROVE  QueueInv'
  <1> DEFINE pass == [todo |-> drains[w].todo, now |-> Null, outcome |-> Null]
             i == drains[w].now.id
  <1>1. pass.todo = drains[w].todo /\ pass.now = Null /\ pass \in Passes
    BY DEF QueueInv, PassesFine, Passes
  <1>2. drains' = [drains EXCEPT ![w] = pass]
    BY DEF mark
  <1> HIDE DEF pass
  <1>3. /\ drains' \in [Drains -> Passes] /\ drains'[w] = pass
        /\ \A v \in Drains : v # w => drains'[v] = drains[v]
    BY <1>1, <1>2 DEF QueueInv, PassesFine
  <1>4. /\ i \in DOMAIN outbox /\ outbox'[i] \in DeliveryRows
        /\ outbox' = [outbox EXCEPT ![i] = outbox'[i]]
        /\ outbox'[i].status = "PENDING" => outbox'[i].attempts < MAX_ATTEMPTS
    BY MarkWrites
  <1> HIDE DEF i
  <1>5. /\ outbox' \in Seq(DeliveryRows) /\ Len(outbox') = Len(outbox)
        /\ DOMAIN outbox' = DOMAIN outbox
        /\ \A j \in DOMAIN outbox : j # i => outbox'[j] = outbox[j]
    BY <1>4, RowWritten
  <1>6. PassesFine'
    BY <1>1, <1>3, <1>5 DEF QueueInv, PassesFine
  <1>7. TriesLeft'
    BY <1>4, <1>5 DEF QueueInv, TriesLeft
  <1>8. NotificationsTypeOK' /\ QueuedAbout'
    BY <1>5 DEF mark, QueueInv, NotificationsTypeOK, QueuedAbout
  <1> QED  BY <1>6, <1>7, <1>8 DEF QueueInv

LEMMA BackoffKept ==
    ASSUME QueueInv, NEW i \in DOMAIN outbox, BackoffEnds(i)
    PROVE  /\ QueueInv'
           /\ DOMAIN outbox' = DOMAIN outbox
           /\ \A j \in DOMAIN outbox : outbox'[j].status = outbox[j].status
  <1> DEFINE row == [outbox[i] EXCEPT !.due = TRUE]
  <1>1. outbox[i] \in DeliveryRows
    BY QueueRows
  <1>2. /\ row \in DeliveryRows /\ row.status = outbox[i].status
        /\ row.attempts = outbox[i].attempts
    BY <1>1 DEF DeliveryRows
  <1>3. outbox' = [outbox EXCEPT ![i] = row]
    BY DEF BackoffEnds
  <1> HIDE DEF row
  <1>4. /\ outbox' \in Seq(DeliveryRows) /\ Len(outbox') = Len(outbox)
        /\ DOMAIN outbox' = DOMAIN outbox
        /\ outbox'[i] = row
        /\ \A j \in DOMAIN outbox : j # i => outbox'[j] = outbox[j]
    BY <1>2, <1>3, RowWritten
  <1>5. PassesFine' /\ TriesLeft'
    BY <1>2, <1>4 DEF BackoffEnds, QueueInv, PassesFine, TriesLeft
  <1>6. NotificationsTypeOK' /\ QueuedAbout'
    BY <1>4 DEF BackoffEnds, QueueInv, NotificationsTypeOK, QueuedAbout
  <1> QED  BY <1>2, <1>4, <1>5, <1>6 DEF QueueInv

LEMMA StopKept ==
    ASSUME QueueInv, Stop
    PROVE  QueueInv'
  <1>1. Quiet \in [event : Facts \cup Announcements \cup {Null}, todo : Seq(Channels)]
        /\ Quiet.todo = << >>
    BY DEF Quiet
  <1>2. NoPass \in Passes /\ NoPass.todo = {} /\ NoPass.now = Null
    BY DEF NoPass, Passes
  <1>3. PassesFine'
    BY <1>2 DEF Stop, PassesFine
  <1>4. QueuedAbout'
    BY <1>1 DEF Stop, QueuedAbout
  <1>5. NotificationsTypeOK' /\ TriesLeft'
    BY <1>1 DEF Stop, QueueInv, NotificationsTypeOK, TriesLeft
  <1> QED  BY <1>3, <1>4, <1>5 DEF QueueInv

LEMMA AnnouncingKept ==
    ASSUME QueueInv,
           \/ \E a \in Announcements : Announcing(a)
           \/ \E due, expired \in SUBSET Announcements : publishScheduled(due, expired)
    PROVE  QueueInv' /\ UNCHANGED <<outbox, drains, sent, disturbed>>
  <1> DEFINE Standings == {Null, "DRAFT", "PUBLISHED", "EXPIRED"}
             Tellers == [Notifiers -> [event : Facts \cup Announcements \cup {Null},
                                       todo : Seq(Channels)]]
  <1>1. announcements \in [Announcements -> Standings] /\ notifiers \in Tellers /\ QueuedAbout
    BY DEF QueueInv, NotificationsTypeOK
  <1>2. /\ UNCHANGED <<templates, outbox, drains, phones, sent, disturbed>>
        /\ announcements' \in [Announcements -> Standings]
        /\ notifiers' \in Tellers /\ QueuedAbout'
    <2>1. CASE \E due, expired \in SUBSET Announcements : publishScheduled(due, expired)
      BY <1>1, <2>1 DEF publishScheduled, AnnouncementUnchanged, QueuedAbout
    <2>2. ASSUME NEW a \in Announcements, NEW status \in {"DRAFT", "PUBLISHED"},
                 editAnnouncement(a, status)
          PROVE  /\ UNCHANGED <<templates, outbox, drains, phones, sent, disturbed>>
                 /\ announcements' \in [Announcements -> Standings]
                 /\ notifiers' \in Tellers /\ QueuedAbout'
      BY <1>1, <2>2 DEF editAnnouncement, AnnouncementUnchanged, QueuedAbout
    <2>3. ASSUME NEW a \in Announcements, removeAnnouncement(a)
          PROVE  /\ UNCHANGED <<templates, outbox, drains, phones, sent, disturbed>>
                 /\ announcements' \in [Announcements -> Standings]
                 /\ notifiers' \in Tellers /\ QueuedAbout'
      BY <1>1, <2>3 DEF removeAnnouncement, AnnouncementUnchanged, QueuedAbout
    <2>4. ASSUME NEW a \in Announcements, NEW c \in Notifiers, publish(a, c)
          PROVE  /\ UNCHANGED <<templates, outbox, drains, phones, sent, disturbed>>
                 /\ announcements' \in [Announcements -> Standings]
                 /\ notifiers' \in Tellers /\ QueuedAbout'
      <3> DEFINE q == withMirroredPush(<<"IN_APP">>)
      <3>1. q \in Seq(Channels)
        <4>1. <<"IN_APP">> \in Seq(Channels)
          BY DEF Channels
        <4> QED  BY <4>1, MirrorTyped
      <3>2. notifiers' = [notifiers EXCEPT ![c] = [event |-> a, todo |-> q]]
        BY <2>4 DEF publish
      <3>3. announcements' \in [Announcements -> Standings]
        BY <1>1, <2>4 DEF publish
      <3>4. UNCHANGED <<templates, outbox, drains, phones, sent, disturbed>>
        BY <2>4 DEF publish, AnnouncementUnchanged
      <3> HIDE DEF q
      <3> QED  BY <3>1, <3>2, <3>3, <3>4, QueuedSoFar
    <2> QED  BY <2>1, <2>2, <2>3, <2>4 DEF Announcing
  <1> QED  BY <1>2 DEF QueueInv, NotificationsTypeOK, PassesFine, TriesLeft

LEMMA SettingsKept ==
    ASSUME QueueInv,
           \/ \E way \in {"EMAIL", "IN_APP"} : upsertTemplate(way)
           \/ \E p \in Phones : register(p) \/ revokeToken(p)
    PROVE  QueueInv' /\ UNCHANGED <<outbox, drains, sent, disturbed>>
  <1>1. CASE \E way \in {"EMAIL", "IN_APP"} : upsertTemplate(way)
    BY <1>1 DEF upsertTemplate, Channels, QueueInv, NotificationsTypeOK, QueuedAbout, PassesFine,
                TriesLeft
  <1>2. CASE \E p \in Phones : register(p)
    BY <1>2 DEF register, QueueInv, NotificationsTypeOK, QueuedAbout, PassesFine, TriesLeft
  <1>3. CASE \E p \in Phones : revokeToken(p)
    BY <1>3 DEF revokeToken, QueueInv, NotificationsTypeOK, QueuedAbout, PassesFine, TriesLeft
  <1> QED  BY <1>1, <1>2, <1>3

LEMMA QueueInvStep ==
    ASSUME QueueInv, [NotificationsNext]_notificationVars
    PROVE  QueueInv'
  <1>1. ASSUME NEW c \in Notifiers, notify(c) PROVE QueueInv'
    BY <1>1, NotifyKept
  <1>2. ASSUME NEW c \in Notifiers, NEW e \in Facts, Ask(c, e) PROVE QueueInv'
    BY <1>2, AskKept
  <1>3. ASSUME NEW w \in Drains, Draining(w) PROVE QueueInv'
    BY <1>3, DrainKept, SendKept, MarkKept DEF Draining
  <1>4. ASSUME NEW i \in DOMAIN outbox, BackoffEnds(i) PROVE QueueInv'
    BY <1>4, BackoffKept
  <1>5. CASE Stop
    BY <1>5, StopKept
  <1>6. CASE \/ \E way \in {"EMAIL", "IN_APP"} : upsertTemplate(way)
             \/ \E p \in Phones : register(p) \/ revokeToken(p)
    BY <1>6, SettingsKept
  <1>7. CASE \/ \E a \in Announcements : Announcing(a)
             \/ \E due, expired \in SUBSET Announcements : publishScheduled(due, expired)
    BY <1>7, AnnouncingKept
  <1>8. CASE UNCHANGED notificationVars
    BY <1>8 DEF notificationVars, QueueInv, NotificationsTypeOK, QueuedAbout, PassesFine, TriesLeft
  <1> QED  BY <1>1, <1>2, <1>3, <1>4, <1>5, <1>6, <1>7, <1>8 DEF NotificationsNext

LEMMA QueueInvStart == NotificationsInit => QueueInv
  <1> SUFFICES ASSUME NotificationsInit PROVE QueueInv
    OBVIOUS
  <1>1. Quiet \in [event : Facts \cup Announcements \cup {Null}, todo : Seq(Channels)]
        /\ Quiet.todo = << >>
    BY DEF Quiet
  <1>2. NoPass \in Passes /\ NoPass.todo = {} /\ NoPass.now = Null
    BY DEF NoPass, Passes
  <1>3. /\ << >> \in Seq(DeliveryRows) /\ << >> \in Seq(Nat)
        /\ Len(<< >>) = 0 /\ DOMAIN << >> = {}
    BY EmptySeq
  <1>4. 0 <= MaxRows
    BY NotificationsAssumption DEF NotificationsAssumption
  <1>5. NotificationsTypeOK
    BY <1>1, <1>3, <1>4 DEF NotificationsInit, NotificationsTypeOK, Channels
  <1>6. QueuedAbout /\ PassesFine /\ TriesLeft
    BY <1>1, <1>2, <1>3 DEF NotificationsInit, QueuedAbout, PassesFine, TriesLeft
  <1> QED  BY <1>5, <1>6 DEF QueueInv

\* The queue keeps its types: what is queued has a channel and is about something, and no row
\* is tried more often than it may be (notify, drain, send, mark).
THEOREM NotificationsTyped == NotificationsSpec => []NotificationsTypeOK
  <1>1. QueueInv => NotificationsTypeOK
    BY DEF QueueInv
  <1> QED  BY <1>1, QueueInvStart, QueueInvStep, PTL DEF NotificationsSpec

-----------------------------------------------------------------------------
\* What is known of a row that no crash and no second drain has met: one drain has it at most;
\* before it is sent it is pending and was never sent; while it waits for its mark it is
\* pending and was sent if its channel took it.
Undisturbed(i) ==
    /\ sent[i] <= 1
    /\ \A v, w \in Drains : Holds(v, i) /\ Holds(w, i) => v = w
    /\ \A w \in Drains : (\E row \in drains[w].todo : row.id = i) =>
          /\ outbox[i].status = "PENDING" /\ sent[i] = 0
          /\ ~(drains[w].now # Null /\ drains[w].now.id = i)
    /\ \A w \in Drains : drains[w].now # Null /\ drains[w].now.id = i =>
          /\ outbox[i].status = "PENDING"
          /\ sent[i] = IF drains[w].outcome = "delivered" THEN 1 ELSE 0
    /\ outbox[i].status = "PENDING" /\ (\A w \in Drains : ~Holds(w, i)) => sent[i] = 0

OnceInv == \A i \in DOMAIN outbox : i \notin disturbed => Undisturbed(i)

\* A step that touches no drain, no status and no count of what was sent.
LEMMA OnceUntouched ==
    ASSUME OnceInv, UNCHANGED <<drains, sent, disturbed>>, DOMAIN outbox' = DOMAIN outbox,
           \A i \in DOMAIN outbox : outbox'[i].status = outbox[i].status
    PROVE  OnceInv'
  BY DEF OnceInv, Undisturbed, Holds

LEMMA OnceNotify ==
    ASSUME QueueInv, OnceInv, NEW c \in Notifiers, notify(c)
    PROVE  OnceInv'
  <1>1. PICK n \in Nat :
        /\ n \notin DOMAIN outbox /\ DOMAIN outbox' = DOMAIN outbox \cup {n}
        /\ \A i \in DOMAIN outbox : outbox'[i] = outbox[i] /\ sent'[i] = sent[i]
        /\ sent'[n] = 0
    <2>1. Len(outbox) + 1 \in Nat
      BY QueueRows
    <2> QED  BY <2>1, NotifyAppends
  <1>2. drains' = drains /\ disturbed' = disturbed
    BY DEF notify
  <1>3. \A w \in Drains, i \in DOMAIN outbox' : Holds(w, i)' <=> Holds(w, i)
    BY <1>2 DEF Holds
  <1>4. \A w \in Drains : ~Holds(w, n)
    BY <1>1 DEF Holds, QueueInv, PassesFine
  <1>5. ASSUME NEW i \in DOMAIN outbox, i \notin disturbed
        PROVE  Undisturbed(i)'
    BY <1>1, <1>2, <1>3, <1>5 DEF OnceInv, Undisturbed
  <1>6. Undisturbed(n)'
    <2>1. \A w \in Drains : ~Holds(w, n)'
      BY <1>1, <1>3, <1>4
    <2>2. sent'[n] <= 1 /\ sent'[n] = 0
      BY <1>1
    <2> QED  BY <2>1, <2>2 DEF Undisturbed, Holds
  <1> QED  BY <1>1, <1>2, <1>5, <1>6 DEF OnceInv

LEMMA OnceDrain ==
    ASSUME QueueInv, OnceInv, NEW w \in Drains, drain(w)
    PROVE  OnceInv'
  <1> DEFINE rows == {[id |-> i, attempts |-> outbox[i].attempts] : i \in DueRows}
             pass == [todo |-> rows, now |-> Null, outcome |-> Null]
  <1>1. pass.todo = rows /\ pass.now = Null
    OBVIOUS
  <1>2. \A i \in DOMAIN outbox : (\E row \in rows : row.id = i) <=> i \in DueRows
    <2>1. ASSUME NEW i \in DueRows PROVE \E row \in rows : row.id = i
      <3>1. [id |-> i, attempts |-> outbox[i].attempts] \in rows
        OBVIOUS
      <3> QED  BY <3>1
    <2>2. ASSUME NEW row \in rows PROVE row.id \in DueRows
      OBVIOUS
    <2> QED  BY <2>1, <2>2
  <1>3. /\ drains[w] = NoPass
        /\ drains' = [drains EXCEPT ![w] = pass]
        /\ disturbed' = disturbed \cup {i \in DueRows : \E v \in Drains : Holds(v, i)}
        /\ outbox' = outbox /\ sent' = sent
    BY DEF drain
  <1> HIDE DEF rows, pass
  <1>4. drains'[w] = pass /\ \A v \in Drains : v # w => drains'[v] = drains[v]
    BY <1>3 DEF QueueInv, PassesFine
  <1>5. \A i \in DOMAIN outbox : ~Holds(w, i)
    BY <1>3 DEF Holds, NoPass
  <1>6. ASSUME NEW i \in DOMAIN outbox, i \notin disturbed'
        PROVE  Undisturbed(i)'
    <2>1. Undisturbed(i)
      BY <1>3, <1>6 DEF OnceInv
    <2>2. /\ Holds(w, i)' <=> i \in DueRows
          /\ \A v \in Drains : v # w => (Holds(v, i)' <=> Holds(v, i))
      BY <1>1, <1>2, <1>4 DEF Holds
    <2>3. CASE i \in DueRows
      <3>1. \A v \in Drains : ~Holds(v, i)
        BY <1>3, <1>6, <2>3
      <3>2. outbox[i].status = "PENDING" /\ sent[i] = 0
        BY <2>1, <2>3, <3>1 DEF Undisturbed, DueRows
      <3>3. \A v \in Drains : v # w => ~Holds(v, i)'
        BY <2>2, <3>1
      <3> QED  BY <1>1, <1>3, <1>4, <2>2, <2>3, <3>2, <3>3 DEF Undisturbed, Holds
    <2>4. CASE i \notin DueRows
      <3>1. ~Holds(w, i)' /\ \A v \in Drains : Holds(v, i)' <=> Holds(v, i)
        BY <1>5, <2>2, <2>4
      <3> QED  BY <1>1, <1>3, <1>4, <2>1, <3>1 DEF Undisturbed, Holds
    <2> QED  BY <2>3, <2>4
  <1> QED  BY <1>3, <1>6 DEF OnceInv

LEMMA OnceSend ==
    ASSUME QueueInv, OnceInv, NEW w \in Drains, send(w)
    PROVE  OnceInv'
  <1>1. PICK row \in drains[w].todo, outcome \in Outcomes :
              /\ row \in ReadRows /\ row.id \in DOMAIN outbox /\ drains[w].now = Null
              /\ sent' = [sent EXCEPT ![row.id] = IF outcome = "delivered" THEN sent[row.id] + 1
                                                  ELSE sent[row.id]]
              /\ drains' = [drains EXCEPT ![w] = [todo |-> drains[w].todo \ {row}, now |-> row,
                                                  outcome |-> outcome]]
              /\ [todo |-> drains[w].todo \ {row}, now |-> row, outcome |-> outcome] \in Passes
              /\ phones' \subseteq phones
    BY SendChooses
  <1> DEFINE pass == [todo |-> drains[w].todo \ {row}, now |-> row, outcome |-> outcome]
             e == IF outcome = "delivered" THEN sent[row.id] + 1 ELSE sent[row.id]
  <1>2. pass.todo = drains[w].todo \ {row} /\ pass.now = row /\ pass.outcome = outcome
    OBVIOUS
  <1>3. drains' = [drains EXCEPT ![w] = pass] /\ sent' = [sent EXCEPT ![row.id] = e]
    BY <1>1
  <1>4. outcome = "delivered" => e = sent[row.id] + 1
    OBVIOUS
  <1>5. outcome # "delivered" => e = sent[row.id]
    OBVIOUS
  <1> HIDE DEF pass, e
  <1>6. drains'[w] = pass /\ \A v \in Drains : v # w => drains'[v] = drains[v]
    BY <1>3 DEF QueueInv, PassesFine
  <1>7. outbox' = outbox /\ disturbed' = disturbed
    BY DEF send
  <1>8. /\ sent'[row.id] = e
        /\ \A i \in DOMAIN outbox : i # row.id => sent'[i] = sent[i]
    BY <1>1, <1>3, QueueRows
  <1>9. row # Null
    BY <1>1, NotificationsAssumption DEF NotificationsAssumption
  <1>10. \A i \in DOMAIN outbox : (\E x \in pass.todo : x.id = i) <=>
             i # row.id /\ \E x \in drains[w].todo : x.id = i
    BY <1>2 DEF QueueInv, PassesFine
  <1>11. \A i \in DOMAIN outbox, v \in Drains : Holds(v, i)' <=> Holds(v, i)
    BY <1>1, <1>2, <1>6, <1>9, <1>10 DEF Holds
  <1>12. ASSUME NEW i \in DOMAIN outbox, i \notin disturbed
         PROVE  Undisturbed(i)'
    <2>1. Undisturbed(i)
      BY <1>12 DEF OnceInv
    <2>2. CASE i = row.id
      <3>1. outbox[i].status = "PENDING" /\ sent[i] = 0 /\ Holds(w, i)
        BY <2>1, <2>2 DEF Undisturbed, Holds
      <3>2. \A v \in Drains : v # w => ~Holds(v, i)
        BY <2>1, <3>1 DEF Undisturbed
      <3>3. sent'[i] = IF outcome = "delivered" THEN 1 ELSE 0
        BY <1>4, <1>5, <1>8, <2>2, <3>1
      <3>4. \A v \in Drains : v # w => ~Holds(v, i)'
        BY <1>11, <3>2
      <3> QED  BY <1>2, <1>6, <1>7, <1>10, <1>11, <2>2, <3>1, <3>3, <3>4 DEF Undisturbed, Holds
    <2>3. CASE i # row.id
      BY <1>1, <1>2, <1>6, <1>7, <1>8, <1>10, <1>11, <2>1, <2>3 DEF Undisturbed
    <2> QED  BY <2>2, <2>3
  <1> QED  BY <1>7, <1>12 DEF OnceInv

LEMMA OnceMark ==
    ASSUME QueueInv, OnceInv, NEW w \in Drains, mark(w)
    PROVE  OnceInv'
  <1> DEFINE pass == [todo |-> drains[w].todo, now |-> Null, outcome |-> Null]
             n == drains[w].now.id
  <1>1. pass.todo = drains[w].todo /\ pass.now = Null
    OBVIOUS
  <1>2. drains' = [drains EXCEPT ![w] = pass] /\ sent' = sent /\ disturbed' = disturbed
        /\ drains[w].now # Null
    BY DEF mark
  <1> HIDE DEF pass
  <1>3. drains'[w] = pass /\ \A v \in Drains : v # w => drains'[v] = drains[v]
    BY <1>2 DEF QueueInv, PassesFine
  <1>4. /\ n \in DOMAIN outbox /\ outbox'[n] \in DeliveryRows
        /\ outbox' = [outbox EXCEPT ![n] = outbox'[n]]
        /\ outbox'[n].status = "PENDING" => drains[w].outcome # "delivered"
    BY MarkWrites
  <1>5. Holds(w, n)
    BY <1>2 DEF Holds
  <1>6. \A i \in DOMAIN outbox : drains[w].now.id = i <=> i = n
    OBVIOUS
  <1> HIDE DEF n
  <1>7. /\ DOMAIN outbox' = DOMAIN outbox
        /\ \A j \in DOMAIN outbox : j # n => outbox'[j] = outbox[j]
    BY <1>4, RowWritten
  <1>8. ASSUME NEW i \in DOMAIN outbox, i \notin disturbed
        PROVE  Undisturbed(i)'
    <2>1. Undisturbed(i)
      BY <1>8 DEF OnceInv
    <2>2. \A v \in Drains : v # w => (Holds(v, i)' <=> Holds(v, i))
      BY <1>3 DEF Holds
    <2>3. CASE i = n
      <3>1. /\ sent[i] = IF drains[w].outcome = "delivered" THEN 1 ELSE 0
            /\ ~\E row \in drains[w].todo : row.id = i
        BY <1>2, <1>6, <2>1, <2>3 DEF Undisturbed
      <3>2. \A v \in Drains : v # w => ~Holds(v, i)
        BY <1>5, <2>1, <2>3 DEF Undisturbed
      <3>3. \A v \in Drains : ~Holds(v, i)'
        BY <1>1, <1>3, <2>2, <3>1, <3>2 DEF Holds
      <3>4. outbox'[i].status = "PENDING" => sent'[i] = 0
        BY <1>2, <1>4, <2>3, <3>1
      <3> QED  BY <1>2, <3>1, <3>3, <3>4 DEF Undisturbed, Holds
    <2>4. CASE i # n
      <3>1. Holds(w, i)' <=> Holds(w, i)
        BY <1>1, <1>3, <1>6, <2>4 DEF Holds
      <3>2. \A v \in Drains : Holds(v, i)' <=> Holds(v, i)
        BY <2>2, <3>1
      <3> QED  BY <1>1, <1>2, <1>3, <1>7, <2>1, <2>4, <3>2 DEF Undisturbed
    <2> QED  BY <2>3, <2>4
  <1> QED  BY <1>2, <1>7, <1>8 DEF OnceInv

LEMMA OnceStop ==
    ASSUME QueueInv, OnceInv, Stop
    PROVE  OnceInv'
  <1>1. /\ drains' = [w \in Drains |-> NoPass]
        /\ disturbed' = disturbed \cup
               {drains[w].now.id : w \in {v \in Drains : drains[v].now # Null}}
        /\ outbox' = outbox /\ sent' = sent
    BY DEF Stop
  <1>2. NoPass.todo = {} /\ NoPass.now = Null
    BY DEF NoPass
  <1> HIDE DEF NoPass
  <1>3. \A w \in Drains, i \in DOMAIN outbox : ~Holds(w, i)'
    BY <1>1, <1>2 DEF Holds
  <1>4. ASSUME NEW i \in DOMAIN outbox, i \notin disturbed'
        PROVE  Undisturbed(i)'
    <2>1. Undisturbed(i) /\ \A w \in Drains : drains[w].now # Null => drains[w].now.id # i
      BY <1>1, <1>4 DEF OnceInv
    <2>2. outbox[i].status = "PENDING" => sent[i] = 0
      BY <2>1 DEF Undisturbed, Holds
    <2> QED  BY <1>1, <1>2, <1>3, <2>1, <2>2 DEF Undisturbed
  <1> QED  BY <1>1, <1>4 DEF OnceInv

\* A message is handed to its channel once, unless a crash came between the sending and the
\* mark, or two drains had the row at once: however many rows, drains and crashes there are
\* (drain, send, mark).
THEOREM SentOnce == NotificationsSpec => []SentOnceUnlessCut
  <1> DEFINE Inv == QueueInv /\ OnceInv
  <1>1. NotificationsInit => Inv
    BY QueueInvStart DEF OnceInv, NotificationsInit
  <1>2. Inv /\ [NotificationsNext]_notificationVars => Inv'
    <2> SUFFICES ASSUME Inv, [NotificationsNext]_notificationVars PROVE OnceInv'
      BY QueueInvStep
    <2>1. ASSUME NEW c \in Notifiers, notify(c) PROVE OnceInv'
      BY <2>1, OnceNotify
    <2>2. ASSUME NEW c \in Notifiers, NEW e \in Facts, Ask(c, e) PROVE OnceInv'
      BY <2>2, OnceUntouched DEF Ask
    <2>3. ASSUME NEW w \in Drains, Draining(w) PROVE OnceInv'
      BY <2>3, OnceDrain, OnceSend, OnceMark DEF Draining
    <2>4. ASSUME NEW i \in DOMAIN outbox, BackoffEnds(i) PROVE OnceInv'
      BY <2>4, BackoffKept, OnceUntouched DEF BackoffEnds
    <2>5. CASE Stop
      BY <2>5, OnceStop
    <2>6. CASE \/ \E way \in {"EMAIL", "IN_APP"} : upsertTemplate(way)
               \/ \E p \in Phones : register(p) \/ revokeToken(p)
      BY <2>6, SettingsKept, OnceUntouched
    <2>7. CASE \/ \E a \in Announcements : Announcing(a)
               \/ \E due, expired \in SUBSET Announcements : publishScheduled(due, expired)
      BY <2>7, AnnouncingKept, OnceUntouched
    <2>8. CASE UNCHANGED notificationVars
      BY <2>8, OnceUntouched DEF notificationVars
    <2> QED  BY <2>1, <2>2, <2>3, <2>4, <2>5, <2>6, <2>7, <2>8 DEF NotificationsNext
  <1>3. Inv => SentOnceUnlessCut
    BY DEF OnceInv, Undisturbed, SentOnceUnlessCut
  <1> HIDE DEF Inv
  <1> QED  BY <1>1, <1>2, <1>3, PTL DEF NotificationsSpec

(***************************************************************************)
(* What is written to guests, and by them.                                 *)
(***************************************************************************)

WriteRows == [stay : Stays \cup {Null}, guest : Guests \cup {Null}, direction : {"IN", "OUT"},
              channel : {"SMS", "INTERNAL"}, key : AutomationKeys \cup {Null}]

\* A request that is under way writes on a thread that is there, about a message that is
\* there; only the worker writes the automatic ones.
WritesOn(p) ==
    /\ writing[p].step \in {"IDLE", "OPEN", "INSERT", "TOUCH", "DELIVER", "MARK"}
    /\ writing[p].step = "IDLE" => writing[p] = NotWriting
    /\ writing[p].step # "IDLE" =>
          /\ writing[p].write \in WriteRows
          /\ IF p = StayWorker
             THEN /\ writing[p].write.stay \in Stays /\ writing[p].write.key \in AutomationKeys
                  /\ writing[p].write.direction = "OUT" /\ writing[p].write.channel = "SMS"
             ELSE writing[p].write.key = Null /\ writing[p].step # "MARK"
    /\ writing[p].step \in {"INSERT", "TOUCH", "DELIVER"} =>
          writing[p].thread \in Threads /\ threads[writing[p].thread] # Null
    /\ writing[p].step \in {"TOUCH", "DELIVER"} =>
          writing[p].row \in Messages /\ messages[writing[p].row] # Null

BeingRead(v) ==
    reading[v] # Null =>
        /\ reading[v].thread \in Threads /\ threads[reading[v].thread] # Null
        /\ reading[v].unread \in Nat

TalkInv ==
    /\ TalkTypeOK
    /\ DOMAIN writing = Correspondents /\ DOMAIN reading = Readers /\ DOMAIN phase = Stays
    /\ todo \subseteq Stays \X AutomationKeys
    /\ \A p \in Correspondents : WritesOn(p)
    /\ \A v \in Readers : BeingRead(v)

\* What a step may do to the requests: one of them goes on, the threads and the messages that
\* were there stay there.
LEMMA RequestGoesOn ==
    ASSUME TalkInv, NEW p \in Correspondents, NEW r, writing' = [writing EXCEPT ![p] = r],
           \A t \in Threads : threads[t] # Null => threads'[t] # Null,
           \A m \in Messages : messages[m] # Null => messages'[m] # Null
    PROVE  /\ DOMAIN writing' = Correspondents /\ writing'[p] = r
           /\ \A q \in Correspondents : q # p => writing'[q] = writing[q] /\ WritesOn(q)'
  <1>1. /\ DOMAIN writing' = Correspondents /\ writing'[p] = r
        /\ \A q \in Correspondents : q # p => writing'[q] = writing[q]
    BY DEF TalkInv
  <1>2. ASSUME NEW q \in Correspondents, q # p PROVE WritesOn(q)'
    BY <1>1, <1>2 DEF TalkInv, WritesOn
  <1> QED  BY <1>1, <1>2

LEMMA PointFields ==
    ASSUME NEW step, NEW w, NEW t, NEW m
    PROVE  /\ Point(step, w, t, m).step = step /\ Point(step, w, t, m).write = w
           /\ Point(step, w, t, m).thread = t /\ Point(step, w, t, m).row = m
  BY DEF Point

LEMMA IdleFields == NotWriting.step = "IDLE"
  BY DEF NotWriting, Point

\* threadFor: the request goes on with a thread that is there, or is about to open one.
LEMMA ThreadFound ==
    ASSUME TalkInv, NEW p \in Correspondents, NEW w \in WriteRows, FindThread(p, w),
           IF p = StayWorker
           THEN /\ w.stay \in Stays /\ w.key \in AutomationKeys
                /\ w.direction = "OUT" /\ w.channel = "SMS"
           ELSE w.key = Null,
           UNCHANGED <<threads, messages>>
    PROVE  /\ DOMAIN writing' = Correspondents
           /\ \A q \in Correspondents : WritesOn(q)'
           /\ \A q \in Correspondents : q # p => writing'[q] = writing[q]
           /\ writing'[p].step \in {"OPEN", "INSERT"} /\ writing'[p].write = w
  <1>1. ASSUME NEW t \in Threads, threads[t] # Null,
               writing' = [writing EXCEPT ![p] = Point("INSERT", w, t, Null)]
        PROVE  /\ DOMAIN writing' = Correspondents
               /\ \A q \in Correspondents : WritesOn(q)'
               /\ \A q \in Correspondents : q # p => writing'[q] = writing[q]
               /\ writing'[p].step \in {"OPEN", "INSERT"} /\ writing'[p].write = w
    <2> DEFINE r == Point("INSERT", w, t, Null)
    <2>1. r.step = "INSERT" /\ r.write = w /\ r.thread = t
      BY PointFields
    <2>2. writing' = [writing EXCEPT ![p] = r]
      BY <1>1
    <2> HIDE DEF r
    <2>3. /\ DOMAIN writing' = Correspondents /\ writing'[p] = r
          /\ \A q \in Correspondents : q # p => writing'[q] = writing[q] /\ WritesOn(q)'
      BY <2>2, RequestGoesOn
    <2>4. WritesOn(p)'
      BY <1>1, <2>1, <2>3 DEF WritesOn
    <2> QED  BY <2>1, <2>3, <2>4
  <1>2. ASSUME writing' = [writing EXCEPT ![p] = Point("OPEN", w, Null, Null)]
        PROVE  /\ DOMAIN writing' = Correspondents
               /\ \A q \in Correspondents : WritesOn(q)'
               /\ \A q \in Correspondents : q # p => writing'[q] = writing[q]
               /\ writing'[p].step \in {"OPEN", "INSERT"} /\ writing'[p].write = w
    <2> DEFINE r == Point("OPEN", w, Null, Null)
    <2>1. r.step = "OPEN" /\ r.write = w
      BY PointFields
    <2>2. writing' = [writing EXCEPT ![p] = r]
      BY <1>2
    <2> HIDE DEF r
    <2>3. /\ DOMAIN writing' = Correspondents /\ writing'[p] = r
          /\ \A q \in Correspondents : q # p => writing'[q] = writing[q] /\ WritesOn(q)'
      BY <2>2, RequestGoesOn
    <2>4. WritesOn(p)'
      BY <2>1, <2>3 DEF WritesOn
    <2> QED  BY <2>1, <2>3, <2>4
  <1> QED  BY <1>1, <1>2 DEF FindThread, Matching

\* The requests of staff, of the webhook and of the worker that begin.
LEMMA BeginKept ==
    ASSUME TalkInv, NEW p \in Correspondents,
           \/ p \in Writers /\ BeginWrite(p)
           \/ p \in Inbound /\ BeginReceive(p)
    PROVE  /\ TalkInv'
           /\ p # StayWorker /\ writing[p] = NotWriting /\ writing'[p].step \in {"OPEN", "INSERT"}
           /\ \A q \in Correspondents : q # p => writing'[q] = writing[q]
  <1>1. p # StayWorker
    BY ConversationsAssumption DEF ConversationsAssumption
  <1>2. UNCHANGED <<threads, messages, phase, automationsSent, todo, reading>>
        /\ writing[p] = NotWriting
    BY DEF BeginWrite, BeginReceive
  <1>3. /\ DOMAIN writing' = Correspondents
        /\ \A q \in Correspondents : WritesOn(q)'
        /\ \A q \in Correspondents : q # p => writing'[q] = writing[q]
        /\ writing'[p].step \in {"OPEN", "INSERT"}
    <2>1. ASSUME NEW w \in WriteRows, w.key = Null, FindThread(p, w)
          PROVE  /\ DOMAIN writing' = Correspondents
                 /\ \A q \in Correspondents : WritesOn(q)'
                 /\ \A q \in Correspondents : q # p => writing'[q] = writing[q]
                 /\ writing'[p].step \in {"OPEN", "INSERT"}
      BY <1>1, <1>2, <2>1, ThreadFound
    <2>2. CASE \E way \in {"SMS", "INTERNAL"}, s \in Stays :
                  FindThread(p, Writes(s, GuestOf[s], "OUT", way, Null))
      <3>1. PICK way \in {"SMS", "INTERNAL"}, s \in Stays :
                  FindThread(p, Writes(s, GuestOf[s], "OUT", way, Null))
        BY <2>2
      <3> DEFINE w == Writes(s, GuestOf[s], "OUT", way, Null)
      <3>2. w \in WriteRows /\ w.key = Null
        BY ConversationsAssumption DEF ConversationsAssumption, WriteRows, Writes
      <3> QED  BY <2>1, <3>1, <3>2
    <2>3. CASE \E g \in Guests : FindThread(p, Writes(Null, g, "IN", "SMS", Null))
      <3>1. PICK g \in Guests : FindThread(p, Writes(Null, g, "IN", "SMS", Null))
        BY <2>3
      <3> DEFINE w == Writes(Null, g, "IN", "SMS", Null)
      <3>2. w \in WriteRows /\ w.key = Null
        BY DEF WriteRows, Writes
      <3> QED  BY <2>1, <3>1, <3>2
    <2>4. CASE \E way \in {"SMS", "INTERNAL"}, t \in Threads :
                 /\ threads[t] # Null
                 /\ writing' = [writing EXCEPT ![p] =
                        Point("INSERT", Writes(threads[t].stay, threads[t].guest, "OUT", way,
                                               Null), t, Null)]
      <3>1. PICK way \in {"SMS", "INTERNAL"}, t \in Threads :
                 /\ threads[t] # Null
                 /\ writing' = [writing EXCEPT ![p] =
                        Point("INSERT", Writes(threads[t].stay, threads[t].guest, "OUT", way,
                                               Null), t, Null)]
        BY <2>4
      <3> DEFINE w == Writes(threads[t].stay, threads[t].guest, "OUT", way, Null)
                 r == Point("INSERT", w, t, Null)
      <3>2. threads[t] \in ThreadRows
        BY <3>1 DEF TalkInv, TalkTypeOK
      <3>3. w \in WriteRows /\ w.key = Null
        BY <3>2 DEF WriteRows, Writes, ThreadRows
      <3> HIDE DEF w
      <3>4. r.step = "INSERT" /\ r.write = w /\ r.thread = t
        BY PointFields
      <3>5. writing' = [writing EXCEPT ![p] = r]
        BY <3>1 DEF w
      <3> HIDE DEF r
      <3>6. /\ DOMAIN writing' = Correspondents /\ writing'[p] = r
            /\ \A q \in Correspondents : q # p => writing'[q] = writing[q] /\ WritesOn(q)'
        BY <1>2, <3>5, RequestGoesOn
      <3>7. WritesOn(p)'
        BY <1>1, <1>2, <3>1, <3>3, <3>4, <3>6 DEF WritesOn
      <3> QED  BY <3>4, <3>6, <3>7
    <2> QED  BY <2>2, <2>3, <2>4 DEF BeginWrite, BeginReceive
  <1>4. TalkTypeOK'
    BY <1>2 DEF TalkInv, TalkTypeOK
  <1> QED  BY <1>1, <1>2, <1>3, <1>4 DEF TalkInv, BeingRead

LEMMA LookAtKept ==
    ASSUME TalkInv, LookAt
    PROVE  /\ TalkInv'
           /\ writing[StayWorker] = NotWriting
           /\ \/ writing' = writing
              \/ /\ writing'[StayWorker].step \in {"OPEN", "INSERT"}
                 /\ <<writing'[StayWorker].write.stay, writing'[StayWorker].write.key>>
                       \notin automationsSent
                 /\ \A q \in Correspondents : q # StayWorker => writing'[q] = writing[q]
  <1>1. PICK due \in todo :
          /\ todo' = todo \ {due}
          /\ IF alreadySent(due[1], due[2]) THEN UNCHANGED writing
             ELSE FindThread(StayWorker, Writes(due[1], GuestOf[due[1]], "OUT", "SMS", due[2]))
    BY DEF LookAt
  <1>2. UNCHANGED <<threads, messages, phase, automationsSent, reading>>
        /\ writing[StayWorker] = NotWriting
    BY DEF LookAt
  <1> DEFINE w == Writes(due[1], GuestOf[due[1]], "OUT", "SMS", due[2])
  <1>3. due[1] \in Stays /\ due[2] \in AutomationKeys
    BY DEF TalkInv
  <1>4. w \in WriteRows /\ w.stay = due[1] /\ w.key = due[2] /\ w.direction = "OUT"
        /\ w.channel = "SMS"
    BY <1>3, ConversationsAssumption DEF ConversationsAssumption, WriteRows, Writes
  <1> HIDE DEF w
  <1>5. StayWorker \in Correspondents
    BY DEF Correspondents
  <1>6. CASE alreadySent(due[1], due[2])
    <2>1. writing' = writing
      BY <1>1, <1>6
    <2> QED  BY <1>1, <1>2, <2>1 DEF TalkInv, TalkTypeOK, WritesOn, BeingRead
  <1>7. CASE ~alreadySent(due[1], due[2])
    <2>1. FindThread(StayWorker, w)
      BY <1>1, <1>7 DEF w
    <2>2. /\ DOMAIN writing' = Correspondents
          /\ \A q \in Correspondents : WritesOn(q)'
          /\ \A q \in Correspondents : q # StayWorker => writing'[q] = writing[q]
          /\ writing'[StayWorker].step \in {"OPEN", "INSERT"} /\ writing'[StayWorker].write = w
      BY <1>2, <1>3, <1>4, <1>5, <2>1, ThreadFound
    <2>3. <<w.stay, w.key>> \notin automationsSent
      BY <1>4, <1>7 DEF alreadySent
    <2>4. TalkInv'
      BY <1>1, <1>2, <2>2 DEF TalkInv, TalkTypeOK, BeingRead
    <2> QED  BY <1>2, <2>2, <2>3, <2>4
  <1> QED  BY <1>6, <1>7

LEMMA OpenKept ==
    ASSUME TalkInv, NEW p \in Correspondents, OpenThread(p)
    PROVE  /\ TalkInv'
           /\ writing[p].step = "OPEN" /\ writing'[p].step = "INSERT"
           /\ writing'[p].write = writing[p].write
           /\ \A q \in Correspondents : q # p => writing'[q] = writing[q]
           /\ \E t \in Threads : threads[t] = Null /\ threads'[t] # Null
                                 /\ \A u \in Threads : u # t => threads'[u] = threads[u]
  <1> DEFINE w == writing[p].write
  <1>1. PICK t \in NextOf(threads, Threads) :
          /\ threads' = [threads EXCEPT ![t] = [stay |-> w.stay, guest |-> w.guest, unread |-> 0]]
          /\ writing' = [writing EXCEPT ![p] = Point("INSERT", w, t, Null)]
    BY DEF OpenThread
  <1>2. t \in Threads /\ threads[t] = Null
    BY DEF NextOf
  <1>3. writing[p].step = "OPEN" /\ WritesOn(p)
        /\ UNCHANGED <<messages, phase, automationsSent, todo, reading>>
    BY DEF OpenThread, TalkInv
  <1>4. w \in WriteRows
    BY <1>3 DEF WritesOn
  <1> DEFINE row == [stay |-> w.stay, guest |-> w.guest, unread |-> 0]
             r == Point("INSERT", w, t, Null)
  <1>5. row \in ThreadRows
    BY <1>4 DEF WriteRows, ThreadRows
  <1>6. r.step = "INSERT" /\ r.write = w /\ r.thread = t
    BY PointFields
  <1>7. threads' = [threads EXCEPT ![t] = row] /\ writing' = [writing EXCEPT ![p] = r]
    BY <1>1
  <1> HIDE DEF row, r
  <1>8. row # Null
    BY <1>5, ConversationsAssumption DEF ConversationsAssumption
  <1>9. /\ threads' \in [Threads -> ThreadRows \cup {Null}] /\ threads'[t] = row
        /\ \A u \in Threads : u # t => threads'[u] = threads[u]
    BY <1>2, <1>5, <1>7 DEF TalkInv, TalkTypeOK
  <1>10. \A u \in Threads : threads[u] # Null => threads'[u] # Null
    BY <1>2, <1>9
  <1>11. /\ DOMAIN writing' = Correspondents /\ writing'[p] = r
         /\ \A q \in Correspondents : q # p => writing'[q] = writing[q] /\ WritesOn(q)'
    BY <1>3, <1>7, <1>10, RequestGoesOn
  <1>12. WritesOn(p)'
    BY <1>2, <1>3, <1>4, <1>6, <1>8, <1>9, <1>11 DEF WritesOn
  <1>13. TalkTypeOK'
    BY <1>3, <1>9, <1>10 DEF TalkInv, TalkTypeOK, MessageRows
  <1>14. \A v \in Readers : BeingRead(v)'
    BY <1>3, <1>10 DEF TalkInv, BeingRead
  <1>15. TalkInv'
    BY <1>3, <1>11, <1>12, <1>13, <1>14 DEF TalkInv
  <1> QED  BY <1>2, <1>3, <1>6, <1>8, <1>9, <1>11, <1>15

LEMMA InsertKept ==
    ASSUME TalkInv, NEW p \in Correspondents, InsertMessage(p)
    PROVE  /\ TalkInv'
           /\ writing[p].step = "INSERT" /\ writing'[p].step = "TOUCH"
           /\ writing'[p].write = writing[p].write /\ writing'[p].thread = writing[p].thread
           /\ \A q \in Correspondents : q # p => writing'[q] = writing[q]
           /\ \E m \in Messages :
                 /\ messages[m] = Null /\ messages'[m] # Null
                 /\ messages'[m].thread = writing[p].thread
                 /\ messages'[m].direction = writing[p].write.direction
                 /\ messages'[m].stay = writing[p].write.stay
                 /\ messages'[m].key = writing[p].write.key
                 /\ \A n \in Messages : n # m => messages'[n] = messages[n]
  <1> DEFINE w == writing[p].write
             t == writing[p].thread
  <1>1. PICK m \in NextOf(messages, Messages) :
          /\ messages' = [messages EXCEPT ![m] =
                 [thread |-> t, direction |-> w.direction, status |-> FirstStatus(w),
                  stay |-> w.stay, key |-> w.key]]
          /\ writing' = [writing EXCEPT ![p] = Point("TOUCH", w, t, m)]
    BY DEF InsertMessage
  <1>2. m \in Messages /\ messages[m] = Null
    BY DEF NextOf
  <1>3. writing[p].step = "INSERT" /\ WritesOn(p)
        /\ UNCHANGED <<threads, phase, automationsSent, todo, reading>>
    BY DEF InsertMessage, TalkInv
  <1>4. w \in WriteRows /\ t \in Threads /\ threads[t] # Null
    BY <1>3 DEF WritesOn
  <1> DEFINE row == [thread |-> t, direction |-> w.direction, status |-> FirstStatus(w),
                     stay |-> w.stay, key |-> w.key]
             r == Point("TOUCH", w, t, m)
  <1>5. row \in MessageRows
    <2>1. FirstStatus(w) \in {"QUEUED", "SENT", "FAILED", "RECEIVED"}
      BY DEF FirstStatus
    <2> QED  BY <1>4, <2>1 DEF WriteRows, MessageRows
  <1>6. /\ row.thread = t /\ row.direction = w.direction /\ row.stay = w.stay /\ row.key = w.key
        /\ r.step = "TOUCH" /\ r.write = w /\ r.thread = t /\ r.row = m
    BY PointFields
  <1>7. messages' = [messages EXCEPT ![m] = row] /\ writing' = [writing EXCEPT ![p] = r]
    BY <1>1
  <1> HIDE DEF row, r
  <1>8. row # Null
    BY <1>5, ConversationsAssumption DEF ConversationsAssumption
  <1>9. /\ messages' \in [Messages -> MessageRows \cup {Null}] /\ messages'[m] = row
        /\ \A n \in Messages : n # m => messages'[n] = messages[n]
    BY <1>2, <1>5, <1>7 DEF TalkInv, TalkTypeOK
  <1>10. \A n \in Messages : messages[n] # Null => messages'[n] # Null
    BY <1>2, <1>9
  <1>11. /\ DOMAIN writing' = Correspondents /\ writing'[p] = r
         /\ \A q \in Correspondents : q # p => writing'[q] = writing[q] /\ WritesOn(q)'
    BY <1>3, <1>7, <1>10, RequestGoesOn
  <1>12. WritesOn(p)'
    BY <1>2, <1>3, <1>4, <1>6, <1>8, <1>9, <1>11 DEF WritesOn
  <1>13. TalkTypeOK'
    <2>1. \A n \in Messages : messages'[n] # Null => threads'[messages'[n].thread] # Null
      BY <1>3, <1>4, <1>6, <1>9 DEF TalkInv, TalkTypeOK
    <2> QED  BY <1>3, <1>9, <2>1 DEF TalkInv, TalkTypeOK
  <1>14. \A v \in Readers : BeingRead(v)'
    BY <1>3 DEF TalkInv, BeingRead
  <1>15. TalkInv'
    BY <1>3, <1>11, <1>12, <1>13, <1>14 DEF TalkInv
  <1> QED  BY <1>2, <1>3, <1>6, <1>8, <1>9, <1>11, <1>15

LEMMA TouchKept ==
    ASSUME TalkInv, NEW p \in Correspondents, Touch(p)
    PROVE  LET t == writing[p].thread
               w == writing[p].write
           IN  /\ TalkInv'
               /\ writing[p].step = "TOUCH" /\ t \in Threads /\ w \in WriteRows
               /\ threads[t] # Null /\ threads'[t].unread = Unread(t, w)
               /\ \A u \in Threads : u # t => threads'[u] = threads[u]
               /\ \A u \in Threads : threads'[u] = Null <=> threads[u] = Null
               /\ \/ writing'[p].step = "IDLE" /\ (w.direction = "IN" \/ w.channel = "INTERNAL")
                  \/ writing'[p].step = "DELIVER" /\ writing'[p].write = w
               /\ \A q \in Correspondents : q # p => writing'[q] = writing[q]
  <1> DEFINE w == writing[p].write
             t == writing[p].thread
             ends == w.direction = "IN" \/ w.channel = "INTERNAL"
             r == IF ends THEN NotWriting ELSE Point("DELIVER", w, t, writing[p].row)
             row == [threads[t] EXCEPT !.unread = Unread(t, w)]
  <1>1. /\ writing[p].step = "TOUCH" /\ WritesOn(p)
        /\ threads' = [threads EXCEPT ![t] = row] /\ writing' = [writing EXCEPT ![p] = r]
        /\ UNCHANGED <<messages, phase, automationsSent, todo, reading>>
    BY DEF Touch, TalkInv
  <1>2. /\ w \in WriteRows /\ t \in Threads /\ threads[t] # Null
        /\ writing[p].row \in Messages /\ messages[writing[p].row] # Null
    BY <1>1 DEF WritesOn
  <1>3. threads[t] \in ThreadRows
    BY <1>2 DEF TalkInv, TalkTypeOK
  <1>4. row \in ThreadRows /\ row.unread = Unread(t, w)
    BY <1>3 DEF ThreadRows, Unread
  <1>5. /\ ends => r = NotWriting
        /\ ~ends => r.step = "DELIVER" /\ r.write = w /\ r.thread = t /\ r.row = writing[p].row
    BY PointFields
  <1> HIDE DEF row, r
  <1>6. row # Null
    BY <1>4, ConversationsAssumption DEF ConversationsAssumption
  <1>7. /\ threads' \in [Threads -> ThreadRows \cup {Null}] /\ threads'[t] = row
        /\ \A u \in Threads : u # t => threads'[u] = threads[u]
    BY <1>1, <1>2, <1>4 DEF TalkInv, TalkTypeOK
  <1>8. \A u \in Threads : threads'[u] = Null <=> threads[u] = Null
    BY <1>2, <1>6, <1>7
  <1>9. /\ DOMAIN writing' = Correspondents /\ writing'[p] = r
        /\ \A q \in Correspondents : q # p => writing'[q] = writing[q] /\ WritesOn(q)'
    BY <1>1, <1>8, RequestGoesOn
  <1>10. WritesOn(p)'
    <2>1. CASE ends
      BY <1>5, <1>9, <2>1, IdleFields DEF WritesOn
    <2>2. CASE ~ends
      BY <1>1, <1>2, <1>5, <1>8, <1>9, <2>2 DEF WritesOn
    <2> QED  BY <2>1, <2>2
  <1>11. TalkTypeOK'
    BY <1>1, <1>7, <1>8 DEF TalkInv, TalkTypeOK, MessageRows
  <1>12. \A v \in Readers : BeingRead(v)'
    BY <1>1, <1>8 DEF TalkInv, BeingRead
  <1>13. TalkInv'
    BY <1>1, <1>9, <1>10, <1>11, <1>12 DEF TalkInv
  <1> QED  BY <1>1, <1>2, <1>4, <1>5, <1>7, <1>8, <1>9, <1>13, IdleFields

LEMMA DeliverKept ==
    ASSUME TalkInv, NEW p \in Correspondents, Deliver(p)
    PROVE  /\ TalkInv'
           /\ writing[p].step = "DELIVER"
           /\ IF p = StayWorker
              THEN writing'[p].step = "MARK" /\ writing'[p].write = writing[p].write
              ELSE writing'[p].step = "IDLE"
           /\ \A q \in Correspondents : q # p => writing'[q] = writing[q]
           /\ \A m \in Messages :
                 /\ messages'[m] = Null <=> messages[m] = Null
                 /\ messages[m] # Null =>
                       /\ messages'[m].thread = messages[m].thread
                       /\ messages'[m].direction = messages[m].direction
                       /\ messages'[m].stay = messages[m].stay
                       /\ messages'[m].key = messages[m].key
  <1> DEFINE w == writing[p].write
             m == writing[p].row
             status == IF threads[writing[p].thread].guest = Null THEN "FAILED" ELSE "SENT"
             r == IF p = StayWorker THEN Point("MARK", w, Null, Null) ELSE NotWriting
             row == [messages[m] EXCEPT !.status = status]
  <1>1. /\ writing[p].step = "DELIVER" /\ WritesOn(p)
        /\ messages' = [messages EXCEPT ![m] = row] /\ writing' = [writing EXCEPT ![p] = r]
        /\ UNCHANGED <<threads, phase, automationsSent, todo, reading>>
    BY DEF Deliver, TalkInv
  <1>2. w \in WriteRows /\ m \in Messages /\ messages[m] # Null
    BY <1>1 DEF WritesOn
  <1>3. messages[m] \in MessageRows
    BY <1>2 DEF TalkInv, TalkTypeOK
  <1>4. /\ row \in MessageRows
        /\ row.thread = messages[m].thread /\ row.direction = messages[m].direction
        /\ row.stay = messages[m].stay /\ row.key = messages[m].key
    <2>1. status \in {"QUEUED", "SENT", "FAILED", "RECEIVED"}
      OBVIOUS
    <2> HIDE DEF status
    <2> QED  BY <1>3, <2>1 DEF MessageRows
  <1>5. /\ p = StayWorker => r.step = "MARK" /\ r.write = w
        /\ p # StayWorker => r = NotWriting
    BY PointFields
  <1> HIDE DEF row, r
  <1>6. row # Null
    BY <1>4, ConversationsAssumption DEF ConversationsAssumption
  <1>7. /\ messages' \in [Messages -> MessageRows \cup {Null}] /\ messages'[m] = row
        /\ \A n \in Messages : n # m => messages'[n] = messages[n]
    BY <1>1, <1>2, <1>4 DEF TalkInv, TalkTypeOK
  <1>8. \A n \in Messages :
                 /\ messages'[n] = Null <=> messages[n] = Null
                 /\ messages[n] # Null =>
                       /\ messages'[n].thread = messages[n].thread
                       /\ messages'[n].direction = messages[n].direction
                       /\ messages'[n].stay = messages[n].stay
                       /\ messages'[n].key = messages[n].key
    BY <1>2, <1>4, <1>6, <1>7
  <1>9. /\ DOMAIN writing' = Correspondents /\ writing'[p] = r
        /\ \A q \in Correspondents : q # p => writing'[q] = writing[q] /\ WritesOn(q)'
    BY <1>1, <1>8, RequestGoesOn
  <1>10. WritesOn(p)'
    <2>1. CASE p = StayWorker
      BY <1>1, <1>2, <1>5, <1>9, <2>1 DEF WritesOn
    <2>2. CASE p # StayWorker
      BY <1>5, <1>9, <2>2, IdleFields DEF WritesOn
    <2> QED  BY <2>1, <2>2
  <1>11. TalkTypeOK'
    BY <1>1, <1>7, <1>8 DEF TalkInv, TalkTypeOK
  <1>12. \A v \in Readers : BeingRead(v)'
    BY <1>1 DEF TalkInv, BeingRead
  <1>13. TalkInv'
    BY <1>1, <1>9, <1>10, <1>11, <1>12 DEF TalkInv
  <1> QED  BY <1>1, <1>5, <1>8, <1>9, <1>13, IdleFields

LEMMA WorkerRests ==
    ASSUME TalkInv, markSent \/ RunDies
    PROVE  /\ TalkInv'
           /\ writing'[StayWorker] = NotWriting /\ writing[StayWorker].step # "IDLE"
           /\ \A q \in Correspondents : q # StayWorker => writing'[q] = writing[q]
  <1>1. StayWorker \in Correspondents
    BY DEF Correspondents
  <1>2. writing' = [writing EXCEPT ![StayWorker] = NotWriting]
        /\ UNCHANGED <<threads, messages, phase, reading>>
    BY DEF markSent, RunDies
  <1>3. WritesOn(StayWorker) /\ writing[StayWorker].step # "IDLE"
    BY <1>1 DEF TalkInv, WritesOn, markSent, RunDies
  <1>4. writing[StayWorker].write.stay \in Stays /\ writing[StayWorker].write.key \in AutomationKeys
    BY <1>3 DEF WritesOn
  <1>5. /\ DOMAIN writing' = Correspondents /\ writing'[StayWorker] = NotWriting
        /\ \A q \in Correspondents : q # StayWorker => writing'[q] = writing[q] /\ WritesOn(q)'
    BY <1>1, <1>2, RequestGoesOn
  <1>6. WritesOn(StayWorker)'
    BY <1>5, IdleFields DEF WritesOn
  <1>7. /\ todo' \subseteq Stays \X AutomationKeys
        /\ automationsSent' \subseteq Stays \X AutomationKeys
    BY <1>4 DEF markSent, RunDies, TalkInv, TalkTypeOK
  <1>8. TalkTypeOK' /\ \A v \in Readers : BeingRead(v)'
    BY <1>2, <1>7 DEF TalkInv, TalkTypeOK, BeingRead
  <1> QED  BY <1>2, <1>3, <1>5, <1>6, <1>7, <1>8 DEF TalkInv

LEMMA ReadKept ==
    ASSUME TalkInv, NEW v \in Readers, ReadThread(v)
    PROVE  TalkInv'
  <1>1. PICK t \in Threads :
          /\ threads[t] # Null
          /\ reading' = [reading EXCEPT ![v] = [thread |-> t, unread |-> threads[t].unread]]
    BY DEF ReadThread
  <1>2. threads[t].unread \in Nat
    BY <1>1 DEF TalkInv, TalkTypeOK, ThreadRows
  <1>3. UNCHANGED <<threads, messages, phase, automationsSent, writing, todo>>
    BY DEF ReadThread
  <1>4. /\ DOMAIN reading' = Readers
        /\ \A u \in Readers : u # v => reading'[u] = reading[u]
        /\ reading'[v].thread = t /\ reading'[v].unread = threads[t].unread
    BY <1>1 DEF TalkInv
  <1>5. \A u \in Readers : BeingRead(u)'
    BY <1>1, <1>2, <1>3, <1>4 DEF TalkInv, BeingRead
  <1> QED  BY <1>3, <1>4, <1>5 DEF TalkInv, TalkTypeOK, WritesOn

LEMMA ResetKept ==
    ASSUME TalkInv, NEW v \in Readers, ResetUnread(v)
    PROVE  /\ TalkInv'
           /\ reading[v] # Null /\ reading[v].thread \in Threads
           /\ \A u \in Threads : u # reading[v].thread => threads'[u] = threads[u]
           /\ \A u \in Threads : threads'[u] = Null <=> threads[u] = Null
           /\ threads'[reading[v].thread].unread \in {0, threads[reading[v].thread].unread}
  <1> DEFINE t == reading[v].thread
             n == IF reading[v].unread > 0 THEN 0 ELSE threads[t].unread
             row == [threads[t] EXCEPT !.unread = n]
  <1>1. /\ reading[v] # Null /\ BeingRead(v)
        /\ threads' = [threads EXCEPT ![t] = row] /\ reading' = [reading EXCEPT ![v] = Null]
        /\ UNCHANGED <<messages, phase, automationsSent, writing, todo>>
    BY DEF ResetUnread, TalkInv
  <1>2. t \in Threads /\ threads[t] # Null
    BY <1>1 DEF BeingRead
  <1>3. threads[t] \in ThreadRows /\ threads[t].unread \in Nat
    BY <1>2 DEF TalkInv, TalkTypeOK, ThreadRows
  <1>4. n \in {0, threads[t].unread} /\ n \in Nat
    BY <1>3
  <1> HIDE DEF n
  <1>5. row \in ThreadRows /\ row.unread = n
    BY <1>3, <1>4 DEF ThreadRows
  <1> HIDE DEF row
  <1>6. row # Null
    BY <1>5, ConversationsAssumption DEF ConversationsAssumption
  <1>7. /\ threads' \in [Threads -> ThreadRows \cup {Null}] /\ threads'[t] = row
        /\ \A u \in Threads : u # t => threads'[u] = threads[u]
    BY <1>1, <1>2, <1>5 DEF TalkInv, TalkTypeOK
  <1>8. \A u \in Threads : threads'[u] = Null <=> threads[u] = Null
    BY <1>2, <1>6, <1>7
  <1>9. TalkTypeOK'
    BY <1>1, <1>7, <1>8 DEF TalkInv, TalkTypeOK, MessageRows
  <1>10. \A p \in Correspondents : WritesOn(p)'
    BY <1>1, <1>8 DEF TalkInv, WritesOn
  <1>11. DOMAIN reading' = Readers /\ \A u \in Readers : BeingRead(u)'
    BY <1>1, <1>8 DEF TalkInv, BeingRead
  <1> QED  BY <1>1, <1>2, <1>4, <1>5, <1>7, <1>8, <1>9, <1>10, <1>11 DEF TalkInv

LEMMA DayKept ==
    ASSUME TalkInv, BeginRun \/ \E s \in Stays : NextDay(s)
    PROVE  /\ TalkInv'
           /\ UNCHANGED <<threads, messages, automationsSent, writing, reading, seen, cut,
                          interleaved>>
  <1>1. UNCHANGED <<threads, messages, automationsSent, writing, reading, seen, cut, interleaved>>
    BY DEF BeginRun, NextDay
  <1>2. DOMAIN phase' = Stays
    BY DEF BeginRun, NextDay, TalkInv
  <1>3. todo' \subseteq Stays \X AutomationKeys
    BY DEF BeginRun, NextDay, TalkInv, KeyOf, DueStays, AutomationKeys
  <1> QED  BY <1>1, <1>2, <1>3 DEF TalkInv, TalkTypeOK, WritesOn, BeingRead

LEMMA TalkInvStart == TalkInit => TalkInv
  <1> SUFFICES ASSUME TalkInit PROVE TalkInv
    OBVIOUS
  <1>1. TalkTypeOK
    BY DEF TalkInit, TalkTypeOK
  <1>2. \A p \in Correspondents : WritesOn(p)
    BY IdleFields DEF TalkInit, WritesOn
  <1> QED  BY <1>1, <1>2 DEF TalkInit, TalkInv, BeingRead

LEMMA TalkInvStep ==
    ASSUME TalkInv, [TalkNext]_talkVars
    PROVE  TalkInv'
  <1>1. Writers \subseteq Correspondents /\ Inbound \subseteq Correspondents
    BY DEF Correspondents
  <1>2. CASE \/ \E p \in Writers : BeginWrite(p)
             \/ \E p \in Inbound : BeginReceive(p)
    BY <1>1, <1>2, BeginKept
  <1>3. ASSUME NEW p \in Correspondents,
               OpenThread(p) \/ InsertMessage(p) \/ Touch(p) \/ Deliver(p)
        PROVE  TalkInv'
    BY <1>3, OpenKept, InsertKept, TouchKept, DeliverKept
  <1>4. ASSUME NEW v \in Readers, ReadThread(v) \/ ResetUnread(v)
        PROVE  TalkInv'
    BY <1>4, ReadKept, ResetKept
  <1>5. CASE LookAt \/ markSent \/ RunDies
    BY <1>5, LookAtKept, WorkerRests
  <1>6. CASE BeginRun \/ \E s \in Stays : NextDay(s)
    BY <1>6, DayKept
  <1>7. CASE UNCHANGED talkVars
    BY <1>7 DEF talkVars, TalkInv, TalkTypeOK, WritesOn, BeingRead
  <1> QED  BY <1>2, <1>3, <1>4, <1>5, <1>6, <1>7 DEF TalkNext

\* Every message is on a thread that is there, and the worker's table knows stays and keys
\* (OpenThread, InsertMessage, Touch, markSent).
THEOREM TalkTyped == TalkSpec => []TalkTypeOK
  <1>1. TalkInv => TalkTypeOK
    BY DEF TalkInv
  <1> QED  BY <1>1, TalkInvStart, TalkInvStep, PTL DEF TalkSpec

-----------------------------------------------------------------------------
\* What the worker is sending.
Sending(s, key) ==
    /\ writing[StayWorker].step # "IDLE"
    /\ writing[StayWorker].write.stay = s /\ writing[StayWorker].write.key = key

\* Before the worker has inserted a message there is none of its kind; one that is there is
\* known to the sent-table or still under way; and there is one.
WrittenOnce(s, key) ==
    /\ Sending(s, key) /\ writing[StayWorker].step \in {"OPEN", "INSERT"} => Automated(s, key) = {}
    /\ Automated(s, key) # {} => <<s, key>> \in automationsSent \/ Sending(s, key)
    /\ \A m, n \in Automated(s, key) : m = n

OnceWritten ==
    \A s \in Stays, key \in AutomationKeys : <<s, key>> \notin cut => WrittenOnce(s, key)

LEMMA AutomatedIn ==
    ASSUME TalkInv, NEW s, NEW key
    PROVE  /\ Automated(s, key) \subseteq Messages
           /\ \A m \in Messages : m \in Automated(s, key) <=>
                 messages[m] # Null /\ messages[m].stay = s /\ messages[m].key = key
  BY DEF TalkInv, TalkTypeOK, Automated

\* A step that writes no automatic message and leaves the worker where it is, or takes it on
\* with the same message.
LEMMA OnceWrittenFrame ==
    ASSUME TalkInv, TalkInv', OnceWritten,
           \A m \in Messages :
              /\ messages'[m] = Null <=> messages[m] = Null
              /\ messages[m] # Null =>
                    messages'[m].stay = messages[m].stay /\ messages'[m].key = messages[m].key,
           automationsSent' = automationsSent, cut' = cut,
           \/ writing'[StayWorker] = writing[StayWorker]
           \/ /\ writing[StayWorker].step # "IDLE" /\ writing'[StayWorker].step # "IDLE"
              /\ writing'[StayWorker].write = writing[StayWorker].write
              /\ writing'[StayWorker].step \in {"OPEN", "INSERT"} =>
                    writing[StayWorker].step \in {"OPEN", "INSERT"}
    PROVE  OnceWritten'
  <1> SUFFICES ASSUME NEW s \in Stays, NEW key \in AutomationKeys, <<s, key>> \notin cut
               PROVE  WrittenOnce(s, key)'
    BY DEF OnceWritten
  <1>1. Automated(s, key)' = Automated(s, key)
    <2>1. /\ Automated(s, key)' \subseteq Messages
          /\ \A m \in Messages : m \in Automated(s, key)' <=>
                 messages'[m] # Null /\ messages'[m].stay = s /\ messages'[m].key = key
      BY DEF TalkInv, TalkTypeOK, Automated
    <2> QED  BY <2>1, AutomatedIn
  <1>2. Sending(s, key)' <=> Sending(s, key)
    BY DEF Sending
  <1>3. WrittenOnce(s, key)
    BY DEF OnceWritten
  <1> QED  BY <1>1, <1>2, <1>3 DEF WrittenOnce

LEMMA OnceWrittenInsert ==
    ASSUME TalkInv, OnceWritten, NEW p \in Correspondents, InsertMessage(p)
    PROVE  OnceWritten'
  <1>0. TalkInv'
    BY InsertKept
  <1>1. PICK m \in Messages :
                 /\ messages[m] = Null /\ messages'[m] # Null
                 /\ messages'[m].stay = writing[p].write.stay
                 /\ messages'[m].key = writing[p].write.key
                 /\ \A n \in Messages : n # m => messages'[n] = messages[n]
    BY InsertKept
  <1>2. /\ writing[p].step = "INSERT" /\ writing'[p].step = "TOUCH"
        /\ writing'[p].write = writing[p].write
        /\ \A q \in Correspondents : q # p => writing'[q] = writing[q]
        /\ StayWorker \in Correspondents
    BY InsertKept DEF Correspondents
  <1>3. automationsSent' = automationsSent /\ cut' = cut
    BY DEF InsertMessage
  <1> SUFFICES ASSUME NEW s \in Stays, NEW key \in AutomationKeys, <<s, key>> \notin cut
               PROVE  WrittenOnce(s, key)'
    BY <1>3 DEF OnceWritten
  <1>4. WrittenOnce(s, key)
    BY DEF OnceWritten
  <1>5. /\ Automated(s, key)' \subseteq Messages
        /\ \A n \in Messages : n \in Automated(s, key)' <=>
               messages'[n] # Null /\ messages'[n].stay = s /\ messages'[n].key = key
    BY <1>0 DEF TalkInv, TalkTypeOK, Automated
  <1>6. CASE p = StayWorker /\ writing[p].write.stay = s /\ writing[p].write.key = key
    <2>1. Automated(s, key) = {}
      BY <1>2, <1>4, <1>6 DEF WrittenOnce, Sending
    <2>2. Automated(s, key)' = {m}
      BY <1>1, <1>5, <1>6, <2>1, AutomatedIn
    <2>3. Sending(s, key)'
      BY <1>2, <1>6 DEF Sending
    <2> QED  BY <1>2, <1>6, <2>2, <2>3 DEF WrittenOnce
  <1>7. CASE ~(p = StayWorker /\ writing[p].write.stay = s /\ writing[p].write.key = key)
    <2>1. ~(writing[p].write.stay = s /\ writing[p].write.key = key)
      <3>1. p # StayWorker => writing[p].write.key = Null
        BY <1>2 DEF TalkInv, WritesOn
      <3>2. key # Null
        BY ConversationsAssumption DEF ConversationsAssumption
      <3> QED  BY <1>7, <3>1, <3>2
    <2>2. Automated(s, key)' = Automated(s, key)
      <3>1. m \notin Automated(s, key) /\ m \notin Automated(s, key)'
        BY <1>1, <1>5, <2>1, AutomatedIn
      <3>2. \A n \in Messages : n # m =>
               (n \in Automated(s, key)' <=> n \in Automated(s, key))
        BY <1>1, <1>5, AutomatedIn
      <3>3. Automated(s, key) \subseteq Messages
        BY AutomatedIn
      <3> QED  BY <1>5, <3>1, <3>2, <3>3
    <2>3. Sending(s, key)' <=> Sending(s, key)
      BY <1>2, <2>1 DEF Sending
    <2>4. Sending(s, key)' /\ writing'[StayWorker].step \in {"OPEN", "INSERT"} =>
             writing[StayWorker].step \in {"OPEN", "INSERT"}
      BY <1>2
    <2> QED  BY <1>3, <1>4, <2>2, <2>3, <2>4 DEF WrittenOnce
  <1> QED  BY <1>6, <1>7

LEMMA OnceWrittenWorker ==
    ASSUME TalkInv, OnceWritten, LookAt \/ markSent \/ RunDies
    PROVE  OnceWritten'
  <1>1. messages' = messages
    BY DEF LookAt, markSent, RunDies
  <1>2. \A s, key : Automated(s, key)' = Automated(s, key)
    BY <1>1 DEF Automated
  <1>3. CASE LookAt
    <2>1. automationsSent' = automationsSent /\ cut' = cut
      BY <1>3 DEF LookAt
    <2>2. /\ writing[StayWorker].step = "IDLE"
          /\ \/ writing' = writing
             \/ /\ writing'[StayWorker].step \in {"OPEN", "INSERT"}
                /\ <<writing'[StayWorker].write.stay, writing'[StayWorker].write.key>>
                      \notin automationsSent
      BY <1>3, LookAtKept, IdleFields
    <2>3. ASSUME NEW s \in Stays, NEW key \in AutomationKeys, WrittenOnce(s, key)
          PROVE  WrittenOnce(s, key)'
      <3>1. ~Sending(s, key)
        BY <2>2 DEF Sending
      <3>2. Sending(s, key)' => <<s, key>> \notin automationsSent
        BY <2>2, <3>1 DEF Sending
      <3>3. Sending(s, key)' => Automated(s, key) = {}
        BY <2>3, <3>1, <3>2 DEF WrittenOnce
      <3> QED  BY <1>2, <2>1, <2>3, <3>1, <3>3 DEF WrittenOnce
    <2> QED  BY <2>1, <2>3 DEF OnceWritten
  <1>4. CASE markSent \/ RunDies
    <2>1. writing'[StayWorker].step = "IDLE"
      BY <1>4, WorkerRests, IdleFields
    <2>2. ASSUME NEW s \in Stays, NEW key \in AutomationKeys, <<s, key>> \notin cut'
          PROVE  WrittenOnce(s, key)'
      <3>1. <<s, key>> \notin cut /\ WrittenOnce(s, key)
        BY <1>4, <2>2 DEF markSent, RunDies, OnceWritten
      <3>2. Sending(s, key) => <<s, key>> \in automationsSent'
        BY <1>4, <2>2 DEF markSent, RunDies, Sending
      <3>3. automationsSent \subseteq automationsSent'
        BY <1>4 DEF markSent, RunDies
      <3>4. ~Sending(s, key)'
        BY <2>1 DEF Sending
      <3> QED  BY <1>2, <3>1, <3>2, <3>3, <3>4 DEF WrittenOnce
    <2> QED  BY <2>2 DEF OnceWritten
  <1> QED  BY <1>3, <1>4

LEMMA OnceWrittenStep ==
    ASSUME TalkInv, OnceWritten, [TalkNext]_talkVars
    PROVE  OnceWritten'
  <1>0. TalkInv'
    BY TalkInvStep
  <1>1. StayWorker \in Correspondents /\ Writers \subseteq Correspondents
        /\ Inbound \subseteq Correspondents
    BY DEF Correspondents
  <1>2. ASSUME messages' = messages, automationsSent' = automationsSent, cut' = cut,
               writing'[StayWorker] = writing[StayWorker]
        PROVE  OnceWritten'
    BY <1>0, <1>2, OnceWrittenFrame
  <1>3. CASE \/ \E p \in Writers : BeginWrite(p)
             \/ \E p \in Inbound : BeginReceive(p)
    <2>1. messages' = messages /\ automationsSent' = automationsSent /\ cut' = cut
      BY <1>3 DEF BeginWrite, BeginReceive
    <2>2. writing'[StayWorker] = writing[StayWorker]
      BY <1>1, <1>3, BeginKept
    <2> QED  BY <1>2, <2>1, <2>2
  <1>4. ASSUME NEW p \in Correspondents, OpenThread(p)
        PROVE  OnceWritten'
    <2>1. messages' = messages /\ automationsSent' = automationsSent /\ cut' = cut
      BY <1>4 DEF OpenThread
    <2>2. /\ writing[p].step = "OPEN" /\ writing'[p].step = "INSERT"
          /\ writing'[p].write = writing[p].write
          /\ \A q \in Correspondents : q # p => writing'[q] = writing[q]
      BY <1>4, OpenKept
    <2> QED  BY <1>0, <1>1, <2>1, <2>2, OnceWrittenFrame
  <1>5. ASSUME NEW p \in Correspondents, InsertMessage(p)
        PROVE  OnceWritten'
    BY <1>5, OnceWrittenInsert
  <1>6. ASSUME NEW p \in Correspondents, Touch(p)
        PROVE  OnceWritten'
    <2>1. messages' = messages /\ automationsSent' = automationsSent /\ cut' = cut
      BY <1>6 DEF Touch
    <2>2. /\ writing[p].step = "TOUCH"
          /\ \/ /\ writing'[p].step = "IDLE"
                /\ writing[p].write.direction = "IN" \/ writing[p].write.channel = "INTERNAL"
             \/ writing'[p].step = "DELIVER" /\ writing'[p].write = writing[p].write
          /\ \A q \in Correspondents : q # p => writing'[q] = writing[q]
      BY <1>6, TouchKept
    <2>3. p = StayWorker => writing[p].write.direction = "OUT" /\ writing[p].write.channel = "SMS"
      BY <2>2 DEF TalkInv, WritesOn
    <2>4. CASE p = StayWorker
      BY <1>0, <2>1, <2>2, <2>3, <2>4, OnceWrittenFrame
    <2>5. CASE p # StayWorker
      BY <1>1, <1>2, <2>1, <2>2, <2>5
    <2> QED  BY <2>4, <2>5
  <1>7. ASSUME NEW p \in Correspondents, Deliver(p)
        PROVE  OnceWritten'
    <2>1. automationsSent' = automationsSent /\ cut' = cut
      BY <1>7 DEF Deliver
    <2>2. /\ writing[p].step = "DELIVER"
          /\ p = StayWorker => writing'[p].step = "MARK" /\ writing'[p].write = writing[p].write
          /\ \A q \in Correspondents : q # p => writing'[q] = writing[q]
          /\ \A m \in Messages :
                 /\ messages'[m] = Null <=> messages[m] = Null
                 /\ messages[m] # Null =>
                       messages'[m].stay = messages[m].stay /\ messages'[m].key = messages[m].key
      BY <1>7, DeliverKept
    <2>3. \/ writing'[StayWorker] = writing[StayWorker]
          \/ /\ writing[StayWorker].step # "IDLE" /\ writing'[StayWorker].step # "IDLE"
             /\ writing'[StayWorker].write = writing[StayWorker].write
             /\ writing'[StayWorker].step \notin {"OPEN", "INSERT"}
      BY <1>1, <2>2
    <2> QED  BY <1>0, <2>1, <2>2, <2>3, OnceWrittenFrame
  <1>8. ASSUME NEW v \in Readers, ReadThread(v) \/ ResetUnread(v)
        PROVE  OnceWritten'
    BY <1>2, <1>8 DEF ReadThread, ResetUnread
  <1>9. CASE LookAt \/ markSent \/ RunDies
    BY <1>9, OnceWrittenWorker
  <1>10. CASE BeginRun \/ \E s \in Stays : NextDay(s)
    BY <1>2, <1>10, DayKept
  <1>11. CASE UNCHANGED talkVars
    BY <1>2, <1>11 DEF talkVars
  <1> QED  BY <1>3, <1>4, <1>5, <1>6, <1>7, <1>8, <1>9, <1>10, <1>11 DEF TalkNext

LEMMA OnceWrittenMeans ==
    ASSUME TalkInv, OnceWritten
    PROVE  AutomationOnceUnlessCut
  <1> SUFFICES ASSUME NEW s \in Stays, NEW key \in AutomationKeys, <<s, key>> \notin cut
               PROVE  Cardinality(Automated(s, key)) <= 1
    BY DEF AutomationOnceUnlessCut, TalkInv
  <1>1. \A m, n \in Automated(s, key) : m = n
    BY DEF OnceWritten, WrittenOnce
  <1>2. CASE Automated(s, key) = {}
    BY <1>2, FS_EmptySet
  <1>3. CASE Automated(s, key) # {}
    <2>1. PICK m : Automated(s, key) = {m}
      BY <1>1, <1>3
    <2>2. Cardinality({m}) = 1
      BY FS_Singleton
    <2> QED  BY <2>1, <2>2
  <1> QED  BY <1>2, <1>3

-----------------------------------------------------------------------------
\* At most n messages are unseen on a thread, but for those still to be counted.
Behind(t, n) == Cardinality(Unseen(t)) <= n + Cardinality(UncountedYet(t))

\* A reader between its statements has seen all that is counted: it may reset the count.
Counted ==
    \A t \in Threads \ interleaved :
        /\ threads[t] # Null => Behind(t, threads[t].unread)
        /\ \A v \in Readers : BetweenReads(v, t) => Behind(t, 0)

Counts(p, t) ==
    writing[p].step = "TOUCH" /\ writing[p].thread = t /\ writing[p].write.direction = "IN"

LEMMA CountsIn ==
    ASSUME TalkInv, NEW t
    PROVE  /\ UncountedYet(t) = {p \in Correspondents : Counts(p, t)}
           /\ Unseen(t) = {m \in Messages \ seen : messages[m] # Null /\ messages[m].thread = t
                                                     /\ messages[m].direction = "IN"}
           /\ IsFiniteSet(Unseen(t)) /\ IsFiniteSet(UncountedYet(t))
           /\ Cardinality(Unseen(t)) \in Nat /\ Cardinality(UncountedYet(t)) \in Nat
  <1>1. /\ UncountedYet(t) = {p \in Correspondents : Counts(p, t)}
        /\ Unseen(t) = {m \in Messages \ seen : messages[m] # Null /\ messages[m].thread = t
                                                  /\ messages[m].direction = "IN"}
    BY DEF TalkInv, TalkTypeOK, UncountedYet, Unseen, Counts
  <1>2. IsFiniteSet(Messages) /\ Unseen(t) \subseteq Messages
    BY <1>1, ConversationsAssumption DEF ConversationsAssumption
  <1>3. IsFiniteSet(Correspondents)
    <2>1. IsFiniteSet({StayWorker})
      BY FS_Singleton
    <2>2. IsFiniteSet(Writers \cup Inbound)
      BY FS_Union, ConversationsAssumption DEF ConversationsAssumption
    <2> QED  BY <2>1, <2>2, FS_Union DEF Correspondents
  <1>4. UncountedYet(t) \subseteq Correspondents
    BY <1>1
  <1>5. IsFiniteSet(Unseen(t)) /\ IsFiniteSet(UncountedYet(t))
    BY <1>2, <1>3, <1>4, FS_Subset
  <1> QED  BY <1>1, <1>5, FS_CardinalityType

\* A step after which no more is unseen on a thread and as much is still to be counted.
LEMMA CountFrame ==
    ASSUME TalkInv, TalkInv', NEW CONSTANT t,
           Unseen(t)' \subseteq Unseen(t), UncountedYet(t)' = UncountedYet(t)
    PROVE  /\ Cardinality(Unseen(t)') <= Cardinality(Unseen(t))
           /\ Cardinality(UncountedYet(t)') = Cardinality(UncountedYet(t))
           /\ Cardinality(Unseen(t)') \in Nat /\ Cardinality(Unseen(t)) \in Nat
           /\ Cardinality(UncountedYet(t)) \in Nat
  <1>1. /\ IsFiniteSet(Unseen(t)) /\ Cardinality(UncountedYet(t)) \in Nat
        /\ Cardinality(Unseen(t)) \in Nat
    BY CountsIn
  <1>2. Cardinality(Unseen(t)') <= Cardinality(Unseen(t)) /\ IsFiniteSet(Unseen(t)')
    BY <1>1, FS_Subset
  <1>3. Cardinality(Unseen(t)') \in Nat
    BY <1>2, FS_CardinalityType
  <1> QED  BY <1>1, <1>2, <1>3

\* One request goes on that was counting nothing and counts nothing now.
LEMMA NothingCounted ==
    ASSUME TalkInv, TalkInv', NEW CONSTANT t, NEW CONSTANT p \in Correspondents,
           \A q \in Correspondents : q # p => writing'[q] = writing[q],
           ~Counts(p, t), ~Counts(p, t)'
    PROVE  UncountedYet(t)' = UncountedYet(t)
  <1>1. UncountedYet(t) = {q \in Correspondents : Counts(q, t)}
    BY CountsIn
  <1>2. UncountedYet(t)' = {q \in Correspondents : Counts(q, t)'}
    BY DEF TalkInv, UncountedYet, Counts
  <1>3. \A q \in Correspondents : Counts(q, t)' <=> Counts(q, t)
    BY DEF Counts
  <1> QED  BY <1>1, <1>2, <1>3

\* A step that touches no thread, no reader and nothing that is unseen.
LEMMA CountedFrame ==
    ASSUME TalkInv, TalkInv', Counted,
           UNCHANGED <<threads, reading, seen, interleaved>>,
           \A m \in Messages :
              /\ messages'[m] = Null <=> messages[m] = Null
              /\ messages[m] # Null => /\ messages'[m].thread = messages[m].thread
                                       /\ messages'[m].direction = messages[m].direction,
           \A t \in Threads : UncountedYet(t)' = UncountedYet(t)
    PROVE  Counted'
  <1> SUFFICES ASSUME NEW t \in Threads \ interleaved
               PROVE  /\ threads[t] # Null => Behind(t, threads[t].unread)'
                      /\ \A v \in Readers : BetweenReads(v, t)' => Behind(t, 0)'
    BY DEF Counted
  <1>1. Unseen(t)' \subseteq Unseen(t)
    <2>1. Unseen(t)' \subseteq {m \in Messages \ seen : messages'[m] # Null
                             /\ messages'[m].thread = t /\ messages'[m].direction = "IN"}
      BY DEF TalkInv, TalkTypeOK, Unseen
    <2> QED  BY <2>1, CountsIn
  <1>2. /\ Cardinality(Unseen(t)') <= Cardinality(Unseen(t))
        /\ Cardinality(UncountedYet(t)') = Cardinality(UncountedYet(t))
        /\ Cardinality(Unseen(t)') \in Nat /\ Cardinality(Unseen(t)) \in Nat
        /\ Cardinality(UncountedYet(t)) \in Nat
    BY <1>1, CountFrame
  <1>3. threads[t] # Null => Behind(t, threads[t].unread) /\ threads[t].unread \in Nat
    BY DEF Counted, TalkInv, TalkTypeOK, ThreadRows
  <1>4. \A v \in Readers : BetweenReads(v, t)' => Behind(t, 0)
    BY DEF Counted, BetweenReads
  <1> QED  BY <1>2, <1>3, <1>4 DEF Behind

LEMMA CountedOpen ==
    ASSUME TalkInv, Counted, NEW p \in Correspondents, OpenThread(p)
    PROVE  Counted'
  <1>0. TalkInv'
    BY OpenKept
  <1>1. PICK n \in Threads :
          threads[n] = Null /\ \A u \in Threads : u # n => threads'[u] = threads[u]
    BY OpenKept
  <1>2. UNCHANGED <<messages, reading, seen, interleaved>>
    BY DEF OpenThread
  <1>3. /\ writing[p].step = "OPEN" /\ writing'[p].step = "INSERT"
        /\ \A q \in Correspondents : q # p => writing'[q] = writing[q]
    BY OpenKept
  <1>4. \A t \in Threads : ~Counts(p, t) /\ ~Counts(p, t)'
    BY <1>3 DEF Counts
  <1> SUFFICES ASSUME NEW t \in Threads \ interleaved
               PROVE  /\ threads'[t] # Null => Behind(t, threads[t].unread)'
                      /\ \A v \in Readers : BetweenReads(v, t)' => Behind(t, 0)'
    BY <1>2 DEF Counted
  <1>5. Unseen(t)' = Unseen(t)
    BY <1>2 DEF Unseen
  <1>6. UncountedYet(t)' = UncountedYet(t)
    BY <1>0, <1>3, <1>4, NothingCounted
  <1>7. Cardinality(Unseen(t)) \in Nat /\ Cardinality(UncountedYet(t)) \in Nat
    BY CountsIn
  <1>8. \A v \in Readers : BetweenReads(v, t)' => Behind(t, 0)'
    BY <1>2, <1>5, <1>6 DEF Counted, BetweenReads, Behind
  <1>9. CASE t = n
    <2>1. Unseen(t) = {}
      BY <1>1, <1>9, CountsIn DEF TalkInv, TalkTypeOK
    <2>2. threads'[t] # Null => threads'[t].unread \in Nat
      BY <1>0 DEF TalkInv, TalkTypeOK, ThreadRows
    <2>3. Cardinality(Unseen(t)) = 0
      BY <2>1, FS_EmptySet
    <2> QED  BY <1>5, <1>6, <1>7, <1>8, <2>2, <2>3 DEF Behind
  <1>10. CASE t # n
    BY <1>1, <1>5, <1>6, <1>8, <1>10 DEF Counted, Behind
  <1> QED  BY <1>9, <1>10

LEMMA CountedInsert ==
    ASSUME TalkInv, Counted, NEW p \in Correspondents, InsertMessage(p)
    PROVE  Counted'
  <1>0. TalkInv'
    BY InsertKept
  <1>1. PICK m \in Messages :
                 /\ messages[m] = Null /\ messages'[m] # Null
                 /\ messages'[m].thread = writing[p].thread
                 /\ messages'[m].direction = writing[p].write.direction
                 /\ \A n \in Messages : n # m => messages'[n] = messages[n]
    BY InsertKept
  <1>2. UNCHANGED <<threads, reading, seen, interleaved>>
    BY DEF InsertMessage
  <1>3. /\ writing[p].step = "INSERT" /\ writing'[p].step = "TOUCH"
        /\ writing'[p].write = writing[p].write /\ writing'[p].thread = writing[p].thread
        /\ \A q \in Correspondents : q # p => writing'[q] = writing[q]
    BY InsertKept
  <1> SUFFICES ASSUME NEW t \in Threads \ interleaved
               PROVE  /\ threads[t] # Null => Behind(t, threads[t].unread)'
                      /\ \A v \in Readers : BetweenReads(v, t)' => Behind(t, 0)'
    BY <1>2 DEF Counted
  <1> DEFINE new == writing[p].thread = t /\ writing[p].write.direction = "IN"
  <1>4. Unseen(t)' = {n \in Messages \ seen : messages'[n] # Null /\ messages'[n].thread = t
                                                /\ messages'[n].direction = "IN"}
    BY <1>0, <1>2 DEF TalkInv, TalkTypeOK, Unseen
  <1>5. /\ Cardinality(Unseen(t)) \in Nat /\ Cardinality(UncountedYet(t)) \in Nat
        /\ IsFiniteSet(Unseen(t)) /\ IsFiniteSet(UncountedYet(t))
    BY CountsIn
  <1>6. \E more \in {0, 1} :
           /\ Cardinality(Unseen(t)') <= Cardinality(Unseen(t)) + more
           /\ Cardinality(UncountedYet(t)') = Cardinality(UncountedYet(t)) + more
           /\ Cardinality(Unseen(t)') \in Nat
    <2>1. CASE new
      <3>1. Unseen(t)' \subseteq Unseen(t) \cup {m}
        BY <1>1, <1>4, CountsIn
      <3>2. UncountedYet(t)' = UncountedYet(t) \cup {p}
        <4>1. UncountedYet(t)' = {q \in Correspondents : Counts(q, t)'}
          BY <1>0 DEF TalkInv, UncountedYet, Counts
        <4>2. Counts(p, t)' /\ \A q \in Correspondents : q # p => (Counts(q, t)' <=> Counts(q, t))
          BY <1>3, <2>1 DEF Counts
        <4> QED  BY <4>1, <4>2, CountsIn
      <3>3. p \notin UncountedYet(t)
        BY <1>3, CountsIn DEF Counts
      <3>4. Cardinality(UncountedYet(t)') = Cardinality(UncountedYet(t)) + 1
        BY <1>5, <3>2, <3>3, FS_AddElement
      <3>5. /\ IsFiniteSet(Unseen(t) \cup {m})
            /\ Cardinality(Unseen(t) \cup {m}) \in
                  {Cardinality(Unseen(t)), Cardinality(Unseen(t)) + 1}
        BY <1>5, FS_AddElement
      <3>6. IsFiniteSet(Unseen(t)') /\ Cardinality(Unseen(t)') <= Cardinality(Unseen(t) \cup {m})
        BY <3>1, <3>5, FS_Subset
      <3>7. Cardinality(Unseen(t)') \in Nat
        BY <3>6, FS_CardinalityType
      <3> QED  BY <1>5, <3>4, <3>5, <3>6, <3>7
    <2>2. CASE ~new
      <3>1. Unseen(t)' \subseteq Unseen(t)
        BY <1>1, <1>4, <2>2, CountsIn
      <3>2. ~Counts(p, t) /\ ~Counts(p, t)'
        BY <1>3, <2>2 DEF Counts
      <3>3. UncountedYet(t)' = UncountedYet(t)
        BY <1>0, <1>3, <3>2, NothingCounted
      <3> QED  BY <1>0, <1>5, <3>1, <3>3, CountFrame
    <2> QED  BY <2>1, <2>2
  <1>7. threads[t] # Null => Behind(t, threads[t].unread) /\ threads[t].unread \in Nat
    BY DEF Counted, TalkInv, TalkTypeOK, ThreadRows
  <1>8. \A v \in Readers : BetweenReads(v, t)' => Behind(t, 0)
    BY <1>2 DEF Counted, BetweenReads
  <1>9. threads[t] # Null => Behind(t, threads[t].unread)'
    BY <1>2, <1>5, <1>6, <1>7 DEF Behind
  <1>10. \A v \in Readers : BetweenReads(v, t)' => Behind(t, 0)'
    BY <1>5, <1>6, <1>8 DEF Behind
  <1> QED  BY <1>9, <1>10

LEMMA CountedTouch ==
    ASSUME TalkInv, Counted, NEW p \in Correspondents, Touch(p)
    PROVE  Counted'
  <1>0. TalkInv'
    BY TouchKept
  <1>1. PICK h \in Threads : h = writing[p].thread
    BY TouchKept
  <1> DEFINE in == writing[p].write.direction = "IN"
  <1>2. /\ writing[p].step = "TOUCH" /\ threads[h] # Null
        /\ threads'[h].unread = threads[h].unread + (IF in THEN 1 ELSE 0)
        /\ \A u \in Threads : u # h => threads'[u] = threads[u]
        /\ \A u \in Threads : threads'[u] = Null <=> threads[u] = Null
        /\ writing'[p].step \in {"IDLE", "DELIVER"}
        /\ \A q \in Correspondents : q # p => writing'[q] = writing[q]
    BY <1>1, TouchKept DEF Unread
  <1>3. /\ UNCHANGED <<messages, reading, seen>>
        /\ interleaved \subseteq interleaved'
        /\ in /\ (\E v \in Readers : BetweenReads(v, h)) => h \in interleaved'
    BY <1>1 DEF Touch
  <1> SUFFICES ASSUME NEW t \in Threads \ interleaved'
               PROVE  /\ threads'[t] # Null => Behind(t, threads[t].unread)'
                      /\ \A v \in Readers : BetweenReads(v, t)' => Behind(t, 0)'
    BY DEF Counted
  <1>4. Unseen(t)' = Unseen(t)
    BY <1>3 DEF Unseen
  <1>5. /\ Cardinality(Unseen(t)) \in Nat /\ Cardinality(UncountedYet(t)) \in Nat
        /\ IsFiniteSet(UncountedYet(t))
    BY CountsIn
  <1>6. /\ threads[t] # Null => Behind(t, threads[t].unread) /\ threads[t].unread \in Nat
        /\ \A v \in Readers : BetweenReads(v, t)' => BetweenReads(v, t) /\ Behind(t, 0)
    BY <1>3 DEF Counted, BetweenReads, TalkInv, TalkTypeOK, ThreadRows
  <1>7. CASE t = h /\ in
    <2>1. \A v \in Readers : ~BetweenReads(v, t)'
      BY <1>3, <1>6, <1>7
    <2>2. UncountedYet(t)' = UncountedYet(t) \ {p}
      <3>1. UncountedYet(t)' = {q \in Correspondents : Counts(q, t)'}
        BY <1>0 DEF TalkInv, UncountedYet, Counts
      <3>2. ~Counts(p, t)' /\ \A q \in Correspondents : q # p => (Counts(q, t)' <=> Counts(q, t))
        BY <1>2 DEF Counts
      <3> QED  BY <3>1, <3>2, CountsIn
    <2>3. p \in UncountedYet(t)
      BY <1>1, <1>2, <1>7, CountsIn DEF Counts
    <2>4. Cardinality(UncountedYet(t)') = Cardinality(UncountedYet(t)) - 1
      BY <1>5, <2>2, <2>3, FS_RemoveElement
    <2>5. threads[t] # Null /\ threads'[t].unread = threads[t].unread + 1
      BY <1>2, <1>7
    <2> QED  BY <1>4, <1>5, <1>6, <2>1, <2>4, <2>5 DEF Behind
  <1>8. CASE ~(t = h /\ in)
    <2>1. ~Counts(p, t) /\ ~Counts(p, t)'
      BY <1>1, <1>2, <1>8 DEF Counts
    <2>2. UncountedYet(t)' = UncountedYet(t)
      BY <1>0, <1>2, <2>1, NothingCounted
    <2>3. threads'[t] # Null => threads[t] # Null /\ threads'[t].unread = threads[t].unread
      <3>1. CASE t = h
        BY <1>2, <1>6, <1>8, <3>1
      <3>2. CASE t # h
        BY <1>2, <3>2
      <3> QED  BY <3>1, <3>2
    <2> QED  BY <1>4, <1>6, <2>2, <2>3 DEF Behind
  <1> QED  BY <1>7, <1>8

LEMMA CountedRead ==
    ASSUME TalkInv, Counted, NEW v \in Readers, ReadThread(v)
    PROVE  Counted'
  <1>0. TalkInv'
    BY ReadKept
  <1>1. PICK h \in Threads :
          /\ reading' = [reading EXCEPT ![v] = [thread |-> h, unread |-> threads[h].unread]]
          /\ seen' = seen \cup {m \in Messages : messages[m] # Null /\ messages[m].thread = h}
    BY DEF ReadThread
  <1>2. UNCHANGED <<threads, messages, writing, interleaved>>
    BY DEF ReadThread
  <1>3. /\ reading'[v].thread = h /\ \A u \in Readers : u # v => reading'[u] = reading[u]
    BY <1>1 DEF TalkInv
  <1> SUFFICES ASSUME NEW t \in Threads \ interleaved
               PROVE  /\ threads[t] # Null => Behind(t, threads[t].unread)'
                      /\ \A u \in Readers : BetweenReads(u, t)' => Behind(t, 0)'
    BY <1>2 DEF Counted
  <1>4. Unseen(t)' \subseteq Unseen(t)
    BY <1>1, <1>2 DEF Unseen
  <1>5. UncountedYet(t)' = UncountedYet(t)
    BY <1>2 DEF UncountedYet
  <1>6. /\ Cardinality(Unseen(t)') <= Cardinality(Unseen(t))
        /\ Cardinality(UncountedYet(t)') = Cardinality(UncountedYet(t))
        /\ Cardinality(Unseen(t)') \in Nat /\ Cardinality(Unseen(t)) \in Nat
        /\ Cardinality(UncountedYet(t)) \in Nat
    BY <1>0, <1>4, <1>5, CountFrame
  <1>7. threads[t] # Null => Behind(t, threads[t].unread) /\ threads[t].unread \in Nat
    BY DEF Counted, TalkInv, TalkTypeOK, ThreadRows
  <1>8. ASSUME NEW u \in Readers, BetweenReads(u, t)'
        PROVE  Behind(t, 0)'
    <2>1. CASE u = v
      <3>1. t = h
        BY <1>3, <1>8, <2>1 DEF BetweenReads
      <3>2. Unseen(t)' = {}
        BY <1>1, <1>2, <3>1 DEF Unseen, TalkInv, TalkTypeOK
      <3>3. Cardinality(Unseen(t)') = 0
        BY <3>2, FS_EmptySet
      <3> QED  BY <1>6, <3>3 DEF Behind
    <2>2. CASE u # v
      <3>1. Behind(t, 0)
        BY <1>3, <1>8, <2>2 DEF Counted, BetweenReads
      <3> QED  BY <1>6, <3>1 DEF Behind
    <2> QED  BY <2>1, <2>2
  <1>9. threads[t] # Null => Behind(t, threads[t].unread)'
    BY <1>2, <1>6, <1>7 DEF Behind
  <1> QED  BY <1>8, <1>9

LEMMA CountedReset ==
    ASSUME TalkInv, Counted, NEW v \in Readers, ResetUnread(v)
    PROVE  Counted'
  <1>1. PICK h \in Threads : h = reading[v].thread
    BY ResetKept
  <1>2. /\ reading[v] # Null
        /\ \A u \in Threads : u # h => threads'[u] = threads[u]
        /\ \A u \in Threads : threads'[u] = Null <=> threads[u] = Null
        /\ threads'[h].unread \in {0, threads[h].unread}
    BY <1>1, ResetKept
  <1>3. UNCHANGED <<messages, writing, seen, interleaved>>
        /\ reading' = [reading EXCEPT ![v] = Null]
    BY DEF ResetUnread
  <1> SUFFICES ASSUME NEW t \in Threads \ interleaved
               PROVE  /\ threads'[t] # Null => Behind(t, threads[t].unread)'
                      /\ \A u \in Readers : BetweenReads(u, t)' => Behind(t, 0)'
    BY <1>3 DEF Counted
  <1>4. Unseen(t)' = Unseen(t) /\ UncountedYet(t)' = UncountedYet(t)
    BY <1>3 DEF Unseen, UncountedYet
  <1>5. \A u \in Readers : BetweenReads(u, t)' => BetweenReads(u, t)
    BY <1>3 DEF BetweenReads, TalkInv
  <1>6. \A u \in Readers : BetweenReads(u, t)' => Behind(t, 0)'
    BY <1>4, <1>5 DEF Counted, Behind
  <1>7. threads[t] # Null => Behind(t, threads[t].unread)
    BY DEF Counted
  <1>8. t = h => Behind(t, 0)
    BY <1>1, <1>2 DEF Counted, BetweenReads
  <1>9. threads'[t] # Null => Behind(t, threads[t].unread)'
    <2>1. CASE t = h
      BY <1>2, <1>4, <1>7, <1>8, <2>1 DEF Behind
    <2>2. CASE t # h
      BY <1>2, <1>4, <1>7, <2>2 DEF Behind
    <2> QED  BY <2>1, <2>2
  <1> QED  BY <1>6, <1>9

LEMMA CountedStep ==
    ASSUME TalkInv, Counted, [TalkNext]_talkVars
    PROVE  Counted'
  <1>0. TalkInv'
    BY TalkInvStep
  <1>1. StayWorker \in Correspondents /\ Writers \subseteq Correspondents
        /\ Inbound \subseteq Correspondents
    BY DEF Correspondents
  <1>2. ASSUME UNCHANGED <<threads, messages, reading, seen, interleaved>>,
               NEW CONSTANT p \in Correspondents,
               \A q \in Correspondents : q # p => writing'[q] = writing[q],
               \A t \in Threads : ~Counts(p, t) /\ ~Counts(p, t)'
        PROVE  Counted'
    <2>1. \A t \in Threads : UncountedYet(t)' = UncountedYet(t)
      BY <1>0, <1>2, NothingCounted
    <2> QED  BY <1>0, <1>2, <2>1, CountedFrame
  <1>3. ASSUME NEW p \in Correspondents,
               \/ p \in Writers /\ BeginWrite(p)
               \/ p \in Inbound /\ BeginReceive(p)
        PROVE  Counted'
    <2>1. UNCHANGED <<threads, messages, reading, seen, interleaved>>
      BY <1>3 DEF BeginWrite, BeginReceive
    <2>2. /\ writing[p].step = "IDLE" /\ writing'[p].step \in {"OPEN", "INSERT"}
          /\ \A q \in Correspondents : q # p => writing'[q] = writing[q]
      BY <1>3, BeginKept, IdleFields
    <2> QED  BY <1>2, <2>1, <2>2 DEF Counts
  <1>4. ASSUME NEW p \in Correspondents, OpenThread(p) \/ InsertMessage(p) \/ Touch(p)
        PROVE  Counted'
    BY <1>4, CountedOpen, CountedInsert, CountedTouch
  <1>5. ASSUME NEW p \in Correspondents, Deliver(p)
        PROVE  Counted'
    <2>1. UNCHANGED <<threads, reading, seen, interleaved>>
      BY <1>5 DEF Deliver
    <2>2. /\ writing[p].step = "DELIVER" /\ writing'[p].step \in {"MARK", "IDLE"}
          /\ \A q \in Correspondents : q # p => writing'[q] = writing[q]
          /\ \A m \in Messages :
                /\ messages'[m] = Null <=> messages[m] = Null
                /\ messages[m] # Null => /\ messages'[m].thread = messages[m].thread
                                         /\ messages'[m].direction = messages[m].direction
      BY <1>5, DeliverKept
    <2>3. \A t \in Threads : ~Counts(p, t) /\ ~Counts(p, t)'
      BY <2>2 DEF Counts
    <2>4. \A t \in Threads : UncountedYet(t)' = UncountedYet(t)
      BY <1>0, <2>2, <2>3, NothingCounted
    <2> QED  BY <1>0, <2>1, <2>2, <2>4, CountedFrame
  <1>6. ASSUME NEW v \in Readers, ReadThread(v) \/ ResetUnread(v)
        PROVE  Counted'
    BY <1>6, CountedRead, CountedReset
  <1>7. CASE LookAt
    <2>1. UNCHANGED <<threads, messages, reading, seen, interleaved>>
      BY <1>7 DEF LookAt
    <2>2. /\ writing[StayWorker].step = "IDLE"
          /\ writing'[StayWorker].step \in {"IDLE", "OPEN", "INSERT"}
          /\ \A q \in Correspondents : q # StayWorker => writing'[q] = writing[q]
      BY <1>7, LookAtKept, IdleFields
    <2> QED  BY <1>1, <1>2, <2>1, <2>2 DEF Counts
  <1>8. CASE markSent \/ RunDies
    <2>1. UNCHANGED <<threads, messages, reading, seen, interleaved>>
      BY <1>8 DEF markSent, RunDies
    <2>2. /\ writing[StayWorker].step # "IDLE" /\ writing'[StayWorker].step = "IDLE"
          /\ \A q \in Correspondents : q # StayWorker => writing'[q] = writing[q]
      BY <1>8, WorkerRests, IdleFields
    <2>3. writing[StayWorker].write.direction = "OUT"
      BY <1>1, <2>2 DEF TalkInv, WritesOn
    <2>4. \A t \in Threads : ~Counts(StayWorker, t) /\ ~Counts(StayWorker, t)'
      BY <2>2, <2>3 DEF Counts
    <2> QED  BY <1>1, <1>2, <2>1, <2>2, <2>4
  <1>9. CASE (BeginRun \/ \E s \in Stays : NextDay(s)) \/ UNCHANGED talkVars
    <2>1. UNCHANGED <<threads, messages, reading, seen, interleaved, writing>>
      BY <1>9, DayKept DEF talkVars
    <2>2. \A t \in Threads : UncountedYet(t)' = UncountedYet(t)
      BY <2>1 DEF UncountedYet
    <2> QED  BY <1>0, <2>1, <2>2, CountedFrame
  <1> QED  BY <1>1, <1>3, <1>4, <1>5, <1>6, <1>7, <1>8, <1>9 DEF TalkNext

\* No guest is written to twice by the worker unless it went down while it was sending, and
\* what a guest writes is counted until the desk was shown it, unless it came between a
\* reader's two statements: for any stays, threads and requests at once (runAutomations,
\* receive, thread).
THEOREM GuestsAnswered == TalkSpec => []GuestsAreAnswered
  <1> DEFINE Inv == TalkInv /\ OnceWritten /\ Counted
  <1>1. TalkInit => Inv
    <2> SUFFICES ASSUME TalkInit PROVE OnceWritten /\ Counted
      BY TalkInvStart
    <2>1. TalkInv
      BY TalkInvStart
    <2>2. \A s, key : Automated(s, key) = {}
      BY DEF TalkInit, Automated
    <2>3. OnceWritten
      BY <2>2, IdleFields DEF TalkInit, OnceWritten, WrittenOnce, Sending, Correspondents
    <2>4. Counted
      BY DEF TalkInit, Counted, BetweenReads
    <2> QED  BY <2>3, <2>4
  <1>2. Inv /\ [TalkNext]_talkVars => Inv'
    BY TalkInvStep, OnceWrittenStep, CountedStep
  <1>3. Inv => GuestsAreAnswered
    <2> SUFFICES ASSUME Inv PROVE AutomationOnceUnlessCut /\ UnseenIsCounted
      BY DEF GuestsAreAnswered
    <2>1. DOMAIN threads = Threads
      BY DEF TalkInv, TalkTypeOK
    <2>2. UnseenIsCounted
      BY <2>1 DEF UnseenIsCounted, Counted, Behind
    <2> QED  BY <2>2, OnceWrittenMeans
  <1> HIDE DEF Inv
  <1> QED  BY <1>1, <1>2, <1>3, PTL DEF TalkSpec
=============================================================================
