------------------------------ MODULE Sessions ------------------------------
(***************************************************************************)
(* Signing in and staying signed in, for the three audiences: AuthService  *)
(* and AdminMfaService (admins), OwnerTokenService, OwnerOtpService and    *)
(* OwnerMfaService (owners), and their staff counterparts; and the mobile  *)
(* client that refreshes its token once at a time.                         *)
(*                                                                         *)
(* A one-time code, a recovery code and a refresh token are each read by   *)
(* one statement and spent by a later one.  A client that stops waiting    *)
(* for a refresh does not stop the server that is serving it.              *)
(***************************************************************************)
EXTENDS Absent, Naturals, Sequences, FiniteSets

CONSTANTS
    Devices,
    PersonOf,      \* the person who holds each device
    AudienceOf,    \* "ADMIN", "OWNER" or "STAFF", for each person
    Slots,         \* sessions that can be opened, 1..n
    Calls,         \* refreshes that can be on their way or being served
    Codes,         \* recovery codes that can be issued
    MaxOtps,       \* one-time codes sent to one number
    MaxTokens,     \* refresh tokens signed
    MaxGuesses,    \* OTP_MAX_ATTEMPTS and MFA_MAX_ATTEMPTS
    Lossy          \* whether a client may stop waiting for an answer

VARIABLES
    accounts,      \* status of each person's row
    mfa,           \* "OFF", "STARTED" (a secret is stored) or "ON"
    recovery,      \* the recovery code rows
    otps,          \* the one-time code rows of each number, oldest first
    tries,         \* wrong second factors, in the memory of the process
    sessions,      \* the session rows
    refreshes,     \* refreshes on their way or being served
    devices,       \* what each device holds, and where its sign-in stands
    tokens,        \* how many refresh tokens have been signed
    abandoned,     \* history: sessions a client stopped waiting for
    spent          \* history: how often each recovery code opened the way

sessionVars == <<accounts, mfa, recovery, otps, tries, sessions, refreshes, devices, tokens,
                 abandoned, spent>>

People == {PersonOf[d] : d \in Devices}

Out == [phase |-> "OUT", session |-> Null, token |-> Null, row |-> Null]

\* Rows of admin_otps, owner_otps and staff_otps that are still valid.
OtpRows == [wrong : 0 .. MaxGuesses, consumed : BOOLEAN]

\* Rows of the three session tables; token stands for the hash that is kept.
SessionRows == [person : People, token : 1 .. MaxTokens, expired : BOOLEAN,
                revoked : {"NO", "BY_PERSON", "BY_ADMIN", "REUSE"}]

CodeRows == [person : People, status : {"UNUSED", "USED", "DELETED"}]

\* Sessions are numbered in the order they are opened; null is none of the rows.
ASSUME SessionsAssumption ==
    /\ Slots \subseteq Nat /\ MaxTokens \in Nat /\ MaxGuesses \in Nat
    /\ Null \notin SessionRows /\ Null \notin CodeRows

SessionsInit ==
    /\ accounts = [p \in People |-> "ACTIVE"]
    /\ mfa = [p \in People |-> "OFF"]
    /\ recovery = [c \in Codes |-> Null]
    /\ otps = [p \in People |-> << >>]
    /\ tries = [p \in People |-> 0]
    /\ sessions = [s \in Slots |-> Null]
    /\ refreshes = [k \in Calls |-> Null]
    /\ devices = [d \in Devices |-> Out]
    /\ tokens = 0
    /\ abandoned = {}
    /\ spent = [c \in Codes |-> 0]

To(d, phase, row) == devices' = [devices EXCEPT ![d] = [Out EXCEPT !.phase = phase, !.row = row]]

Leave(d) == devices' = [devices EXCEPT ![d] = Out]

(***************************************************************************)
(* The first factor.                                                       *)
(***************************************************************************)

\* Who is sent a code: an owner or an admin who is active, and any member of
\* staff who is not deleted.
AdminMayAsk(p) == accounts[p] = "ACTIVE"

OwnerMayAsk(p) == accounts[p] = "ACTIVE"

StaffMayAsk(p) == accounts[p] # "DELETED"

MayAsk(p) == CASE AudienceOf[p] = "ADMIN" -> AdminMayAsk(p)
               [] AudienceOf[p] = "OWNER" -> OwnerMayAsk(p)
               [] AudienceOf[p] = "STAFF" -> StaffMayAsk(p)

\* enforceRequestRateLimit and generateForMobile: the number of codes in the
\* hour is limited, and a new one leaves the older rows as they are.
requestOtp(p) ==
    /\ MayAsk(p)
    /\ Len(otps[p]) < MaxOtps
    /\ otps' = [otps EXCEPT ![p] = Append(@, [wrong |-> 0, consumed |-> FALSE])]
    /\ UNCHANGED <<accounts, mfa, recovery, tries, sessions, refreshes, devices, tokens, abandoned,
                   spent>>

\* The newest row of the number that no one has consumed.
LatestOtp(p) ==
    LET open == {i \in DOMAIN otps[p] : ~otps[p][i].consumed}
    IN  IF open = {} THEN 0 ELSE CHOOSE i \in open : \A j \in open : j <= i

\* verify, up to the comparison: the code is the right one ...
PresentOtp(d) ==
    LET p == PersonOf[d] IN
    LET i == LatestOtp(p) IN
    /\ devices[d].phase = "OUT"
    /\ i # 0
    /\ otps[p][i].wrong < MaxGuesses
    /\ To(d, "CODE_MATCHED", i)
    /\ UNCHANGED <<accounts, mfa, recovery, otps, tries, sessions, refreshes, tokens, abandoned,
                   spent>>

\* ... or it is not, and the attempt is counted.
MistypeOtp(d) ==
    LET p == PersonOf[d] IN
    LET i == LatestOtp(p) IN
    /\ devices[d].phase = "OUT"
    /\ i # 0
    /\ otps[p][i].wrong < MaxGuesses
    /\ otps' = [otps EXCEPT ![p][i].wrong = @ + 1]
    /\ UNCHANGED <<accounts, mfa, recovery, tries, sessions, refreshes, devices, tokens, abandoned,
                   spent>>

\* The gate: a person who enrolled is given a challenge, never a session.
Gate(d) == To(d, IF mfa[PersonOf[d]] = "ON" THEN "CHALLENGED" ELSE "CLEARED", Null)

\* verify, from the write on, whether or not another request consumed the row.
ConsumeOtp(d) ==
    LET p == PersonOf[d] IN
    /\ devices[d].phase = "CODE_MATCHED"
    /\ otps' = [otps EXCEPT ![p][devices[d].row].consumed = TRUE]
    /\ IF accounts[p] = "ACTIVE" THEN Gate(d) ELSE Leave(d)
    /\ UNCHANGED <<accounts, mfa, recovery, tries, sessions, refreshes, tokens, abandoned, spent>>

\* Sign-in with an identity Google vouches for.
AdminGoogle(p) == AudienceOf[p] = "ADMIN" /\ accounts[p] = "ACTIVE"

OwnerGoogle(p) == AudienceOf[p] = "OWNER" /\ accounts[p] = "ACTIVE"

StaffGoogle(p) == AudienceOf[p] = "STAFF" /\ accounts[p] = "ACTIVE"

google(d) ==
    LET p == PersonOf[d] IN
    /\ devices[d].phase = "OUT"
    /\ AdminGoogle(p) \/ OwnerGoogle(p) \/ StaffGoogle(p)
    /\ Gate(d)
    /\ UNCHANGED <<accounts, mfa, recovery, otps, tries, sessions, refreshes, tokens, abandoned,
                   spent>>

(***************************************************************************)
(* The second factor.                                                      *)
(***************************************************************************)

\* assertNotLocked: tries counts up to the lock and is cleared by its end.
assertNotLocked(p) == tries[p] < MaxGuesses

LockEnds(p) ==
    /\ tries[p] = MaxGuesses
    /\ tries' = [tries EXCEPT ![p] = 0]
    /\ UNCHANGED <<accounts, mfa, recovery, otps, sessions, refreshes, devices, tokens, abandoned,
                   spent>>

\* The attempts of every person are in the memory of the process.
Restart ==
    /\ tries # [p \in People |-> 0]
    /\ tries' = [p \in People |-> 0]
    /\ UNCHANGED <<accounts, mfa, recovery, otps, sessions, refreshes, devices, tokens, abandoned,
                   spent>>

\* Whether consumeChallenge goes on to look at the code.
Answerable(d) ==
    LET p == PersonOf[d] IN
    /\ devices[d].phase = "CHALLENGED"
    /\ assertNotLocked(p)
    /\ mfa[p] = "ON"
    /\ accounts[p] # "DELETED"

consumeTotp(d) ==
    /\ Answerable(d)
    /\ To(d, "CLEARED", Null)
    /\ tries' = [tries EXCEPT ![PersonOf[d]] = 0]
    /\ UNCHANGED <<accounts, mfa, recovery, otps, sessions, refreshes, tokens, abandoned, spent>>

recordFailure(d) ==
    /\ Answerable(d)
    /\ tries' = [tries EXCEPT ![PersonOf[d]] = @ + 1]
    /\ UNCHANGED <<accounts, mfa, recovery, otps, sessions, refreshes, devices, tokens, abandoned,
                   spent>>

\* consumeCode: a recovery code is found among those that are unused ...
MatchRecoveryCode(d, c) ==
    /\ Answerable(d)
    /\ recovery[c] = [person |-> PersonOf[d], status |-> "UNUSED"]
    /\ To(d, "RECOVERY_MATCHED", c)
    /\ UNCHANGED <<accounts, mfa, recovery, otps, tries, sessions, refreshes, tokens, abandoned,
                   spent>>

\* ... and marked used by a later statement, if it is unused still.
Burnable(c) == recovery[c].status = "UNUSED"

BurnRecoveryCode(d) ==
    LET p == PersonOf[d]  c == devices[d].row IN
    /\ devices[d].phase = "RECOVERY_MATCHED"
    /\ IF Burnable(c)
       THEN /\ recovery' = [recovery EXCEPT ![c].status = "USED"]
            /\ spent' = [spent EXCEPT ![c] = @ + 1]
            /\ tries' = [tries EXCEPT ![p] = 0]
            /\ To(d, "CLEARED", Null)
       ELSE /\ tries' = [tries EXCEPT ![p] = IF @ < MaxGuesses THEN @ + 1 ELSE @]
            /\ To(d, "CHALLENGED", Null)
            /\ UNCHANGED <<recovery, spent>>
    /\ UNCHANGED <<accounts, mfa, otps, sessions, refreshes, tokens, abandoned>>

\* A challenge lapses after five minutes.
ChallengeLapses(d) ==
    /\ devices[d].phase = "CHALLENGED"
    /\ Leave(d)
    /\ UNCHANGED <<accounts, mfa, recovery, otps, tries, sessions, refreshes, tokens, abandoned,
                   spent>>

(***************************************************************************)
(* Sessions.                                                               *)
(***************************************************************************)

\* What is read again when the session is opened: an admin's and a staff
\* member's status, and of an owner only that the row is not deleted.
establishSession(p) == accounts[p] = "ACTIVE"

issueForOwner(p) == accounts[p] # "DELETED"

issueForStaff(p) == accounts[p] = "ACTIVE"

MayOpen(p) == CASE AudienceOf[p] = "ADMIN" -> establishSession(p)
                [] AudienceOf[p] = "OWNER" -> issueForOwner(p)
                [] AudienceOf[p] = "STAFF" -> issueForStaff(p)

\* A session is opened and its first pair of tokens is signed.
OpenSession(d) ==
    LET p == PersonOf[d]  free == {s \in Slots : sessions[s] = Null} IN
    /\ devices[d].phase = "CLEARED"
    /\ IF MayOpen(p)
       THEN LET s == CHOOSE s \in free : \A r \in free : s <= r IN
            /\ free # {}
            /\ tokens < MaxTokens
            /\ tokens' = tokens + 1
            /\ sessions' = [sessions EXCEPT ![s] = [person |-> p, token |-> tokens',
                                                    expired |-> FALSE, revoked |-> "NO"]]
            /\ devices' = [devices EXCEPT ![d] = [phase |-> "IN", session |-> s,
                                                  token |-> tokens', row |-> Null]]
       ELSE Leave(d) /\ UNCHANGED <<sessions, tokens>>
    /\ UNCHANGED <<accounts, mfa, recovery, otps, tries, refreshes, abandoned, spent>>

Live(s) == sessions[s] # Null /\ ~sessions[s].expired /\ sessions[s].revoked = "NO"

Revoked(rows, ids, by) ==
    [s \in Slots |-> IF s \in ids THEN [rows[s] EXCEPT !.revoked = by] ELSE rows[s]]

LiveSessionsOf(p) == {s \in Slots : sessions[s] # Null /\ sessions[s].person = p
                                       /\ sessions[s].revoked = "NO"}

\* The guard of each audience reads the account and the session on every call.
AdminGuard(p, s) == AudienceOf[p] = "ADMIN" /\ accounts[p] = "ACTIVE" /\ Live(s)

OwnerGuard(p, s) == AudienceOf[p] = "OWNER" /\ accounts[p] = "ACTIVE" /\ Live(s)

StaffGuard(p, s) == AudienceOf[p] = "STAFF" /\ accounts[p] = "ACTIVE" /\ Live(s)

Admitted(d) ==
    LET p == PersonOf[d]  s == devices[d].session IN
    /\ devices[d].phase = "IN"
    /\ AdminGuard(p, s) \/ OwnerGuard(p, s) \/ StaffGuard(p, s)

\* The client refreshes once a call is answered 401, one refresh at a time.
_refreshOnce(d, k) ==
    /\ devices[d].phase = "IN"
    /\ refreshes[k] = Null
    /\ refreshes' = [refreshes EXCEPT ![k] =
           [device |-> d, session |-> devices[d].session, token |-> devices[d].token,
            stage |-> "SENT", waiting |-> TRUE]]
    /\ devices' = [devices EXCEPT ![d].phase = "REFRESHING"]
    /\ UNCHANGED <<accounts, mfa, recovery, otps, tries, sessions, tokens, abandoned, spent>>

Answered(k) == refreshes' = [refreshes EXCEPT ![k] = Null]

\* What a refused refresh does to the device that still waits for it.
SentAway(k) ==
    devices' = [devices EXCEPT ![refreshes[k].device] = IF refreshes[k].waiting THEN Out ELSE @]

\* Whose session a refresh may go on with.
AdminMayRotate(p) == accounts[p] = "ACTIVE"

OwnerMayRotate(p) == accounts[p] = "ACTIVE"

StaffMayRotate(p) == accounts[p] = "ACTIVE"

MayRotate(p) == CASE AudienceOf[p] = "ADMIN" -> AdminMayRotate(p)
                  [] AudienceOf[p] = "OWNER" -> OwnerMayRotate(p)
                  [] AudienceOf[p] = "STAFF" -> StaffMayRotate(p)

\* A presented token that is not the one on record ends the session.
ReuseSuspected(k) == sessions[refreshes[k].session].token # refreshes[k].token

\* rotate, up to the signing of the next token.
VerifyRefresh(k) ==
    /\ refreshes[k] # Null
    /\ refreshes[k].stage = "SENT"
    /\ LET s == refreshes[k].session IN
       IF Live(s) /\ ~ReuseSuspected(k) /\ MayRotate(sessions[s].person)
       THEN /\ refreshes' = [refreshes EXCEPT ![k].stage = "VERIFIED"]
            /\ UNCHANGED <<sessions, devices>>
       ELSE /\ sessions' = IF Live(s) /\ ReuseSuspected(k)
                           THEN Revoked(sessions, {s}, "REUSE") ELSE sessions
            /\ Answered(k)
            /\ SentAway(k)
    /\ UNCHANGED <<accounts, mfa, recovery, otps, tries, tokens, abandoned, spent>>

\* Mutation for SignedOutForCause: the client keeps the refresh token it had.
SavedOld(device, token) == [device EXCEPT !.phase = "IN"]

\* What the client keeps of an answer.
Saved(device, token) == [device EXCEPT !.phase = "IN", !.token = token]

\* rotate, from the signing on: the row keeps the hash of the new token, and
\* the client that still waits keeps the token itself.
RotateRefresh(k) ==
    /\ refreshes[k] # Null
    /\ refreshes[k].stage = "VERIFIED"
    /\ tokens < MaxTokens
    /\ tokens' = tokens + 1
    /\ sessions' = [sessions EXCEPT ![refreshes[k].session].token = tokens']
    /\ devices' = [devices EXCEPT ![refreshes[k].device] =
                      IF refreshes[k].waiting THEN Saved(@, tokens') ELSE @]
    /\ Answered(k)
    /\ UNCHANGED <<accounts, mfa, recovery, otps, tries, abandoned, spent>>

\* The client stops waiting: the staff app keeps its tokens, the owner app
\* (and what is known of the console) signs out.
GiveUp(k) ==
    /\ Lossy
    /\ refreshes[k] # Null
    /\ refreshes[k].waiting
    /\ refreshes' = [refreshes EXCEPT ![k].waiting = FALSE]
    /\ devices' = [devices EXCEPT ![refreshes[k].device] =
                      IF AudienceOf[PersonOf[refreshes[k].device]] = "STAFF"
                      THEN [@ EXCEPT !.phase = "IN"] ELSE Out]
    /\ abandoned' = abandoned \cup {refreshes[k].session}
    /\ UNCHANGED <<accounts, mfa, recovery, otps, tries, sessions, tokens, spent>>

\* The request never reaches the server.
LoseCall(k) ==
    /\ refreshes[k] # Null
    /\ ~refreshes[k].waiting
    /\ refreshes[k].stage = "SENT"
    /\ Answered(k)
    /\ UNCHANGED <<accounts, mfa, recovery, otps, tries, sessions, devices, tokens, abandoned,
                   spent>>

logout(d) ==
    /\ Admitted(d)
    /\ sessions' = Revoked(sessions, {devices[d].session}, "BY_PERSON")
    /\ Leave(d)
    /\ UNCHANGED <<accounts, mfa, recovery, otps, tries, refreshes, tokens, abandoned, spent>>

\* An owner or a member of staff ends one of their sessions ...
revoke(d, s) ==
    /\ AudienceOf[PersonOf[d]] # "ADMIN"
    /\ Admitted(d)
    /\ s \in LiveSessionsOf(PersonOf[d])
    /\ sessions' = Revoked(sessions, {s}, "BY_PERSON")
    /\ UNCHANGED <<accounts, mfa, recovery, otps, tries, refreshes, devices, tokens, abandoned,
                   spent>>

\* ... or all but the one they use.
revokeAll(d) ==
    LET p == PersonOf[d] IN
    /\ AudienceOf[p] # "ADMIN"
    /\ Admitted(d)
    /\ sessions' = Revoked(sessions, LiveSessionsOf(p) \ {devices[d].session}, "BY_PERSON")
    /\ UNCHANGED <<accounts, mfa, recovery, otps, tries, refreshes, devices, tokens, abandoned,
                   spent>>

\* AdminsService.revokeSession and StaffService.revokeAllSessions.
revokeSession(p, s) ==
    /\ AudienceOf[p] = "ADMIN"
    /\ sessions[s] # Null
    /\ sessions[s].person = p
    /\ sessions' = Revoked(sessions, {s}, "BY_ADMIN")
    /\ UNCHANGED <<accounts, mfa, recovery, otps, tries, refreshes, devices, tokens, abandoned,
                   spent>>

revokeAllSessions(p) ==
    /\ AudienceOf[p] = "STAFF"
    /\ accounts[p] # "DELETED"
    /\ LiveSessionsOf(p) # {}
    /\ sessions' = Revoked(sessions, LiveSessionsOf(p), "BY_ADMIN")
    /\ UNCHANGED <<accounts, mfa, recovery, otps, tries, refreshes, devices, tokens, abandoned,
                   spent>>

SessionExpires(s) ==
    /\ sessions[s] # Null
    /\ ~sessions[s].expired
    /\ sessions' = [sessions EXCEPT ![s].expired = TRUE]
    /\ UNCHANGED <<accounts, mfa, recovery, otps, tries, refreshes, devices, tokens, abandoned,
                   spent>>

\* setAccountStatus of the three kinds of account: an admin who is not active any
\* more loses every session, the others are refused by their guards.
setAccountStatus(p, status) ==
    /\ accounts[p] # "DELETED"
    /\ accounts' = [accounts EXCEPT ![p] = status]
    /\ sessions' = IF AudienceOf[p] = "ADMIN" /\ status # "ACTIVE"
                   THEN Revoked(sessions, LiveSessionsOf(p), "BY_ADMIN") ELSE sessions
    /\ UNCHANGED <<mfa, recovery, otps, tries, refreshes, devices, tokens, abandoned, spent>>

\* An owner or a member of staff is deleted; the row stays.
removeAccount(p) ==
    /\ AudienceOf[p] # "ADMIN"
    /\ accounts[p] # "DELETED"
    /\ accounts' = [accounts EXCEPT ![p] = "DELETED"]
    /\ UNCHANGED <<mfa, recovery, otps, tries, sessions, refreshes, devices, tokens, abandoned,
                   spent>>

(***************************************************************************)
(* Enrolment in the second factor.                                         *)
(***************************************************************************)

WithoutCodesOf(p) ==
    [c \in Codes |-> IF recovery[c] # Null /\ recovery[c].person = p
                     THEN [recovery[c] EXCEPT !.status = "DELETED"] ELSE recovery[c]]

\* Every enrolment replaces the codes of the one before it.
enroll(d, c) ==
    LET p == PersonOf[d] IN
    /\ Admitted(d)
    /\ mfa[p] # "ON"
    /\ recovery[c] = Null
    /\ mfa' = [mfa EXCEPT ![p] = "STARTED"]
    /\ recovery' = [WithoutCodesOf(p) EXCEPT ![c] = [person |-> p, status |-> "UNUSED"]]
    /\ UNCHANGED <<accounts, otps, tries, sessions, refreshes, devices, tokens, abandoned, spent>>

verifyEnrolment(d) ==
    /\ Admitted(d)
    /\ mfa[PersonOf[d]] = "STARTED"
    /\ mfa' = [mfa EXCEPT ![PersonOf[d]] = "ON"]
    /\ UNCHANGED <<accounts, recovery, otps, tries, sessions, refreshes, devices, tokens, abandoned,
                   spent>>

disable(d) ==
    LET p == PersonOf[d] IN
    /\ Admitted(d)
    /\ mfa[p] = "ON"
    /\ mfa' = [mfa EXCEPT ![p] = "OFF"]
    /\ recovery' = WithoutCodesOf(p)
    /\ UNCHANGED <<accounts, otps, tries, sessions, refreshes, devices, tokens, abandoned, spent>>

SignIn(d) ==
    \/ PresentOtp(d) \/ MistypeOtp(d) \/ ConsumeOtp(d) \/ google(d)
    \/ consumeTotp(d) \/ recordFailure(d) \/ BurnRecoveryCode(d) \/ ChallengeLapses(d)
    \/ OpenSession(d)
    \/ \E c \in Codes : MatchRecoveryCode(d, c)

SignedIn(d) ==
    \/ logout(d) \/ revokeAll(d) \/ verifyEnrolment(d) \/ disable(d)
    \/ \E s \in Slots : revoke(d, s)
    \/ \E c \in Codes : enroll(d, c)

Refresh(k) ==
    \/ VerifyRefresh(k) \/ RotateRefresh(k) \/ GiveUp(k) \/ LoseCall(k)
    \/ \E d \in Devices : _refreshOnce(d, k)

Administration(p) ==
    \/ requestOtp(p) \/ LockEnds(p) \/ revokeAllSessions(p) \/ removeAccount(p)
    \/ \E s \in Slots : revokeSession(p, s)
    \/ \E status \in {"ACTIVE", "BLOCKED"} : setAccountStatus(p, status)

SessionsNext ==
    \/ \E d \in Devices : SignIn(d) \/ SignedIn(d)
    \/ \E k \in Calls : Refresh(k)
    \/ \E p \in People : Administration(p)
    \/ \E s \in Slots : SessionExpires(s)
    \/ Restart

(***************************************************************************)
(* Properties.                                                             *)
(***************************************************************************)

SessionsTypeOK ==
    /\ accounts \in [People -> {"ACTIVE", "BLOCKED", "DELETED"}]
    /\ mfa \in [People -> {"OFF", "STARTED", "ON"}]
    /\ \A c \in Codes : recovery[c] = Null \/ recovery[c] \in CodeRows
    /\ \A p \in People : otps[p] \in Seq(OtpRows)
    /\ tries \in [People -> 0 .. MaxGuesses]
    /\ \A s \in Slots : sessions[s] = Null \/ sessions[s] \in SessionRows
    /\ \A d \in Devices : devices[d].phase \in {"OUT", "CODE_MATCHED", "CHALLENGED", "CLEARED",
                                                "RECOVERY_MATCHED", "IN", "REFRESHING"}
    /\ tokens \in 0 .. MaxTokens
    /\ abandoned \subseteq Slots

\* A session is ended for the reuse of its token only if a client once
\* stopped waiting for a refresh of it: a client that gets its answers never
\* presents a token that has been rotated away (rotate, _refreshOnce).
SignedOutForCause ==
    \A s \in Slots : sessions[s] # Null /\ sessions[s].revoked = "REUSE" => s \in abandoned

\* A recovery code opens the way once, however many requests matched it
\* before the first of them marked it used (consumeCode).
RecoveryCodeOnce == \A c \in DOMAIN spent : spent[c] <= 1

\* What the staff client says of a refresh whose answer does not arrive: the
\* session is kept.
FlakyNetworkKeepsSession ==
    \A s \in Slots : sessions[s] # Null /\ AudienceOf[sessions[s].person] = "STAFF"
                        => sessions[s].revoked # "REUSE"

=============================================================================
