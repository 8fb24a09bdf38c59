------------------------------ MODULE Registers ------------------------------
(***************************************************************************)
(* The hotel's registers whose entries walk a short lifecycle: expenses,   *)
(* purchase orders waiting for approval, sales leads and events with their *)
(* tasks (ExpensesService, ApprovalsService, LeadsService, EventsService). *)
(* Every request reads the entry, decides, and writes it by its id.        *)
(***************************************************************************)
EXTENDS Absent, Integers, FiniteSets

CONSTANTS
    Entries,     \* rows of the registers
    KindOf,      \* entry -> "expense", "purchase", "lead" or "event"
    Amounts,     \* amounts an entry may carry
    Todos,       \* rows of event_tasks
    Clerks       \* requests that run at once

VARIABLES
    entries,     \* entry -> [status, sum, live, cancelled, completed], or Null
    todos,       \* task -> [event, done, assigned], or Null
    clerks,      \* request -> what it is in the middle of
    verdicts,    \* entry -> the verdicts the approvals queue gave on it
    overtaken,   \* entries somebody wrote between another request's read and write
    rewritten    \* entries that were history when they were changed

registerVars == <<entries, todos, clerks, verdicts, overtaken, rewritten>>

Kinds == {"expense", "purchase", "lead", "event"}

ExpenseMoves == [DRAFT |-> {"APPROVED"}, APPROVED |-> {"PAID"}, PAID |-> {}]
LeadMoves ==
    [LEAD |-> {"CONTACTED", "LOST"}, CONTACTED |-> {"PROPOSAL", "LOST"},
     PROPOSAL |-> {"NEGOTIATION", "CONFIRMED", "LOST"}, NEGOTIATION |-> {"CONFIRMED", "LOST"},
     CONFIRMED |-> {}, LOST |-> {}]
EventMoves ==
    [ENQUIRY |-> {"CONFIRMED", "CANCELLED"}, CONFIRMED |-> {"IN_PROGRESS", "CANCELLED"},
     IN_PROGRESS |-> {"COMPLETED", "CANCELLED"}, COMPLETED |-> {}, CANCELLED |-> {}]

StatusesOf(kind) ==
    CASE kind = "expense" -> DOMAIN ExpenseMoves
      [] kind = "lead" -> DOMAIN LeadMoves
      [] kind = "event" -> DOMAIN EventMoves
      [] OTHER -> {"DRAFT", "SENT", "CANCELLED"}

EntryRows == [status : UNION {StatusesOf(k) : k \in Kinds}, sum : Amounts, live : BOOLEAN,
              cancelled : BOOLEAN, completed : BOOLEAN]

\* Each register is a table of its own; Null is no row.
ASSUME RegistersAssumption ==
    /\ \A e \in Entries : KindOf[e] \in Kinds
    /\ Null \notin EntryRows

\* A purchase order is moved by the queue only; its own screens are in Inventory.
Moves(kind, from) ==
    CASE kind = "expense" -> ExpenseMoves[from]
      [] kind = "lead" -> LeadMoves[from]
      [] kind = "event" -> EventMoves[from]
      [] OTHER -> {}

FirstStatus(kind) == [expense |-> "DRAFT", purchase |-> "DRAFT", lead |-> "LEAD", event |-> "ENQUIRY"][kind]
Awaiting == {e \in Entries : KindOf[e] \in {"expense", "purchase"}}
EventRows == {e \in DOMAIN entries : KindOf[e] = "event"}

At(e) == entries[e] # Null /\ entries[e].live
Idle == [step |-> "IDLE"]

RegistersInit ==
    /\ entries = [e \in Entries |-> Null]
    /\ todos = [t \in Todos |-> Null]
    /\ clerks = [c \in Clerks |-> Idle]
    /\ verdicts = [e \in Entries |-> {}]
    /\ overtaken = {} /\ rewritten = {}

createEntry(e) ==
    /\ entries[e] = Null
    /\ \E sum \in Amounts :
          entries' = [entries EXCEPT ![e] = [status |-> FirstStatus(KindOf[e]), sum |-> sum, live |-> TRUE,
                                             cancelled |-> FALSE, completed |-> FALSE]]
    /\ UNCHANGED <<todos, clerks, verdicts, overtaken, rewritten>>

(***************************************************************************)
(* A request reads the row (requireExpense, requireLead, require) and      *)
(* leaves a write to be made.                                              *)
(***************************************************************************)
Reads(c, e, write) ==
    /\ clerks[c] = Idle /\ At(e)
    /\ clerks' = [clerks EXCEPT ![c] = write]
    /\ UNCHANGED <<entries, todos, verdicts, overtaken, rewritten>>

setEntryStatus(c, e) ==
    /\ At(e)
    /\ \E to \in Moves(KindOf[e], entries[e].status) :
        Reads(c, e, [step |-> "MOVE", row |-> e, to |-> to, before |-> entries[e]])

\* An expense or a lead is patched, an event is written whole from what was read.
update(c, e) ==
    /\ KindOf[e] # "purchase"
    /\ \E sum \in Amounts \cup {Null} :
          /\ sum = Null => KindOf[e] = "event"
          /\ Reads(c, e, [step |-> "PATCH", row |-> e, before |-> entries[e],
                          sum |-> IF sum = Null THEN entries[e].sum ELSE sum])

removeEntry(c, e) ==
    /\ KindOf[e] \in {"expense", "lead"}
    /\ Reads(c, e, [step |-> "REMOVE", row |-> e, before |-> entries[e]])

AwaitsApproval(e) == e \in Awaiting /\ entries[e].status = "DRAFT"

decide(c, e) ==
    /\ At(e) /\ AwaitsApproval(e)
    /\ \E approve \in BOOLEAN :
        Reads(c, e, [step |-> "DECIDE", row |-> e, approve |-> approve, before |-> entries[e]])

History(e) == KindOf[e] # "purchase" /\ Moves(KindOf[e], entries[e].status) = {}

Ends(c, e) ==
    /\ overtaken' = IF entries[e] # clerks[c].before THEN overtaken \cup {e} ELSE overtaken
    /\ clerks' = [clerks EXCEPT ![c] = Idle]
    /\ UNCHANGED todos

\* The stamps of an event are written as they were read, the new one apart.
StampsRead(q) == q.before

Moved(row, q) ==
    IF KindOf[q.row] = "event"
    THEN [row EXCEPT !.status = q.to,
                     !.cancelled = StampsRead(q).cancelled \/ q.to = "CANCELLED",
                     !.completed = StampsRead(q).completed \/ q.to = "COMPLETED"]
    ELSE [row EXCEPT !.status = q.to]

Move(c) ==
    LET q == clerks[c]
        e == q.row
    IN  /\ q.step = "MOVE"
        /\ entries' = [entries EXCEPT ![e] = Moved(@, q)]
        /\ Ends(c, e)
        /\ rewritten' = IF History(e) THEN rewritten \cup {e} ELSE rewritten
        /\ UNCHANGED verdicts

Patch(c) ==
    LET q == clerks[c]
        e == q.row
    IN  /\ q.step = "PATCH"
        /\ entries' = [entries EXCEPT ![e].sum = q.sum]
        /\ Ends(c, e)
        /\ rewritten' = IF History(e) /\ q.sum # entries[e].sum THEN rewritten \cup {e} ELSE rewritten
        /\ UNCHANGED verdicts

Remove(c) ==
    LET e == clerks[c].row
    IN  /\ clerks[c].step = "REMOVE"
        /\ entries' = [entries EXCEPT ![e].live = FALSE]
        /\ Ends(c, e)
        /\ rewritten' = IF History(e) THEN rewritten \cup {e} ELSE rewritten
        /\ UNCHANGED verdicts

\* A rejected expense is withdrawn, a rejected order cancelled.
Verdict(c) ==
    LET q == clerks[c]
        e == q.row
    IN  /\ q.step = "DECIDE"
        /\ entries' = [entries EXCEPT ![e] =
              IF KindOf[e] = "purchase" THEN [@ EXCEPT !.status = IF q.approve THEN "SENT" ELSE "CANCELLED"]
              ELSE IF q.approve THEN [@ EXCEPT !.status = "APPROVED"]
              ELSE [@ EXCEPT !.live = FALSE]]
        /\ verdicts' = [verdicts EXCEPT ![e] = @ \cup {q.approve}]
        /\ Ends(c, e)
        /\ UNCHANGED rewritten

(***************************************************************************)
(* Tasks of an event, which may be set and ticked whatever became of it.   *)
(***************************************************************************)
addTask(t, e) ==
    /\ todos[t] = Null /\ At(e) /\ e \in EventRows
    /\ \E assigned \in BOOLEAN :
          todos' = [todos EXCEPT ![t] = [event |-> e, done |-> FALSE, assigned |-> assigned]]
    /\ UNCHANGED <<entries, clerks, verdicts, overtaken, rewritten>>

\* Ticked or unticked, or handed to somebody: the field left out is written as read.
updateTask(c, t) ==
    /\ clerks[c] = Idle /\ todos[t] # Null
    /\ \E to \in {[todos[t] EXCEPT !.done = ~@], [todos[t] EXCEPT !.assigned = TRUE]} :
          clerks' = [clerks EXCEPT ![c] = [step |-> "TASK", task |-> t, to |-> to]]
    /\ UNCHANGED <<entries, todos, verdicts, overtaken, rewritten>>

WriteTodo(c) ==
    /\ clerks[c].step = "TASK"
    /\ todos' = IF todos[clerks[c].task] = Null THEN todos
                ELSE [todos EXCEPT ![clerks[c].task] = clerks[c].to]
    /\ clerks' = [clerks EXCEPT ![c] = Idle]
    /\ UNCHANGED <<entries, verdicts, overtaken, rewritten>>

removeTask(t) ==
    /\ todos[t] # Null
    /\ todos' = [todos EXCEPT ![t] = Null]
    /\ UNCHANGED <<entries, clerks, verdicts, overtaken, rewritten>>

RegistersNext ==
    \/ \E e \in Entries : \/ createEntry(e)
                          \/ \E t \in Todos : addTask(t, e)
                          \/ \E c \in Clerks : \/ setEntryStatus(c, e)
                                               \/ update(c, e) \/ removeEntry(c, e) \/ decide(c, e)
    \/ \E c \in Clerks : \/ Move(c) \/ Patch(c) \/ Remove(c) \/ Verdict(c) \/ WriteTodo(c)
                         \/ \E t \in Todos : updateTask(c, t)
    \/ \E t \in Todos : removeTask(t)

RegistersSpec == RegistersInit /\ [][RegistersNext]_registerVars

(***************************************************************************)
(* What the screens read off the registers.                                *)
(***************************************************************************)
Leads == {e \in DOMAIN entries : KindOf[e] = "lead" /\ At(e)}
OpenStages == {"LEAD", "CONTACTED", "PROPOSAL", "NEGOTIATION"}

\* The pipeline board, and the funnel of the sales dashboard.
board == [stage \in DOMAIN LeadMoves |-> {e \in Leads : entries[e].status = stage}]
summary == [total |-> Cardinality(Leads),
            won   |-> Cardinality(board["CONFIRMED"]),
            open  |-> Cardinality(UNION {board[stage] : stage \in OpenStages})]

\* The approvals queue, its expenses, and what accounts say is still to be paid.
Queue == {e \in DOMAIN entries : At(e) /\ AwaitsApproval(e)}

\* Mutation for BooksFollowTheQueue: withdrawn expenses are owed as well.
PayablesWithdrawn == {e \in DOMAIN entries : KindOf[e] = "expense" /\ entries[e] # Null
                                             /\ entries[e].status # "PAID"}

Payables == {e \in DOMAIN entries : KindOf[e] = "expense" /\ At(e) /\ entries[e].status # "PAID"}

\* What the dashboard of events calls upcoming.
Upcoming == {e \in EventRows : entries[e] # Null
                               /\ entries[e].status \in {"CONFIRMED", "IN_PROGRESS"}}

(***************************************************************************)
(* Properties.                                                             *)
(***************************************************************************)

\* Rows have their columns.
RegistersTypeOK ==
    /\ \A e \in Entries : entries[e] # Null =>
          entries[e].sum \in Amounts /\ entries[e].live \in BOOLEAN
    /\ \A t \in Todos : todos[t] # Null => todos[t].event \in EventRows
    /\ overtaken \subseteq Entries /\ rewritten \subseteq Entries
    /\ summary.won + summary.open <= summary.total

\* accounts-rules: "a paid expense is history the revenue rollup has been reconciled
\* against - you raise a new one to correct it".  Its amount may be edited and the row
\* removed all the same.
PaidIsHistory == \A e \in rewritten : KindOf[e] # "expense"

\* decide: "Expense is not awaiting approval".  An entry gets one verdict: a rejected
\* expense is not approved later, an order sent to the supplier is not cancelled by the
\* queue, unless another request wrote the entry between a decision's read and its write.
OneVerdictUnlessRaced == \A e \in DOMAIN entries \ overtaken : Cardinality(verdicts[e]) <= 1

\* An expense waiting for its verdict is in the books as owed; one that was refused is
\* in neither place again, one that was approved is owed until it is paid or withdrawn.
OwedAsDecided ==
    \A e \in DOMAIN entries \ overtaken :
        KindOf[e] = "expense" =>
            /\ e \in Queue => e \in Payables /\ verdicts[e] = {}
            /\ verdicts[e] = {FALSE} => e \notin Queue \cup Payables
            /\ verdicts[e] = {TRUE} /\ At(e) => (e \in Payables <=> entries[e].status = "APPROVED")

\* setStatus (events): a called-off event has the time it was called off and no other, a
\* finished one the time it was finished, and one that another clerk's stale move brought
\* back to life has neither: what the dashboard calls upcoming is not over.
StampsFollowStatus ==
    /\ \A e \in Upcoming : ~entries[e].cancelled /\ ~entries[e].completed
    /\ \A e \in EventRows : entries[e] # Null =>
          /\ entries[e].cancelled <=> entries[e].status = "CANCELLED"
          /\ entries[e].completed <=> entries[e].status = "COMPLETED"

\* approvals, accounts, events: an entry gets one verdict and the books follow it, however
\* the reads and writes of the clerks cross; an event is stamped as it ended.
BooksFollowTheQueue == OneVerdictUnlessRaced /\ OwedAsDecided /\ StampsFollowStatus

\* sales-rules: "moving a lost or won deal back into the pipeline is a new lead ... so the
\* funnel numbers stay honest".  A move that read the lead before it was lost writes it back.
FunnelStaysHonest ==
    [][\A e \in Leads : entries[e].status \in {"CONFIRMED", "LOST"}
          => entries'[e].status = entries[e].status]_registerVars
=============================================================================
