-------------------------------- MODULE Folio --------------------------------
(***************************************************************************)
(* The money of a stay (FolioService), the cash drawer with its shifts     *)
(* (CashService) and the company account a stay may be billed to           *)
(* (DirectBillingService).                                                 *)
(*                                                                         *)
(* Taking a payment is several statements and no transaction, so a step of *)
(* a request is what lies between two of them.  A charge is posted in one  *)
(* step: the unique index on its source makes the look-up and the insert   *)
(* one.  Amounts are units; Tax is what a taxed line of any size adds.     *)
(***************************************************************************)
EXTENDS Absent, Integers, FiniteSets, FiniteSetsExt, Functions

CONSTANTS
    Stays,         \* stays in the house
    RoomTotal,     \* what the room of a stay costs, its taxes included
    HasAccount,    \* stays billed to a company account
    Sources,       \* what other departments charge for: orders, bills, ...
    Lines,         \* rows of folio_line_items, 1..n
    Tax,           \* GST on a line that is not exempt
    Keys,          \* idempotency keys; a payment without one is a key of its own
    PayMethods,    \* of Methods, those of the run
    Sums,          \* amounts handed over
    Desks,         \* requests that can be under way at once
    Shifts,        \* rows of staff_shifts, 1..n, of one cashier
    DeskOperations,\* those of the run
    MaxCash        \* bound on what the drawer and the account hold

VARIABLES
    lines,         \* folio_line_items
    payments,      \* folio_payments, by stay and idempotency key
    cached,        \* reservations.paid_paise
    stay,          \* where the guest is, and how the folio was left
    drawer,        \* the signed sum of the cash entries of each shift; 0 is none
    shifts,        \* staff_shifts
    account,       \* the corporate ledger: CHARGE minus PAYMENT
    desk,          \* where each request stands
    disturbed      \* stays whose folio two requests changed at once

folioVars == <<lines, payments, cached, stay, drawer, shifts, account, desk, disturbed>>

Methods == {"CASH", "CARD", "CORPORATE"}  \* CARD stands for all that touch nothing else

LineRows(sources) ==
    [booking : Stays, amount : Int, tax : {0 - Tax, 0, Tax}, exempt : BOOLEAN,
     source : sources \cup {Null}, voided : BOOLEAN]

PaymentRows(methods, sums) ==
    [method : methods, amount : sums, direction : {"PAYMENT", "REFUND"}]

AtRest == [pc |-> "idle", op |-> "none", booking |-> Null, key |-> Null, pay |-> Null,
           seen |-> 0, shift |-> 0]

FolioInit ==
    /\ lines = [l \in Lines |-> Null]
    /\ payments = [b \in Stays |-> [k \in Keys |-> Null]]
    /\ cached = [b \in Stays |-> 0]
    /\ stay = [b \in Stays |-> [out |-> FALSE, owed |-> 0, overrode |-> FALSE]]
    /\ drawer = [s \in Shifts \cup {0} |-> 0]
    /\ shifts = [s \in Shifts |-> [state |-> "none", expected |-> 0]]
    /\ account = 0
    /\ desk = [d \in Desks |-> AtRest]
    /\ disturbed = {}

-----------------------------------------------------------------------------
(* What the rows say *)

Signed(p) == IF p = Null THEN 0 ELSE IF p.direction = "REFUND" THEN 0 - p.amount ELSE p.amount

netPaid(b) == SumFunction([k \in DOMAIN payments[b] |-> Signed(payments[b][k])])

LineTotal(l) == IF lines[l] = Null \/ lines[l].voided THEN 0 ELSE lines[l].amount + lines[l].tax

LinesOn(b) == {l \in Lines : lines[l] # Null /\ lines[l].booking = b}

\* summary: room and live lines, each with its tax, less the net payments.
balancePaise(b) == RoomTotal + SumFunction([l \in LinesOn(b) |-> LineTotal(l)]) - netPaid(b)

\* Mutant: a gate that leaves the tax of the lines out.
BalanceBeforeTax(b) ==
    balancePaise(b) - SumFunction([l \in LinesOn(b) |-> IF lines[l].voided THEN 0 ELSE lines[l].tax])

GateBalance(b) == balancePaise(b)

\* computeGstForCategory: the sign of the tax is that of the amount.
Taxed(amount, exempt) == IF exempt THEN 0 ELSE IF amount < 0 THEN 0 - Tax ELSE Tax

FindLineBySource(source) == {l \in DOMAIN lines : lines[l] # Null /\ lines[l].source = source /\ source # Null}

FreeLines == {l \in Lines : lines[l] = Null}

LinePosted(source) == FindLineBySource(source)

\* postCharge: whoever runs it, in a transaction or not, adds one row or none.
PostCharge(b, amount, source) ==
    lines' = IF LinePosted(source) # {} THEN lines
             ELSE [lines EXCEPT ![Min(FreeLines)] =
                      [booking |-> b, amount |-> amount, tax |-> Taxed(amount, amount < 0),
                       exempt |-> amount < 0, source |-> source, voided |-> FALSE]]

CanPost(source) == FreeLines # {} \/ LinePosted(source) # {}

\* The other requests that work on the folio of b.
Rivals(d, b) == {e \in Desks \ {d} : desk[e].booking = b}

Disturbs(b) == disturbed' = disturbed \cup (IF \E d \in Desks : desk[d].booking = b THEN {b} ELSE {})

purse == <<drawer, shifts, account>>

-----------------------------------------------------------------------------
(* Charges *)

Offers(op) == op \in DeskOperations

Bounded == account <= MaxCash /\ \A s \in Shifts \cup {0} : drawer[s] \in (0 - MaxCash)..MaxCash

\* An extra the guest asks for, with no usable source: requestServices gives
\* every call a fresh one.
Charge(b) ==
    /\ Offers("charge") /\ FreeLines # {}
    /\ PostCharge(b, 1, Null)
    /\ Disturbs(b)
    /\ UNCHANGED <<payments, cached, stay, purse, desk>>

\* A department settles to the room: the call may be repeated.
ChargeForSource(b, source) ==
    /\ Offers("source") /\ CanPost(source)
    /\ PostCharge(b, 1, source)
    /\ Disturbs(b)
    /\ UNCHANGED <<payments, cached, stay, purse, desk>>

applyDiscount(b) ==
    /\ Offers("discount") /\ FreeLines # {}
    /\ PostCharge(b, -1, Null)
    /\ Disturbs(b)
    /\ UNCHANGED <<payments, cached, stay, purse, desk>>

voidLine(l) ==
    /\ Offers("void")
    /\ lines[l] # Null /\ ~lines[l].voided
    /\ lines' = [lines EXCEPT ![l].voided = TRUE]
    /\ Disturbs(lines[l].booking)
    /\ UNCHANGED <<payments, cached, stay, purse, desk>>

\* The tax is computed again from the amount, of a discount too.
setLineTaxExempt(l, exempt) ==
    /\ Offers("exempt")
    /\ lines[l] # Null
    /\ lines' = [lines EXCEPT ![l].exempt = exempt,
                              ![l].tax = Taxed(lines[l].amount, exempt)]
    /\ Disturbs(lines[l].booking)
    /\ UNCHANGED <<payments, cached, stay, purse, desk>>

-----------------------------------------------------------------------------
(* Payments: find by key, insert, sum, write the cache, then the drawer or *)
(* the account.  checkOut takes its money the same way, with no drawer.    *)

Goto(d, pc) == desk' = [desk EXCEPT ![d].pc = pc]

Begin(d, op, b, k, p) ==
    /\ desk[d].pc = "idle"
    /\ desk' = [desk EXCEPT ![d] = [AtRest EXCEPT !.op = op, !.booking = b, !.key = k, !.pay = p,
                                                  !.pc = IF p = Null THEN "gate" ELSE "find"]]
    /\ disturbed' = disturbed \cup (IF Rivals(d, b) # {} THEN {b} ELSE {})
    /\ UNCHANGED <<lines, payments, cached, stay, purse>>

\* The client repeats a call with the key and the content of the first.
Repeats(b, k, p) == payments[b][k] \in {Null, p}

collectPayment(d, b, k, p) ==
    /\ Offers(p.direction) /\ Repeats(b, k, p) /\ Bounded
    /\ Begin(d, "collect", b, k, p)

checkOut(d, b, k, p, override) ==
    /\ Offers("checkout")
    /\ ~stay[b].out
    /\ p # Null => p.direction = "PAYMENT" /\ Repeats(b, k, p)
    /\ Begin(d, IF override THEN "depart" ELSE "checkout", b, k, p)

AfterPayment(d) ==
    IF desk[d].op # "collect" THEN "gate"
    ELSE IF desk[d].pay.direction = "REFUND" THEN "done"
    ELSE CASE desk[d].pay.method = "CASH" -> "shift"
           [] desk[d].pay.method = "CORPORATE" -> "account"
           [] OTHER -> "done"

Done(d) == desk' = [desk EXCEPT ![d] = AtRest]

Continue(d, pc) == IF pc = "done" THEN Done(d) ELSE Goto(d, pc)

FindPaymentByKey(d) ==
    /\ desk[d].pc = "find"
    /\ LET r == desk[d]
       IN  IF payments[r.booking][r.key] # Null THEN Continue(d, AfterPayment(d)) ELSE Goto(d, "insert")
    /\ UNCHANGED <<lines, payments, cached, stay, purse, disturbed>>

InsertPayment(d) ==
    /\ desk[d].pc = "insert"
    /\ LET r == desk[d]
       IN  payments' = IF payments[r.booking][r.key] = Null
                       THEN [payments EXCEPT ![r.booking][r.key] = r.pay] ELSE payments
    /\ Goto(d, "sum")
    /\ UNCHANGED <<lines, cached, stay, purse, disturbed>>

SumPayments(d) ==
    /\ desk[d].pc = "sum"
    /\ desk' = [desk EXCEPT ![d].pc = "cache", ![d].seen = netPaid(desk[d].booking)]
    /\ UNCHANGED <<lines, payments, cached, stay, purse, disturbed>>

WriteCache(d) ==
    /\ desk[d].pc = "cache"
    /\ cached' = [cached EXCEPT ![desk[d].booking] = desk[d].seen]
    /\ Continue(d, AfterPayment(d))
    /\ UNCHANGED <<lines, payments, stay, purse, disturbed>>

\* The controller, after the payment and apart from it, on every call.
ChargeAccount(d) ==
    /\ desk[d].pc = "account"
    /\ account' = IF desk[d].booking \in HasAccount THEN account + desk[d].pay.amount ELSE account
    /\ Done(d)
    /\ UNCHANGED <<lines, payments, cached, stay, drawer, shifts, disturbed>>

\* The gate of checkOut reads the rows; the stay is closed in a transaction
\* that reads nothing again.
Gate(d) ==
    /\ desk[d].pc = "gate"
    /\ LET b == desk[d].booking
       IN  IF GateBalance(b) > 0 /\ desk[d].op = "checkout" THEN Done(d)
           ELSE desk' = [desk EXCEPT ![d].pc = "leave", ![d].seen = GateBalance(b)]
    /\ UNCHANGED <<lines, payments, cached, stay, purse, disturbed>>

Leave(d) ==
    /\ desk[d].pc = "leave"
    /\ stay' = [stay EXCEPT ![desk[d].booking] =
                   [out |-> TRUE, owed |-> balancePaise(desk[d].booking),
                    overrode |-> desk[d].op = "depart"]]
    /\ Done(d)
    /\ UNCHANGED <<lines, payments, cached, purse, disturbed>>

-----------------------------------------------------------------------------
(* The drawer *)

OpenShifts == {s \in Shifts : shifts[s].state = "open"}

\* A movement by hand: CASH_IN and TOP_UP add, WITHDRAWAL and EXPENSE take.
recordMovement(d, amount) ==
    /\ Offers("movement") /\ desk[d].pc = "idle" /\ Bounded
    /\ desk' = [desk EXCEPT ![d] = [AtRest EXCEPT !.op = "movement", !.pc = "shift", !.seen = amount]]
    /\ UNCHANGED <<lines, payments, cached, stay, purse, disturbed>>

openShiftFor(d) ==
    /\ desk[d].pc = "shift"
    /\ \E s \in IF OpenShifts = {} THEN {0} ELSE OpenShifts :
           desk' = [desk EXCEPT ![d].pc = "drawer", ![d].shift = s]
    /\ UNCHANGED <<lines, payments, cached, stay, purse, disturbed>>

RecordCash(d) ==
    /\ desk[d].pc = "drawer"
    /\ LET amount == IF desk[d].op = "collect" THEN desk[d].pay.amount ELSE desk[d].seen
       IN  drawer' = [drawer EXCEPT ![desk[d].shift] = @ + amount]
    /\ Done(d)
    /\ UNCHANGED <<lines, payments, cached, stay, shifts, account, disturbed>>

FindShift(d, op) ==
    /\ Offers("shift") /\ desk[d].pc = "idle"
    /\ desk' = [desk EXCEPT ![d] = [AtRest EXCEPT !.op = op, !.pc = op]]
    /\ UNCHANGED <<lines, payments, cached, stay, purse, disturbed>>

\* The second of two looks and the insert: no index forbids a second shift.
openShift(d) ==
    /\ desk[d].pc = "open"
    /\ \/ OpenShifts # {} /\ Done(d)
       \/ OpenShifts = {} /\ Goto(d, "opening")
    /\ UNCHANGED <<lines, payments, cached, stay, purse, disturbed>>

InsertShift(d) ==
    /\ desk[d].pc = "opening"
    /\ \E s \in Shifts : /\ shifts[s].state = "none"
                         /\ \A t \in Shifts : t < s => shifts[t].state # "none"
                         /\ shifts' = [shifts EXCEPT ![s].state = "open"]
    /\ Done(d)
    /\ UNCHANGED <<lines, payments, cached, stay, drawer, account, disturbed>>

\* What the shift should hold is summed before the shift is closed.
closeShift(d) ==
    /\ desk[d].pc = "close"
    /\ \/ OpenShifts = {} /\ Done(d)
       \/ \E s \in OpenShifts :
              desk' = [desk EXCEPT ![d].pc = "closing", ![d].shift = s, ![d].seen = drawer[s]]
    /\ UNCHANGED <<lines, payments, cached, stay, purse, disturbed>>

UpdateShift(d) ==
    /\ desk[d].pc = "closing"
    /\ shifts' = [shifts EXCEPT ![desk[d].shift] = [state |-> "closed", expected |-> desk[d].seen]]
    /\ Done(d)
    /\ UNCHANGED <<lines, payments, cached, stay, drawer, account, disturbed>>

\* The company pays its account.
payAccount ==
    /\ Offers("account") /\ account > 0
    /\ account' = account - 1
    /\ UNCHANGED <<lines, payments, cached, stay, drawer, shifts, desk, disturbed>>

FolioNext ==
    \/ \E b \in Stays : Charge(b) \/ applyDiscount(b)
    \/ \E b \in Stays, source \in Sources : ChargeForSource(b, source)
    \/ \E l \in Lines : voidLine(l)
    \/ \E l \in Lines, exempt \in BOOLEAN : setLineTaxExempt(l, exempt)
    \/ \E d \in Desks, b \in Stays, k \in Keys, p \in PaymentRows(PayMethods, Sums) : collectPayment(d, b, k, p)
    \/ \E d \in Desks, b \in Stays, k \in Keys, p \in PaymentRows(PayMethods, Sums) \cup {Null}, o \in BOOLEAN :
           checkOut(d, b, k, p, o)
    \/ \E d \in Desks : FindPaymentByKey(d) \/ InsertPayment(d) \/ SumPayments(d) \/ WriteCache(d)
    \/ \E d \in Desks : ChargeAccount(d) \/ Gate(d) \/ Leave(d)
    \/ \E d \in Desks, amount \in {-1, 1} : recordMovement(d, amount)
    \/ \E d \in Desks : openShiftFor(d) \/ RecordCash(d) \/ openShift(d) \/ InsertShift(d)
    \/ \E d \in Desks, op \in {"open", "close"} : FindShift(d, op)
    \/ \E d \in Desks : closeShift(d) \/ UpdateShift(d)
    \/ payAccount

FolioSpec == FolioInit /\ [][FolioNext]_folioVars

-----------------------------------------------------------------------------
(* Properties *)

FolioTypeOK ==
    /\ \A l \in Lines : lines[l] = Null \/ lines[l] \in LineRows(Sources)
    /\ \A b \in Stays : \A k \in Keys : payments[b][k] \in PaymentRows(PayMethods, Sums) \cup {Null}
    /\ \A b \in Stays : cached[b] \in Int
    /\ stay \in [Stays -> [out : BOOLEAN, owed : Int, overrode : BOOLEAN]]
    /\ drawer \in [Shifts \cup {0} -> Int]
    /\ shifts \in [Shifts -> [state : {"none", "open", "closed"}, expected : Int]]
    /\ account \in Nat
    /\ disturbed \subseteq Stays

Working(b) == \E d \in DOMAIN desk : desk[d].booking = b

\* Once nothing works on a folio, the paid_paise of the stay is the net of its
\* payments, however they were retried, unless two requests were on it at once
\* (recordPayment sums, then writes, with no lock; folio.service.ts:184-189).
CacheIsNetUnlessDisturbed ==
    \A b \in DOMAIN cached : ~Working(b) /\ b \notin disturbed => cached[b] = netPaid(b)

\* A guest who left without an override owed nothing at that moment, tax
\* included, unless the folio changed under the gate (checkOut reads the
\* balance outside its transaction; reservations.service.ts:1402-1407).
LeavesPaidUp ==
    \A b \in DOMAIN stay : stay[b].out /\ ~stay[b].overrode /\ b \notin disturbed => ~(stay[b].owed > 0)

\* A source is on the folios at most once, for however many calls and even
\* after its line was voided.
ChargedOncePerSource ==
    \A l, m \in DOMAIN lines :
        lines[l] # Null /\ lines[m] # Null /\ lines[l].source # Null
        /\ lines[l].source = lines[m].source => l = m

\* folio: the cached paid amount is what was taken less what was given back, a
\* source is charged once, and nobody leaves owing but by an override: however
\* charges, cards, refunds and the check-out of two desks cross.
GuestAccountsAddUp == CacheIsNetUnlessDisturbed /\ LeavesPaidUp /\ ChargedOncePerSource

CashOf(p) == IF p # Null /\ p.method = "CASH" THEN Signed(p) ELSE 0

\* "Every rupee of cash that moves is a row": with no movement by hand and
\* nothing under way, the drawer holds the cash of the folios.  The cash taken
\* by checkOut, the cash given back as a refund and the cash of a repeated call
\* make it false.
EveryRupeeIsARow ==
    (\A d \in Desks : desk[d].pc = "idle") =>
        SumFunction(drawer)
          = SumFunction([b \in Stays |-> SumFunction([k \in Keys |-> CashOf(payments[b][k])])])

=============================================================================
