------------------------------- MODULE Billing -------------------------------
(***************************************************************************)
(* BillingService (src/src/modules/billing): how money becomes a renewed   *)
(* subscription and an invoice, and how it is given back.                  *)
(*                                                                         *)
(* Requests run side by side in Handlers.  A step of one is what it does   *)
(* between two awaits that matter to others: a statement outside any       *)
(* transaction, a read in one, its writes with the commit, a call to the   *)
(* gateway.  A handler may stop for ever between two of them (Crash).      *)
(* All payments are for one subscription and of one amount; a month is the *)
(* plan's duration; refunds are of whole units of the amount.              *)
(***************************************************************************)
EXTENDS Absent, Naturals, FiniteSets, FiniteSetsExt

CONSTANTS
    Orders,        \* payments that start as an order at a gateway
    Cashes,        \* payments recorded by hand
    ProviderOf,    \* the gateway of each order
    Handlers,      \* requests that can be under way at once
    Worker,        \* the one of Handlers that is the refund retry worker
    Refunds,       \* refund rows, numbered as they are created
    Limit,         \* refunds the worker takes in one run
    MayCrash,      \* whether a handler may stop half-way
    Amount,        \* units of money in a payment
    MaxAttempts,   \* attempts of a customer to pay one order
    MaxNow,        \* the last month
    MaxNumber      \* bound on the invoice numbers drawn

VARIABLES
    now,           \* the month
    gateway,       \* what the gateways know of each order
    events,        \* events they emitted; each is delivered any number of times
    claims,        \* webhook_events: the event ids that have a row
    payments,      \* status of each payment row, Null before it exists
    periodEnd,     \* subscriptions.current_period_end, in months
    lastSeq,       \* invoice_sequences.last_seq
    invoices,      \* invoice rows: their number, payment and status
    refunds,       \* refund rows
    paidOut,       \* how often a gateway paid out for each refund row
    handlers,      \* where each request stands
    contended,     \* whether two settlements were ever under way at once
    overlapped     \* refund rows two attempts worked on at once

vars == <<now, gateway, events, claims, payments, periodEnd, lastSeq, invoices,
          refunds, paidOut, handlers, contended, overlapped>>

Payments == Orders \cup Cashes

Attempts == 1..MaxAttempts

Events == [order : Orders, attempt : Attempts, exact : BOOLEAN,
           type : {"authorized", "captured", "failed"}]

\* The idempotency key of a delivery: Razorpay's payment entity, of which an
\* attempt has one whatever happens to it; Cashfree's order, whatever the event.
EventId(e) == IF ProviderOf[e.order] = "RAZORPAY" THEN <<e.order, e.attempt>>
                                                  ELSE <<e.order, 0>>

EventIds == Orders \X (0..MaxAttempts)

PaymentStatuses == {"PENDING", "SUCCESS", "FAILED", "REFUNDED", "PARTIALLY_REFUNDED", "CANCELLED"}

InvoiceRows == [number : 1..MaxNumber, of : Payments \cup {Null},
                status : {"DRAFT", "ISSUED", "PAID", "CANCELLED"}]

RefundRows == [of : Payments, amount : 1..Amount, status : {"PENDING", "PROCESSED", "MANUAL"}]

\* Things that are told apart, as the schema has them; every order is at one of
\* the two gateways, and what a payment and a run of the worker take is not nothing.
ASSUME KindsAssumption ==
    /\ Orders \cap Cashes = {} /\ Null \notin Payments /\ Null \notin PaymentStatuses
    /\ Worker \in Handlers /\ ProviderOf \in [Orders -> {"RAZORPAY", "CASHFREE"}]
ASSUME RefundsAssumption ==
    /\ IsFiniteSet(Refunds) /\ Refunds \subseteq Nat
    /\ Null \notin Refunds /\ Null \notin RefundRows
    /\ Limit \in Nat \ {0} /\ Amount \in Nat \ {0}

Idle == [pc |-> "idle", event |-> Null, payment |-> Null, number |-> 0, end |-> 0,
         row |-> Null, todo |-> {}]

Requests ==
    [pc : {"idle", "dispatch", "number", "read", "commit", "mark", "insert", "park",
           "list", "manual", "find", "create", "record"},
     event : Events \cup {Null}, payment : Payments \cup {Null},
     number : 0..MaxNumber, end : 0..(MaxNow + Cardinality(Payments)),
     row : Refunds \cup {Null}, todo : SUBSET Refunds]

Init ==
    /\ now = 0 /\ periodEnd = 0 /\ lastSeq = 0
    /\ gateway = [o \in Orders |-> [state |-> "none", attempt |-> 1]]
    /\ events = {} /\ claims = {} /\ invoices = {}
    /\ payments = [p \in Payments |-> Null]
    /\ refunds = [r \in Refunds |-> Null]
    /\ paidOut = [r \in Refunds |-> 0]
    /\ handlers = [h \in Handlers |-> Idle]
    /\ contended = FALSE /\ overlapped = {}

At(h, pc) == handlers[h].pc = pc

Goto(h, pc) == handlers' = [handlers EXCEPT ![h].pc = pc]

Finish(h) == handlers' = [handlers EXCEPT ![h] = Idle]

money == <<payments, periodEnd, invoices>>
outside == <<now, gateway, events>>
payback == <<refunds, paidOut, overlapped>>

-----------------------------------------------------------------------------
(* The gateways and their customers *)

Emit(o, type, exact) ==
    events' = events \cup {[order |-> o, attempt |-> gateway[o].attempt, exact |-> exact, type |-> type]}

\* An attempt fails, and the customer may try again on the same order.
GatewayFails(o) ==
    /\ gateway[o].state \in {"open", "authorized"}
    /\ gateway[o].attempt < MaxAttempts
    /\ Emit(o, "failed", TRUE)
    /\ gateway' = [gateway EXCEPT ![o] = [state |-> "open", attempt |-> @.attempt + 1]]
    /\ UNCHANGED <<now, claims, money, lastSeq, payback, handlers, contended>>

GatewayAuthorizes(o) ==
    /\ ProviderOf[o] = "RAZORPAY"
    /\ gateway[o].state = "open"
    /\ Emit(o, "authorized", TRUE)
    /\ gateway' = [gateway EXCEPT ![o].state = "authorized"]
    /\ UNCHANGED <<now, claims, money, lastSeq, payback, handlers, contended>>

\* An order is captured once, for its amount or (exact = FALSE) another.
GatewayCaptures(o) ==
    /\ gateway[o].state \in {"open", "authorized"}
    /\ \E exact \in BOOLEAN : Emit(o, "captured", exact)
    /\ gateway' = [gateway EXCEPT ![o].state = "captured"]
    /\ UNCHANGED <<now, claims, money, lastSeq, payback, handlers, contended>>

MonthPasses ==
    /\ now < MaxNow
    /\ now' = now + 1
    /\ UNCHANGED <<gateway, events, claims, money, lastSeq, payback, handlers, contended>>

-----------------------------------------------------------------------------
(* createGatewayOrder: the order first, then its PENDING row *)

CreateOrder(h, o) ==
    /\ At(h, "idle")
    /\ gateway[o].state = "none"
    /\ gateway' = [gateway EXCEPT ![o].state = "open"]
    /\ handlers' = [handlers EXCEPT ![h].pc = "park", ![h].payment = o]
    /\ UNCHANGED <<now, events, claims, money, lastSeq, payback, contended>>

parkPendingOrder(h) ==
    /\ At(h, "park")
    /\ payments' = [payments EXCEPT ![handlers[h].payment] = "PENDING"]
    /\ Finish(h)
    /\ UNCHANGED <<outside, claims, periodEnd, lastSeq, invoices, payback, contended>>

-----------------------------------------------------------------------------
(* handleWebhook *)

\* Mutant: a row that was never marked processed is taken for a lost delivery.
ClaimsAgain(e) ==
    \/ EventId(e) \notin claims
    \/ \A i \in invoices : i.of # e.order

\* The unique index on (provider, event_id) admits the first delivery.
Claimable(e) == EventId(e) \notin claims

\* A delivery of an event whose id has a row is answered as a replay.
handleWebhook(h, e) ==
    /\ At(h, "idle")
    /\ e \in events
    /\ Claimable(e)
    /\ claims' = claims \cup {EventId(e)}
    /\ handlers' = [handlers EXCEPT ![h].pc = "dispatch", ![h].event = e]
    /\ UNCHANGED <<outside, money, lastSeq, payback, contended>>

\* Only a captured event that finds its row PENDING, and for the ordered
\* amount, goes on to settle; any other is just marked processed.
dispatchWebhook(h) ==
    LET e == handlers[h].event
        settles == e.type = "captured" /\ payments[e.order] = "PENDING" /\ e.exact
    IN  /\ At(h, "dispatch")
        /\ handlers' = [handlers EXCEPT ![h].pc = IF settles THEN "number" ELSE "mark",
                                        ![h].payment = IF settles THEN e.order ELSE Null]
        /\ UNCHANGED <<outside, claims, money, lastSeq, payback, contended>>

\* The row's processed_at, or its error, is written: nothing reads either.
MarkProcessed(h) ==
    /\ At(h, "mark")
    /\ Finish(h)
    /\ UNCHANGED <<outside, claims, money, lastSeq, payback, contended>>

\* Money that arrived outside any gateway.
recordManualPayment(h, c) ==
    /\ At(h, "idle")
    /\ payments[c] = Null
    /\ \A g \in Handlers : handlers[g].payment # c
    /\ handlers' = [handlers EXCEPT ![h].pc = "number", ![h].payment = c]
    /\ UNCHANGED <<outside, claims, money, lastSeq, payback, contended>>

-----------------------------------------------------------------------------
(* settleSuccessfulPayment *)

\* The upsert that increments the counter and returns it in one statement.
Drawn == lastSeq + 1

InvoiceNumber(h) ==
    /\ At(h, "number")
    /\ lastSeq < MaxNumber
    /\ lastSeq' = Drawn
    /\ handlers' = [handlers EXCEPT ![h].number = lastSeq + 1,
                                    ![h].pc = IF handlers[h].payment = Null THEN "insert" ELSE "read"]
    /\ UNCHANGED <<outside, claims, money, payback, contended>>

\* The transaction reads the subscription, without a lock.
ReadSubscription(h) ==
    /\ At(h, "read")
    /\ handlers' = [handlers EXCEPT ![h].pc = "commit", ![h].end = periodEnd]
    /\ contended' = (contended \/ \E g \in Handlers \ {h} : At(g, "commit"))
    /\ UNCHANGED <<outside, claims, money, lastSeq, payback>>

\* From the LATER of now and the end that was read.
computeRenewal(end) == Max({now, end}) + 1

Invoiced(h) ==
    invoices \cup {[number |-> handlers[h].number, of |-> handlers[h].payment, status |-> "PAID"]}

\* The renewal, the invoice and the payment row commit together.
settleInTx(h) ==
    /\ At(h, "commit")
    /\ periodEnd' = computeRenewal(handlers[h].end)
    /\ invoices' = Invoiced(h)
    /\ payments' = [payments EXCEPT ![handlers[h].payment] = "SUCCESS"]
    /\ IF handlers[h].event = Null THEN Finish(h) ELSE Goto(h, "mark")
    /\ UNCHANGED <<outside, claims, lastSeq, payback, contended>>

\* The process dies, or an exception ends the request: an event keeps its row,
\* a transaction that had not committed leaves nothing.
Crash(h) ==
    /\ MayCrash
    /\ ~At(h, "idle")
    /\ Finish(h)
    /\ UNCHANGED <<outside, claims, money, lastSeq, payback, contended>>

-----------------------------------------------------------------------------
(* Invoices by hand *)

createInvoice(h) ==
    /\ At(h, "idle")
    /\ Goto(h, "number")
    /\ UNCHANGED <<outside, claims, money, lastSeq, payback, contended>>

InsertInvoice(h) ==
    /\ At(h, "insert")
    /\ invoices' = invoices \cup {[number |-> handlers[h].number, of |-> Null, status |-> "DRAFT"]}
    /\ Finish(h)
    /\ UNCHANGED <<outside, claims, payments, periodEnd, lastSeq, payback, contended>>

\* Any status can follow any other, on an invoice of a payment too.
setInvoiceStatus(i, status) ==
    /\ i \in invoices
    /\ i.status # status
    /\ invoices' = (invoices \ {i}) \cup {[i EXCEPT !.status = status]}
    /\ UNCHANGED <<outside, claims, payments, periodEnd, lastSeq, payback, handlers, contended>>

-----------------------------------------------------------------------------
(* Refunds *)

RefundsOf(p) == {r \in Refunds : refunds[r] # Null /\ refunds[r].of = p}

\* attemptGatewayRefund: Razorpay is asked for the receipt first, Cashfree is
\* sent the row's own id, a payment no gateway took is marked MANUAL.
FirstLeg(p) ==
    IF p \in Cashes THEN "manual" ELSE IF ProviderOf[p] = "RAZORPAY" THEN "find" ELSE "create"

\* The sum of some rows, counted unit by unit.
Units(rows) == {u \in rows \X (1..Amount) : u[2] <= refunds[u[1]].amount}

\* Mutant: what is still on its way to the gateway does not count.
RefundedAlreadyProcessed(p) ==
    Cardinality(Units({r \in RefundsOf(p) : refunds[r].status # "PENDING"}))

RefundedAlready(p) == Cardinality(Units(RefundsOf(p)))

\* refundInTx: the payment row is locked from its first read to the commit, so
\* the transaction is one step.
refundPayment(h, r, p, amount) ==
    LET total == RefundedAlready(p) + amount
    IN  /\ At(h, "idle")
        /\ refunds[r] = Null /\ \A q \in Refunds : q < r => refunds[q] # Null
        /\ payments[p] \in {"SUCCESS", "PARTIALLY_REFUNDED"}
        /\ total <= Amount
        /\ payments' = [payments EXCEPT ![p] = IF total >= Amount THEN "REFUNDED"
                                                                  ELSE "PARTIALLY_REFUNDED"]
        /\ refunds' = [refunds EXCEPT ![r] = [of |-> p, amount |-> amount, status |-> "PENDING"]]
        /\ handlers' = [handlers EXCEPT ![h].row = r, ![h].pc = FirstLeg(p)]
        /\ UNCHANGED <<outside, claims, periodEnd, lastSeq, invoices, paidOut, overlapped, contended>>

\* An attempt starts; that another works on the row is remembered.
Attempt(h, r, rest) ==
    /\ handlers' = [handlers EXCEPT ![h].pc = FirstLeg(refunds[r].of), ![h].row = r, ![h].todo = rest]
    /\ overlapped' = IF \E g \in Handlers \ {h} : handlers[g].row = r
                     THEN overlapped \cup {r} ELSE overlapped

\* One row, by an admin.
retryRefund(h, r) ==
    /\ At(h, "idle")
    /\ refunds[r] # Null /\ refunds[r].status # "PROCESSED"
    /\ Attempt(h, r, {})
    /\ UNCHANGED <<outside, claims, money, lastSeq, refunds, paidOut, contended>>

PendingRefunds == {r \in Refunds : refunds[r] # Null /\ refunds[r].status = "PENDING"}

\* The worker reads the oldest PENDING rows and then works through its list,
\* whatever has become of a row since.
retryPendingRefunds ==
    /\ At(Worker, "idle")
    /\ PendingRefunds # {}
    /\ handlers' = [handlers EXCEPT ![Worker].pc = "list", ![Worker].todo =
           {r \in PendingRefunds : Cardinality({q \in PendingRefunds : q < r}) < Limit}]
    /\ UNCHANGED <<outside, claims, money, lastSeq, payback, contended>>

TakeNext ==
    /\ At(Worker, "list")
    /\ LET r == Min(handlers[Worker].todo)
       IN  Attempt(Worker, r, handlers[Worker].todo \ {r})
    /\ UNCHANGED <<outside, claims, money, lastSeq, refunds, paidOut, contended>>

\* The attempt of h is over: the worker goes on with its list.
Attempted(h) ==
    handlers' = [handlers EXCEPT ![h] =
        IF @.todo = {} THEN Idle ELSE [Idle EXCEPT !.pc = "list", !.todo = handlers[h].todo]]

Found(r) == paidOut[r] > 0

\* findRefundByReceipt
razorpayFind(h) ==
    /\ At(h, "find")
    /\ Goto(h, IF Found(handlers[h].row) THEN "record" ELSE "create")
    /\ UNCHANGED <<outside, claims, money, lastSeq, payback, contended>>

\* The gateway pays out; Cashfree knows the id of a refund it has made.  The
\* answer may be lost, which leaves the row PENDING.
createRefund(h) ==
    LET r == handlers[h].row
    IN  /\ At(h, "create")
        /\ paidOut' = [paidOut EXCEPT ![r] =
               IF ProviderOf[refunds[r].of] = "CASHFREE" THEN 1 ELSE @ + 1]
        /\ Goto(h, "record") \/ Attempted(h)
        /\ UNCHANGED <<outside, claims, money, lastSeq, refunds, overlapped, contended>>

\* The gateway cannot be reached, or refuses: the row is left as it is.
RefundFails(h) ==
    /\ handlers[h].pc \in {"find", "create"}
    /\ Attempted(h)
    /\ UNCHANGED <<outside, claims, money, lastSeq, payback, contended>>

Recorded(h) == IF At(h, "manual") THEN "MANUAL" ELSE "PROCESSED"

RecordRefund(h) ==
    /\ handlers[h].pc \in {"manual", "record"}
    /\ refunds' = [refunds EXCEPT ![handlers[h].row].status = Recorded(h)]
    /\ Attempted(h)
    /\ UNCHANGED <<outside, claims, money, lastSeq, paidOut, overlapped, contended>>

-----------------------------------------------------------------------------

RefundStep(h) ==
    \/ \E r \in Refunds, p \in Payments, amount \in 1..Amount : refundPayment(h, r, p, amount)
    \/ \E r \in Refunds : retryRefund(h, r)
    \/ razorpayFind(h) \/ createRefund(h) \/ RefundFails(h) \/ RecordRefund(h)

SettleStep(h) ==
    \/ \E o \in Orders : CreateOrder(h, o)
    \/ parkPendingOrder(h)
    \/ \E e \in events : handleWebhook(h, e)
    \/ dispatchWebhook(h) \/ MarkProcessed(h)
    \/ \E c \in Cashes : recordManualPayment(h, c)
    \/ InvoiceNumber(h) \/ ReadSubscription(h) \/ settleInTx(h)
    \/ createInvoice(h) \/ InsertInvoice(h)

Next ==
    \/ \E h \in Handlers \ {Worker} : SettleStep(h)
    \/ \E h \in Handlers : RefundStep(h) \/ Crash(h)
    \/ retryPendingRefunds \/ TakeNext
    \/ \E o \in Orders : GatewayFails(o) \/ GatewayAuthorizes(o) \/ GatewayCaptures(o)
    \/ \E i \in invoices, s \in {"ISSUED", "PAID", "CANCELLED"} : setInvoiceStatus(i, s)
    \/ MonthPasses

Spec == Init /\ [][Next]_vars

-----------------------------------------------------------------------------
(* Properties *)

TypeOK ==
    /\ now \in 0..MaxNow
    /\ claims \subseteq EventIds /\ events \subseteq Events
    /\ payments \in [Payments -> PaymentStatuses \cup {Null}]
    /\ invoices \subseteq InvoiceRows
    /\ refunds \in [Refunds -> RefundRows \cup {Null}]
    /\ handlers \in [Handlers -> Requests]

\* "A gateway retrying five times must renew once": however often the events
\* of an order are delivered, and wherever a handler stops, an order is
\* invoiced, and so renewed, at most once.
RenewedOncePerOrder ==
    \A o \in Orders : Cardinality({i \in invoices : i.of = o}) <= 1

\* A payment that succeeded has its invoice, and an invoice of a payment its
\* success: no crash separates the money from what it bought.
SettledIsWhole ==
    \A p \in Payments :
        (\E i \in invoices : i.of = p)
            <=> payments[p] \in {"SUCCESS", "REFUNDED", "PARTIALLY_REFUNDED"}

\* Numbers are drawn outside the transaction of their invoice, by requests that
\* overlap and stop: none is ever given out twice.
NumbersUnique ==
    LET held == {h \in Handlers : handlers[h].number # 0 /\ ~At(h, "mark")}
    IN  /\ \A i, j \in invoices : i.number = j.number => i = j
        /\ \A g, h \in held : handlers[g].number = handlers[h].number => g = h
        /\ \A h \in held, i \in invoices : i.number # handlers[h].number

\* "Paying early must not shorten what was already bought": without two
\* settlements at once, every payment bought its month, and never more.
RenewalsAddUp ==
    LET renewals == Cardinality({i \in invoices : i.of # Null})
    IN  /\ periodEnd <= now + renewals
        /\ ~contended => periodEnd >= renewals

\* Refunds that race on one payment never exceed it, and its status tells how
\* much of it they took.
RefundsWithinPayment ==
    \A p \in Payments :
        /\ RefundedAlready(p) <= Amount
        /\ payments[p] = "REFUNDED" <=> RefundedAlready(p) = Amount

\* settleInTx, handleWebhook: however often the events of an order come, and
\* wherever a request stops, an order is invoiced once, a payment that succeeded
\* has its invoice and the month it bought, and no invoice number comes twice.
SettlementsAreWhole ==
    RenewedOncePerOrder /\ SettledIsWhole /\ NumbersUnique /\ RenewalsAddUp

\* A row says PROCESSED only after money went back, and with a crash or a lost
\* answer at any point, attempts that do not overlap pay a row out once.
RefundOnceUnlessOverlapping ==
    \A r \in Refunds :
        /\ refunds[r] # Null /\ refunds[r].status = "PROCESSED" => paidOut[r] > 0
        /\ paidOut[r] > 1 => r \in overlapped

\* refundPayment, retryPendingRefunds: refunds stay within their payment, whose
\* status tells how much they took, and a row is paid out once unless two
\* attempts at it overlap.
RefundsAddUp == RefundsWithinPayment /\ RefundOnceUnlessOverlapping

\* razorpayRefundIdempotent, "Refund at Razorpay exactly once per refund row."
RefundedOnce == \A r \in Refunds : paidOut[r] <= 1

\* createGatewayOrder, "The webhook later finds that row by `gatewayRef` and
\* settles it": a delivery of the captured event of an order, for its amount,
\* is not turned away as a replay while no request is settling that order.
CapturedIsSettled ==
    \A e \in events :
        /\ e.type = "captured" /\ e.exact
        /\ payments[e.order] = "PENDING"
        /\ \A h \in Handlers : At(h, "idle")
        => Claimable(e)

=============================================================================
