---------------------------- MODULE BillingProofs ----------------------------
(***************************************************************************)
(* What money buys, for any number of orders, events and requests at once, *)
(* and wherever they stop: a payment that succeeded has its invoice, an    *)
(* order is invoiced once, and no invoice number is given out twice.       *)
(*                                                                         *)
(* The argument: a gateway captures an order once, the row of its event    *)
(* admits one request, and until that request commits nobody else moves    *)
(* the payment from PENDING.                                               *)
(***************************************************************************)
EXTENDS Billing, FiniteSetTheorems, WellFoundedInduction, TLAPS

Settled == {"SUCCESS", "REFUNDED", "PARTIALLY_REFUNDED"}

\* Things that are told apart, as the schema has them.
Distinct ==
    /\ Orders \cap Cashes = {} /\ Null \notin Payments
    /\ Null \notin PaymentStatuses /\ Worker \in Handlers

LEMMA Told == Distinct
  BY KindsAssumption DEF Distinct

ConstantFields == {"pc", "event", "payment", "number", "end", "row", "todo"}

\* A request that is to settle a payment, or to find out whether it is.
Settling(x) == x.pc \in {"number", "read", "commit"}
OnEvent(x) == x.pc = "dispatch" \/ (Settling(x) /\ x.payment \in Orders)
\* A request that holds a number it drew and has not used.
Holds(x) == x.number # 0 /\ x.pc # "mark"

\* What a request stands on is still so.
Stands(x) ==
    /\ DOMAIN x = ConstantFields
    /\ x.number \in Nat /\ x.number <= lastSeq
    /\ OnEvent(x) => x.event \in events /\ EventId(x.event) \in claims
    /\ Settling(x) =>
          /\ x.payment \in Payments \cup {Null}
          /\ x.payment \in Orders =>
                /\ x.event.type = "captured" /\ x.event.order = x.payment
                /\ payments[x.payment] = "PENDING"
          /\ x.payment \in Cashes => payments[x.payment] = Null
    /\ x.pc \in {"read", "commit"} => x.payment \in Payments
    /\ x.pc \in {"read", "commit", "insert"} => x.number # 0
    /\ x.pc = "idle" => x.payment = Null
    /\ x.pc = "park" => /\ x.payment \in Orders /\ payments[x.payment] = Null
                        /\ gateway[x.payment].state # "none"

\* Two requests are about different things.
Apart(x, y) ==
    /\ OnEvent(x) /\ OnEvent(y) => EventId(x.event) # EventId(y.event)
    /\ Settling(x) /\ Settling(y) /\ x.payment \in Cashes => x.payment # y.payment
    /\ x.pc = "park" /\ y.pc = "park" => x.payment # y.payment
    /\ Holds(x) /\ Holds(y) => x.number # y.number

\* An order is captured once.
GatewayInv ==
    /\ gateway \in [Orders -> [state : {"none", "open", "authorized", "captured"}, attempt : Nat]]
    /\ events \subseteq [order : Orders, attempt : Nat, exact : BOOLEAN,
                         type : {"authorized", "captured", "failed"}]
    /\ \A e \in events : /\ gateway[e.order].state # "none"
                         /\ e.type = "captured" => gateway[e.order].state = "captured"
    /\ \A e, f \in events :
          e.type = "captured" /\ f.type = "captured" /\ e.order = f.order => e = f

\* A number is one invoice's and a payment has one at most.
MoneyInv ==
    /\ lastSeq \in Nat
    /\ DOMAIN payments = Payments
    /\ invoices \subseteq [number : Nat, of : Payments \cup {Null},
                           status : {"DRAFT", "ISSUED", "PAID", "CANCELLED"}]
    /\ \A i \in invoices : i.number <= lastSeq
    /\ \A i, j \in invoices : /\ i.number = j.number => i = j
                              /\ i.of = j.of /\ i.of # Null => i = j
    /\ SettledIsWhole
    /\ \A o \in Orders : gateway[o].state = "none" => payments[o] = Null

HandlersInv ==
    /\ DOMAIN handlers = Handlers
    /\ \A h \in Handlers : Stands(handlers[h])
    /\ \A g, h \in Handlers : g # h => Apart(handlers[g], handlers[h])
    /\ \A h \in Handlers : Holds(handlers[h]) =>
          \A i \in invoices : i.number # handlers[h].number

BillInv == GatewayInv /\ MoneyInv /\ HandlersInv

-----------------------------------------------------------------------------
(* What a request stands on, when somebody else moves *)

LEMMA ApartSymmetric ==
    ASSUME NEW x, NEW y, Apart(x, y)
    PROVE  Apart(y, x)
  BY DEF Apart

\* Events, claims and numbers only grow, an order that was made stays made.
OnlyGrows ==
    /\ events \subseteq events' /\ claims \subseteq claims'
    /\ lastSeq \in Nat /\ lastSeq' \in Nat /\ lastSeq <= lastSeq'
    /\ \A o \in Orders : gateway[o].state # "none" => gateway'[o].state # "none"

LEMMA StandsKept ==
    ASSUME NEW g \in Handlers, Stands(handlers[g]), handlers'[g] = handlers[g], OnlyGrows,
           /\ Settling(handlers[g]) \/ handlers[g].pc = "park"
           /\ handlers[g].payment \in Payments
           => payments'[handlers[g].payment] = payments[handlers[g].payment]
    PROVE  Stands(handlers[g])'
  BY DEF Stands, OnlyGrows, OnEvent, Settling, Payments

\* One request goes on as x.
LEMMA OneMoves ==
    ASSUME HandlersInv, NEW h \in Handlers, NEW x, handlers' = [handlers EXCEPT ![h] = x],
           \A g \in Handlers : Stands(handlers[g])',
           \A g \in Handlers \ {h} : Apart(x, handlers[g]),
           \A g \in Handlers : Holds(handlers'[g]) =>
              \A i \in invoices' : i.number # handlers'[g].number
    PROVE  HandlersInv'
  <1>1. \A g \in Handlers : handlers'[g] = IF g = h THEN x ELSE handlers[g]
    BY DEF HandlersInv
  <1>2. \A g, f \in Handlers : g # f => Apart(handlers'[g], handlers'[f])
    BY <1>1, ApartSymmetric DEF HandlersInv
  <1>3. QED
    BY <1>1, <1>2 DEF HandlersInv

\* Steps that have nothing to do with settling: a request leaves it or works on a refund.
LEMMA QuietMove ==
    ASSUME Distinct, BillInv, NEW h \in Handlers, NEW x, handlers' = [handlers EXCEPT ![h] = x],
           DOMAIN x = ConstantFields,
           x.pc \in {"idle", "mark", "list", "manual", "find", "create", "record"},
           x.pc = "idle" => x.payment = Null,
           x.number = 0 \/ (x.number = handlers[h].number /\ ~At(h, "mark")),
           UNCHANGED <<gateway, events, claims, invoices, lastSeq>>,
           DOMAIN payments' = Payments,
           \A p \in Payments : \/ payments'[p] = payments[p]
                               \/ payments[p] \in Settled /\ payments'[p] \in Settled
    PROVE  BillInv'
  <1>1. GatewayInv'
    BY DEF BillInv, GatewayInv
  <1>2. MoneyInv'
    <2>1. \A p \in Payments : payments'[p] \in Settled <=> payments[p] \in Settled
      OBVIOUS
    <2>2. \A p \in Payments : payments[p] = Null => payments'[p] = Null
      BY DEF Distinct, Settled, PaymentStatuses
    <2>3. SettledIsWhole'
      BY <2>1 DEF BillInv, MoneyInv, SettledIsWhole, Settled
    <2>4. QED
      BY <2>2, <2>3 DEF BillInv, MoneyInv, Payments
  <1>3. \A g \in Handlers : handlers'[g] = IF g = h THEN x ELSE handlers[g]
    BY DEF BillInv, HandlersInv
  <1>4. OnlyGrows
    BY DEF BillInv, MoneyInv, OnlyGrows
  <1>5. \A g \in Handlers : Stands(handlers[g])'
    <2> SUFFICES ASSUME NEW g \in Handlers PROVE Stands(handlers[g])'
      OBVIOUS
    <2>1. CASE g = h
      <3>1. x.number \in Nat /\ x.number <= lastSeq'
        BY DEF BillInv, HandlersInv, MoneyInv, Stands
      <3>2. QED
        BY <1>3, <2>1, <3>1 DEF Stands, OnEvent, Settling
    <2>2. CASE g # h
      <3>1. Stands(handlers[g]) /\ handlers'[g] = handlers[g]
        BY <1>3, <2>2 DEF BillInv, HandlersInv
      <3>2. /\ Settling(handlers[g]) \/ handlers[g].pc = "park"
            /\ handlers[g].payment \in Payments
            => payments'[handlers[g].payment] = payments[handlers[g].payment]
        BY <3>1 DEF Stands, Settling, Payments, Distinct, Settled, PaymentStatuses
      <3>3. QED
        BY <1>4, <3>1, <3>2, StandsKept
    <2>3. QED
      BY <2>1, <2>2
  <1>6. Holds(x) => Holds(handlers[h]) /\ x.number = handlers[h].number
    BY DEF Holds, At
  <1>7. \A g \in Handlers \ {h} : Apart(x, handlers[g])
    BY <1>6 DEF BillInv, HandlersInv, Apart, OnEvent, Settling
  <1>8. \A g \in Handlers : Holds(handlers'[g]) =>
           \A i \in invoices' : i.number # handlers'[g].number
    BY <1>3, <1>6 DEF BillInv, HandlersInv
  <1>9. HandlersInv'
    BY <1>5, <1>7, <1>8, OneMoves DEF BillInv
  <1>10. QED
    BY <1>1, <1>2, <1>9 DEF BillInv

-----------------------------------------------------------------------------
(* Steps in which no request moves *)

LEMMA NobodyMoves ==
    ASSUME BillInv, GatewayInv', MoneyInv', OnlyGrows, UNCHANGED <<handlers, payments>>,
           {i.number : i \in invoices'} \subseteq {i.number : i \in invoices}
    PROVE  BillInv'
  <1>1. \A g \in Handlers : Stands(handlers[g])'
    BY StandsKept DEF BillInv, HandlersInv
  <1>2. \A i \in invoices' : \E j \in invoices : i.number = j.number
    OBVIOUS
  <1>3. HandlersInv'
    BY <1>1, <1>2 DEF BillInv, HandlersInv
  <1>4. QED
    BY <1>3 DEF BillInv

\* The gateways: an order is captured in one event.
LEMMA GatewayKeeps ==
    ASSUME BillInv, NEW o \in Orders,
           GatewayFails(o) \/ GatewayAuthorizes(o) \/ GatewayCaptures(o)
    PROVE  BillInv'
  <1>1. PICK type \in {"authorized", "captured", "failed"}, exact \in BOOLEAN :
           /\ Emit(o, type, exact)
           /\ type = "captured" => gateway'[o].state = "captured"
           /\ gateway[o].state \in {"open", "authorized"}
    BY DEF GatewayFails, GatewayAuthorizes, GatewayCaptures, BillInv, GatewayInv
  <1>2. /\ gateway' \in [Orders -> [state : {"none", "open", "authorized", "captured"},
                                    attempt : Nat]]
        /\ \A p \in Orders \ {o} : gateway'[p] = gateway[p]
        /\ gateway'[o].state # "none"
    <2> DEFINE Known == [state : {"none", "open", "authorized", "captured"}, attempt : Nat]
    <2>1. gateway \in [Orders -> Known] /\ gateway[o].attempt \in Nat
      BY DEF BillInv, GatewayInv
    <2>2. PICK state \in {"open", "authorized", "captured"}, n \in Nat :
             gateway' = [gateway EXCEPT ![o] = [state |-> state, attempt |-> n]]
      <3>1. CASE GatewayFails(o)
        <4>1. gateway' = [gateway EXCEPT ![o] = [state |-> "open",
                                                 attempt |-> gateway[o].attempt + 1]]
          BY <3>1 DEF GatewayFails
        <4>2. gateway[o].attempt + 1 \in Nat
          BY <2>1
        <4>3. QED
          BY <4>1, <4>2
      <3>2. CASE GatewayAuthorizes(o) \/ GatewayCaptures(o)
        <4>1. PICK state \in {"authorized", "captured"} :
                 gateway' = [gateway EXCEPT ![o].state = state]
          BY <3>2 DEF GatewayAuthorizes, GatewayCaptures
        <4>2. [gateway[o] EXCEPT !.state = state] = [state |-> state, attempt |-> gateway[o].attempt]
          BY <2>1
        <4>3. QED
          BY <2>1, <4>1, <4>2
      <3>3. QED
        BY <3>1, <3>2
    <2>3. [state |-> state, attempt |-> n] \in Known
      OBVIOUS
    <2>4. QED
      BY <2>1, <2>2, <2>3
  <1>3. UNCHANGED <<claims, payments, periodEnd, invoices, lastSeq, handlers>>
    BY DEF GatewayFails, GatewayAuthorizes, GatewayCaptures, money
  <1> DEFINE new == [order |-> o, attempt |-> gateway[o].attempt, exact |-> exact, type |-> type]
  <1>4. /\ new \in [order : Orders, attempt : Nat, exact : BOOLEAN,
                    type : {"authorized", "captured", "failed"}]
        /\ new.order = o /\ new.type = type
    BY DEF BillInv, GatewayInv
  <1>5. events' = events \cup {new}
    BY <1>1 DEF Emit
  <1> HIDE DEF new
  <1>6. GatewayInv'
    <2>1. \A e \in events : e.order = o => e.type # "captured"
      BY <1>1 DEF BillInv, GatewayInv
    <2>2. \A e \in events : e.order \in Orders
      BY DEF BillInv, GatewayInv
    <2>3. \A e \in events' : /\ gateway'[e.order].state # "none"
                             /\ e.type = "captured" => gateway'[e.order].state = "captured"
      BY <1>1, <1>2, <1>4, <1>5, <2>1, <2>2 DEF BillInv, GatewayInv
    <2>4. \A e, f \in events' :
             e.type = "captured" /\ f.type = "captured" /\ e.order = f.order => e = f
      BY <1>4, <1>5, <2>1 DEF BillInv, GatewayInv
    <2>5. QED
      BY <1>2, <1>4, <1>5, <2>3, <2>4 DEF BillInv, GatewayInv
  <1>7. MoneyInv'
    BY <1>2, <1>3 DEF BillInv, MoneyInv, SettledIsWhole
  <1>8. OnlyGrows
    BY <1>2, <1>3, <1>5 DEF BillInv, MoneyInv, OnlyGrows
  <1>9. QED
    BY <1>3, <1>6, <1>7, <1>8, NobodyMoves

\* An invoice that changes status keeps its number and its payment.
LEMMA InvoiceStatusKeeps ==
    ASSUME Distinct, BillInv, NEW i \in invoices, NEW status \in {"ISSUED", "PAID", "CANCELLED"},
           setInvoiceStatus(i, status)
    PROVE  BillInv'
  <1> DEFINE new == [i EXCEPT !.status = status]
  <1>1. /\ new \in [number : Nat, of : Payments \cup {Null},
                    status : {"DRAFT", "ISSUED", "PAID", "CANCELLED"}]
        /\ new.number = i.number /\ new.of = i.of
    BY DEF BillInv, MoneyInv
  <1>2. invoices' = (invoices \ {i}) \cup {new}
    BY DEF setInvoiceStatus
  <1>3. UNCHANGED <<gateway, events, claims, payments, lastSeq, handlers>>
    BY DEF setInvoiceStatus, outside
  <1> HIDE DEF new
  <1>4. GatewayInv' /\ OnlyGrows
    BY <1>3 DEF BillInv, GatewayInv, MoneyInv, OnlyGrows
  <1>5. SettledIsWhole'
    BY <1>1, <1>2, <1>3 DEF BillInv, MoneyInv, SettledIsWhole, Distinct
  <1>6. MoneyInv'
    BY <1>1, <1>2, <1>3, <1>5 DEF BillInv, MoneyInv
  <1>7. {j.number : j \in invoices'} \subseteq {j.number : j \in invoices}
    BY <1>1, <1>2
  <1>8. QED
    BY <1>3, <1>4, <1>6, <1>7, NobodyMoves

-----------------------------------------------------------------------------
(* Steps of a request towards a settlement *)

\* A request that goes on as x, with nothing of the money written.
LEMMA RequestMoves ==
    ASSUME Distinct, BillInv, GatewayInv', OnlyGrows, NEW h \in Handlers, NEW x,
           handlers' = [handlers EXCEPT ![h] = x], UNCHANGED <<payments, invoices>>,
           Stands(handlers[h])', \A g \in Handlers \ {h} : Apart(x, handlers[g]),
           Holds(x) => \A i \in invoices : i.number # x.number
    PROVE  BillInv'
  <1>1. \A g \in Handlers : handlers'[g] = IF g = h THEN x ELSE handlers[g]
    BY DEF BillInv, HandlersInv
  <1>2. MoneyInv'
    <2>1. \A o \in Orders : gateway'[o].state = "none" => payments'[o] = Null
      BY DEF BillInv, MoneyInv, OnlyGrows
    <2>2. SettledIsWhole'
      BY DEF BillInv, MoneyInv, SettledIsWhole
    <2>3. QED
      BY <2>1, <2>2 DEF BillInv, MoneyInv, OnlyGrows
  <1>3. \A g \in Handlers : Stands(handlers[g])'
    <2>1. \A g \in Handlers \ {h} : Stands(handlers[g])'
      BY <1>1, StandsKept DEF BillInv, HandlersInv
    <2>2. QED
      BY <2>1
  <1>4. \A g \in Handlers : Holds(handlers'[g]) =>
           \A i \in invoices' : i.number # handlers'[g].number
    BY <1>1 DEF BillInv, HandlersInv
  <1>5. HandlersInv'
    BY <1>3, <1>4, OneMoves DEF BillInv
  <1>6. QED
    BY <1>2, <1>5 DEF BillInv

LEMMA CreateOrderKeeps ==
    ASSUME Distinct, BillInv, NEW h \in Handlers, NEW o \in Orders, CreateOrder(h, o)
    PROVE  BillInv'
  <1> DEFINE x == [handlers[h] EXCEPT !.pc = "park", !.payment = o]
  <1>1. Stands(handlers[h]) /\ handlers[h].pc = "idle" /\ gateway[o].state = "none"
    BY DEF CreateOrder, At, BillInv, HandlersInv
  <1>2. /\ DOMAIN x = ConstantFields /\ x.pc = "park" /\ x.payment = o
        /\ x.number = handlers[h].number
    BY <1>1 DEF Stands, ConstantFields
  <1>3. /\ handlers' = [handlers EXCEPT ![h] = x]
        /\ gateway' = [gateway EXCEPT ![o].state = "open"]
        /\ UNCHANGED <<events, claims, payments, lastSeq, invoices>>
    BY DEF CreateOrder, money
  <1> HIDE DEF x
  <1>4. GatewayInv' /\ OnlyGrows /\ gateway'[o].state # "none"
    BY <1>1, <1>3 DEF BillInv, GatewayInv, MoneyInv, OnlyGrows
  <1>5. handlers'[h] = x
    BY <1>3 DEF BillInv, HandlersInv
  <1>6. Stands(handlers[h])'
    BY <1>1, <1>2, <1>3, <1>4, <1>5 DEF Stands, OnEvent, Settling, BillInv, MoneyInv
  <1>7. \A g \in Handlers \ {h} : Apart(x, handlers[g])
    <2>1. \A g \in Handlers : Stands(handlers[g])
      BY DEF BillInv, HandlersInv
    <2>2. \A g \in Handlers : handlers[g].pc = "park" => handlers[g].payment # o
      BY <1>1, <2>1 DEF Stands
    <2>3. QED
      BY <1>1, <1>2, <2>2 DEF BillInv, HandlersInv, Apart, OnEvent, Settling, Holds
  <1>8. Holds(x) => \A i \in invoices : i.number # x.number
    BY <1>1, <1>2 DEF BillInv, HandlersInv, Holds
  <1>9. QED
    BY <1>3, <1>4, <1>6, <1>7, <1>8, RequestMoves

\* The unique index admits one request for each event.
LEMMA WebhookKeeps ==
    ASSUME Distinct, BillInv, NEW h \in Handlers, NEW e \in events, handleWebhook(h, e)
    PROVE  BillInv'
  <1> DEFINE x == [handlers[h] EXCEPT !.pc = "dispatch", !.event = e]
  <1>1. Stands(handlers[h]) /\ handlers[h].pc = "idle" /\ EventId(e) \notin claims
    BY DEF handleWebhook, At, BillInv, HandlersInv, Claimable
  <1>2. /\ DOMAIN x = ConstantFields /\ x.pc = "dispatch" /\ x.event = e
        /\ x.number = handlers[h].number
    BY <1>1 DEF Stands, ConstantFields
  <1>3. /\ handlers' = [handlers EXCEPT ![h] = x]
        /\ claims' = claims \cup {EventId(e)}
        /\ UNCHANGED <<gateway, events, payments, lastSeq, invoices>>
    BY DEF handleWebhook, money, outside
  <1> HIDE DEF x
  <1>4. GatewayInv' /\ OnlyGrows
    BY <1>3 DEF BillInv, GatewayInv, MoneyInv, OnlyGrows
  <1>5. handlers'[h] = x
    BY <1>3 DEF BillInv, HandlersInv
  <1>6. Stands(handlers[h])'
    BY <1>1, <1>2, <1>3, <1>5 DEF Stands, OnEvent, Settling
  <1>7. \A g \in Handlers \ {h} : Apart(x, handlers[g])
    <2>1. \A g \in Handlers : OnEvent(handlers[g]) => EventId(handlers[g].event) # EventId(e)
      BY <1>1 DEF BillInv, HandlersInv, Stands
    <2>2. QED
      BY <1>1, <1>2, <2>1 DEF BillInv, HandlersInv, Apart, OnEvent, Settling, Holds
  <1>8. Holds(x) => \A i \in invoices : i.number # x.number
    BY <1>1, <1>2 DEF BillInv, HandlersInv, Holds
  <1>9. QED
    BY <1>3, <1>4, <1>6, <1>7, <1>8, RequestMoves

\* Only a captured event of a payment that is PENDING goes on to settle.
LEMMA DispatchKeeps ==
    ASSUME Distinct, BillInv, NEW h \in Handlers, dispatchWebhook(h)
    PROVE  BillInv'
  <1> DEFINE e == handlers[h].event
             settles == e.type = "captured" /\ payments[e.order] = "PENDING" /\ e.exact
             x == [handlers[h] EXCEPT !.pc = IF settles THEN "number" ELSE "mark",
                                      !.payment = IF settles THEN e.order ELSE Null]
  <1>1. Stands(handlers[h]) /\ handlers[h].pc = "dispatch"
    BY DEF dispatchWebhook, At, BillInv, HandlersInv
  <1>2. e \in events /\ EventId(e) \in claims /\ e.order \in Orders
    <2>1. OnEvent(handlers[h])
      BY <1>1 DEF OnEvent
    <2>2. e \in events /\ EventId(e) \in claims
      BY <1>1, <2>1 DEF Stands
    <2>3. \A f \in events : f.order \in Orders
      BY DEF BillInv, GatewayInv
    <2>4. QED
      BY <2>2, <2>3
  <1>3. /\ DOMAIN x = ConstantFields /\ x.event = e /\ x.number = handlers[h].number
        /\ settles => x.pc = "number" /\ x.payment = e.order
        /\ ~settles => x.pc = "mark"
    BY <1>1 DEF Stands, ConstantFields
  <1>4. /\ handlers' = [handlers EXCEPT ![h] = x]
        /\ UNCHANGED <<gateway, events, claims, payments, lastSeq, invoices>>
    BY DEF dispatchWebhook, money, outside
  <1>5. settles => e.type = "captured" /\ payments[e.order] = "PENDING"
    OBVIOUS
  <1> HIDE DEF x, settles
  <1>6. GatewayInv' /\ OnlyGrows
    BY <1>4 DEF BillInv, GatewayInv, MoneyInv, OnlyGrows
  <1>7. handlers'[h] = x
    BY <1>4 DEF BillInv, HandlersInv
  <1>8. e.order \in Payments /\ e.order \notin Cashes
    BY <1>2 DEF Payments, Distinct
  <1>9. Stands(handlers[h])'
    <2>1. CASE settles
      BY <1>1, <1>2, <1>3, <1>4, <1>5, <1>7, <1>8, <2>1 DEF Stands, OnEvent, Settling
    <2>2. CASE ~settles
      BY <1>1, <1>3, <1>4, <1>7, <2>2 DEF Stands, OnEvent, Settling
    <2>3. QED
      BY <2>1, <2>2
  <1>10. \A g \in Handlers \ {h} : Apart(x, handlers[g])
    <2>1. OnEvent(handlers[h])
      BY <1>1 DEF OnEvent
    <2>2. handlers[h].event = e /\ handlers[h].pc # "mark"
      BY <1>1
    <2> HIDE DEF e
    <2>3. QED
      BY <1>3, <1>8, <2>1, <2>2 DEF BillInv, HandlersInv, Apart, OnEvent, Settling, Holds
  <1>11. Holds(x) => \A i \in invoices : i.number # x.number
    BY <1>1, <1>3 DEF BillInv, HandlersInv, Holds
  <1>12. QED
    BY <1>4, <1>6, <1>9, <1>10, <1>11, RequestMoves

\* Nobody else has the payment that is recorded by hand.
LEMMA ManualKeeps ==
    ASSUME Distinct, BillInv, NEW h \in Handlers, NEW c \in Cashes, recordManualPayment(h, c)
    PROVE  BillInv'
  <1> DEFINE x == [handlers[h] EXCEPT !.pc = "number", !.payment = c]
  <1>1. /\ Stands(handlers[h]) /\ handlers[h].pc = "idle" /\ payments[c] = Null
        /\ \A g \in Handlers : handlers[g].payment # c
    BY DEF recordManualPayment, At, BillInv, HandlersInv
  <1>2. /\ DOMAIN x = ConstantFields /\ x.pc = "number" /\ x.payment = c
        /\ x.number = handlers[h].number
    BY <1>1 DEF Stands, ConstantFields
  <1>3. /\ handlers' = [handlers EXCEPT ![h] = x]
        /\ UNCHANGED <<gateway, events, claims, payments, lastSeq, invoices>>
    BY DEF recordManualPayment, money, outside
  <1> HIDE DEF x
  <1>4. GatewayInv' /\ OnlyGrows
    BY <1>3 DEF BillInv, GatewayInv, MoneyInv, OnlyGrows
  <1>5. handlers'[h] = x /\ c \notin Orders /\ c \in Payments
    BY <1>3 DEF BillInv, HandlersInv, Distinct, Payments
  <1>6. Stands(handlers[h])'
    BY <1>1, <1>2, <1>3, <1>5 DEF Stands, OnEvent, Settling
  <1>7. \A g \in Handlers \ {h} : Apart(x, handlers[g])
    BY <1>1, <1>2, <1>5 DEF BillInv, HandlersInv, Apart, OnEvent, Settling, Holds
  <1>8. Holds(x) => \A i \in invoices : i.number # x.number
    BY <1>1, <1>2 DEF BillInv, HandlersInv, Holds
  <1>9. QED
    BY <1>3, <1>4, <1>6, <1>7, <1>8, RequestMoves

\* An invoice by hand is about no payment.
LEMMA CreateInvoiceKeeps ==
    ASSUME Distinct, BillInv, NEW h \in Handlers, createInvoice(h)
    PROVE  BillInv'
  <1> DEFINE x == [handlers[h] EXCEPT !.pc = "number"]
  <1>1. Stands(handlers[h]) /\ handlers[h].pc = "idle"
    BY DEF createInvoice, At, BillInv, HandlersInv
  <1>2. /\ DOMAIN x = ConstantFields /\ x.pc = "number" /\ x.payment = Null
        /\ x.number = handlers[h].number
    BY <1>1 DEF Stands, ConstantFields
  <1>3. /\ handlers' = [handlers EXCEPT ![h] = x]
        /\ UNCHANGED <<gateway, events, claims, payments, lastSeq, invoices>>
    BY DEF createInvoice, Goto, money, outside
  <1> HIDE DEF x
  <1>4. GatewayInv' /\ OnlyGrows
    BY <1>3 DEF BillInv, GatewayInv, MoneyInv, OnlyGrows
  <1>5. handlers'[h] = x /\ Null \notin Orders /\ Null \notin Cashes
    BY <1>3 DEF BillInv, HandlersInv, Distinct, Payments
  <1>6. Stands(handlers[h])'
    BY <1>1, <1>2, <1>3, <1>5 DEF Stands, OnEvent, Settling
  <1>7. \A g \in Handlers \ {h} : Apart(x, handlers[g])
    BY <1>1, <1>2, <1>5 DEF BillInv, HandlersInv, Apart, OnEvent, Settling, Holds
  <1>8. Holds(x) => \A i \in invoices : i.number # x.number
    BY <1>1, <1>2 DEF BillInv, HandlersInv, Holds
  <1>9. QED
    BY <1>3, <1>4, <1>6, <1>7, <1>8, RequestMoves

\* The counter is incremented and read in one statement: nobody has that number.
LEMMA NumberKeeps ==
    ASSUME Distinct, BillInv, NEW h \in Handlers, InvoiceNumber(h)
    PROVE  BillInv'
  <1> DEFINE x == [handlers[h] EXCEPT !.number = lastSeq + 1,
                                      !.pc = IF handlers[h].payment = Null THEN "insert"
                                                                           ELSE "read"]
  <1>1. Stands(handlers[h]) /\ handlers[h].pc = "number"
    BY DEF InvoiceNumber, At, BillInv, HandlersInv
  <1>2. /\ DOMAIN x = ConstantFields /\ x.event = handlers[h].event
        /\ x.number = lastSeq + 1 /\ x.payment = handlers[h].payment
        /\ x.pc = IF handlers[h].payment = Null THEN "insert" ELSE "read"
    BY <1>1 DEF Stands, ConstantFields
  <1>3. /\ handlers' = [handlers EXCEPT ![h] = x] /\ lastSeq' = lastSeq + 1
        /\ UNCHANGED <<gateway, events, claims, payments, invoices>>
    BY DEF InvoiceNumber, Drawn, money, outside
  <1> HIDE DEF x
  <1>4. GatewayInv' /\ OnlyGrows /\ lastSeq \in Nat
    BY <1>3 DEF BillInv, GatewayInv, MoneyInv, OnlyGrows
  <1>5. handlers'[h] = x
    BY <1>3 DEF BillInv, HandlersInv
  <1>6. Stands(handlers[h])'
    BY <1>1, <1>2, <1>3, <1>4, <1>5 DEF Stands, OnEvent, Settling
  <1>7. \A g \in Handlers \ {h} : Apart(x, handlers[g])
    <2>1. \A g \in Handlers : handlers[g].number # lastSeq + 1
      BY <1>4 DEF BillInv, HandlersInv, Stands
    <2>2. QED
      BY <1>1, <1>2, <2>1 DEF BillInv, HandlersInv, Apart, OnEvent, Settling, Holds
  <1>8. \A i \in invoices : i.number # x.number
    BY <1>2, <1>4 DEF BillInv, MoneyInv
  <1>9. QED
    BY <1>3, <1>4, <1>6, <1>7, <1>8, RequestMoves

LEMMA ReadSubscriptionKeeps ==
    ASSUME Distinct, BillInv, NEW h \in Handlers, ReadSubscription(h)
    PROVE  BillInv'
  <1> DEFINE x == [handlers[h] EXCEPT !.pc = "commit", !.end = periodEnd]
  <1>1. Stands(handlers[h]) /\ handlers[h].pc = "read"
    BY DEF ReadSubscription, At, BillInv, HandlersInv
  <1>2. /\ DOMAIN x = ConstantFields /\ x.event = handlers[h].event
        /\ x.number = handlers[h].number /\ x.payment = handlers[h].payment /\ x.pc = "commit"
    BY <1>1 DEF Stands, ConstantFields
  <1>3. /\ handlers' = [handlers EXCEPT ![h] = x]
        /\ UNCHANGED <<gateway, events, claims, payments, lastSeq, invoices>>
    BY DEF ReadSubscription, money, outside
  <1> HIDE DEF x
  <1>4. GatewayInv' /\ OnlyGrows
    BY <1>3 DEF BillInv, GatewayInv, MoneyInv, OnlyGrows
  <1>5. handlers'[h] = x
    BY <1>3 DEF BillInv, HandlersInv
  <1>6. Stands(handlers[h])'
    BY <1>1, <1>2, <1>3, <1>5 DEF Stands, OnEvent, Settling
  <1>7. \A g \in Handlers \ {h} : Apart(x, handlers[g])
    BY <1>1, <1>2 DEF BillInv, HandlersInv, Apart, OnEvent, Settling, Holds
  <1>8. Holds(x) => \A i \in invoices : i.number # x.number
    BY <1>1, <1>2 DEF BillInv, HandlersInv, Holds
  <1>9. QED
    BY <1>3, <1>4, <1>6, <1>7, <1>8, RequestMoves

-----------------------------------------------------------------------------
(* Steps that write money *)

\* Nobody else stands on a payment that somebody is settling or has yet to park.
LEMMA NobodyElse ==
    ASSUME Distinct, BillInv, NEW h \in Handlers, NEW p \in Payments, handlers[h].payment = p,
           Settling(handlers[h]) \/ handlers[h].pc = "park"
    PROVE  \A g \in Handlers \ {h} :
              Settling(handlers[g]) \/ handlers[g].pc = "park" => handlers[g].payment # p
  <1> SUFFICES ASSUME NEW g \in Handlers, g # h, handlers[g].payment = p,
                      Settling(handlers[g]) \/ handlers[g].pc = "park"
               PROVE  FALSE
    OBVIOUS
  <1>1. Stands(handlers[h]) /\ Stands(handlers[g]) /\ Apart(handlers[h], handlers[g])
    BY DEF BillInv, HandlersInv
  <1>2. CASE Settling(handlers[h]) /\ Settling(handlers[g]) /\ p \in Orders
    <2>1. OnEvent(handlers[h]) /\ OnEvent(handlers[g])
      BY <1>2 DEF OnEvent
    <2>2. /\ handlers[h].event \in events /\ handlers[g].event \in events
          /\ handlers[h].event.type = "captured" /\ handlers[g].event.type = "captured"
          /\ handlers[h].event.order = p /\ handlers[g].event.order = p
      BY <1>1, <1>2, <2>1 DEF Stands
    <2>3. handlers[h].event = handlers[g].event
      BY <2>2 DEF BillInv, GatewayInv
    <2>4. QED
      BY <1>1, <2>1, <2>3 DEF Apart
  <1>3. CASE Settling(handlers[h]) /\ Settling(handlers[g]) /\ p \in Cashes
    BY <1>1, <1>3 DEF Apart
  <1>4. CASE handlers[h].pc = "park" /\ handlers[g].pc = "park"
    BY <1>1, <1>4 DEF Apart
  <1>5. Settling(handlers[h]) /\ p \in Orders => payments[p] = "PENDING"
    BY <1>1 DEF Stands
  <1>6. Settling(handlers[g]) /\ p \in Orders => payments[p] = "PENDING"
    BY <1>1 DEF Stands
  <1>7. /\ handlers[h].pc = "park" => p \in Orders /\ payments[p] = Null
        /\ handlers[g].pc = "park" => p \in Orders /\ payments[p] = Null
    BY <1>1 DEF Stands
  <1>8. Null # "PENDING" /\ p \in Orders \cup Cashes
    BY DEF Distinct, PaymentStatuses, Payments
  <1>9. QED
    BY <1>2, <1>3, <1>4, <1>5, <1>6, <1>7, <1>8

\* A request that wrote is over, or has only its event to mark.
LEMMA WriterIsDone ==
    ASSUME Distinct, BillInv, GatewayInv', MoneyInv', OnlyGrows, NEW h \in Handlers, NEW x,
           handlers' = [handlers EXCEPT ![h] = x], lastSeq' = lastSeq,
           x = Idle \/ x = [handlers[h] EXCEPT !.pc = "mark"],
           \A g \in Handlers \ {h} :
              /\ Settling(handlers[g]) \/ handlers[g].pc = "park"
              /\ handlers[g].payment \in Payments
              => payments'[handlers[g].payment] = payments[handlers[g].payment],
           \A i \in invoices' : \/ \E j \in invoices : i.number = j.number
                                \/ Holds(handlers[h]) /\ i.number = handlers[h].number
    PROVE  BillInv'
  <1>1. \A g \in Handlers : handlers'[g] = IF g = h THEN x ELSE handlers[g]
    BY DEF BillInv, HandlersInv
  <1>2. Stands(handlers[h])
    BY DEF BillInv, HandlersInv
  <1>3. /\ DOMAIN x = ConstantFields /\ x.pc \in {"idle", "mark"} /\ ~Holds(x)
        /\ x.pc = "idle" => x.payment = Null
        /\ x.number \in Nat /\ x.number <= lastSeq
    <2>1. CASE x = Idle
      <3>1. lastSeq \in Nat
        BY DEF BillInv, MoneyInv
      <3>2. QED
        BY <2>1, <3>1 DEF ConstantFields, Idle, Holds
    <2>2. CASE x = [handlers[h] EXCEPT !.pc = "mark"]
      <3>1. /\ DOMAIN x = ConstantFields /\ x.pc = "mark"
            /\ x.number = handlers[h].number
        BY <1>2, <2>2 DEF Stands, ConstantFields
      <3>2. QED
        BY <1>2, <3>1 DEF Stands, Holds
    <2>3. QED
      BY <2>1, <2>2
  <1>4. Stands(handlers[h])'
    BY <1>1, <1>3 DEF Stands, OnEvent, Settling
  <1>5. \A g \in Handlers : Stands(handlers[g])'
    <2>1. \A g \in Handlers \ {h} : Stands(handlers[g])'
      BY <1>1, StandsKept DEF BillInv, HandlersInv
    <2>2. QED
      BY <1>4, <2>1
  <1>6. \A g \in Handlers \ {h} : Apart(x, handlers[g])
    BY <1>3 DEF Apart, OnEvent, Settling
  <1>7. \A g \in Handlers : Holds(handlers'[g]) =>
           \A i \in invoices' : i.number # handlers'[g].number
    <2> SUFFICES ASSUME NEW g \in Handlers, g # h, Holds(handlers[g]), NEW i \in invoices'
                 PROVE  i.number # handlers[g].number
      BY <1>1, <1>3
    <2>1. \A j \in invoices : j.number # handlers[g].number
      BY DEF BillInv, HandlersInv
    <2>2. Holds(handlers[h]) => handlers[h].number # handlers[g].number
      BY DEF BillInv, HandlersInv, Apart
    <2>3. QED
      BY <2>1, <2>2
  <1>8. HandlersInv'
    BY <1>5, <1>6, <1>7, OneMoves DEF BillInv
  <1>9. QED
    BY <1>8 DEF BillInv

LEMMA ParkKeeps ==
    ASSUME Distinct, BillInv, NEW h \in Handlers, parkPendingOrder(h)
    PROVE  BillInv'
  <1> DEFINE p == handlers[h].payment
  <1>1. Stands(handlers[h]) /\ handlers[h].pc = "park"
    BY DEF parkPendingOrder, At, BillInv, HandlersInv
  <1>2. p \in Orders /\ payments[p] = Null /\ gateway[p].state # "none" /\ p \in Payments
    BY <1>1 DEF Stands, Payments
  <1>3. /\ payments' = [payments EXCEPT ![p] = "PENDING"]
        /\ handlers' = [handlers EXCEPT ![h] = Idle]
        /\ UNCHANGED <<gateway, events, claims, lastSeq, invoices>>
    BY DEF parkPendingOrder, Finish, outside
  <1>4. \A g \in Handlers \ {h} :
           Settling(handlers[g]) \/ handlers[g].pc = "park" => handlers[g].payment # p
    BY <1>1, <1>2, NobodyElse
  <1> HIDE DEF p
  <1>5. GatewayInv' /\ OnlyGrows
    BY <1>3 DEF BillInv, GatewayInv, MoneyInv, OnlyGrows
  <1>6. \A q \in Payments : payments'[q] = IF q = p THEN "PENDING" ELSE payments[q]
    BY <1>3 DEF BillInv, MoneyInv
  <1>7. MoneyInv'
    <2>1. Null \notin Settled
      BY DEF Distinct, PaymentStatuses, Settled
    <2>2. SettledIsWhole'
      BY <1>2, <1>3, <1>6, <2>1 DEF BillInv, MoneyInv, SettledIsWhole, Settled
    <2>3. \A o \in Orders : gateway'[o].state = "none" => payments'[o] = Null
      BY <1>2, <1>3, <1>6 DEF BillInv, MoneyInv, Payments
    <2>4. QED
      BY <1>3, <2>2, <2>3 DEF BillInv, MoneyInv
  <1>8. QED
    BY <1>3, <1>4, <1>5, <1>6, <1>7, WriterIsDone

\* The renewal, the invoice and the status of the payment are one step.
LEMMA SettleKeeps ==
    ASSUME Distinct, BillInv, NEW h \in Handlers, settleInTx(h)
    PROVE  BillInv'
  <1> DEFINE p == handlers[h].payment
             new == [number |-> handlers[h].number, of |-> handlers[h].payment, status |-> "PAID"]
             x == IF handlers[h].event = Null THEN Idle ELSE [handlers[h] EXCEPT !.pc = "mark"]
  <1>1. Stands(handlers[h]) /\ handlers[h].pc = "commit" /\ Settling(handlers[h])
    BY DEF settleInTx, At, BillInv, HandlersInv, Settling
  <1>2. /\ p \in Payments /\ handlers[h].number \in Nat /\ handlers[h].number <= lastSeq
        /\ Holds(handlers[h])
    BY <1>1 DEF Stands, Holds
  <1>3. payments[p] \in {"PENDING", Null} /\ (p \in Orders => payments[p] = "PENDING")
    BY <1>1, <1>2 DEF Stands, Payments
  <1>4. /\ payments' = [payments EXCEPT ![p] = "SUCCESS"] /\ invoices' = invoices \cup {new}
        /\ UNCHANGED <<gateway, events, claims, lastSeq>>
    BY DEF settleInTx, Invoiced, outside
  <1>5. handlers' = [handlers EXCEPT ![h] = x]
    BY DEF settleInTx, Finish, Goto
  <1>6. x = Idle \/ x = [handlers[h] EXCEPT !.pc = "mark"]
    OBVIOUS
  <1>7. /\ new.number = handlers[h].number /\ new.of = p
        /\ new \in [number : Nat, of : Payments \cup {Null},
                    status : {"DRAFT", "ISSUED", "PAID", "CANCELLED"}]
    BY <1>2
  <1>8. \A g \in Handlers \ {h} :
           Settling(handlers[g]) \/ handlers[g].pc = "park" => handlers[g].payment # p
    BY <1>1, <1>2, NobodyElse
  <1> HIDE DEF p, new, x
  <1>9. GatewayInv' /\ OnlyGrows
    BY <1>4 DEF BillInv, GatewayInv, MoneyInv, OnlyGrows
  <1>10. \A q \in Payments : payments'[q] = IF q = p THEN "SUCCESS" ELSE payments[q]
    BY <1>4 DEF BillInv, MoneyInv
  <1>11. payments[p] \notin Settled
    BY <1>3 DEF Distinct, PaymentStatuses, Settled
  <1>12. \A i \in invoices : i.of # p /\ i.number # new.number
    BY <1>2, <1>7, <1>11 DEF BillInv, MoneyInv, HandlersInv, SettledIsWhole, Settled
  <1>13. MoneyInv'
    <2>1. SettledIsWhole'
      BY <1>2, <1>4, <1>7, <1>10 DEF BillInv, MoneyInv, SettledIsWhole
    <2>2. \A o \in Orders : gateway'[o].state = "none" => payments'[o] = Null
      <3>1. "PENDING" # Null
        BY DEF Distinct, PaymentStatuses
      <3>2. QED
        BY <1>3, <1>4, <1>10, <3>1 DEF BillInv, MoneyInv, Payments
    <2>3. \A i, j \in invoices' : /\ i.number = j.number => i = j
                                  /\ i.of = j.of /\ i.of # Null => i = j
      BY <1>4, <1>7, <1>12 DEF BillInv, MoneyInv
    <2>4. QED
      BY <1>2, <1>4, <1>7, <2>1, <2>2, <2>3 DEF BillInv, MoneyInv
  <1>14. \A i \in invoices' : \/ \E j \in invoices : i.number = j.number
                              \/ Holds(handlers[h]) /\ i.number = handlers[h].number
    BY <1>2, <1>4, <1>7
  <1>15. \A g \in Handlers \ {h} :
            /\ Settling(handlers[g]) \/ handlers[g].pc = "park"
            /\ handlers[g].payment \in Payments
            => payments'[handlers[g].payment] = payments[handlers[g].payment]
    BY <1>8, <1>10
  <1>16. lastSeq' = lastSeq
    BY <1>4
  <1>17. QED
    BY <1>5, <1>6, <1>9, <1>13, <1>14, <1>15, <1>16, WriterIsDone

LEMMA InsertInvoiceKeeps ==
    ASSUME Distinct, BillInv, NEW h \in Handlers, InsertInvoice(h)
    PROVE  BillInv'
  <1> DEFINE new == [number |-> handlers[h].number, of |-> Null, status |-> "DRAFT"]
  <1>1. Stands(handlers[h]) /\ handlers[h].pc = "insert"
    BY DEF InsertInvoice, At, BillInv, HandlersInv
  <1>2. /\ handlers[h].number \in Nat /\ handlers[h].number <= lastSeq /\ Holds(handlers[h])
    BY <1>1 DEF Stands, Holds
  <1>3. /\ invoices' = invoices \cup {new} /\ handlers' = [handlers EXCEPT ![h] = Idle]
        /\ UNCHANGED <<gateway, events, claims, payments, lastSeq>>
    BY DEF InsertInvoice, Finish, outside
  <1>4. /\ new.number = handlers[h].number /\ new.of = Null
        /\ new \in [number : Nat, of : Payments \cup {Null},
                    status : {"DRAFT", "ISSUED", "PAID", "CANCELLED"}]
    BY <1>2
  <1> HIDE DEF new
  <1>5. GatewayInv' /\ OnlyGrows
    BY <1>3 DEF BillInv, GatewayInv, MoneyInv, OnlyGrows
  <1>6. \A i \in invoices : i.number # new.number
    BY <1>2, <1>4 DEF BillInv, HandlersInv
  <1>7. MoneyInv'
    <2>1. SettledIsWhole'
      BY <1>3, <1>4 DEF BillInv, MoneyInv, SettledIsWhole, Distinct
    <2>2. \A i, j \in invoices' : /\ i.number = j.number => i = j
                                  /\ i.of = j.of /\ i.of # Null => i = j
      BY <1>3, <1>4, <1>6 DEF BillInv, MoneyInv
    <2>3. QED
      BY <1>2, <1>3, <1>4, <2>1, <2>2 DEF BillInv, MoneyInv
  <1>8. \A i \in invoices' : \/ \E j \in invoices : i.number = j.number
                             \/ Holds(handlers[h]) /\ i.number = handlers[h].number
    BY <1>2, <1>3, <1>4
  <1>9. QED
    BY <1>3, <1>5, <1>7, <1>8, WriterIsDone

-----------------------------------------------------------------------------
(* Steps of refunds, and requests that end *)

Quiet == {"list", "manual", "find", "create", "record"}

\* A request ends, starts on a refund or goes on with one.
WorksOnRefund(h) ==
    \/ Finish(h)
    \/ Attempted(h)
    \/ /\ ~At(h, "mark")
       /\ \E q \in Quiet :
            \/ Goto(h, q)
            \/ \E r : handlers' = [handlers EXCEPT ![h].row = r, ![h].pc = q]
            \/ \E t : handlers' = [handlers EXCEPT ![h].pc = q, ![h].todo = t]
            \/ \E r, t : handlers' = [handlers EXCEPT ![h].pc = q, ![h].row = r, ![h].todo = t]

LEMMA RefundMove ==
    ASSUME Distinct, BillInv, NEW h \in Handlers, WorksOnRefund(h),
           UNCHANGED <<gateway, events, claims, invoices, lastSeq>>,
           DOMAIN payments' = Payments,
           \A p \in Payments : \/ payments'[p] = payments[p]
                               \/ payments[p] \in Settled /\ payments'[p] \in Settled
    PROVE  BillInv'
  <1>1. DOMAIN handlers[h] = ConstantFields
    BY DEF BillInv, HandlersInv, Stands
  <1>2. ASSUME NEW x, handlers' = [handlers EXCEPT ![h] = x], DOMAIN x = ConstantFields,
               x.number = 0, x.pc \in {"idle", "list"}, x.payment = Null
        PROVE  BillInv'
    BY <1>2, QuietMove
  <1>3. ASSUME NEW x, handlers' = [handlers EXCEPT ![h] = x], DOMAIN x = ConstantFields,
               x.number = handlers[h].number, x.pc \in Quiet, ~At(h, "mark")
        PROVE  BillInv'
    <2>1. x.pc \in {"idle", "mark", "list", "manual", "find", "create", "record"}
          /\ x.pc # "idle"
      BY <1>3 DEF Quiet
    <2>2. QED
      BY <1>3, <2>1, QuietMove
  <1>4. CASE Finish(h) \/ Attempted(h)
    <2>1. PICK x : /\ handlers' = [handlers EXCEPT ![h] = x]
                   /\ x = Idle \/ \E t : x = [Idle EXCEPT !.pc = "list", !.todo = t]
      BY <1>4 DEF Finish, Attempted
    <2>2. /\ DOMAIN x = ConstantFields /\ x.number = 0 /\ x.pc \in {"idle", "list"}
          /\ x.payment = Null
      <3>1. CASE x = Idle
        BY <3>1 DEF Idle, ConstantFields
      <3>2. ASSUME NEW t, x = [Idle EXCEPT !.pc = "list", !.todo = t]
            PROVE  /\ DOMAIN x = ConstantFields /\ x.number = 0 /\ x.pc \in {"idle", "list"}
                   /\ x.payment = Null
        BY <3>2 DEF Idle, ConstantFields
      <3>3. QED
        BY <2>1, <3>1, <3>2
    <2>3. QED
      BY <1>2, <2>1, <2>2
  <1>5. ASSUME ~At(h, "mark"), NEW q \in Quiet,
               \/ Goto(h, q)
               \/ \E r : handlers' = [handlers EXCEPT ![h].row = r, ![h].pc = q]
               \/ \E t : handlers' = [handlers EXCEPT ![h].pc = q, ![h].todo = t]
               \/ \E r, t : handlers' = [handlers EXCEPT ![h].pc = q, ![h].row = r, ![h].todo = t]
        PROVE  BillInv'
    <2>1. CASE Goto(h, q)
      <3> DEFINE x == [handlers[h] EXCEPT !.pc = q]
      <3>1. handlers' = [handlers EXCEPT ![h] = x]
        BY <2>1 DEF Goto
      <3>2. DOMAIN x = ConstantFields /\ x.number = handlers[h].number /\ x.pc = q
        BY <1>1 DEF ConstantFields
      <3> HIDE DEF x
      <3>3. QED
        BY <1>3, <1>5, <3>1, <3>2
    <2>2. ASSUME NEW r, handlers' = [handlers EXCEPT ![h].row = r, ![h].pc = q]
          PROVE  BillInv'
      <3> DEFINE x == [handlers[h] EXCEPT !.row = r, !.pc = q]
      <3>1. handlers' = [handlers EXCEPT ![h] = x]
        BY <2>2 DEF BillInv, HandlersInv
      <3>2. DOMAIN x = ConstantFields /\ x.number = handlers[h].number /\ x.pc = q
        BY <1>1 DEF ConstantFields
      <3> HIDE DEF x
      <3>3. QED
        BY <1>3, <1>5, <3>1, <3>2
    <2>3. ASSUME NEW t, handlers' = [handlers EXCEPT ![h].pc = q, ![h].todo = t]
          PROVE  BillInv'
      <3> DEFINE x == [handlers[h] EXCEPT !.pc = q, !.todo = t]
      <3>1. handlers' = [handlers EXCEPT ![h] = x]
        BY <2>3 DEF BillInv, HandlersInv
      <3>2. DOMAIN x = ConstantFields /\ x.number = handlers[h].number /\ x.pc = q
        BY <1>1 DEF ConstantFields
      <3> HIDE DEF x
      <3>3. QED
        BY <1>3, <1>5, <3>1, <3>2
    <2>4. ASSUME NEW r, NEW t,
                 handlers' = [handlers EXCEPT ![h].pc = q, ![h].row = r, ![h].todo = t]
          PROVE  BillInv'
      <3> DEFINE x == [handlers[h] EXCEPT !.pc = q, !.row = r, !.todo = t]
      <3>1. handlers' = [handlers EXCEPT ![h] = x]
        BY <2>4 DEF BillInv, HandlersInv
      <3>2. DOMAIN x = ConstantFields /\ x.number = handlers[h].number /\ x.pc = q
        BY <1>1 DEF ConstantFields
      <3> HIDE DEF x
      <3>3. QED
        BY <1>3, <1>5, <3>1, <3>2
    <2>5. QED
      BY <1>5, <2>1, <2>2, <2>3, <2>4
  <1>6. QED
    BY <1>4, <1>5 DEF WorksOnRefund

\* A refund leaves its payment among those that succeeded.
LEMMA RefundPaymentKeeps ==
    ASSUME Distinct, BillInv, NEW h \in Handlers, NEW r \in Refunds, NEW p \in Payments,
           NEW amount \in 1 .. Amount, refundPayment(h, r, p, amount)
    PROVE  BillInv'
  <1>1. /\ handlers' = [handlers EXCEPT ![h].row = r, ![h].pc = FirstLeg(p)]
        /\ At(h, "idle") /\ payments[p] \in Settled
        /\ UNCHANGED <<gateway, events, claims, invoices, lastSeq>>
    BY DEF refundPayment, outside, Settled
  <1>2. PICK status \in {"REFUNDED", "PARTIALLY_REFUNDED"} :
           payments' = [payments EXCEPT ![p] = status]
    BY DEF refundPayment
  <1>3. FirstLeg(p) \in Quiet
    BY DEF FirstLeg, Quiet
  <1>4. WorksOnRefund(h)
    BY <1>1, <1>3 DEF WorksOnRefund, At
  <1>5. /\ DOMAIN payments' = Payments
        /\ \A q \in Payments : \/ payments'[q] = payments[q]
                               \/ payments[q] \in Settled /\ payments'[q] \in Settled
    BY <1>1, <1>2 DEF BillInv, MoneyInv, Settled
  <1>6. QED
    BY <1>1, <1>4, <1>5, RefundMove

\* Every other step of a refund, and a request that is over.
WorkedOn(h) ==
    \/ MarkProcessed(h) \/ Crash(h)
    \/ \E r \in Refunds : retryRefund(h, r)
    \/ h = Worker /\ (retryPendingRefunds \/ TakeNext)
    \/ razorpayFind(h) \/ createRefund(h) \/ RefundFails(h) \/ RecordRefund(h)

LEMMA RefundStepWorks ==
    ASSUME NEW h \in Handlers, WorkedOn(h)
    PROVE  WorksOnRefund(h)
  <1>0. \A p : FirstLeg(p) \in Quiet
    BY DEF FirstLeg, Quiet
  <1>1. CASE MarkProcessed(h) \/ Crash(h)
    BY <1>1 DEF MarkProcessed, Crash, WorksOnRefund
  <1>2. ASSUME NEW r \in Refunds, retryRefund(h, r) PROVE WorksOnRefund(h)
    BY <1>0, <1>2 DEF retryRefund, Attempt, WorksOnRefund, At
  <1>3. CASE h = Worker /\ retryPendingRefunds
    BY <1>3 DEF retryPendingRefunds, WorksOnRefund, At, Quiet
  <1>4. CASE h = Worker /\ TakeNext
    <2>1. PICK r, t : /\ At(h, "list")
                      /\ handlers' = [handlers EXCEPT ![h].pc = FirstLeg(refunds[r].of),
                                                      ![h].row = r, ![h].todo = t]
      BY <1>4 DEF TakeNext, Attempt
    <2>2. QED
      BY <1>0, <2>1 DEF WorksOnRefund, At
  <1>5. CASE razorpayFind(h)
    <2>1. PICK q \in {"record", "create"} : Goto(h, q) /\ ~At(h, "mark")
      BY <1>5 DEF razorpayFind, At
    <2>2. q \in Quiet
      BY DEF Quiet
    <2>3. QED
      BY <2>1, <2>2 DEF WorksOnRefund
  <1>6. CASE createRefund(h)
    BY <1>6 DEF createRefund, WorksOnRefund, At, Quiet
  <1>7. CASE RefundFails(h) \/ RecordRefund(h)
    BY <1>7 DEF RefundFails, RecordRefund, WorksOnRefund
  <1>8. QED
    BY <1>1, <1>2, <1>3, <1>4, <1>5, <1>6, <1>7 DEF WorkedOn

\* Such a step leaves the payments alone.
LEMMA RefundStepKeeps ==
    ASSUME Distinct, BillInv, NEW h \in Handlers, WorkedOn(h)
    PROVE  BillInv'
  <1>1. WorksOnRefund(h)
    BY RefundStepWorks
  <1>2. UNCHANGED <<gateway, events, claims, payments, invoices, lastSeq>>
    BY DEF WorkedOn, MarkProcessed, Crash, retryRefund, retryPendingRefunds, TakeNext, razorpayFind,
           createRefund, RefundFails, RecordRefund, outside, money
  <1>3. QED
    BY <1>1, <1>2, RefundMove DEF BillInv, MoneyInv

-----------------------------------------------------------------------------
(* The specification *)

LEMMA BillInit ==
    ASSUME Distinct, Init
    PROVE  BillInv
  <1>1. GatewayInv
    BY DEF Init, GatewayInv
  <1>2. MoneyInv
    <2>1. Null \notin Settled
      BY DEF Distinct, PaymentStatuses, Settled
    <2>2. SettledIsWhole
      BY <2>1 DEF Init, SettledIsWhole, Settled
    <2>3. QED
      BY <2>2 DEF Init, MoneyInv, Payments
  <1>3. HandlersInv
    <2>1. Stands(Idle)
      BY DEF Init, Stands, Idle, ConstantFields, OnEvent, Settling
    <2>2. Apart(Idle, Idle) /\ ~Holds(Idle)
      BY DEF Apart, Idle, OnEvent, Settling, Holds
    <2>3. \A h \in Handlers : handlers[h] = Idle
      BY DEF Init
    <2>4. QED
      BY <2>1, <2>2, <2>3 DEF Init, HandlersInv
  <1>4. QED
    BY <1>1, <1>2, <1>3 DEF BillInv

LEMMA BillNext ==
    ASSUME Distinct, BillInv, [Next]_vars
    PROVE  BillInv'
  <1>1. ASSUME NEW h \in Handlers, SettleStep(h) PROVE BillInv'
    BY <1>1, CreateOrderKeeps, ParkKeeps, WebhookKeeps, DispatchKeeps, RefundStepKeeps,
       ManualKeeps, NumberKeeps, ReadSubscriptionKeeps, SettleKeeps, CreateInvoiceKeeps,
       InsertInvoiceKeeps DEF SettleStep, WorkedOn
  <1>2. ASSUME NEW h \in Handlers, RefundStep(h) \/ Crash(h) PROVE BillInv'
    BY <1>2, RefundPaymentKeeps, RefundStepKeeps DEF RefundStep, WorkedOn
  <1>3. CASE retryPendingRefunds \/ TakeNext
    BY <1>3, RefundStepKeeps DEF Distinct, WorkedOn
  <1>4. ASSUME NEW o \in Orders, GatewayFails(o) \/ GatewayAuthorizes(o) \/ GatewayCaptures(o)
        PROVE  BillInv'
    BY <1>4, GatewayKeeps
  <1>5. ASSUME NEW i \in invoices, NEW s \in {"ISSUED", "PAID", "CANCELLED"},
               setInvoiceStatus(i, s)
        PROVE  BillInv'
    BY <1>5, InvoiceStatusKeeps
  <1>6. CASE MonthPasses \/ UNCHANGED vars
    <2>1. UNCHANGED <<gateway, events, claims, payments, invoices, lastSeq, handlers>>
      BY <1>6 DEF MonthPasses, vars, money
    <2>2. GatewayInv' /\ MoneyInv' /\ OnlyGrows
      BY <2>1 DEF BillInv, GatewayInv, MoneyInv, SettledIsWhole, OnlyGrows
    <2>3. QED
      BY <2>1, <2>2, NobodyMoves
  <1>7. QED
    BY <1>1, <1>2, <1>3, <1>4, <1>5, <1>6 DEF Next

\* A payment that succeeded has its invoice and an invoice of a payment its success: no
\* crash, and no second delivery, comes between the money and what it bought.
THEOREM MoneyHasItsInvoice ==
    Spec => []SettledIsWhole
  <1>1. Init => BillInv
    BY Told, BillInit
  <1>2. BillInv /\ [Next]_vars => BillInv'
    BY Told, BillNext
  <1>3. BillInv => SettledIsWhole
    BY DEF BillInv, MoneyInv
  <1>4. QED
    BY <1>1, <1>2, <1>3, PTL DEF Spec

\* However often the events of an order are delivered, it is invoiced, and so renews the
\* subscription, once at most.
THEOREM OneRenewalForAnOrder ==
    Spec => []RenewedOncePerOrder
  <1>1. Init => BillInv
    BY Told, BillInit
  <1>2. BillInv /\ [Next]_vars => BillInv'
    BY Told, BillNext
  <1>3. BillInv => RenewedOncePerOrder
    <2> SUFFICES ASSUME BillInv, NEW o \in Orders
                 PROVE  Cardinality({i \in invoices : i.of = o}) <= 1
      BY DEF RenewedOncePerOrder
    <2>1. o # Null
      BY KindsAssumption DEF Payments
    <2>2. \A i, j \in {k \in invoices : k.of = o} : i = j
      BY <2>1 DEF BillInv, MoneyInv
    <2>3. CASE {i \in invoices : i.of = o} = {}
      BY <2>3, FS_EmptySet
    <2>4. CASE {i \in invoices : i.of = o} # {}
      <3>1. PICK i : {k \in invoices : k.of = o} = {i}
        BY <2>2, <2>4
      <3>2. Cardinality({i}) = 1
        BY FS_Singleton
      <3>3. QED
        BY <3>1, <3>2
    <2>5. QED
      BY <2>3, <2>4
  <1>4. QED
    BY <1>1, <1>2, <1>3, PTL DEF Spec

\* Requests that overlap and stop never give out a number twice.
THEOREM NumbersGivenOnce ==
    Spec => []NumbersUnique
  <1>1. Init => BillInv
    BY Told, BillInit
  <1>2. BillInv /\ [Next]_vars => BillInv'
    BY Told, BillNext
  <1>3. BillInv => NumbersUnique
    BY DEF BillInv, MoneyInv, HandlersInv, NumbersUnique, Apart, Holds, At
  <1>4. QED
    BY <1>1, <1>2, <1>3, PTL DEF Spec

-----------------------------------------------------------------------------
(* Months *)

\* The invoices of payments: each of them renewed the subscription.
Renewed == {i \in invoices : i.of # Null}

\* What is bought is bounded by what was paid, and without two settlements at
\* once the one under way goes on from the end that stands.
MonthsInv ==
    /\ now \in Nat /\ periodEnd \in Nat /\ IsFiniteSet(Renewed)
    /\ periodEnd <= now + Cardinality(Renewed)
    /\ \A h \in Handlers : At(h, "commit") =>
          handlers[h].end \in Nat /\ handlers[h].end <= now + Cardinality(Renewed)
    /\ ~contended =>
          /\ periodEnd >= Cardinality(Renewed)
          /\ \A h \in Handlers : At(h, "commit") => handlers[h].end = periodEnd
          /\ \A g, h \in Handlers : At(g, "commit") /\ At(h, "commit") => g = h

\* No request comes to the point where it commits.
NoneCommits ==
    \A h \in Handlers : At(h, "commit")' => At(h, "commit") /\ handlers'[h].end = handlers[h].end

\* What a step leaves alone stays, if it counts as many payments as before.
LEMMA MonthsCounted ==
    ASSUME MonthsInv, NoneCommits, IsFiniteSet(Renewed'),
           Cardinality(Renewed)' = Cardinality(Renewed), UNCHANGED <<periodEnd, contended>>,
           now' \in Nat, now' >= now
    PROVE  MonthsInv'
  <1>1. Cardinality(Renewed) \in Nat
    BY FS_CardinalityType DEF MonthsInv
  <1> DEFINE paid == Cardinality(Renewed)
  <1>2. Cardinality(Renewed)' = paid
    OBVIOUS
  <1> HIDE DEF paid
  <1>3. paid \in Nat
    BY <1>1 DEF paid
  <1>4. periodEnd <= now' + paid
    BY <1>3 DEF MonthsInv, paid
  <1>5. \A h \in Handlers : At(h, "commit")' =>
           handlers'[h].end \in Nat /\ handlers'[h].end <= now' + paid
    BY <1>3 DEF MonthsInv, NoneCommits, paid
  <1>6. QED
    BY <1>2, <1>4, <1>5 DEF MonthsInv, NoneCommits, paid

LEMMA MonthsKept ==
    ASSUME MonthsInv, NoneCommits, Renewed' = Renewed, UNCHANGED <<periodEnd, contended>>,
           now' \in Nat, now' >= now
    PROVE  MonthsInv'
  <1>1. IsFiniteSet(Renewed') /\ Cardinality(Renewed)' = Cardinality(Renewed)
    BY DEF MonthsInv
  <1>2. QED
    BY <1>1, MonthsCounted

\* A request that moves elsewhere than to the commit, or into it from nowhere.
LEMMA MovesElsewhere ==
    ASSUME NEW h \in Handlers, NEW x, handlers' = [handlers EXCEPT ![h] = x], x.pc # "commit",
           DOMAIN handlers = Handlers
    PROVE  NoneCommits
  BY DEF NoneCommits, At

LEMMA SettleStepMonths ==
    ASSUME BillInv, MonthsInv, NEW h \in Handlers,
           \/ \E o \in Orders : CreateOrder(h, o)
           \/ parkPendingOrder(h)
           \/ \E e \in events : handleWebhook(h, e)
           \/ dispatchWebhook(h) \/ MarkProcessed(h)
           \/ \E c \in Cashes : recordManualPayment(h, c)
           \/ InvoiceNumber(h) \/ createInvoice(h)
    PROVE  MonthsInv'
  <1>1. DOMAIN handlers = Handlers /\ DOMAIN handlers[h] = ConstantFields
    BY DEF BillInv, HandlersInv, Stands
  <1>2. UNCHANGED <<now, invoices, periodEnd, contended>>
    BY DEF CreateOrder, parkPendingOrder, handleWebhook, dispatchWebhook, MarkProcessed,
           recordManualPayment, InvoiceNumber, createInvoice, outside, money
  <1>3. Idle.pc # "commit"
    BY DEF Idle
  <1>4. NoneCommits
    <2>1. ASSUME NEW o \in Orders, CreateOrder(h, o) PROVE NoneCommits
      BY <1>1, <2>1 DEF CreateOrder, NoneCommits, At, ConstantFields
    <2>2. CASE parkPendingOrder(h) \/ MarkProcessed(h)
      BY <1>1, <1>3, <2>2, MovesElsewhere DEF parkPendingOrder, MarkProcessed, Finish
    <2>3. ASSUME NEW e \in events, handleWebhook(h, e) PROVE NoneCommits
      BY <1>1, <2>3 DEF handleWebhook, NoneCommits, At, ConstantFields
    <2>4. CASE dispatchWebhook(h)
      <3>1. PICK pc \in {"number", "mark"} :
               \E p : handlers' = [handlers EXCEPT ![h].pc = pc, ![h].payment = p]
        BY <2>4 DEF dispatchWebhook
      <3>2. PICK p : handlers' = [handlers EXCEPT ![h].pc = pc, ![h].payment = p]
        BY <3>1
      <3>3. QED
        BY <1>1, <3>2 DEF NoneCommits, At, ConstantFields
    <2>5. ASSUME NEW c \in Cashes, recordManualPayment(h, c) PROVE NoneCommits
      BY <1>1, <2>5 DEF recordManualPayment, NoneCommits, At, ConstantFields
    <2>6. CASE InvoiceNumber(h)
      <3>1. PICK pc \in {"insert", "read"} :
               \E n : handlers' = [handlers EXCEPT ![h].number = n, ![h].pc = pc]
        BY <2>6 DEF InvoiceNumber
      <3>2. PICK n : handlers' = [handlers EXCEPT ![h].number = n, ![h].pc = pc]
        BY <3>1
      <3>3. QED
        BY <1>1, <3>2 DEF NoneCommits, At, ConstantFields
    <2>7. CASE createInvoice(h)
      BY <1>1, <2>7 DEF createInvoice, Goto, NoneCommits, At, ConstantFields
    <2>8. QED
      BY <2>1, <2>2, <2>3, <2>4, <2>5, <2>6, <2>7
  <1>5. Renewed' = Renewed /\ now' \in Nat /\ now' >= now
    BY <1>2 DEF Renewed, MonthsInv
  <1>6. QED
    BY <1>2, <1>4, <1>5, MonthsKept

\* A refund moves a request nowhere near the commit.
LEMMA RefundLeavesMonths ==
    ASSUME BillInv, NEW h \in Handlers, WorksOnRefund(h)
    PROVE  NoneCommits
  <1>0. DOMAIN handlers = Handlers /\ DOMAIN handlers[h] = ConstantFields
    BY DEF BillInv, HandlersInv, Stands
  <1>1. CASE Finish(h)
    <2>1. Idle.pc # "commit"
      BY DEF Idle
    <2>2. QED
      BY <1>0, <1>1, <2>1, MovesElsewhere DEF Finish
  <1>2. CASE Attempted(h)
    <2>1. Idle.pc = "idle" /\ \A t : [Idle EXCEPT !.pc = "list", !.todo = t].pc = "list"
      BY DEF Idle
    <2>2. PICK x : handlers' = [handlers EXCEPT ![h] = x] /\ x.pc # "commit"
      BY <1>2, <2>1 DEF Attempted
    <2>3. QED
      BY <1>0, <2>2, MovesElsewhere
  <1>3. ASSUME ~At(h, "mark"), NEW q \in Quiet,
               \/ Goto(h, q)
               \/ \E r : handlers' = [handlers EXCEPT ![h].row = r, ![h].pc = q]
               \/ \E t : handlers' = [handlers EXCEPT ![h].pc = q, ![h].todo = t]
               \/ \E r, t : handlers' = [handlers EXCEPT ![h].pc = q, ![h].row = r, ![h].todo = t]
        PROVE  NoneCommits
    <2>1. q # "commit"
      BY DEF Quiet
    <2>2. CASE Goto(h, q)
      <3>1. handlers'[h].pc = q /\ \A g \in Handlers \ {h} : handlers'[g] = handlers[g]
        BY <1>0, <2>2 DEF Goto, ConstantFields
      <3>2. QED
        BY <2>1, <3>1 DEF NoneCommits, At
    <2>3. ASSUME NEW r, handlers' = [handlers EXCEPT ![h].row = r, ![h].pc = q]
          PROVE  NoneCommits
      <3>1. handlers'[h].pc = q /\ \A g \in Handlers \ {h} : handlers'[g] = handlers[g]
        BY <1>0, <2>3 DEF ConstantFields
      <3>2. QED
        BY <2>1, <3>1 DEF NoneCommits, At
    <2>4. ASSUME NEW t, handlers' = [handlers EXCEPT ![h].pc = q, ![h].todo = t]
          PROVE  NoneCommits
      <3>1. handlers'[h].pc = q /\ \A g \in Handlers \ {h} : handlers'[g] = handlers[g]
        BY <1>0, <2>4 DEF ConstantFields
      <3>2. QED
        BY <2>1, <3>1 DEF NoneCommits, At
    <2>5. ASSUME NEW r, NEW t,
                 handlers' = [handlers EXCEPT ![h].pc = q, ![h].row = r, ![h].todo = t]
          PROVE  NoneCommits
      <3>1. handlers'[h].pc = q /\ \A g \in Handlers \ {h} : handlers'[g] = handlers[g]
        BY <1>0, <2>5 DEF ConstantFields
      <3>2. QED
        BY <2>1, <3>1 DEF NoneCommits, At
    <2>6. QED
      BY <1>3, <2>2, <2>3, <2>4, <2>5
  <1>4. QED
    BY <1>1, <1>2, <1>3 DEF WorksOnRefund

\* The transaction reads the end of the period as it stands.
LEMMA ReadMonths ==
    ASSUME BillInv, MonthsInv, NEW h \in Handlers, ReadSubscription(h)
    PROVE  MonthsInv'
  <1>1. DOMAIN handlers = Handlers /\ DOMAIN handlers[h] = ConstantFields
    BY DEF BillInv, HandlersInv, Stands
  <1>2. /\ UNCHANGED <<now, invoices, periodEnd>>
        /\ contended' = (contended \/ \E g \in Handlers \ {h} : At(g, "commit"))
        /\ handlers' = [handlers EXCEPT ![h].pc = "commit", ![h].end = periodEnd]
    BY DEF ReadSubscription, outside, money
  <1>3. /\ handlers'[h].pc = "commit" /\ handlers'[h].end = periodEnd
        /\ \A g \in Handlers \ {h} : handlers'[g] = handlers[g]
    BY <1>1, <1>2 DEF ConstantFields
  <1>4. Renewed' = Renewed
    BY <1>2 DEF Renewed
  <1> DEFINE paid == Cardinality(Renewed)
  <1>5. Cardinality(Renewed)' = paid
    BY <1>4
  <1> HIDE DEF paid
  <1>6. \A g \in Handlers : At(g, "commit")' =>
           handlers'[g].end \in Nat /\ handlers'[g].end <= now' + paid
    BY <1>2, <1>3 DEF MonthsInv, At, paid
  <1>7. ~contended' => /\ \A g \in Handlers : At(g, "commit")' => g = h
                       /\ ~contended
    BY <1>2, <1>3 DEF At
  <1>8. QED
    BY <1>2, <1>3, <1>4, <1>5, <1>6, <1>7 DEF MonthsInv, paid

\* A renewal buys its month from the later of now and the end that was read.
LEMMA RenewalMonths ==
    ASSUME now \in Nat, NEW end \in Nat
    PROVE  /\ computeRenewal(end) \in Nat /\ computeRenewal(end) > end
           /\ computeRenewal(end) = now + 1 \/ computeRenewal(end) = end + 1
  <1>1. PICK m \in {now, end} : \A y \in {now, end} : m >= y
    OBVIOUS
  <1>2. Max({now, end}) \in {now, end} /\ \A y \in {now, end} : Max({now, end}) >= y
    BY <1>1 DEF Max
  <1>3. QED
    BY <1>2 DEF computeRenewal

\* An invoice more is a month more at most, and one at least if nobody else was
\* settling.
LEMMA SettleMonths ==
    ASSUME Distinct, BillInv, MonthsInv, NEW h \in Handlers, settleInTx(h)
    PROVE  MonthsInv'
  <1> DEFINE new == [number |-> handlers[h].number, of |-> handlers[h].payment, status |-> "PAID"]
             end == handlers[h].end
             paid == Cardinality(Renewed)
  <1>1. /\ DOMAIN handlers = Handlers /\ DOMAIN handlers[h] = ConstantFields
        /\ At(h, "commit") /\ handlers[h].payment \in Payments /\ handlers[h].number # 0
    BY DEF settleInTx, At, BillInv, HandlersInv, Stands
  <1>2. /\ UNCHANGED <<now, contended>> /\ invoices' = invoices \cup {new}
        /\ periodEnd' = computeRenewal(end)
    BY DEF settleInTx, Invoiced, outside
  <1>3. handlers'[h].pc # "commit" /\ \A g \in Handlers \ {h} : handlers'[g] = handlers[g]
    BY <1>1 DEF settleInTx, Finish, Goto, Idle, ConstantFields
  <1>4. new \notin Renewed /\ Renewed' = Renewed \cup {new}
    <2>1. Holds(handlers[h])
      BY <1>1 DEF Holds, At
    <2>2. new \notin invoices
      BY <2>1 DEF BillInv, HandlersInv
    <2>3. new.of # Null
      BY <1>1 DEF Distinct
    <2>4. QED
      BY <1>2, <2>2, <2>3 DEF Renewed
  <1>5. paid \in Nat /\ IsFiniteSet(Renewed') /\ Cardinality(Renewed') = paid + 1
    BY <1>4, FS_CardinalityType, FS_AddElement DEF MonthsInv
  <1>6. Cardinality(Renewed)' = paid + 1
    BY <1>5
  <1>7. end \in Nat /\ end <= now + paid
    BY <1>1 DEF MonthsInv
  <1> HIDE DEF new
  <1>8. /\ periodEnd' \in Nat /\ periodEnd' <= now + paid + 1 /\ periodEnd' >= end + 1
    BY <1>2, <1>5, <1>7, RenewalMonths DEF MonthsInv
  <1>9. ~contended => /\ periodEnd' >= paid + 1
                      /\ \A g \in Handlers : handlers'[g].pc # "commit"
    <2>1. ~contended => end = periodEnd /\ periodEnd >= paid
      BY <1>1 DEF MonthsInv
    <2>2. periodEnd \in Nat
      BY DEF MonthsInv
    <2>3. ~contended => \A g \in Handlers \ {h} : handlers[g].pc # "commit"
      BY <1>1 DEF MonthsInv, At
    <2>4. QED
      BY <1>3, <1>5, <1>7, <1>8, <2>1, <2>2, <2>3
  <1>10. \A g \in Handlers : At(g, "commit")' =>
            handlers'[g].end \in Nat /\ handlers'[g].end <= now + (paid + 1)
    BY <1>3, <1>5 DEF MonthsInv, At
  <1> HIDE DEF paid, end
  <1>11. now' = now /\ now \in Nat /\ contended' = contended
    BY <1>2 DEF MonthsInv
  <1>12. periodEnd' <= now' + (paid + 1)
    BY <1>5, <1>8, <1>11
  <1>13. QED
    BY <1>5, <1>6, <1>8, <1>9, <1>10, <1>11, <1>12 DEF MonthsInv, At

LEMMA MonthsInit ==
    ASSUME Init
    PROVE  MonthsInv
  <1>1. Renewed = {}
    BY DEF Init, Renewed
  <1>2. IsFiniteSet(Renewed) /\ Cardinality(Renewed) = 0
    BY <1>1, FS_EmptySet
  <1>3. \A h \in Handlers : handlers[h].pc = "idle"
    BY DEF Init, Idle
  <1>4. QED
    BY <1>2, <1>3 DEF Init, MonthsInv, At

LEMMA MonthsNext ==
    ASSUME Distinct, BillInv, MonthsInv, [Next]_vars
    PROVE  MonthsInv'
  <1>1. now \in Nat
    BY DEF MonthsInv
  <1>2. ASSUME NEW h \in Handlers, SettleStep(h) PROVE MonthsInv'
    <2>1. CASE InsertInvoice(h)
      <3>1. /\ UNCHANGED <<now, periodEnd, contended>>
            /\ handlers' = [handlers EXCEPT ![h] = Idle]
            /\ \E i : i.of = Null /\ invoices' = invoices \cup {i}
        BY <2>1 DEF InsertInvoice, Finish, outside
      <3>2. Renewed' = Renewed
        BY <3>1 DEF Renewed
      <3>3. Idle.pc # "commit"
        BY DEF Idle
      <3>4. NoneCommits
        BY <3>1, <3>3, MovesElsewhere DEF BillInv, HandlersInv
      <3>5. now' \in Nat /\ now' >= now
        BY <1>1, <3>1
      <3>6. QED
        BY <3>1, <3>2, <3>4, <3>5, MonthsKept
    <2>2. QED
      BY <1>2, <2>1, SettleStepMonths, ReadMonths, SettleMonths DEF SettleStep
  <1>3. ASSUME NEW h \in Handlers, WorksOnRefund(h),
               UNCHANGED <<now, invoices, periodEnd, contended>>
        PROVE  MonthsInv'
    <2>1. NoneCommits
      BY <1>3, RefundLeavesMonths
    <2>2. Renewed' = Renewed /\ now' \in Nat /\ now' >= now
      BY <1>1, <1>3 DEF Renewed
    <2>3. QED
      BY <1>3, <2>1, <2>2, MonthsKept
  <1>4. ASSUME NEW h \in Handlers, WorkedOn(h) PROVE MonthsInv'
    <2>1. WorksOnRefund(h)
      BY <1>4, RefundStepWorks
    <2>2. UNCHANGED <<now, invoices, periodEnd, contended>>
      BY <1>4 DEF WorkedOn, MarkProcessed, Crash, retryRefund, retryPendingRefunds, TakeNext,
         razorpayFind, createRefund, RefundFails, RecordRefund, outside, money
    <2>3. QED
      BY <1>3, <2>1, <2>2
  <1>5. ASSUME NEW h \in Handlers, NEW r \in Refunds, NEW p \in Payments,
               NEW amount \in 1 .. Amount, refundPayment(h, r, p, amount)
        PROVE  MonthsInv'
    <2>1. FirstLeg(p) \in Quiet
      BY DEF FirstLeg, Quiet
    <2>2. /\ handlers' = [handlers EXCEPT ![h].row = r, ![h].pc = FirstLeg(p)]
          /\ ~At(h, "mark") /\ UNCHANGED <<now, invoices, periodEnd, contended>>
      BY <1>5 DEF refundPayment, outside, At
    <2>3. WorksOnRefund(h)
      BY <2>1, <2>2 DEF WorksOnRefund
    <2>4. QED
      BY <1>3, <2>2, <2>3
  <1>6. ASSUME UNCHANGED <<periodEnd, contended, handlers>>, Renewed' = Renewed, now' \in Nat,
               now' >= now
        PROVE  MonthsInv'
    <2>1. NoneCommits
      BY <1>6 DEF NoneCommits, At
    <2>2. QED
      BY <1>6, <2>1, MonthsKept
  <1>7. ASSUME NEW o \in Orders, GatewayFails(o) \/ GatewayAuthorizes(o) \/ GatewayCaptures(o)
        PROVE  MonthsInv'
    <2>1. UNCHANGED <<now, periodEnd, contended, handlers, invoices>>
      BY <1>7 DEF GatewayFails, GatewayAuthorizes, GatewayCaptures, money
    <2>2. Renewed' = Renewed /\ now' \in Nat /\ now' >= now
      BY <1>1, <2>1 DEF Renewed
    <2>3. QED
      BY <1>6, <2>1, <2>2
  <1>8. ASSUME NEW i \in invoices, NEW s \in {"ISSUED", "PAID", "CANCELLED"},
               setInvoiceStatus(i, s)
        PROVE  MonthsInv'
    <2> DEFINE new == [i EXCEPT !.status = s]
    <2>1. new.of = i.of /\ new.number = i.number
      BY DEF BillInv, MoneyInv
    <2>2. /\ invoices' = (invoices \ {i}) \cup {new}
          /\ UNCHANGED <<now, periodEnd, contended, handlers>>
      BY <1>8 DEF setInvoiceStatus, outside
    <2>3. new \notin invoices \ {i}
      BY <2>1 DEF BillInv, MoneyInv
    <2> HIDE DEF new
    <2>4. Renewed' = IF i.of = Null THEN Renewed ELSE (Renewed \ {i}) \cup {new}
      BY <2>1, <2>2 DEF Renewed
    <2>5. IsFiniteSet(Renewed') /\ Cardinality(Renewed') = Cardinality(Renewed)
      <3>1. CASE i.of = Null
        BY <2>4, <3>1 DEF MonthsInv
      <3>2. CASE i.of # Null
        <4>1. i \in Renewed /\ new \notin Renewed \ {i}
          BY <2>3, <3>2 DEF Renewed
        <4>2. /\ IsFiniteSet(Renewed \ {i}) /\ Cardinality(Renewed \ {i}) = Cardinality(Renewed) - 1
              /\ Cardinality(Renewed) \in Nat
          BY <4>1, FS_RemoveElement, FS_CardinalityType DEF MonthsInv
        <4>3. /\ IsFiniteSet((Renewed \ {i}) \cup {new})
              /\ Cardinality((Renewed \ {i}) \cup {new}) = Cardinality(Renewed \ {i}) + 1
          BY <4>1, <4>2, FS_AddElement
        <4>4. QED
          BY <2>4, <3>2, <4>2, <4>3
      <3>3. QED
        BY <3>1, <3>2
    <2>6. Cardinality(Renewed)' = Cardinality(Renewed)
      BY <2>5
    <2>7. NoneCommits
      BY <2>2 DEF NoneCommits, At
    <2>8. QED
      BY <1>1, <2>2, <2>5, <2>6, <2>7, MonthsCounted
  <1>9. CASE MonthPasses
    BY <1>1, <1>6, <1>9 DEF MonthPasses, money, Renewed
  <1>10. CASE UNCHANGED vars
    BY <1>1, <1>6, <1>10 DEF vars, Renewed
  <1>11. ASSUME NEW h \in Handlers, RefundStep(h) \/ Crash(h) PROVE MonthsInv'
    <2>1. ASSUME NEW r \in Refunds, NEW p \in Payments, NEW amount \in 1 .. Amount,
                 refundPayment(h, r, p, amount)
          PROVE  MonthsInv'
      BY <1>5, <2>1
    <2>2. CASE WorkedOn(h)
      BY <1>4, <2>2
    <2>3. (\E r \in Refunds, p \in Payments, amount \in 1 .. Amount : refundPayment(h, r, p, amount))
          \/ WorkedOn(h)
      BY <1>11 DEF RefundStep, WorkedOn
    <2>4. QED
      BY <2>1, <2>2, <2>3
  <1>12. CASE retryPendingRefunds \/ TakeNext
    BY <1>4, <1>12 DEF Distinct, WorkedOn
  <1>13. QED
    BY <1>2, <1>7, <1>8, <1>9, <1>10, <1>11, <1>12 DEF Next

\* What a settlement leaves, however events are repeated, requests overlap and stop: an
\* order is invoiced once, a payment that succeeded has its invoice, no number comes
\* twice, and the months bought are those paid for.
THEOREM SettledWhole ==
    Spec => []SettlementsAreWhole
  <1>1. Init => BillInv /\ MonthsInv
    BY Told, BillInit, MonthsInit
  <1>2. BillInv /\ MonthsInv /\ [Next]_vars => (BillInv /\ MonthsInv)'
    BY Told, BillNext, MonthsNext
  <1>3. MonthsInv => RenewalsAddUp
    BY DEF MonthsInv, RenewalsAddUp, Renewed
  <1>4. Spec => []RenewalsAddUp
    BY <1>1, <1>2, <1>3, PTL DEF Spec
  <1>5. RenewedOncePerOrder /\ SettledIsWhole /\ NumbersUnique /\ RenewalsAddUp
        => SettlementsAreWhole
    BY DEF SettlementsAreWhole
  <1>6. QED
    BY <1>4, <1>5, MoneyHasItsInvoice, OneRenewalForAnOrder, NumbersGivenOnce, PTL

-----------------------------------------------------------------------------
(* Refunds *)

\* A finite set of numbers has a least one.
LEMMA Least ==
    ASSUME NEW S, IsFiniteSet(S), S # {}, S \subseteq Nat
    PROVE  \E x \in S : \A y \in S : x <= y
  <1> DEFINE Bad == {T \in SUBSET S : T # {} /\ ~\E x \in T : \A y \in T : x <= y}
  <1>1. SUFFICES ASSUME Bad # {} PROVE FALSE
    OBVIOUS
  <1>2. PICK T \in Bad : \A U \in Bad : ~(<<U, T>> \in StrictSubsetOrdering(S))
    <2>1. Bad \subseteq FiniteSubsetsOf(S)
      BY FS_FiniteSubsetsOfFinite
    <2>2. IsWellFoundedOn(StrictSubsetOrdering(S), FiniteSubsetsOf(S))
      BY FS_StrictSubsetOrderingWellFounded
    <2> HIDE DEF Bad
    <2>3. PICK t \in Bad : TRUE
      BY <1>1
    <2>4. QED
      BY <2>1, <2>2, <2>3, WFMin
  <1>3. PICK t \in T : TRUE
    OBVIOUS
  <1>4. T \ {t} \notin Bad
    BY <1>2, <1>3 DEF StrictSubsetOrdering
  <1>5. CASE T \ {t} = {}
    BY <1>3, <1>5
  <1>6. CASE T \ {t} # {}
    <2>1. PICK m \in T \ {t} : \A y \in T \ {t} : m <= y
      BY <1>4, <1>6
    <2>2. CASE m <= t
      BY <2>1, <2>2
    <2>3. CASE t < m
      BY <2>1, <2>3
    <2>4. QED
      BY <2>1, <2>2, <2>3
  <1>7. QED
    BY <1>5, <1>6

LEMMA LeastIsMin ==
    ASSUME NEW S, IsFiniteSet(S), S # {}, S \subseteq Nat
    PROVE  Min(S) \in S /\ \A y \in S : Min(S) <= y
  BY Least DEF Min

\* The rows there are, and a request that works on one of them.
Rows == {r \in Refunds : refunds[r] # Null}
Legs == {"find", "create", "record", "manual"}
NoLegs == {"idle", "dispatch", "number", "read", "commit", "mark", "insert", "park"}

\* A row is worked on from its first leg; the answer of a gateway is recorded after it
\* paid out.
OnRow(x) ==
    /\ x.pc \in Legs \cup NoLegs \cup {"list"}
    /\ IF x.pc \in Legs THEN x.row \in Rows ELSE x.row = Null
    /\ x.pc \in {"find", "create"} => refunds[x.row].of \in Orders
    /\ x.pc = "record" => paidOut[x.row] > 0
    /\ x.todo \subseteq Rows
    /\ x.pc = "list" => x.todo # {}

\* Unless two attempts at a row overlap, the one that asks a gateway that does not know
\* the row to pay comes from a look that found nothing.
OneAttempt(r) ==
    /\ \A g, h \in Handlers : handlers[g].row = r /\ handlers[h].row = r => g = h
    /\ \A h \in Handlers :
          At(h, "create") /\ handlers[h].row = r /\ ProviderOf[refunds[r].of] # "CASHFREE"
          => paidOut[r] = 0

PayInv ==
    /\ DOMAIN refunds = Refunds /\ paidOut \in [Refunds -> Nat]
    /\ \A r \in Rows : refunds[r] \in RefundRows
    /\ \A h \in Handlers : OnRow(handlers[h])
    /\ \A r \in Refunds \ overlapped : OneAttempt(r)
    /\ RefundOnceUnlessOverlapping

\* One request moves: off the rows, on with its row, or to a row nobody works on unless
\* that is remembered.
LEMMA OnePays ==
    ASSUME PayInv, NEW h \in Handlers,
           \A g \in Handlers \ {h} : handlers'[g] = handlers[g],
           OnRow(handlers[h])', RefundOnceUnlessOverlapping',
           DOMAIN refunds' = Refunds, paidOut' \in [Refunds -> Nat],
           Rows \subseteq Rows', \A r \in Rows' : refunds'[r] \in RefundRows,
           \A r \in Rows : refunds'[r].of = refunds[r].of,
           \A r \in Refunds : paidOut[r] > 0 => paidOut'[r] > 0,
           \A r \in Refunds : r # handlers[h].row => paidOut'[r] = paidOut[r],
           overlapped \subseteq overlapped',
           \/ handlers'[h].row \in {Null, handlers[h].row} \cup overlapped'
           \/ \A g \in Handlers \ {h} : handlers[g].row # handlers'[h].row,
           At(h, "create")' /\ handlers'[h].row \notin overlapped'
           /\ ProviderOf[refunds'[handlers'[h].row].of] # "CASHFREE"
           => paidOut'[handlers'[h].row] = 0
    PROVE  PayInv'
  <1>1. \A g \in Handlers \ {h} : OnRow(handlers[g])'
    <2> SUFFICES ASSUME NEW g \in Handlers \ {h} PROVE OnRow(handlers[g])'
      OBVIOUS
    <2>1. OnRow(handlers[g]) /\ handlers'[g] = handlers[g]
      BY DEF PayInv
    <2>2. handlers[g].pc \in Legs => handlers[g].row \in Rows /\ handlers[g].row \in Refunds
      BY <2>1 DEF OnRow, Rows
    <2>3. "find" \in Legs /\ "create" \in Legs /\ "record" \in Legs
      BY DEF Legs
    <2>4. QED
      BY <2>1, <2>2, <2>3 DEF OnRow
  <1>2. ASSUME NEW r \in Refunds \ overlapped' PROVE OneAttempt(r)'
    <2>1. OneAttempt(r) /\ r # Null
      BY RefundsAssumption DEF PayInv
    <2>2. ASSUME NEW g \in Handlers, NEW k \in Handlers, handlers'[g].row = r,
                 handlers'[k].row = r
          PROVE  g = k
      BY <2>1, <2>2 DEF OneAttempt
    <2>3. ASSUME NEW k \in Handlers, At(k, "create")', handlers'[k].row = r,
                 ProviderOf[refunds'[r].of] # "CASHFREE"
          PROVE  paidOut'[r] = 0
      <3>1. CASE k = h
        BY <2>3, <3>1
      <3>2. CASE k # h
        <4>1. handlers'[k] = handlers[k] /\ OnRow(handlers[k]) /\ At(k, "create")
          BY <2>3, <3>2 DEF PayInv, At
        <4>2. handlers[k].row = r /\ r \in Rows
          BY <2>3, <4>1 DEF OnRow, At, Legs
        <4>3. r # handlers[h].row
          BY <2>1, <3>2, <4>2 DEF OneAttempt
        <4>4. paidOut[r] = 0
          BY <2>1, <2>3, <4>1, <4>2 DEF OneAttempt
        <4>5. QED
          BY <4>3, <4>4
      <3>3. QED
        BY <3>1, <3>2
    <2>4. QED
      BY <2>2, <2>3 DEF OneAttempt
  <1>3. QED
    BY <1>1, <1>2 DEF PayInv

\* Nothing of the refunds is written, and the request that moves has no row or goes on
\* with its own.
LEMMA NothingPaid ==
    ASSUME PayInv, UNCHANGED payback, NEW h \in Handlers,
           \A g \in Handlers \ {h} : handlers'[g] = handlers[g],
           OnRow(handlers[h]), OnRow(handlers[h])', handlers'[h].pc # "create",
           handlers'[h].row \in {Null, handlers[h].row}
    PROVE  PayInv'
  <1>1. Rows' = Rows /\ RefundOnceUnlessOverlapping'
    BY DEF payback, Rows, PayInv, RefundOnceUnlessOverlapping
  <1>2. UNCHANGED <<refunds, paidOut, overlapped>> /\ ~At(h, "create")'
    BY DEF payback, At
  <1>3. QED
    BY <1>1, <1>2, OnePays DEF PayInv

\* A request that settles, or is over.
LEMMA OffTheRows ==
    ASSUME PayInv, UNCHANGED payback, NEW h \in Handlers,
           \A g \in Handlers \ {h} : handlers'[g] = handlers[g],
           handlers'[h].pc \in NoLegs, handlers'[h].row = Null, handlers'[h].todo \subseteq Rows
    PROVE  PayInv'
  <1>1. Rows' = Rows
    BY DEF payback, Rows
  <1>2. OnRow(handlers[h])' /\ handlers'[h].pc # "create"
    BY <1>1 DEF OnRow, Legs, NoLegs
  <1>3. OnRow(handlers[h])
    BY DEF PayInv
  <1>4. QED
    BY <1>2, <1>3, NothingPaid

LEMMA SettleStepPays ==
    ASSUME BillInv, PayInv, NEW h \in Handlers, SettleStep(h) \/ Crash(h)
    PROVE  PayInv'
  <1>1. /\ DOMAIN handlers = Handlers /\ DOMAIN handlers[h] = ConstantFields
        /\ OnRow(handlers[h])
    BY DEF BillInv, HandlersInv, Stands, PayInv
  <1> DEFINE Moves == /\ \A g \in Handlers \ {h} : handlers'[g] = handlers[g]
                      /\ handlers'[h].pc \in NoLegs /\ handlers'[h].row = Null
                      /\ handlers'[h].todo \subseteq Rows
  <1>2. handlers[h].todo \subseteq Rows
        /\ (handlers[h].pc \in NoLegs => handlers[h].row = Null)
    BY <1>1 DEF OnRow, Legs, NoLegs
  <1>3. Idle.pc = "idle" /\ Idle.row = Null /\ Idle.todo = {} /\ "idle" \in NoLegs
    BY DEF Idle, NoLegs
  <1>4. Finish(h) => Moves
    BY <1>1, <1>3 DEF Finish
  <1>5. ASSUME NEW pc \in NoLegs, handlers[h].pc \in NoLegs,
               \/ Goto(h, pc)
               \/ \E p : handlers' = [handlers EXCEPT ![h].pc = pc, ![h].payment = p]
               \/ \E e : handlers' = [handlers EXCEPT ![h].pc = pc, ![h].event = e]
               \/ \E n : handlers' = [handlers EXCEPT ![h].number = n, ![h].pc = pc]
               \/ \E n : handlers' = [handlers EXCEPT ![h].pc = pc, ![h].end = n]
        PROVE  Moves
    <2>1. CASE Goto(h, pc)
      BY <1>1, <1>2, <1>5, <2>1 DEF Goto, ConstantFields
    <2>2. ASSUME NEW p, handlers' = [handlers EXCEPT ![h].pc = pc, ![h].payment = p] PROVE Moves
      BY <1>1, <1>2, <1>5, <2>2 DEF ConstantFields
    <2>3. ASSUME NEW e, handlers' = [handlers EXCEPT ![h].pc = pc, ![h].event = e] PROVE Moves
      BY <1>1, <1>2, <1>5, <2>3 DEF ConstantFields
    <2>4. ASSUME NEW n, handlers' = [handlers EXCEPT ![h].number = n, ![h].pc = pc] PROVE Moves
      BY <1>1, <1>2, <1>5, <2>4 DEF ConstantFields
    <2>5. ASSUME NEW n, handlers' = [handlers EXCEPT ![h].pc = pc, ![h].end = n] PROVE Moves
      BY <1>1, <1>2, <1>5, <2>5 DEF ConstantFields
    <2> HIDE DEF Moves
    <2>6. QED
      BY <1>5, <2>1, <2>2, <2>3, <2>4, <2>5
  <1> HIDE DEF Moves
  <1>6. ASSUME NEW o \in Orders, CreateOrder(h, o) PROVE Moves
    BY <1>5, <1>6 DEF CreateOrder, At, NoLegs
  <1>7. ASSUME parkPendingOrder(h) \/ MarkProcessed(h) \/ InsertInvoice(h) \/ Crash(h) PROVE Moves
    BY <1>4, <1>7 DEF parkPendingOrder, MarkProcessed, InsertInvoice, Crash
  <1>8. ASSUME NEW e \in events, handleWebhook(h, e) PROVE Moves
    BY <1>5, <1>8 DEF handleWebhook, At, NoLegs
  <1>9. ASSUME dispatchWebhook(h) PROVE Moves
    <2>1. PICK pc \in {"number", "mark"} :
             \E p : handlers' = [handlers EXCEPT ![h].pc = pc, ![h].payment = p]
      BY <1>9 DEF dispatchWebhook
    <2>2. PICK p : handlers' = [handlers EXCEPT ![h].pc = pc, ![h].payment = p]
      BY <2>1
    <2>3. QED
      BY <1>5, <1>9, <2>2 DEF dispatchWebhook, At, NoLegs
  <1>10. ASSUME NEW c \in Cashes, recordManualPayment(h, c) PROVE Moves
    BY <1>5, <1>10 DEF recordManualPayment, At, NoLegs
  <1>11. ASSUME InvoiceNumber(h) PROVE Moves
    <2>1. PICK pc \in {"insert", "read"} :
             \E n : handlers' = [handlers EXCEPT ![h].number = n, ![h].pc = pc]
      BY <1>11 DEF InvoiceNumber
    <2>2. PICK n : handlers' = [handlers EXCEPT ![h].number = n, ![h].pc = pc]
      BY <2>1
    <2>3. QED
      BY <1>5, <1>11, <2>2 DEF InvoiceNumber, At, NoLegs
  <1>12. ASSUME ReadSubscription(h) PROVE Moves
    BY <1>5, <1>12 DEF ReadSubscription, At, NoLegs
  <1>13. ASSUME settleInTx(h) PROVE Moves
    BY <1>4, <1>5, <1>13 DEF settleInTx, At, NoLegs
  <1>14. ASSUME createInvoice(h) PROVE Moves
    BY <1>5, <1>14 DEF createInvoice, At, NoLegs
  <1>15. Moves
    BY <1>6, <1>7, <1>8, <1>9, <1>10, <1>11, <1>12, <1>13, <1>14 DEF SettleStep
  <1>16. UNCHANGED payback
    BY DEF SettleStep, CreateOrder, parkPendingOrder, handleWebhook, dispatchWebhook, MarkProcessed,
       recordManualPayment, InvoiceNumber, ReadSubscription, settleInTx, createInvoice,
       InsertInvoice, Crash
  <1>17. QED
    BY <1>15, <1>16, OffTheRows DEF Moves

\* The legs of an attempt: by hand, or at the gateway of the order.
LEMMA FirstLegs ==
    ASSUME NEW p \in Payments
    PROVE  /\ FirstLeg(p) \in {"manual", "find", "create"}
           /\ FirstLeg(p) \in {"find", "create"} => p \in Orders
           /\ FirstLeg(p) = "create" => ProviderOf[p] = "CASHFREE"
  BY KindsAssumption DEF FirstLeg, Payments

\* An attempt that is over leaves its row, and the worker goes on with its list.
LEMMA AttemptedLeaves ==
    ASSUME BillInv, PayInv, NEW h \in Handlers, Attempted(h), Rows' = Rows
    PROVE  /\ \A g \in Handlers \ {h} : handlers'[g] = handlers[g]
           /\ OnRow(handlers[h])' /\ handlers'[h].row = Null /\ handlers'[h].pc # "create"
  <1>1. DOMAIN handlers = Handlers /\ handlers[h].todo \subseteq Rows
    BY DEF BillInv, HandlersInv, PayInv, OnRow
  <1> DEFINE x == IF handlers[h].todo = {} THEN Idle
                  ELSE [Idle EXCEPT !.pc = "list", !.todo = handlers[h].todo]
  <1>2. handlers' = [handlers EXCEPT ![h] = x]
    BY DEF Attempted
  <1>3. /\ x.row = Null /\ x.todo = handlers[h].todo /\ x.pc \in {"idle", "list"}
        /\ x.pc = "list" => x.todo # {}
    BY DEF Idle
  <1> HIDE DEF x
  <1>4. handlers'[h] = x
    BY <1>1, <1>2
  <1>5. OnRow(handlers[h])'
    BY <1>1, <1>3, <1>4 DEF OnRow, Legs, NoLegs
  <1>6. QED
    BY <1>1, <1>2, <1>3, <1>4, <1>5

\* An attempt starts: that another works on the row is remembered.
LEMMA AttemptPays ==
    ASSUME BillInv, PayInv, NEW h \in Handlers, NEW r \in Rows, NEW rest \in SUBSET Rows,
           Attempt(h, r, rest), UNCHANGED <<refunds, paidOut>>
    PROVE  PayInv'
  <1>1. DOMAIN handlers = Handlers /\ DOMAIN handlers[h] = ConstantFields
    BY DEF BillInv, HandlersInv, Stands
  <1>2. r \in Refunds /\ refunds[r] \in RefundRows /\ refunds[r].of \in Payments
    BY DEF PayInv, Rows, RefundRows
  <1> DEFINE leg == FirstLeg(refunds[r].of)
  <1>3. /\ leg \in {"manual", "find", "create"}
        /\ leg \in {"find", "create"} => refunds[r].of \in Orders
        /\ leg = "create" => ProviderOf[refunds[r].of] = "CASHFREE"
    BY <1>2, FirstLegs
  <1>4. handlers' = [handlers EXCEPT ![h].pc = leg, ![h].row = r, ![h].todo = rest]
    BY DEF Attempt
  <1> HIDE DEF leg
  <1>5. /\ \A g \in Handlers \ {h} : handlers'[g] = handlers[g]
        /\ handlers'[h].pc = leg /\ handlers'[h].row = r /\ handlers'[h].todo = rest
    BY <1>1, <1>4 DEF ConstantFields
  <1>6. Rows' = Rows
    BY DEF Rows
  <1>7. OnRow(handlers[h])'
    BY <1>3, <1>5, <1>6 DEF OnRow, Legs, NoLegs
  <1>8. /\ overlapped \subseteq overlapped'
        /\ r \in overlapped' \/ \A g \in Handlers \ {h} : handlers[g].row # r
    BY DEF Attempt
  <1>9. RefundOnceUnlessOverlapping'
    BY <1>8 DEF PayInv, RefundOnceUnlessOverlapping
  <1>10. At(h, "create")' => ProviderOf[refunds'[handlers'[h].row].of] = "CASHFREE"
    BY <1>3, <1>5 DEF At
  <1>11. \/ handlers'[h].row \in {Null, handlers[h].row} \cup overlapped'
         \/ \A g \in Handlers \ {h} : handlers[g].row # handlers'[h].row
    BY <1>5, <1>8
  <1>12. QED
    BY <1>5, <1>6, <1>7, <1>8, <1>9, <1>10, <1>11, OnePays DEF PayInv

\* The worker reads a list, which is not empty, and takes the oldest row of it.
LEMMA WorkerPays ==
    ASSUME BillInv, PayInv, retryPendingRefunds \/ TakeNext
    PROVE  PayInv'
  <1>1. /\ Worker \in Handlers
        /\ DOMAIN handlers = Handlers /\ DOMAIN handlers[Worker] = ConstantFields
        /\ OnRow(handlers[Worker])
    BY KindsAssumption DEF BillInv, HandlersInv, Stands, PayInv
  <1>2. \A S \in SUBSET Rows : IsFiniteSet(S) /\ S \subseteq Nat
    BY RefundsAssumption, FS_Subset DEF Rows
  <1>3. CASE retryPendingRefunds
    <2> DEFINE list == {r \in PendingRefunds : Cardinality({q \in PendingRefunds : q < r}) < Limit}
    <2>1. /\ handlers' = [handlers EXCEPT ![Worker].pc = "list", ![Worker].todo = list]
          /\ PendingRefunds # {} /\ At(Worker, "idle") /\ UNCHANGED payback
      BY <1>3 DEF retryPendingRefunds
    <2>2. PendingRefunds \subseteq Rows
      BY DEF PendingRefunds, Rows
    <2>3. list # {}
      <3>1. PICK m \in PendingRefunds : \A y \in PendingRefunds : m <= y
        BY <1>2, <2>1, <2>2, Least
      <3>2. {q \in PendingRefunds : q < m} = {}
        BY <1>2, <2>2, <3>1
      <3>3. QED
        BY <3>1, <3>2, FS_EmptySet, RefundsAssumption
    <2>4. list \subseteq Rows
      BY <2>2
    <2> HIDE DEF list
    <2>5. /\ \A g \in Handlers \ {Worker} : handlers'[g] = handlers[g]
          /\ handlers'[Worker].pc = "list" /\ handlers'[Worker].todo = list
          /\ handlers'[Worker].row = handlers[Worker].row
      BY <1>1, <2>1 DEF ConstantFields
    <2>6. handlers[Worker].row = Null /\ Rows' = Rows
      BY <1>1, <2>1 DEF OnRow, At, Legs, NoLegs, payback, Rows
    <2>7. OnRow(handlers[Worker])'
      BY <2>3, <2>4, <2>5, <2>6 DEF OnRow, Legs, NoLegs
    <2>8. QED
      BY <1>1, <2>1, <2>5, <2>6, <2>7, NothingPaid
  <1>4. CASE TakeNext
    <2> DEFINE r == Min(handlers[Worker].todo)
    <2>1. /\ Attempt(Worker, r, handlers[Worker].todo \ {r}) /\ UNCHANGED <<refunds, paidOut>>
          /\ At(Worker, "list")
      BY <1>4 DEF TakeNext
    <2>2. handlers[Worker].todo # {} /\ handlers[Worker].todo \subseteq Rows
      BY <1>1, <2>1 DEF OnRow, At
    <2>3. r \in handlers[Worker].todo
      BY <1>2, <2>2, LeastIsMin
    <2> HIDE DEF r
    <2>4. r \in Rows /\ handlers[Worker].todo \ {r} \in SUBSET Rows
      BY <2>2, <2>3
    <2>5. QED
      BY <1>1, <2>1, <2>4, AttemptPays
  <1>5. QED
    BY <1>3, <1>4

\* A row that is new has nobody at work on it.
LEMMA RefundPaymentPays ==
    ASSUME BillInv, PayInv, NEW h \in Handlers, NEW r \in Refunds, NEW p \in Payments,
           NEW amount \in 1 .. Amount, refundPayment(h, r, p, amount)
    PROVE  PayInv'
  <1> DEFINE new == [of |-> p, amount |-> amount, status |-> "PENDING"]
             leg == FirstLeg(p)
  <1>1. DOMAIN handlers = Handlers /\ DOMAIN handlers[h] = ConstantFields /\ OnRow(handlers[h])
    BY DEF BillInv, HandlersInv, Stands, PayInv
  <1>2. /\ refunds[r] = Null /\ refunds' = [refunds EXCEPT ![r] = new]
        /\ handlers' = [handlers EXCEPT ![h].row = r, ![h].pc = leg]
        /\ UNCHANGED <<paidOut, overlapped>>
    BY DEF refundPayment
  <1>3. new \in RefundRows /\ new.of = p /\ new.status = "PENDING"
    BY DEF RefundRows
  <1>4. /\ leg \in {"manual", "find", "create"}
        /\ leg \in {"find", "create"} => p \in Orders
        /\ leg = "create" => ProviderOf[p] = "CASHFREE"
    BY FirstLegs
  <1> HIDE DEF new, leg
  <1>5. /\ DOMAIN refunds' = Refunds
        /\ \A q \in Refunds : refunds'[q] = IF q = r THEN new ELSE refunds[q]
    BY <1>2 DEF PayInv
  <1>6. new # Null
    BY <1>3, RefundsAssumption
  <1>7. Rows' = Rows \cup {r} /\ r \notin Rows
    BY <1>2, <1>5, <1>6 DEF Rows
  <1>8. /\ \A g \in Handlers \ {h} : handlers'[g] = handlers[g]
        /\ handlers'[h].pc = leg /\ handlers'[h].row = r /\ handlers'[h].todo = handlers[h].todo
    BY <1>1, <1>2 DEF ConstantFields
  <1>9. OnRow(handlers[h])'
    BY <1>1, <1>3, <1>4, <1>5, <1>7, <1>8 DEF OnRow, Legs, NoLegs
  <1>10. \A g \in Handlers \ {h} : handlers[g].row # r
    BY <1>7, RefundsAssumption DEF PayInv, OnRow
  <1>11. RefundOnceUnlessOverlapping'
    BY <1>2, <1>3, <1>5 DEF PayInv, RefundOnceUnlessOverlapping
  <1>12. \A q \in Rows' : refunds'[q] \in RefundRows
    BY <1>3, <1>5, <1>7 DEF PayInv, Rows
  <1>13. \A q \in Rows : refunds'[q].of = refunds[q].of
    BY <1>5, <1>7 DEF Rows
  <1>14. At(h, "create")' => ProviderOf[refunds'[handlers'[h].row].of] = "CASHFREE"
    BY <1>3, <1>4, <1>5, <1>8 DEF At
  <1>15. /\ paidOut' \in [Refunds -> Nat] /\ paidOut' = paidOut /\ overlapped' = overlapped
         /\ DOMAIN refunds' = Refunds /\ Rows \subseteq Rows'
         /\ \A g \in Handlers \ {h} : handlers'[g] = handlers[g]
         /\ \A g \in Handlers \ {h} : handlers[g].row # handlers'[h].row
    BY <1>2, <1>5, <1>7, <1>8, <1>10 DEF PayInv
  <1>16. QED
    BY <1>9, <1>11, <1>12, <1>13, <1>14, <1>15, OnePays

\* The gateway is asked first, and not to pay what it has paid.
LEMMA FindPays ==
    ASSUME BillInv, PayInv, NEW h \in Handlers, razorpayFind(h)
    PROVE  PayInv'
  <1> DEFINE r == handlers[h].row
             pc == IF Found(r) THEN "record" ELSE "create"
  <1>1. DOMAIN handlers = Handlers /\ DOMAIN handlers[h] = ConstantFields /\ OnRow(handlers[h])
    BY DEF BillInv, HandlersInv, Stands, PayInv
  <1>2. At(h, "find") /\ Goto(h, pc) /\ UNCHANGED payback
    BY DEF razorpayFind
  <1>3. r \in Rows /\ r \in Refunds /\ refunds[r].of \in Orders /\ paidOut[r] \in Nat
    BY <1>1, <1>2 DEF OnRow, At, Legs, Rows, PayInv
  <1>4. /\ pc \in {"record", "create"}
        /\ pc = "record" => paidOut[r] > 0
        /\ pc = "create" => paidOut[r] = 0
    BY <1>3 DEF Found
  <1> HIDE DEF pc
  <1>5. /\ \A g \in Handlers \ {h} : handlers'[g] = handlers[g]
        /\ handlers'[h].pc = pc /\ handlers'[h].row = r /\ handlers'[h].todo = handlers[h].todo
    BY <1>1, <1>2 DEF Goto, ConstantFields
  <1>6. Rows' = Rows /\ UNCHANGED <<refunds, paidOut, overlapped>>
    BY <1>2 DEF payback, Rows
  <1>7. OnRow(handlers[h])'
    BY <1>1, <1>3, <1>4, <1>5, <1>6 DEF OnRow, Legs, NoLegs
  <1>8. RefundOnceUnlessOverlapping'
    BY <1>6 DEF PayInv, RefundOnceUnlessOverlapping
  <1>9. At(h, "create")' => paidOut'[handlers'[h].row] = 0
    BY <1>4, <1>5, <1>6 DEF At
  <1>10. QED
    BY <1>5, <1>6, <1>7, <1>8, <1>9, OnePays DEF PayInv

\* A gateway that knows the row pays it out once; one that does not was asked before.
LEMMA CreateRefundPays ==
    ASSUME BillInv, PayInv, NEW h \in Handlers, createRefund(h)
    PROVE  PayInv'
  <1> DEFINE r == handlers[h].row
             paid == IF ProviderOf[refunds[r].of] = "CASHFREE" THEN 1 ELSE paidOut[r] + 1
  <1>1. DOMAIN handlers = Handlers /\ DOMAIN handlers[h] = ConstantFields /\ OnRow(handlers[h])
    BY DEF BillInv, HandlersInv, Stands, PayInv
  <1>2. /\ At(h, "create") /\ UNCHANGED <<refunds, overlapped>>
        /\ paidOut' = [paidOut EXCEPT ![r] = paid]
        /\ Goto(h, "record") \/ Attempted(h)
    BY DEF createRefund
  <1>3. r \in Rows /\ r \in Refunds /\ paidOut[r] \in Nat
    BY <1>1, <1>2 DEF OnRow, At, Legs, Rows, PayInv
  <1>4. r \notin overlapped /\ ProviderOf[refunds[r].of] # "CASHFREE" => paidOut[r] = 0
    BY <1>2, <1>3 DEF PayInv, OneAttempt
  <1>5. paid \in Nat /\ paid > 0 /\ (r \notin overlapped => paid = 1)
    BY <1>3, <1>4
  <1> HIDE DEF paid
  <1>6. /\ paidOut' \in [Refunds -> Nat]
        /\ \A q \in Refunds : paidOut'[q] = IF q = r THEN paid ELSE paidOut[q]
    BY <1>2, <1>5 DEF PayInv
  <1>7. Rows' = Rows
    BY <1>2 DEF Rows
  <1>8. RefundOnceUnlessOverlapping'
    BY <1>2, <1>5, <1>6 DEF PayInv, RefundOnceUnlessOverlapping
  <1>9. /\ \A g \in Handlers \ {h} : handlers'[g] = handlers[g]
        /\ OnRow(handlers[h])' /\ handlers'[h].row \in {Null, r} /\ handlers'[h].pc # "create"
    <2>1. CASE Goto(h, "record")
      <3>1. /\ \A g \in Handlers \ {h} : handlers'[g] = handlers[g]
            /\ handlers'[h].pc = "record" /\ handlers'[h].row = r
            /\ handlers'[h].todo = handlers[h].todo
        BY <1>1, <2>1 DEF Goto, ConstantFields
      <3>2. OnRow(handlers[h])'
        BY <1>1, <1>3, <1>5, <1>6, <1>7, <3>1 DEF OnRow, Legs, NoLegs
      <3>3. QED
        BY <3>1, <3>2
    <2>2. CASE Attempted(h)
      BY <1>7, <2>2, AttemptedLeaves
    <2>3. QED
      BY <1>2, <2>1, <2>2
  <1>10. ~At(h, "create")' /\ \A q \in Refunds : paidOut[q] > 0 => paidOut'[q] > 0
    BY <1>5, <1>6, <1>9 DEF At
  <1>11. QED
    BY <1>2, <1>6, <1>7, <1>8, <1>9, <1>10, OnePays DEF PayInv

LEMMA RefundFailsPays ==
    ASSUME BillInv, PayInv, NEW h \in Handlers, RefundFails(h)
    PROVE  PayInv'
  <1>1. Attempted(h) /\ UNCHANGED payback /\ OnRow(handlers[h])
    BY DEF RefundFails, PayInv
  <1>2. Rows' = Rows
    BY <1>1 DEF payback, Rows
  <1>3. QED
    BY <1>1, <1>2, AttemptedLeaves, NothingPaid

\* A row is marked as paid by a gateway after that gateway answered.
LEMMA RecordRefundPays ==
    ASSUME BillInv, PayInv, NEW h \in Handlers, RecordRefund(h)
    PROVE  PayInv'
  <1> DEFINE r == handlers[h].row
             new == [refunds[r] EXCEPT !.status = Recorded(h)]
  <1>1. OnRow(handlers[h]) /\ handlers[h].pc \in {"manual", "record"}
    BY DEF PayInv, RecordRefund
  <1>2. /\ refunds' = [refunds EXCEPT ![r] = new] /\ Attempted(h)
        /\ UNCHANGED <<paidOut, overlapped>>
    BY DEF RecordRefund
  <1>3. r \in Rows /\ r \in Refunds /\ refunds[r] \in RefundRows
    BY <1>1 DEF OnRow, Legs, Rows, PayInv
  <1>4. Recorded(h) \in {"MANUAL", "PROCESSED"} /\ (Recorded(h) = "PROCESSED" => paidOut[r] > 0)
    BY <1>1 DEF Recorded, At, OnRow
  <1>5. new \in RefundRows /\ new.of = refunds[r].of /\ new.status = Recorded(h)
    BY <1>3, <1>4 DEF RefundRows
  <1> HIDE DEF new
  <1>6. /\ DOMAIN refunds' = Refunds
        /\ \A q \in Refunds : refunds'[q] = IF q = r THEN new ELSE refunds[q]
    BY <1>2 DEF PayInv
  <1>7. new # Null
    BY <1>5, RefundsAssumption
  <1>8. Rows' = Rows
    BY <1>3, <1>6, <1>7 DEF Rows
  <1>9. RefundOnceUnlessOverlapping'
    BY <1>2, <1>4, <1>5, <1>6 DEF PayInv, RefundOnceUnlessOverlapping
  <1>10. /\ \A g \in Handlers \ {h} : handlers'[g] = handlers[g]
         /\ OnRow(handlers[h])' /\ handlers'[h].row = Null /\ handlers'[h].pc # "create"
    BY <1>2, <1>8, AttemptedLeaves
  <1>11. /\ ~At(h, "create")' /\ \A q \in Rows' : refunds'[q] \in RefundRows
         /\ \A q \in Rows : refunds'[q].of = refunds[q].of
    BY <1>5, <1>6, <1>8, <1>10 DEF At, PayInv, Rows
  <1>12. QED
    BY <1>2, <1>6, <1>8, <1>9, <1>10, <1>11, OnePays DEF PayInv

LEMMA PayInit ==
    ASSUME Init
    PROVE  PayInv
  <1>1. Rows = {}
    BY DEF Init, Rows
  <1>2. \A h \in Handlers : handlers[h] = Idle
    BY DEF Init
  <1>3. Idle.pc = "idle" /\ Idle.row = Null /\ Idle.todo = {}
    BY DEF Idle
  <1>4. \A h \in Handlers : OnRow(handlers[h])
    BY <1>2, <1>3 DEF OnRow, Legs, NoLegs
  <1>5. \A r \in Refunds : OneAttempt(r)
    BY <1>2, <1>3, RefundsAssumption DEF OneAttempt, At
  <1>6. RefundOnceUnlessOverlapping
    BY DEF Init, RefundOnceUnlessOverlapping
  <1>7. QED
    BY <1>1, <1>4, <1>5, <1>6 DEF Init, PayInv

LEMMA PayNext ==
    ASSUME BillInv, PayInv, [Next]_vars
    PROVE  PayInv'
  <1>1. ASSUME NEW h \in Handlers, RefundStep(h) PROVE PayInv'
    <2>1. ASSUME NEW r \in Refunds, retryRefund(h, r) PROVE PayInv'
      BY <2>1, AttemptPays DEF retryRefund, Rows
    <2>2. QED
      BY <1>1, <2>1, RefundPaymentPays, FindPays, CreateRefundPays, RefundFailsPays,
         RecordRefundPays DEF RefundStep
  <1>2. ASSUME UNCHANGED <<handlers, payback>> PROVE PayInv'
    <2>1. PICK h \in Handlers : TRUE
      BY KindsAssumption
    <2>2. OnRow(handlers[h])
      BY DEF PayInv
    <2>3. Rows' = Rows
      BY <1>2 DEF payback, Rows
    <2>4. \A g \in Handlers : OnRow(handlers[g])'
      BY <1>2, <2>3 DEF PayInv, OnRow, payback
    <2>5. \A r \in Refunds \ overlapped' : OneAttempt(r)'
      BY <1>2 DEF PayInv, OneAttempt, payback, At
    <2>6. RefundOnceUnlessOverlapping'
      BY <1>2 DEF PayInv, RefundOnceUnlessOverlapping, payback
    <2>7. QED
      BY <1>2, <2>3, <2>4, <2>5, <2>6 DEF PayInv, payback
  <1>3. ASSUME NEW o \in Orders, GatewayFails(o) \/ GatewayAuthorizes(o) \/ GatewayCaptures(o)
        PROVE  PayInv'
    BY <1>2, <1>3 DEF GatewayFails, GatewayAuthorizes, GatewayCaptures
  <1>4. ASSUME NEW i \in invoices, NEW s \in {"ISSUED", "PAID", "CANCELLED"},
               setInvoiceStatus(i, s)
        PROVE  PayInv'
    BY <1>2, <1>4 DEF setInvoiceStatus
  <1>5. CASE MonthPasses \/ UNCHANGED vars
    BY <1>2, <1>5 DEF MonthPasses, vars, payback
  <1>6. QED
    BY <1>1, <1>3, <1>4, <1>5, SettleStepPays, WorkerPays DEF Next

-----------------------------------------------------------------------------
(* Money given back *)

SumInv ==
    /\ RefundsWithinPayment
    /\ \A p \in Payments :
          RefundsOf(p) # {} => payments[p] \in {"REFUNDED", "PARTIALLY_REFUNDED"}

\* The units of some rows are finitely many, and none if there is no row.
LEMMA UnitsFinite ==
    ASSUME NEW S \in SUBSET Refunds
    PROVE  IsFiniteSet(Units(S)) /\ Cardinality(Units(S)) \in Nat
  <1>1. IsFiniteSet(S) /\ IsFiniteSet(1..Amount)
    <2>1. IsFiniteSet(S)
      BY RefundsAssumption, FS_Subset
    <2>2. Amount \in Int /\ 1 \in Int
      BY RefundsAssumption
    <2>3. QED
      BY <2>1, <2>2, FS_Interval
  <1>2. IsFiniteSet(S \X (1..Amount))
    BY <1>1, FS_Product
  <1>3. Units(S) \in SUBSET (S \X (1..Amount))
    BY DEF Units
  <1>4. IsFiniteSet(Units(S))
    BY <1>2, <1>3, FS_Subset
  <1>5. QED
    BY <1>4, FS_CardinalityType

LEMMA NothingRefunded ==
    ASSUME NEW p \in Payments, RefundsOf(p) = {}
    PROVE  RefundedAlready(p) = 0
  <1>1. Units(RefundsOf(p)) = {}
    BY DEF Units
  <1>2. QED
    BY <1>1, FS_EmptySet DEF RefundedAlready

\* A row more is its amount more.
LEMMA RowAdds ==
    ASSUME NEW S \in SUBSET Refunds, NEW r \in Refunds \ S, NEW amount \in 1..Amount,
           refunds'[r].amount = amount, \A q \in S : refunds'[q] = refunds[q]
    PROVE  Cardinality(Units(S \cup {r})') = Cardinality(Units(S)) + amount
  <1> DEFINE more == {r} \X (1..amount)
  <1>1. Units(S \cup {r})' = Units(S) \cup more
    <2>1. Amount \in Nat /\ amount \in Nat /\ amount <= Amount
      BY RefundsAssumption
    <2>2. Units(S \cup {r})' = {u \in (S \cup {r}) \X (1..Amount) : u[2] <= refunds'[u[1]].amount}
      BY DEF Units
    <2>3. \A q \in S \cup {r}, k \in 1..Amount :
             k <= refunds'[q].amount <=> (q = r /\ k <= amount) \/ (q \in S /\ k <= refunds[q].amount)
      OBVIOUS
    <2>4. \A u : u \in Units(S \cup {r})' <=> u \in Units(S) \/ u \in more
      <3>1. ASSUME NEW u PROVE u \in Units(S \cup {r})' => u \in Units(S) \/ u \in more
        BY <2>1, <2>2, <2>3 DEF Units
      <3>2. ASSUME NEW u PROVE u \in Units(S) => u \in Units(S \cup {r})'
        BY <2>1, <2>2, <2>3 DEF Units
      <3>3. ASSUME NEW u PROVE u \in more => u \in Units(S \cup {r})'
        BY <2>1, <2>2, <2>3 DEF Units
      <3>4. QED
        BY <3>1, <3>2, <3>3
    <2>5. QED
      BY <2>4
  <1>2. Units(S) \cap more = {}
    BY DEF Units
  <1>3. IsFiniteSet({r}) /\ Cardinality({r}) = 1
    BY FS_Singleton
  <1>4. amount \in Nat /\ IsFiniteSet(1..amount) /\ Cardinality(1..amount) = amount
    <2>1. amount \in Int /\ 1 \in Int /\ amount >= 1 /\ amount \in Nat
      BY RefundsAssumption
    <2>2. IsFiniteSet(1..amount)
          /\ Cardinality(1..amount) = IF 1 > amount THEN 0 ELSE amount - 1 + 1
      BY <2>1, FS_Interval
    <2>3. QED
      BY <2>1, <2>2
  <1>5. IsFiniteSet(more) /\ Cardinality(more) = amount
    <2>1. IsFiniteSet(more) /\ Cardinality(more) = Cardinality({r}) * Cardinality(1..amount)
      BY <1>3, <1>4, FS_Product
    <2>2. QED
      BY <1>3, <1>4, <2>1
  <1> HIDE DEF more
  <1>6. IsFiniteSet(Units(S)) /\ Cardinality(Units(S)) \in Nat
    BY UnitsFinite
  <1>7. Cardinality(Units(S) \cup more)
        = Cardinality(Units(S)) + Cardinality(more) - Cardinality({})
    BY <1>2, <1>5, <1>6, FS_Union
  <1>8. Cardinality(Units(S) \cup more) = Cardinality(Units(S)) + amount
    BY <1>4, <1>5, <1>6, <1>7, FS_EmptySet
  <1>9. QED
    BY <1>1, <1>8

\* What a payment's refunds add up to, when neither they nor its status change.
LEMMA SumKept ==
    ASSUME SumInv, DOMAIN refunds' = Refunds, DOMAIN refunds = Refunds,
           \A r \in Refunds : (refunds[r] = Null <=> refunds'[r] = Null),
           \A r \in Rows : refunds'[r].of = refunds[r].of /\ refunds'[r].amount = refunds[r].amount,
           NEW p \in Payments
    PROVE  RefundsOf(p)' = RefundsOf(p) /\ RefundedAlready(p)' = RefundedAlready(p)
  <1>1. RefundsOf(p)' = RefundsOf(p) /\ RefundsOf(p) \subseteq Rows
    BY DEF RefundsOf, Rows
  <1>2. Units(RefundsOf(p))' = Units(RefundsOf(p))
    <2>1. \A r \in RefundsOf(p) : refunds'[r].amount = refunds[r].amount
      BY <1>1
    <2>2. Units(RefundsOf(p)) = {u \in RefundsOf(p) \X (1..Amount) : u[2] <= refunds[u[1]].amount}
      BY DEF Units
    <2>3. Units(RefundsOf(p))' = {u \in RefundsOf(p) \X (1..Amount) : u[2] <= refunds'[u[1]].amount}
      BY <1>1 DEF Units
    <2>4. \A u \in RefundsOf(p) \X (1..Amount) : refunds'[u[1]].amount = refunds[u[1]].amount
      BY <2>1
    <2>5. QED
      BY <2>2, <2>3, <2>4
  <1>3. QED
    BY <1>1, <1>2 DEF RefundedAlready

\* A payment that has no refunds takes another status, which is not that of a refund.
LEMMA SumOfOthers ==
    ASSUME SumInv, PayInv, refunds' = refunds,
           \A p \in Payments : \/ payments'[p] = payments[p]
                               \/ /\ payments[p] \notin {"REFUNDED", "PARTIALLY_REFUNDED"}
                                  /\ payments'[p] # "REFUNDED"
    PROVE  SumInv'
  <1>1. ASSUME NEW p \in Payments
        PROVE  RefundsOf(p)' = RefundsOf(p) /\ RefundedAlready(p)' = RefundedAlready(p)
    BY DEF RefundsOf, RefundedAlready, Units
  <1>2. ASSUME NEW p \in Payments, payments'[p] # payments[p] PROVE RefundedAlready(p) # Amount
    <2>1. RefundsOf(p) = {}
      BY <1>2 DEF SumInv
    <2>2. QED
      BY <2>1, NothingRefunded, RefundsAssumption
  <1>3. QED
    BY <1>1, <1>2 DEF SumInv, RefundsWithinPayment

\* A refund adds its amount to those of its payment, and to no other.
LEMMA RefundPaymentAdds ==
    ASSUME BillInv, PayInv, SumInv, NEW h \in Handlers, NEW r \in Refunds, NEW p \in Payments,
           NEW amount \in 1 .. Amount, refundPayment(h, r, p, amount)
    PROVE  SumInv'
  <1> DEFINE new == [of |-> p, amount |-> amount, status |-> "PENDING"]
             total == RefundedAlready(p) + amount
  <1>1. /\ refunds[r] = Null /\ refunds' = [refunds EXCEPT ![r] = new]
        /\ total <= Amount
        /\ payments' = [payments EXCEPT ![p] = IF total >= Amount THEN "REFUNDED"
                                                                  ELSE "PARTIALLY_REFUNDED"]
    BY DEF refundPayment
  <1>2. new \in RefundRows /\ new.of = p /\ new.amount = amount
    BY DEF RefundRows
  <1> HIDE DEF new
  <1>3. new # Null
    BY <1>2, RefundsAssumption
  <1>4. \A q \in Refunds : refunds'[q] = IF q = r THEN new ELSE refunds[q]
    BY <1>1 DEF PayInv
  <1>5. \A q \in Payments : payments'[q] = IF q = p THEN IF total >= Amount THEN "REFUNDED"
                                                         ELSE "PARTIALLY_REFUNDED"
                                           ELSE payments[q]
    BY <1>1 DEF BillInv, MoneyInv
  <1>6. RefundsOf(p)' = RefundsOf(p) \cup {r} /\ r \notin RefundsOf(p)
        /\ RefundsOf(p) \in SUBSET Refunds
    BY <1>1, <1>2, <1>3, <1>4 DEF RefundsOf
  <1>7. RefundedAlready(p)' = total
    <2>1. refunds'[r].amount = amount /\ \A q \in RefundsOf(p) : refunds'[q] = refunds[q]
      BY <1>2, <1>4, <1>6 DEF RefundsOf
    <2>2. PICK S \in SUBSET Refunds : S = RefundsOf(p)
      BY <1>6
    <2>3. Cardinality(Units(S \cup {r})') = Cardinality(Units(S)) + amount
      BY <1>6, <2>1, <2>2, RowAdds
    <2>4. Units(RefundsOf(p))' = Units(S \cup {r})'
      BY <1>6, <2>2 DEF Units
    <2>5. QED
      BY <2>2, <2>3, <2>4 DEF RefundedAlready
  <1>8. ASSUME NEW q \in Payments \ {p}
        PROVE  RefundsOf(q)' = RefundsOf(q) /\ RefundedAlready(q)' = RefundedAlready(q)
    <2>1. RefundsOf(q)' = RefundsOf(q)
      BY <1>1, <1>2, <1>4 DEF RefundsOf
    <2>2. \A k \in RefundsOf(q) : refunds'[k] = refunds[k]
      BY <1>1, <1>4 DEF RefundsOf
    <2>3. Units(RefundsOf(q))' = Units(RefundsOf(q))
      BY <2>1, <2>2 DEF Units
    <2>4. QED
      BY <2>1, <2>3 DEF RefundedAlready
  <1>9. total \in Nat
    BY <1>6, UnitsFinite DEF RefundedAlready
  <1> HIDE DEF total
  <1>10. ASSUME NEW q \in Payments
         PROVE  /\ RefundedAlready(q)' <= Amount
                /\ payments'[q] = "REFUNDED" <=> RefundedAlready(q)' = Amount
                /\ RefundsOf(q)' # {} => payments'[q] \in {"REFUNDED", "PARTIALLY_REFUNDED"}
    <2>1. CASE q = p
      BY <1>1, <1>5, <1>7, <1>9, <2>1, RefundsAssumption
    <2>2. CASE q # p
      BY <1>5, <1>8, <2>2 DEF SumInv, RefundsWithinPayment
    <2>3. QED
      BY <2>1, <2>2
  <1>11. QED
    BY <1>10 DEF SumInv, RefundsWithinPayment

\* A row that takes another status is of the same payment and amount.
LEMMA RecordRefundSums ==
    ASSUME BillInv, PayInv, SumInv, NEW h \in Handlers, RecordRefund(h)
    PROVE  SumInv'
  <1> DEFINE r == handlers[h].row
             new == [refunds[r] EXCEPT !.status = Recorded(h)]
  <1>1. OnRow(handlers[h]) /\ handlers[h].pc \in {"manual", "record"}
    BY DEF PayInv, RecordRefund
  <1>2. refunds' = [refunds EXCEPT ![r] = new] /\ payments' = payments
    BY DEF RecordRefund, money
  <1>3. r \in Rows /\ r \in Refunds /\ refunds[r] \in RefundRows
    BY <1>1 DEF OnRow, Legs, Rows, PayInv
  <1>4. Recorded(h) \in {"MANUAL", "PROCESSED"}
    BY DEF Recorded
  <1>5. new \in RefundRows /\ new.of = refunds[r].of /\ new.amount = refunds[r].amount
    BY <1>3, <1>4 DEF RefundRows
  <1> HIDE DEF new
  <1>6. /\ DOMAIN refunds' = Refunds /\ DOMAIN refunds = Refunds
        /\ \A q \in Refunds : refunds'[q] = IF q = r THEN new ELSE refunds[q]
    BY <1>2 DEF PayInv
  <1>7. new # Null /\ refunds[r] # Null
    BY <1>3, <1>5, RefundsAssumption
  <1> HIDE DEF r
  <1>8. /\ \A q \in Refunds : refunds[q] = Null <=> refunds'[q] = Null
        /\ \A q \in Rows : refunds'[q].of = refunds[q].of /\ refunds'[q].amount = refunds[q].amount
    BY <1>5, <1>6, <1>7 DEF Rows
  <1>9. ASSUME NEW p \in Payments
        PROVE  RefundsOf(p)' = RefundsOf(p) /\ RefundedAlready(p)' = RefundedAlready(p)
    BY <1>6, <1>8, SumKept
  <1>10. QED
    BY <1>2, <1>9 DEF SumInv, RefundsWithinPayment

\* A request that settles, or parks an order, is on a payment that has no refund.
LEMMA SettleStepSums ==
    ASSUME BillInv, PayInv, SumInv, NEW h \in Handlers, SettleStep(h)
    PROVE  SumInv'
  <1>1. refunds' = refunds
    BY DEF SettleStep, CreateOrder, parkPendingOrder, handleWebhook, dispatchWebhook,
           MarkProcessed, recordManualPayment, InvoiceNumber, ReadSubscription, settleInTx,
           createInvoice, InsertInvoice, payback
  <1>2. Stands(handlers[h]) /\ DOMAIN payments = Payments
    BY DEF BillInv, HandlersInv, MoneyInv
  <1>3. CASE parkPendingOrder(h)
    <2>1. payments[handlers[h].payment] = Null
      BY <1>2, <1>3 DEF parkPendingOrder, At, Stands
    <2>2. payments' = [payments EXCEPT ![handlers[h].payment] = "PENDING"]
      BY <1>3 DEF parkPendingOrder
    <2>3. QED
      BY <1>1, <1>2, <2>1, <2>2, KindsAssumption, SumOfOthers DEF PaymentStatuses
  <1>4. CASE settleInTx(h)
    <2>1. payments[handlers[h].payment] \in {Null, "PENDING"}
      BY <1>2, <1>4 DEF settleInTx, At, Stands, Settling, Payments
    <2>2. payments' = [payments EXCEPT ![handlers[h].payment] = "SUCCESS"]
      BY <1>4 DEF settleInTx
    <2>3. QED
      BY <1>1, <1>2, <2>1, <2>2, KindsAssumption, SumOfOthers DEF PaymentStatuses
  <1>5. CASE payments' = payments
    BY <1>1, <1>5, SumOfOthers
  <1>6. QED
    BY <1>3, <1>4, <1>5
    DEF SettleStep, CreateOrder, handleWebhook, dispatchWebhook, MarkProcessed,
        recordManualPayment, InvoiceNumber, ReadSubscription, createInvoice, InsertInvoice, money

LEMMA SumInit ==
    ASSUME Init
    PROVE  SumInv
  <1>1. \A p \in Payments : RefundsOf(p) = {} /\ payments[p] = Null
    BY DEF Init, RefundsOf
  <1>2. \A p \in Payments : RefundedAlready(p) = 0
    BY <1>1, NothingRefunded
  <1>3. Null # "REFUNDED"
    BY KindsAssumption DEF PaymentStatuses
  <1>4. QED
    BY <1>1, <1>2, <1>3, RefundsAssumption DEF SumInv, RefundsWithinPayment

LEMMA SumNext ==
    ASSUME BillInv, PayInv, SumInv, [Next]_vars
    PROVE  SumInv'
  <1>1. ASSUME UNCHANGED <<payments, refunds>> PROVE SumInv'
    BY <1>1, SumOfOthers
  <1>2. ASSUME NEW h \in Handlers, RefundStep(h) PROVE SumInv'
    <2>1. ASSUME NEW r \in Refunds, retryRefund(h, r) PROVE SumInv'
      BY <1>1, <2>1 DEF retryRefund, money
    <2>2. CASE razorpayFind(h) \/ createRefund(h) \/ RefundFails(h)
      BY <1>1, <2>2 DEF razorpayFind, createRefund, RefundFails, money, payback
    <2>3. QED
      BY <1>2, <2>1, <2>2, RefundPaymentAdds, RecordRefundSums DEF RefundStep
  <1>3. ASSUME NEW h \in Handlers, Crash(h) PROVE SumInv'
    BY <1>1, <1>3 DEF Crash, money, payback
  <1>4. CASE retryPendingRefunds \/ TakeNext
    BY <1>1, <1>4 DEF retryPendingRefunds, TakeNext, money, payback
  <1>5. ASSUME NEW o \in Orders, GatewayFails(o) \/ GatewayAuthorizes(o) \/ GatewayCaptures(o)
        PROVE  SumInv'
    BY <1>1, <1>5 DEF GatewayFails, GatewayAuthorizes, GatewayCaptures, money, payback
  <1>6. ASSUME NEW i \in invoices, NEW s \in {"ISSUED", "PAID", "CANCELLED"},
               setInvoiceStatus(i, s)
        PROVE  SumInv'
    BY <1>1, <1>6 DEF setInvoiceStatus, payback
  <1>7. CASE MonthPasses \/ UNCHANGED vars
    BY <1>1, <1>7 DEF MonthPasses, vars, money, payback
  <1>8. QED
    BY <1>2, <1>3, <1>4, <1>5, <1>6, <1>7, SettleStepSums DEF Next

\* However refunds race, and whatever is lost between the gateway and the row, the refunds
\* of a payment stay within it and its status tells how much they took; a row is paid out
\* once unless two attempts at it overlapped, and says PROCESSED only of money that went back.
THEOREM RefundsWhole ==
    Spec => []RefundsAddUp
  <1> DEFINE Inv == BillInv /\ PayInv /\ SumInv
  <1>1. Init => Inv
    BY Told, BillInit, PayInit, SumInit
  <1>2. Inv /\ [Next]_vars => Inv'
    BY Told, BillNext, PayNext, SumNext
  <1>3. Inv => RefundsAddUp
    BY DEF PayInv, SumInv, RefundsAddUp
  <1>4. QED
    BY <1>1, <1>2, <1>3, PTL DEF Spec

=============================================================================
