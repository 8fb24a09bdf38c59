------------------------------ MODULE Restaurant ------------------------------
(***************************************************************************)
(* The restaurant (OrdersService, TablesService, MenuService): orders on   *)
(* tables, their kitchen lines, the bill, its settlement in cash, on a     *)
(* room's folio or on a company account, and the stock it uses up.         *)
(*                                                                         *)
(* Every request is a transaction that takes no lock: it reads the order,  *)
(* refuses or not, and writes later what it decided.  A request is those   *)
(* two steps; its writes and what it reads in between are the second.      *)
(* Every dish costs one unit; service charge and tax are one surcharge.    *)
(***************************************************************************)
EXTENDS Folio

CONSTANTS
    Tables,
    Dishes,          \* menu items
    DiningOrders,    \* rows of restaurant_orders, 1..n
    Items,           \* rows of order_items, 1..n
    Surcharge,       \* tax and service charge on a bill that is not zero
    Waiters,         \* requests that can be under way at once
    RestaurantOperations,
    InitialStock

VARIABLES
    tables,          \* status of each table, or "removed"
    menu,            \* status of each menu item
    dining,          \* restaurant_orders
    items,           \* order_items: their order, dish and kotStatus
    takings,         \* sum of the restaurant_order_payments of each order
    stock,           \* of the one ingredient of every recipe
    depleted,        \* orders, each as often as its stock was taken
    waiters,         \* where each request stands
    crowded,         \* orders two requests worked on at once
    disputed         \* open orders whose table somebody else may set: an earlier bill, a hand

restaurantVars == <<tables, menu, dining, items, takings, stock, depleted, waiters, crowded,
                    disputed>>

ORDER_TRANSITIONS == {<<"OPEN", "BILLED">>, <<"OPEN", "CANCELLED">>, <<"BILLED", "PAID">>}

KOT_TRANSITIONS ==
    {<<"NEW", "PREPARING">>, <<"NEW", "READY">>, <<"NEW", "CANCELLED">>,
     <<"PREPARING", "READY">>, <<"PREPARING", "SERVED">>, <<"READY", "SERVED">>}

KOT_ROLE_TARGETS ==
    [role \in {"CHEF", "WAITER", "RESTAURANT_MANAGER"} |->
        CASE role = "CHEF" -> {"PREPARING", "READY"}
          [] role = "WAITER" -> {"SERVED", "CANCELLED"}
          [] OTHER -> {"PREPARING", "READY", "SERVED", "CANCELLED"}]

OrderRows ==
    [table : Tables \cup {Null}, status : {"OPEN", "BILLED", "PAID", "CANCELLED"},
     discount : {0, 1}, total : Nat, paid : Nat]

KotStatuses == {"NEW", "PREPARING", "READY", "SERVED", "CANCELLED"}

ItemRows == [order : DiningOrders, dish : Dishes, kot : KotStatuses]

ASSUME RestaurantAssumption ==
    /\ IsFiniteSet(Items)
    /\ Surcharge \in Nat /\ InitialStock \in Nat
    /\ Null \notin OrderRows /\ Null \notin ItemRows /\ Null \notin Tables

Free == [op |-> "none", order |-> 0, item |-> 0, row |-> Null, to |-> "none", by |-> Null]

RestaurantInit ==
    /\ tables = [t \in Tables |-> "OPEN"]
    /\ menu = [i \in Dishes |-> "ACTIVE"]
    /\ dining = [o \in DiningOrders |-> Null]
    /\ items = [i \in Items |-> Null]
    /\ takings = [o \in DiningOrders |-> 0]
    /\ stock = InitialStock
    /\ depleted = [o \in DiningOrders |-> 0]
    /\ waiters = [w \in Waiters |-> Free]
    /\ crowded = {} /\ disputed = {}

Serves(op) == op \in RestaurantOperations

-----------------------------------------------------------------------------
(* The bill *)

Counting(o) == {i \in Items : items[i] # Null /\ items[i].order = o /\ items[i].kot # "CANCELLED"}

computeBill(gross, discount) ==
    LET subtotal == gross - Min({discount, gross})
    IN  IF subtotal = 0 THEN 0 ELSE subtotal + Surcharge

-----------------------------------------------------------------------------
(* First step of a request: the order (and the line) is read and the      *)
(* request refused or carried on.                                         *)

Takes(w, op, o, r) ==
    /\ waiters[w].op = "none"
    /\ waiters' = [waiters EXCEPT ![w] = r]
    /\ crowded' = crowded \cup (IF \E v \in Waiters : waiters[v].op # "none" /\ waiters[v].order = o
                            THEN {o} ELSE {})
    /\ UNCHANGED <<tables, menu, dining, items, takings, stock, depleted, disputed, folioVars>>

Request(op, o) == [Free EXCEPT !.op = op, !.order = o, !.row = dining[o]]

StatusOf(o) == IF dining[o] = Null THEN "none" ELSE dining[o].status

ReadToAdd(w, o, dish) ==
    /\ Serves("add") /\ StatusOf(o) = "OPEN"
    /\ menu[dish] = "ACTIVE"
    /\ Takes(w, "add", o, [Request("add", o) EXCEPT !.by = dish])

\* setKotStatus: the state machine and the role are tested on the line as read.
ReadToSetKot(w, i, to, role) ==
    /\ Serves("kot") /\ items[i] # Null
    /\ StatusOf(items[i].order) = "OPEN"
    /\ to \in KOT_ROLE_TARGETS[role]
    /\ <<items[i].kot, to>> \in KOT_TRANSITIONS
    /\ Takes(w, "kot", items[i].order,
             [Request("kot", items[i].order) EXCEPT !.item = i, !.to = to])

ReadToCancelItem(w, i) ==
    /\ Serves("kot") /\ items[i] # Null
    /\ StatusOf(items[i].order) = "OPEN" /\ items[i].kot = "NEW"
    /\ Takes(w, "kot", items[i].order,
             [Request("kot", items[i].order) EXCEPT !.item = i, !.to = "CANCELLED"])

ReadToBill(w, o) ==
    /\ Serves("bill") /\ <<StatusOf(o), "BILLED">> \in ORDER_TRANSITIONS
    /\ Takes(w, "bill", o, Request("bill", o))

ReadToCancel(w, o) ==
    /\ Serves("cancel") /\ <<StatusOf(o), "CANCELLED">> \in ORDER_TRANSITIONS
    /\ Takes(w, "cancel", o, Request("cancel", o))

ReadToDiscount(w, o) ==
    /\ Serves("rebate") /\ StatusOf(o) \in {"OPEN", "BILLED"}
    /\ Takes(w, "rebate", o, Request("rebate", o))

\* settle, with an amount (part) or for all that remains; to a room only for a
\* guest who is in the house.
ReadToSettle(w, o, method, b) ==
    /\ Serves("settle") /\ StatusOf(o) = "BILLED"
    /\ method = "ROOM_CHARGE" => ~stay[b].out
    /\ Takes(w, "settle", o, [Request("settle", o) EXCEPT !.to = method, !.by = b])

-----------------------------------------------------------------------------
(* Second step: the writes *)

\* TablesService.setStatus, for an order that has a table; a removed one stays removed.
Shown(t, status) ==
    IF t = Null THEN tables
    ELSE [tables EXCEPT ![t] = IF @ = "removed" THEN @ ELSE status]

Finishes(w) == waiters' = [waiters EXCEPT ![w] = Free]

Doing(w, op) == waiters[w].op = op

\* A request that fails in its transaction leaves nothing.
Fails(w) ==
    /\ Finishes(w)
    /\ UNCHANGED <<tables, menu, dining, items, takings, stock, depleted, crowded, disputed,
                   folioVars>>

\* The orders that sit at a table.
OpenOnTable(t) == \E o \in DiningOrders : StatusOf(o) = "OPEN" /\ dining[o].table = t

BilledOnTable(t) == \E o \in DiningOrders : StatusOf(o) = "BILLED" /\ dining[o].table = t

Taken(t) == OpenOnTable(t)

\* create, at a table or at none: the look-up is backed by the index of one OPEN
\* order per table and the number is tried again, so the transaction is one step.
createOrder(t) ==
    /\ Serves("create")
    /\ t # Null => (tables[t] \notin {"BLOCKED", "removed"} /\ ~Taken(t))
    /\ \E o \in DiningOrders :
           /\ dining[o] = Null /\ \A p \in DiningOrders : p < o => dining[p] # Null
           /\ dining' = [dining EXCEPT ![o] = [table |-> t, status |-> "OPEN", discount |-> 0,
                                               total |-> 0, paid |-> 0]]
           /\ disputed' = IF t # Null /\ BilledOnTable(t) THEN disputed \cup {o} ELSE disputed
    /\ tables' = Shown(t, "OCCUPIED")
    /\ UNCHANGED <<menu, items, takings, stock, depleted, waiters, crowded, folioVars>>

addItems(w) ==
    /\ Doing(w, "add")
    /\ \E i \in Items :
           /\ items[i] = Null /\ \A j \in Items : j < i => items[j] # Null
           /\ items' = [items EXCEPT ![i] = [order |-> waiters[w].order, dish |-> waiters[w].by,
                                             kot |-> "NEW"]]
    /\ Finishes(w)
    /\ UNCHANGED <<tables, menu, dining, takings, stock, depleted, crowded, disputed, folioVars>>

setKotStatus(w) ==
    /\ Doing(w, "kot")
    /\ items' = [items EXCEPT ![waiters[w].item].kot = waiters[w].to]
    /\ Finishes(w)
    /\ UNCHANGED <<tables, menu, dining, takings, stock, depleted, crowded, disputed, folioVars>>

bill(w) ==
    /\ Doing(w, "bill")
    /\ LET o == waiters[w].order
           row == waiters[w].row
           lines_ == Counting(o)
           discount == Min({row.discount, Cardinality(lines_)})
       IN  /\ lines_ # {}
           /\ dining' = [dining EXCEPT ![o].status = "BILLED", ![o].discount = discount,
                                       ![o].total = computeBill(Cardinality(lines_), discount)]
           /\ tables' = Shown(row.table, "BILLED")
    /\ Finishes(w)
    /\ UNCHANGED <<menu, items, takings, stock, depleted, crowded, disputed, folioVars>>

EmptyBill(w) == Doing(w, "bill") /\ Counting(waiters[w].order) = {} /\ Fails(w)

cancel(w) ==
    /\ Doing(w, "cancel")
    /\ LET o == waiters[w].order
       IN  IF \E i \in Counting(o) : items[i].kot = "SERVED" THEN Fails(w)
           ELSE /\ dining' = [dining EXCEPT ![o].status = "CANCELLED"]
                /\ tables' = Shown(waiters[w].row.table, "OPEN")
                /\ Finishes(w)
                /\ UNCHANGED <<menu, items, takings, stock, depleted, crowded, disputed, folioVars>>

\* A discount on a bill computes it again, whatever was paid by then.
RebateOrder(w) ==
    /\ Doing(w, "rebate")
    /\ LET o == waiters[w].order
       IN  dining' = [dining EXCEPT
                         ![o].discount = 1,
                         ![o].total = IF waiters[w].row.status = "BILLED"
                                      THEN computeBill(Cardinality(Counting(o)), 1) ELSE @]
    /\ Finishes(w)
    /\ UNCHANGED <<tables, menu, items, takings, stock, depleted, crowded, disputed, folioVars>>

\* depleteStock: one unit for each line; a movement below zero is skipped.
StockAfter(o) == Max({0, stock - Cardinality(Counting(o))})

\* Mutant: a part payment settles the order.
SettledByAny(paid, total) == paid > 0 \/ paid >= total

Settled(paid, total) == paid >= total

WholeBill(method) == method \in {"ROOM_CHARGE", "CORPORATE"}

\* cash.record attaches the money to the open shift, if there is one.
DrawerAfter(amount) ==
    LET s == IF OpenShifts = {} THEN 0 ELSE Min(OpenShifts)
    IN  [drawer EXCEPT ![s] = @ + amount]

SettleFor(w, amount) ==
    LET o == waiters[w].order
        row == waiters[w].row
        paid == row.paid + amount
        method == waiters[w].to
        settled == Settled(paid, row.total)
    IN  /\ takings' = [takings EXCEPT ![o] = @ + amount]
        /\ dining' = [dining EXCEPT ![o].paid = paid,
                                    ![o].status = IF settled THEN "PAID" ELSE "BILLED"]
        /\ \/ method = "ROOM_CHARGE" /\ CanPost(o) /\ PostCharge(waiters[w].by, row.total, o)
           \/ method # "ROOM_CHARGE" /\ UNCHANGED lines
        /\ account' = IF method = "CORPORATE" THEN account + amount ELSE account
        /\ drawer' = IF method = "CASH" THEN DrawerAfter(amount) ELSE drawer
        /\ IF settled
           THEN /\ stock' = StockAfter(o)
                /\ depleted' = [depleted EXCEPT ![o] = @ + 1]
                /\ tables' = Shown(row.table, "OPEN")
           ELSE UNCHANGED <<stock, depleted, tables>>

settle(w) ==
    /\ Doing(w, "settle")
    /\ LET row == waiters[w].row
           remaining == Max({0, row.total - row.paid})
       IN  \E amount \in IF WholeBill(waiters[w].to) THEN {remaining}
                         ELSE {remaining, Min({1, remaining})} :
               \* A movement of no cash is refused, and the settlement with it.
               /\ waiters[w].to = "CASH" => amount > 0
               /\ SettleFor(w, amount)
    /\ Finishes(w)
    /\ UNCHANGED <<menu, items, crowded, disputed, payments, cached, stay, shifts, desk, disturbed>>

NoCashToTake(w) ==
    /\ Doing(w, "settle") /\ waiters[w].to = "CASH"
    /\ waiters[w].row.total <= waiters[w].row.paid
    /\ Fails(w)

-----------------------------------------------------------------------------
(* The tables and the menu, by hand *)

ByHand(t) ==
    disputed' = disputed \cup {o \in DiningOrders : StatusOf(o) = "OPEN" /\ dining[o].table = t}

updateTable(t, status) ==
    /\ Serves("table") /\ tables[t] # "removed"
    /\ tables' = [tables EXCEPT ![t] = status]
    /\ ByHand(t)
    /\ UNCHANGED <<menu, dining, items, takings, stock, depleted, waiters, crowded, folioVars>>

removeTable(t) ==
    /\ Serves("table") /\ tables[t] # "removed"
    /\ tables' = [tables EXCEPT ![t] = "removed"]
    /\ ByHand(t)
    /\ UNCHANGED <<menu, dining, items, takings, stock, depleted, waiters, crowded, folioVars>>

updateItem(dish, status) ==
    /\ Serves("menu")
    /\ menu' = [menu EXCEPT ![dish] = status]
    /\ UNCHANGED <<tables, dining, items, takings, stock, depleted, waiters, crowded, disputed,
                   folioVars>>

OrderMethods == {"CASH", "CARD", "ROOM_CHARGE", "CORPORATE"}

RestaurantNext ==
    \/ \E t \in Tables \cup {Null} : createOrder(t)
    \/ \E w \in Waiters, o \in DiningOrders, dish \in Dishes : ReadToAdd(w, o, dish)
    \/ \E w \in Waiters, i \in Items, role \in DOMAIN KOT_ROLE_TARGETS :
           \E to \in KOT_ROLE_TARGETS[role] : ReadToSetKot(w, i, to, role)
    \/ \E w \in Waiters, i \in Items : ReadToCancelItem(w, i)
    \/ \E w \in Waiters, o \in DiningOrders :
           ReadToBill(w, o) \/ ReadToCancel(w, o) \/ ReadToDiscount(w, o)
    \/ \E w \in Waiters, o \in DiningOrders, m \in OrderMethods, b \in Stays :
           ReadToSettle(w, o, m, b)
    \/ \E w \in Waiters : addItems(w) \/ setKotStatus(w) \/ bill(w) \/ EmptyBill(w) \/ cancel(w)
    \/ \E w \in Waiters : RebateOrder(w) \/ settle(w) \/ NoCashToTake(w)
    \/ \E t \in Tables, status \in {"OPEN", "OCCUPIED", "BILLED", "BLOCKED"} :
           updateTable(t, status)
    \/ \E t \in Tables : removeTable(t)
    \/ \E dish \in Dishes, status \in {"ACTIVE", "UNAVAILABLE", "ARCHIVED"} :
           updateItem(dish, status)

RestaurantSpec == (FolioInit /\ RestaurantInit) /\ [][RestaurantNext]_<<restaurantVars, folioVars>>

-----------------------------------------------------------------------------
(* Properties *)

RestaurantTypeOK ==
    /\ tables \in [Tables -> {"OPEN", "OCCUPIED", "BILLED", "BLOCKED", "removed"}]
    /\ menu \in [Dishes -> {"ACTIVE", "UNAVAILABLE", "ARCHIVED"}]
    /\ dining \in [DiningOrders -> OrderRows \cup {Null}]
    /\ items \in [Items -> ItemRows \cup {Null}]
    /\ takings \in [DiningOrders -> Nat]
    /\ depleted \in [DiningOrders -> Nat]
    /\ crowded \subseteq DiningOrders /\ disputed \subseteq DiningOrders
    /\ stock \in 0..InitialStock

\* An order is PAID when what was taken for it covers its bill, and its stock
\* leaves the store once, however it was paid in parts and discounted, unless
\* two requests worked on the order at once (settle reads the paid figure
\* without a lock; orders.service.ts:504-508).
PaidInFullUnlessRaced ==
    \A o \in DOMAIN dining : StatusOf(o) = "PAID" /\ o \notin crowded =>
        takings[o] >= dining[o].total /\ depleted[o] = 1

\* An open order is the only one of its table.
OneOpenOrderPerTable ==
    \A o, p \in DOMAIN dining :
        StatusOf(o) = "OPEN" /\ StatusOf(p) = "OPEN" /\ o # p /\ dining[o].table # Null =>
            dining[o].table # dining[p].table

\* A table with an open order is shown OCCUPIED, unless its status was set by hand, the
\* bill of an earlier party was unpaid when the order was opened (settle and cancel set
\* the table OPEN whatever else sits at it; orders.service.ts:615, :687), or two requests
\* worked on one order of the table at once.
AtEase(o) ==
    /\ dining[o].table # Null /\ o \notin disputed
    /\ \A p \in crowded : dining[p].table # dining[o].table

TableShowsItsOrder ==
    \A o \in DOMAIN dining :
        StatusOf(o) = "OPEN" /\ AtEase(o) => tables[dining[o].table] = "OCCUPIED"

\* The three together: what the restaurant promises of its orders and tables.
OrdersSettleOnce == PaidInFullUnlessRaced /\ OneOpenOrderPerTable /\ TableShowsItsOrder

\* "a folio line is the bill": what a room is charged for an order, tax and
\* all, with what was taken for it otherwise, is not more than its bill.  The
\* code posts the whole bill after a part payment, and taxes it again.
GuestPaysTheBillOnce ==
    \A o \in DiningOrders : \A l \in FindLineBySource(o) :
        o \notin crowded /\ StatusOf(o) = "PAID" =>
            lines[l].amount + lines[l].tax <= dining[o].total

\* "opening one sets the table OCCUPIED": a table with an open order is not
\* shown free, as long as nobody sets its status by hand.
NoOpenOrderOnFreeTable ==
    \A o \in DiningOrders :
        StatusOf(o) = "OPEN" /\ dining[o].table # Null => tables[dining[o].table] # "OPEN"

=============================================================================
