------------------------------ MODULE Inventory ------------------------------
(***************************************************************************)
(* The store (ItemsService, PurchaseOrdersService): stock on hand and its  *)
(* ledger of movements, purchase orders and what receiving one does.       *)
(*                                                                         *)
(* Every change of on-hand is applyMovement, which locks the item's row    *)
(* for the rest of its transaction.  A transaction moves the items of a    *)
(* list one after another, in the order of the list: receiving an order,   *)
(* settling a restaurant bill, or one movement by hand.  Its writes are    *)
(* seen by others when it commits.  A movement is of one unit.             *)
(***************************************************************************)
EXTENDS Absent, Integers, FiniteSets, Sequences, Functions

CONSTANTS
    StockItems,
    PurchaseOrders,
    LinesOf,        \* the items of each purchase order, in order
    Recipes,        \* the lists of items a bill may use up
    Movers,         \* transactions that can be open at once
    MaxOnHand       \* bound on the stock of an item

\* null is no transaction and no quantity, and lists are of items.
ASSUME InventoryAssumption ==
    /\ Null \notin Movers /\ Null \notin Int
    /\ \A p \in PurchaseOrders : LinesOf[p] \in Seq(StockItems)
    /\ Recipes \subseteq Seq(StockItems)

VARIABLES
    onHand,         \* inventory_items.current_qty
    rows,           \* whether each item is on the list yet, or was removed
    ledger,         \* the sum of the qty_delta of each item's movements
    lockedBy,       \* the transaction that holds each item's row
    movers,         \* open transactions
    purchase,       \* status of each order
    received        \* how often each order was received

inventoryVars == <<onHand, rows, ledger, lockedBy, movers, purchase, received>>

PO_TRANSITIONS ==
    {<<"DRAFT", "SENT">>, <<"DRAFT", "CANCELLED">>, <<"SENT", "RECEIVED">>, <<"SENT", "CANCELLED">>}

Closed == [kind |-> "none", po |-> Null, todo |-> <<>>, to |-> "none",
           balance |-> [i \in StockItems |-> Null], moved |-> [i \in StockItems |-> 0]]

InventoryInit ==
    /\ onHand = [i \in StockItems |-> 0]
    /\ rows = [i \in StockItems |-> "none"]
    /\ ledger = [i \in StockItems |-> 0]
    /\ lockedBy = [i \in StockItems |-> Null]
    /\ movers = [m \in Movers |-> Closed]
    /\ purchase = [p \in PurchaseOrders |-> Null]
    /\ received = [p \in PurchaseOrders |-> 0]

-----------------------------------------------------------------------------
(* Items *)

\* An opening balance is the item's first movement.
createItem(i, opening) ==
    /\ rows[i] = "none"
    /\ rows' = [rows EXCEPT ![i] = "live"]
    /\ onHand' = [onHand EXCEPT ![i] = opening]
    /\ ledger' = [ledger EXCEPT ![i] = opening]
    /\ UNCHANGED <<lockedBy, movers, purchase, received>>

removeItem(i) ==
    /\ rows[i] = "live" /\ lockedBy[i] = Null
    /\ rows' = [rows EXCEPT ![i] = "removed"]
    /\ UNCHANGED <<onHand, ledger, lockedBy, movers, purchase, received>>

Opens(m, t) ==
    /\ movers[m] = Closed
    /\ movers' = [movers EXCEPT ![m] = t]
    /\ UNCHANGED <<onHand, rows, ledger, lockedBy, purchase, received>>

\* stockDelta: WASTAGE is an OUT, and an ADJUST is an IN or an OUT by its sign.
Delta(kind) == IF kind \in {"receive", "IN"} THEN 1 ELSE 0 - 1

recordStockMovement(m, i, type) ==
    /\ rows[i] = "live"
    /\ onHand[i] < MaxOnHand
    /\ Opens(m, [Closed EXCEPT !.kind = type, !.todo = <<i>>])

\* The restaurant uses up a recipe.
depleteStock(m, recipe) == Opens(m, [Closed EXCEPT !.kind = "deplete", !.todo = recipe])

\* What a transaction sees of an item: what it wrote last, or the row.
CurrentQty(m, i) == IF movers[m].balance[i] = Null THEN onHand[i] ELSE movers[m].balance[i]

\* Mutant: the row is read without FOR UPDATE.
LockableByAll(m, i) == TRUE

Lockable(m, i) == lockedBy[i] \in {Null, m}

Rollback(m) ==
    /\ movers' = [movers EXCEPT ![m] = Closed]
    /\ lockedBy' = [i \in StockItems |-> IF lockedBy[i] = m THEN Null ELSE lockedBy[i]]

\* An item that is gone or would go below zero: a bill passes over it, any
\* other transaction is undone.
Refused(m, i) == rows[i] # "live" \/ CurrentQty(m, i) + Delta(movers[m].kind) < 0

applyMovement(m) ==
    /\ movers[m].todo # <<>>
    /\ LET t == movers[m]
           i == Head(t.todo)
           rest == Tail(t.todo)
       IN  /\ Lockable(m, i)
           /\ IF Refused(m, i)
              THEN \/ /\ t.kind = "deplete"
                      /\ movers' = [movers EXCEPT ![m].todo = rest]
                      /\ lockedBy' = IF rows[i] # "live" THEN lockedBy ELSE [lockedBy EXCEPT ![i] = m]
                   \/ t.kind # "deplete" /\ Rollback(m)
              ELSE /\ movers' = [movers EXCEPT ![m] =
                         [t EXCEPT
                             !.todo = rest,
                             !.balance = [t.balance EXCEPT ![i] = CurrentQty(m, i) + Delta(t.kind)],
                             !.moved = [t.moved EXCEPT ![i] = t.moved[i] + Delta(t.kind)]]]
                   /\ lockedBy' = [lockedBy EXCEPT ![i] = m]
    /\ UNCHANGED <<onHand, rows, ledger, purchase, received>>

Commit(m) ==
    /\ movers[m].kind \in {"IN", "OUT", "deplete", "receive"} /\ movers[m].todo = <<>>
    /\ onHand' = [i \in StockItems |-> CurrentQty(m, i)]
    /\ ledger' = [i \in StockItems |-> ledger[i] + movers[m].moved[i]]
    /\ IF movers[m].kind = "receive"
       THEN /\ purchase' = [purchase EXCEPT ![movers[m].po] = "RECEIVED"]
            /\ received' = [received EXCEPT ![movers[m].po] = @ + 1]
       ELSE UNCHANGED <<purchase, received>>
    /\ Rollback(m)
    /\ UNCHANGED rows

\* Two transactions that lock the same items in different orders wait for each
\* other; the database ends one of them.
WaitsFor(m, n) ==
    /\ m # n
    /\ movers[m].todo # <<>> /\ lockedBy[Head(movers[m].todo)] = n

DeadlockDetected(m) ==
    /\ \E n \in Movers : WaitsFor(m, n) /\ WaitsFor(n, m)
    /\ Rollback(m)
    /\ UNCHANGED <<onHand, rows, ledger, purchase, received>>

-----------------------------------------------------------------------------
(* Purchase orders *)

createPurchaseOrder(p) ==
    /\ purchase[p] = Null
    /\ \A i \in Range(LinesOf[p]) : rows[i] = "live"
    /\ purchase' = [purchase EXCEPT ![p] = "DRAFT"]
    /\ UNCHANGED <<onHand, rows, ledger, lockedBy, movers, received>>

\* setStatus reads and writes with no lock and no transaction.
ReadToSetStatus(m, p, to) ==
    /\ <<purchase[p], to>> \in PO_TRANSITIONS
    /\ to # "RECEIVED"
    /\ Opens(m, [Closed EXCEPT !.kind = "status", !.po = p, !.to = to])

setOrderStatus(m) ==
    /\ movers[m].kind = "status"
    /\ purchase' = [purchase EXCEPT ![movers[m].po] = movers[m].to]
    /\ movers' = [movers EXCEPT ![m] = Closed]
    /\ UNCHANGED <<onHand, rows, ledger, lockedBy, received>>

\* receive reads the order without locking it; its lines move the stock.
receive(m, p) ==
    /\ purchase[p] = "SENT"
    /\ \A i \in Range(LinesOf[p]) : onHand[i] < MaxOnHand
    /\ Opens(m, [Closed EXCEPT !.kind = "receive", !.po = p, !.todo = LinesOf[p]])

InventoryNext ==
    \/ \E i \in StockItems : removeItem(i) \/ (\E opening \in {0, 1} : createItem(i, opening))
    \/ \E m \in Movers, i \in StockItems, type \in {"IN", "OUT"} : recordStockMovement(m, i, type)
    \/ \E m \in Movers, recipe \in Recipes : depleteStock(m, recipe)
    \/ \E m \in Movers : applyMovement(m) \/ Commit(m) \/ DeadlockDetected(m) \/ setOrderStatus(m)
    \/ \E p \in PurchaseOrders : createPurchaseOrder(p)
    \/ \E m \in Movers, p \in PurchaseOrders, to \in {"SENT", "CANCELLED"} : ReadToSetStatus(m, p, to)
    \/ \E m \in Movers, p \in PurchaseOrders : receive(m, p)

InventorySpec == InventoryInit /\ [][InventoryNext]_inventoryVars

-----------------------------------------------------------------------------
(* Properties *)

InventoryTypeOK ==
    /\ onHand \in [StockItems -> Int]
    /\ rows \in [StockItems -> {"none", "live", "removed"}]
    /\ lockedBy \in [StockItems -> Movers \cup {Null}]
    /\ \A p \in PurchaseOrders :
           purchase[p] \in {Null, "DRAFT", "SENT", "RECEIVED", "CANCELLED"} /\ received[p] \in Nat

\* "on-hand always traces back to the ledger": whatever transactions ran side
\* by side, were undone or passed over an item, the stock of an item is the sum
\* of its movements and never below zero (applyMovement locks the row;
\* items.service.ts:264).
OnHandIsTheLedger == \A i \in StockItems : onHand[i] = ledger[i] /\ onHand[i] >= 0

\* Receiving "can only ever happen once, from SENT": the order's row is read
\* without a lock, so two receipts side by side both move the stock.
ReceivedOnce == \A p \in PurchaseOrders : received[p] <= 1

=============================================================================
