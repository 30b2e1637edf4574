------------------------------- MODULE Orders -------------------------------
(***************************************************************************)
(* Orders placed on the catalogue, and the order row until the store has   *)
(* decided: contexts/order, the placement transaction of the runtime, and  *)
(* the decision of contexts/store_approval.                                *)
(*                                                                         *)
(* The API server serves one request at a time and the worker handles one  *)
(* message at a time, so at most two transactions overlap.  Both read the  *)
(* order row with a plain SELECT and write the whole row back with an      *)
(* unconditional upsert.  Transactions that touch no order row the other   *)
(* one reads are one step.                                                 *)
(***************************************************************************)
EXTENDS StoreCatalog

CONSTANTS
  Orders, Customers,
  OperatorIds \* command ids of operators' cancellations: see Messages

ASSUME OrdersConstants ==
  /\ None \notin Products \cup Orders \cup Customers
  /\ IsFiniteSet(Orders)
  /\ OperatorIds \subseteq {"CancelOrder", "OperatorCancel"}

VARIABLES
  orders,    \* orders with the snapshot in order_items
  payment,   \* payments: OPEN until it is CONFIRMED or CLOSED unpaid
  approval,  \* store_approval_order_details
  held,      \* the order's inventory_reservations
  processed, \* <<order, message>> recorded as processed
  tx         \* the transaction each process is in

orderVars == <<orders, payment, approval, held, processed, tx>>
vars == <<store, orderStore, approvalStore, product, orderProduct,
          approvalProduct, variants, stock, paused, recorded,
          orders, payment, approval, held, processed, tx>>

OrderStatus == {"NONE", "PENDING", "PAID", "APPROVED", "CANCELLED"}
PaymentStatus == {"NONE", "OPEN", "CONFIRMED", "CLOSED"}
ApprovalStatus == {"NONE", "APPROVED", "REJECTED"}
Held == {"NONE", "PENDING", "CANCELLED", "CONFIRMED"}

Order == [status: OrderStatus, customer: Customers \cup {None},
          product: Products \cup {None}, variant: Variants \cup {None},
          title: Titles \cup {None}, price: Prices \cup {None},
          chain: Chains \cup {None}]

NoOrder == [status |-> "NONE", customer |-> None, product |-> None,
            variant |-> None, title |-> None, price |-> None, chain |-> None]

(* "OperatorCancel" is a cancellation under an Idempotency-Key; without    *)
(* one its command id is the id of the process manager's CancelOrder.      *)
Messages == {"PaymentConfirmed", "OrderApproved", "CancelOrder", "OperatorCancel"}
Processes == {"api", "worker"}
Idle == [order |-> None, message |-> None, seen |-> "NONE"]
Transaction == [order: Orders \cup {None}, message: Messages \cup {None},
                seen: OrderStatus]

Init ==
  /\ CatalogInit
  /\ orders = [o \in Orders |-> NoOrder]
  /\ payment = [o \in Orders |-> "NONE"]
  /\ approval = [o \in Orders |-> "NONE"]
  /\ held = [o \in Orders |-> "NONE"]
  /\ processed = {}
  /\ tx = [w \in Processes |-> Idle]

-----------------------------------------------------------------------------
(* The order context's view of the catalogue.                              *)
OpenOrderExists(c) ==
  \E o \in Orders : orders[o].customer = c /\ orders[o].status = "PENDING"

(* With a saleable variant the order must name one; without, it must name  *)
(* none, and the default variant's inventory row is the one reserved.      *)
VariantForSelection(p, v) ==
  IF Saleable(p) = {} THEN v = None ELSE v \in Saleable(p)

ReservedVariant(v) == IF v = None THEN Default ELSE v

Reservable(p, v) ==
  /\ stock[p][ReservedVariant(v)].seeded
  /\ stock[p][ReservedVariant(v)].available > 0

initialize_order_unreserved(p, v, c) == \* mutant: the stock is not looked at
  /\ orderStore.active
  /\ c \in orderStore.chains
  /\ orderProduct[p].title # None
  /\ VariantForSelection(p, v)

initialize_order_strict(p, v, c) == \* mutant: an order must name a variant
  /\ orderStore.active
  /\ c \in orderStore.chains
  /\ orderProduct[p].title # None
  /\ v # None /\ v # Default
  /\ v \in Saleable(p)
  /\ Reservable(p, v)

(* What an order is checked against.  Neither the product's status nor the *)
(* variant's sale status nor the store's assets are in the copies it reads.*)
initialize_order_ok(p, v, c) ==
  /\ orderStore.active
  /\ c \in orderStore.chains
  /\ orderProduct[p].title # None
  /\ VariantForSelection(p, v)
  /\ Reservable(p, v)

CanPlaceAnother(o, customer) == orders[o].status = "NONE" \* mutant

CanPlace(o, customer) ==
  /\ orders[o].status = "NONE"
  /\ ~ OpenOrderExists(customer)

(* The placement: the order, its reservation and its payment.              *)
createOrder(o, customer, p, v, c) ==
  /\ CanPlace(o, customer)
  /\ initialize_order_ok(p, v, c)
  /\ orders' = [orders EXCEPT ![o] =
                  [status |-> "PENDING", customer |-> customer, product |-> p,
                   variant |-> ReservedVariant(v),
                   title |-> orderProduct[p].title,
                   price |-> orderProduct[p].price, chain |-> c]]
  /\ stock' = [stock EXCEPT ![p][ReservedVariant(v)].available = @ - 1]
  /\ payment' = [payment EXCEPT ![o] = "OPEN"]
  /\ held' = [held EXCEPT ![o] = "PENDING"]
  /\ UNCHANGED <<catalog, paused, recorded, approval, processed, tx>>

-----------------------------------------------------------------------------
(* Payment has the details: it is paid, or it fails, expires, is given up. *)
settle_payment(o, s) ==
  /\ payment[o] = "OPEN"
  /\ payment' = [payment EXCEPT ![o] = s]
  /\ UNCHANGED <<catalogVars, orders, approval, held, processed, tx>>

(* The store decides once, when the payment is confirmed.  It reads the    *)
(* canonical order row, as paid when its payment is.                       *)
ReadAsPaid(o) ==
  \/ orders[o].status = "PAID"
  \/ orders[o].status = "PENDING" /\ payment[o] = "CONFIRMED"

validate_title_only(o) == \* mutant: the product's availability is not read
  /\ approvalStore
  /\ ReadAsPaid(o)
  /\ approvalProduct[orders[o].product].title = orders[o].title

validate_order(o) ==
  /\ approvalStore
  /\ ReadAsPaid(o)
  /\ approvalProduct[orders[o].product].available
  /\ approvalProduct[orders[o].product].title = orders[o].title

request_store_approval(o) ==
  /\ payment[o] = "CONFIRMED"
  /\ approval[o] = "NONE"
  /\ approval' = [approval EXCEPT ![o] =
                    IF validate_order(o) THEN "APPROVED" ELSE "REJECTED"]
  /\ UNCHANGED <<catalogVars, orders, payment, held, processed, tx>>

(* ReleaseInventory and ConfirmInventory, as Inventory has them.           *)
release_inventory(o) ==
  /\ held[o] = "PENDING"
  /\ payment[o] = "CLOSED" \/ approval[o] = "REJECTED"
  /\ held' = [held EXCEPT ![o] = "CANCELLED"]
  /\ stock' = [stock EXCEPT ![orders[o].product][orders[o].variant].available
                              = @ + 1]
  /\ UNCHANGED <<catalog, paused, recorded, orders, payment, approval,
                 processed, tx>>

confirm_inventory(o) ==
  /\ held[o] = "PENDING"
  /\ approval[o] = "APPROVED"
  /\ held' = [held EXCEPT ![o] = "CONFIRMED"]
  /\ stock' = [stock EXCEPT ![orders[o].product][orders[o].variant].total
                              = @ - 1]
  /\ UNCHANGED <<catalog, paused, recorded, orders, payment, approval,
                 processed, tx>>

-----------------------------------------------------------------------------
(* Transactions on the order row.                                          *)
Sent(o, m) ==
  \/ m = "PaymentConfirmed" /\ payment[o] = "CONFIRMED"
  \/ m = "OrderApproved" /\ approval[o] = "APPROVED"
  \/ m = "CancelOrder" /\ payment[o] = "CLOSED"

Runs(w, o, m) ==
  \/ w = "worker" /\ Sent(o, m)
  \/ w = "api" /\ m \in OperatorIds

Begin(w, o, m) ==
  /\ tx[w] = Idle
  /\ orders[o].status # "NONE"
  /\ Runs(w, o, m)
  /\ <<o, m>> \notin processed
  /\ tx' = [tx EXCEPT ![w] = [order |-> o, message |-> m,
                              seen |-> orders[o].status]]
  /\ UNCHANGED <<catalogVars, orders, payment, approval, held, processed>>

(* What becomes of an order in status s, if its handler does not raise.    *)
HandledAnyway(m, s) == \* mutant: the order's status is not looked at
  CASE m = "PaymentConfirmed" -> {"PAID"}
    [] m = "OrderApproved" -> {"APPROVED"}
    [] OTHER -> {"CANCELLED"}

Handled(m, s) ==
  CASE m = "PaymentConfirmed" -> IF s = "PENDING" THEN {"PAID"}
                                 ELSE {s} \cap {"PAID", "APPROVED"}
    [] m = "OrderApproved" -> IF s \in {"PAID", "APPROVED"} THEN {"APPROVED"}
                              ELSE {}
    [] OTHER -> {"CANCELLED"}

(* The row is written when its status changes; the write is of the row as  *)
(* it was read.                                                            *)
Commit(w) ==
  LET t == tx[w] IN
  /\ t.message # None
  /\ \E s \in Handled(t.message, t.seen) :
       orders' = IF s = t.seen THEN orders
                 ELSE [orders EXCEPT ![t.order].status = s]
  /\ processed' = processed \cup {<<t.order, t.message>>}
  /\ tx' = [tx EXCEPT ![w] = Idle]
  /\ UNCHANGED <<catalogVars, payment, approval, held>>

(* The handler raises, or the process stops.                               *)
Rollback(w) ==
  /\ tx[w].message # None
  /\ tx' = [tx EXCEPT ![w] = Idle]
  /\ UNCHANGED <<catalogVars, orders, payment, approval, held, processed>>

ApiStep ==
  /\ tx["api"] = Idle
  /\ \/ CatalogNext /\ UNCHANGED orderVars
     \/ \E o \in Orders, customer \in Customers, p \in Products,
           v \in Variants \cup {None}, c \in Chains :
          createOrder(o, customer, p, v, c)

WorkerStep ==
  /\ tx["worker"] = Idle
  /\ \E o \in Orders :
       \/ request_store_approval(o)
       \/ release_inventory(o)
       \/ confirm_inventory(o)

Next ==
  \/ ApiStep
  \/ WorkerStep
  \/ \E o \in Orders, s \in {"CONFIRMED", "CLOSED"} : settle_payment(o, s)
  \/ \E w \in Processes, o \in Orders, m \in Messages : Begin(w, o, m)
  \/ \E w \in Processes : Commit(w) \/ Rollback(w)

Spec == Init /\ [][Next]_vars

-----------------------------------------------------------------------------
(* Every row has its columns, every process is idle or in a transaction.   *)
TypeOK ==
  /\ store \in StoreProfile
  /\ orderStore \in OrderStore
  /\ approvalStore \in BOOLEAN
  /\ product \in [Products -> StoreProduct]
  /\ orderProduct \in [Products -> OrderProduct]
  /\ approvalProduct \in [Products -> ApprovalProduct]
  /\ variants \in [Products -> [Variants -> ProductVariant]]
  /\ stock \in [Products -> [Variants -> InventoryRow]]
  /\ paused \in [Products -> SUBSET Variants]
  /\ recorded \subseteq Requests
  /\ orders \in [Orders -> Order]
  /\ payment \in [Orders -> PaymentStatus]
  /\ approval \in [Orders -> ApprovalStatus]
  /\ held \in [Orders -> Held]
  /\ processed \subseteq Orders \X Messages
  /\ tx \in [Processes -> Transaction]

(* A customer has one order awaiting payment at most, whatever overlapping *)
(* transactions write back: open_order_exists is a check without a lock.   *)
OneOpenOrder ==
  \A o1, o2 \in Orders :
    /\ orders[o1].status = "PENDING"
    /\ orders[o2].status = "PENDING"
    /\ orders[o1].customer = orders[o2].customer
    => o1 = o2

(* Whatever has been done to its variants, a product that is shown with    *)
(* stock can be ordered, at least while it has an active variant, on each  *)
(* chain shown that the order context knows the store for.                 *)
ShownIsOrderable ==
  \A p \in Products, c \in PaymentCapability :
    /\ Shown(p)
    /\ Active(p) # {}
    /\ ShownAvailable(p)
    /\ orderStore.active
    /\ c \in orderStore.chains
    => \E v \in Variants \cup {None} : initialize_order_ok(p, v, c)

(* What an inventory row has in all is what it has available and what open *)
(* orders hold of it, though commands replace the variants meanwhile.      *)
Holders(p, v) ==
  {o \in Orders : held[o] = "PENDING" /\ orders[o].product = p
                  /\ orders[o].variant = v}

StockAccountsForOrders ==
  \A p \in Products, v \in Variants :
    stock[p][v].total = stock[p][v].available + Cardinality(Holders(p, v))

(* A cancelled order stays cancelled, unless a transaction that read it    *)
(* before the cancellation commits after it.                               *)
OnlyOverlapRevives ==
  [][\A o \in Orders :
       orders[o].status = "CANCELLED" /\ orders'[o].status # "CANCELLED"
       => \E w \in Processes :
            /\ tx[w].order = o /\ tx[w].seen # "CANCELLED"
            /\ tx'[w] = Idle]_vars

(* The store approves a paid order only while its catalogue has the        *)
(* product, active and under the title that was ordered.                   *)
ApprovalFollowsCatalog ==
  [][\A o \in Orders :
       approval[o] # "APPROVED" /\ approval'[o] = "APPROVED"
       => LET p == orders[o].product IN
          /\ store.active
          /\ product[p].status # "INACTIVE"
          /\ product[p].title = orders[o].title]_vars
=============================================================================
