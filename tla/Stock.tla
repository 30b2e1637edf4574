------------------------------- MODULE Stock -------------------------------
(***************************************************************************)
(* The stock of one product variant: its aggregate ProductInventory, what  *)
(* every command does to it, and what the API server and the workers       *)
(* promise together: that their transactions change it as if they had run  *)
(* one after another, each with all the commands of its batch.  Inventory  *)
(* implements it with a row lock and processed_commands.                   *)
(***************************************************************************)
EXTENDS Integers, Sequences, FiniteSets

CONSTANTS
  Orders,        \* order ids
  Ids,           \* command ids (deterministic saga ids and Idempotency-Keys)
  Api,           \* API server processes: each serves one request at a time
  Workers,       \* worker processes: each handles one Kafka message at a time
  Batches,       \* the batches of commands that each of them may run
  InitialStock,  \* total_stock when the variant is registered
  None

SagaOps  == {"reserve", "release", "confirm"}
OwnerOps == {"increase", "correct", "pause", "resume"}

(* One database session, and one transaction at a time, per process.       *)
Transactions == Api \cup Workers

Command == [id: Ids, op: SagaOps, order: Orders, qty: Nat \ {0}]
             \cup [id: Ids, op: OwnerOps, order: {None}, qty: Nat]

ASSUME InventoryConstants ==
  /\ Batches \in [Transactions -> SUBSET Seq(Command)]
  /\ InitialStock \in Nat
  /\ None \notin Transactions \cup Orders

ReservationStatus == {"NONE", "PENDING", "CONFIRMED", "CANCELLED"}

(* One reservation slot per order: _validate_reservation_identity.         *)
Reservation == [status: ReservationStatus, qty: Nat]

ProductInventory ==
  [available: Nat, reserved: Nat, total: Nat,
   sale: {"ACTIVE", "PAUSED"},
   reservations: [Orders -> Reservation]]

VARIABLES
  row,        \* the committed aggregate
  processed,  \* committed processed_commands: <<handler, command id>>
  emitted     \* committed outbox events: <<event name, order>>

stock == <<row, processed, emitted>>

-----------------------------------------------------------------------------
(* What the constructor of ProductInventory validates.                     *)

(* The units held by the reservations in a status, as pairs of an order    *)
(* and a number: there are as many as the reserved quantities sum to.      *)
WithStatus(r, status) == {o \in Orders : r.reservations[o].status = status}

Units(r, status) ==
  UNION {{o} \X (1..r.reservations[o].qty) : o \in WithStatus(r, status)}

StockAddsUp(r) == r.available + r.reserved = r.total

ReservedIsPending(r) ==
  /\ IsFiniteSet(Units(r, "PENDING"))
  /\ r.reserved = Cardinality(Units(r, "PENDING"))

Loadable(r) == StockAddsUp(r) /\ ReservedIsPending(r)

-----------------------------------------------------------------------------
(* The operations of ProductInventory.  X_ok is the condition under which  *)
(* X raises no ValueError.                                                 *)

SetReservation(r, o, s, q) ==
  [r EXCEPT !.reservations[o] = [status |-> s, qty |-> q]]

(* Mutant: the available stock is not compared with the quantity.          *)
reserve_unchecked_ok(r, o, q) == TRUE

reserve_inventory_ok(r, o, q) ==
  r.reservations[o].status # "NONE" \/ r.available >= q

reserve_inventory(r, o, q) ==
  IF r.reservations[o].status # "NONE" THEN r
  ELSE [SetReservation(r, o, "PENDING", q)
          EXCEPT !.available = @ - q, !.reserved = @ + q]

(* Mutant: a CONFIRMED reservation may be released too.                    *)
release_confirmed_ok(r, o) ==
  /\ r.reservations[o].status # "NONE"
  /\ r.reserved >= r.reservations[o].qty

release_reservation_ok(r, o) ==
  \/ r.reservations[o].status = "CANCELLED"
  \/ /\ r.reservations[o].status = "PENDING"
     /\ r.reserved >= r.reservations[o].qty

release_reservation(r, o) ==
  LET q == r.reservations[o].qty IN
  IF r.reservations[o].status = "CANCELLED" THEN r
  ELSE [SetReservation(r, o, "CANCELLED", q)
          EXCEPT !.available = @ + q, !.reserved = @ - q]

confirm_reservation_ok(r, o) ==
  \/ r.reservations[o].status = "CONFIRMED"
  \/ /\ r.reservations[o].status = "PENDING"
     /\ r.reserved >= r.reservations[o].qty
     /\ r.total >= r.reservations[o].qty

confirm_reservation(r, o) ==
  LET q == r.reservations[o].qty IN
  IF r.reservations[o].status = "CONFIRMED" THEN r
  ELSE [SetReservation(r, o, "CONFIRMED", q)
          EXCEPT !.reserved = @ - q, !.total = @ - q]

increase_stock(r, q) ==
  [r EXCEPT !.available = @ + q, !.total = @ + q]

correct_total_stock(r, target) ==
  [r EXCEPT !.available = target - r.reserved, !.total = target]

pause_sales(r)  == [r EXCEPT !.sale = "PAUSED"]
resume_sales(r) == [r EXCEPT !.sale = "ACTIVE"]

(* Does the aggregate accept the command, and what becomes of it?          *)
Accepts(r, c) ==
  CASE c.op = "reserve" -> reserve_inventory_ok(r, c.order, c.qty)
    [] c.op = "release" -> release_reservation_ok(r, c.order)
    [] c.op = "confirm" -> confirm_reservation_ok(r, c.order)
    [] c.op = "correct" -> c.qty >= r.reserved
    [] OTHER            -> TRUE

Apply(r, c) ==
  CASE c.op = "reserve"  -> reserve_inventory(r, c.order, c.qty)
    [] c.op = "release"  -> release_reservation(r, c.order)
    [] c.op = "confirm"  -> confirm_reservation(r, c.order)
    [] c.op = "increase" -> increase_stock(r, c.qty)
    [] c.op = "correct"  -> correct_total_stock(r, c.qty)
    [] c.op = "pause"    -> pause_sales(r)
    [] c.op = "resume"   -> resume_sales(r)

(* Handlers answer for their own command ids only.                         *)
HandlerName(c) ==
  IF c.op \in SagaOps THEN "inventory-command-handler"
                      ELSE "store-owner-inventory-command-handler"

HandlerNames == {"inventory-command-handler",
                 "store-owner-inventory-command-handler"}

EventNames == {"InventoryReservedEvent", "InventoryReleasedEvent",
               "InventoryConfirmedEvent"}

EventName(c) ==
  CASE c.op = "reserve" -> "InventoryReservedEvent"
    [] c.op = "release" -> "InventoryReleasedEvent"
    [] c.op = "confirm" -> "InventoryConfirmedEvent"

NewInventory ==
  [available |-> InitialStock, reserved |-> 0, total |-> InitialStock,
   sale |-> "ACTIVE",
   reservations |-> [o \in Orders |-> [status |-> "NONE", qty |-> 0]]]

-----------------------------------------------------------------------------
(* One transaction after another.                                          *)

(* What processed_commands knows of a command.                             *)
Key(c) == <<HandlerName(c), c.id>>

StockInit ==
  /\ row = NewInventory
  /\ processed = {}
  /\ emitted = {}

Committed == [row |-> row, processed |-> processed, emitted |-> emitted]

(* What one command makes of s: nothing if it was executed before or the   *)
(* aggregate does not accept it.                                           *)
Executed(s, c) ==
  IF Key(c) \in s.processed \/ ~ Accepts(s.row, c) THEN s
  ELSE [row |-> Apply(s.row, c),
        processed |-> s.processed \cup {Key(c)},
        emitted |-> s.emitted \cup
                      {<<EventName(d), d.order>> :
                         d \in {e \in {c} : e.op \in SagaOps}}]

(* A refused command of the saga undoes its whole batch.                   *)
Refuses(s, c) ==
  c.op \in SagaOps /\ Key(c) \notin s.processed /\ ~ Accepts(s.row, c)

(* What the first k commands of a batch make of s.                         *)
After(s, b) ==
  LET after[k \in 0 .. Len(b)] ==
        IF k = 0 THEN s ELSE Executed(after[k - 1], b[k])
  IN  after

(* A transaction, as if it were alone.                                     *)
Run(b) ==
  LET after == After(Committed, b)
  IN  /\ \A k \in DOMAIN b : ~ Refuses(after[k - 1], b[k])
      /\ Committed' = after[Len(b)]

StockNext == \E t \in Transactions : \E b \in Batches[t] : Run(b)

StockSpec == StockInit /\ [][StockNext]_stock
=============================================================================
