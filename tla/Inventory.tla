----------------------------- MODULE Inventory -----------------------------
(***************************************************************************)
(* The stock of one product variant: the ProductInventory aggregate of     *)
(* contexts/inventory, its row in product_variant_inventory with the rows  *)
(* of inventory_reservations, and the database transactions that change    *)
(* it.                                                                     *)
(*                                                                         *)
(* A transaction runs a batch of commands.  A Kafka delivery or a store    *)
(* owner's HTTP request is a batch of one command; createOrder runs one    *)
(* ReserveInventoryCommand per order line in one transaction.  Each        *)
(* command checks processed_commands first, loads the row with SELECT ...  *)
(* FOR UPDATE, changes the aggregate in memory and writes it back;         *)
(* everything becomes visible to the others at COMMIT.                     *)
(*                                                                         *)
(* Two constructor checks of the code are left out of the operations on    *)
(* purpose: ProductInventory.__post_init__ re-validates the aggregate on   *)
(* every load and every change.  InventoryLoadable states what it checks,  *)
(* and is shown to hold without it.                                        *)
(***************************************************************************)
EXTENDS Stock

VARIABLES
  lock,       \* holder of the FOR UPDATE lock on the row
  pc,         \* where each transaction is
  queue,      \* its commands still to run
  view,       \* the aggregate as the transaction has changed it
  done,       \* the commands it has accepted so far
  delta,      \* history: what its owner commands added to total_stock
  adjusted,   \* history: committed sum of those deltas
  applied     \* history: committed executions of every command id

txVars == <<pc, queue, view, done, delta>>
vars   == <<row, processed, emitted, lock, pc, queue, view, done, delta,
            adjusted, applied>>

-----------------------------------------------------------------------------
(* The transactions.                                                       *)

Init ==
  /\ row = NewInventory
  /\ processed = {}
  /\ emitted = {}
  /\ lock = None
  /\ pc = [t \in Transactions |-> "idle"]
  /\ queue = [t \in Transactions |-> <<>>]
  /\ view = [t \in Transactions |-> NewInventory]
  /\ done = [t \in Transactions |-> {}]
  /\ delta = [t \in Transactions |-> 0]
  /\ adjusted = 0
  /\ applied = [i \in Ids |-> 0]

(* A request or a delivery opens a transaction.  The process manager       *)
(* commands a worker for an order after createOrder has committed.         *)
Deliverable(b) ==
  \A i \in DOMAIN b : row.reservations[b[i].order].status # "NONE"

Begin(t) ==
  /\ pc[t] = "idle"
  /\ \E b \in Batches[t] :
       /\ t \in Workers => Deliverable(b)
       /\ queue' = [queue EXCEPT ![t] = b]
  /\ pc' = [pc EXCEPT ![t] = "check"]
  /\ UNCHANGED <<row, processed, emitted, lock, view, done, delta, adjusted,
                 applied>>

(* What the transaction sees in processed_commands: READ COMMITTED shows   *)
(* what others committed and what it recorded itself.                      *)
WasProcessedByListener(t, c) == \* mutant: looks under the listener's name
  <<"inventory-command-handler", c.id>> \in
     processed \cup {Key(d) : d \in done[t]}

WasProcessed(t, c) ==
  Key(c) \in processed \cup {Key(d) : d \in done[t]}

Duplicate(t) ==
  /\ pc[t] = "check"
  /\ queue[t] # <<>>
  /\ WasProcessed(t, Head(queue[t]))
  /\ queue' = [queue EXCEPT ![t] = Tail(@)]
  /\ UNCHANGED <<row, processed, emitted, lock, pc, view, done, delta,
                 adjusted, applied>>

NotDuplicate(t) ==
  /\ pc[t] = "check"
  /\ queue[t] # <<>>
  /\ ~ WasProcessed(t, Head(queue[t]))
  /\ pc' = [pc EXCEPT ![t] = "execute"]
  /\ UNCHANGED <<row, processed, emitted, lock, queue, view, done, delta,
                 adjusted, applied>>

(* repository.get: SELECT ... FOR UPDATE waits while another transaction   *)
(* holds the row, then reads it as last committed; inside its own lock a   *)
(* transaction reads what it wrote.                                        *)
LockableUnlocked(t) == TRUE \* mutant: the SELECT has no FOR UPDATE
Lockable(t) == lock \in {None, t}
Loaded(t)   == IF lock = t THEN view[t] ELSE row

(* The command is accepted: save, outbox event and processed record.       *)
Accept(t) ==
  /\ pc[t] = "execute"
  /\ Lockable(t)
  /\ LET c == Head(queue[t])
         r == Loaded(t)
     IN  /\ Accepts(r, c)
         /\ view' = [view EXCEPT ![t] = Apply(r, c)]
         /\ done' = [done EXCEPT ![t] = @ \cup {c}]
         /\ delta' = [delta EXCEPT ![t] =
                        IF c.op \in OwnerOps
                        THEN @ + Apply(r, c).total - r.total ELSE @]
  /\ lock' = t
  /\ queue' = [queue EXCEPT ![t] = Tail(@)]
  /\ pc' = [pc EXCEPT ![t] = "check"]
  /\ UNCHANGED <<row, processed, emitted, adjusted, applied>>

(* StoreOwnerInventoryCommandHandler returns a rejection; the transaction  *)
(* goes on to COMMIT and nothing is recorded.                              *)
RejectOwnerCommand(t) ==
  /\ pc[t] = "execute"
  /\ Lockable(t)
  /\ Head(queue[t]).op \in OwnerOps
  /\ ~ Accepts(Loaded(t), Head(queue[t]))
  /\ lock' = t
  /\ view' = [view EXCEPT ![t] = Loaded(t)]
  /\ queue' = [queue EXCEPT ![t] = Tail(@)]
  /\ pc' = [pc EXCEPT ![t] = "check"]
  /\ UNCHANGED <<row, processed, emitted, done, delta, adjusted, applied>>

Finish(t) ==
  /\ lock' = IF lock = t THEN None ELSE lock
  /\ pc' = [pc EXCEPT ![t] = "idle"]
  /\ queue' = [queue EXCEPT ![t] = <<>>]
  /\ view' = [view EXCEPT ![t] = NewInventory]
  /\ done' = [done EXCEPT ![t] = {}]
  /\ delta' = [delta EXCEPT ![t] = 0]

(* Mutant: the event of a rejected command is published all the same.      *)
RejectSagaCommandEmits(t) ==
  /\ pc[t] = "execute"
  /\ Lockable(t)
  /\ Head(queue[t]).op \in SagaOps
  /\ ~ Accepts(Loaded(t), Head(queue[t]))
  /\ emitted' = emitted \cup
       {<<EventName(Head(queue[t])), Head(queue[t]).order>>}
  /\ Finish(t)
  /\ UNCHANGED <<row, processed, adjusted, applied>>

(* Mutant: the session of a rejected command is not rolled back.           *)
RejectSagaCommandKeepsLock(t) ==
  /\ pc[t] = "execute"
  /\ Lockable(t)
  /\ Head(queue[t]).op \in SagaOps
  /\ ~ Accepts(Loaded(t), Head(queue[t]))
  /\ lock' = t
  /\ pc' = [pc EXCEPT ![t] = "idle"]
  /\ queue' = [queue EXCEPT ![t] = <<>>]
  /\ UNCHANGED <<row, processed, emitted, view, done, delta, adjusted, applied>>

(* InventoryCommandHandler raises InventoryCommandRejected: _with_         *)
(* transaction rolls the whole batch back.                                 *)
RejectSagaCommand(t) ==
  /\ pc[t] = "execute"
  /\ Lockable(t)
  /\ Head(queue[t]).op \in SagaOps
  /\ ~ Accepts(Loaded(t), Head(queue[t]))
  /\ Finish(t)
  /\ UNCHANGED <<row, processed, emitted, adjusted, applied>>

(* Mutant: the row is saved outside of the transaction that fails.         *)
RollbackKeepsRow(t) ==
  /\ pc[t] # "idle"
  /\ row' = Loaded(t)
  /\ Finish(t)
  /\ UNCHANGED <<processed, emitted, adjusted, applied>>

(* A crash, a lost connection or an error elsewhere in the transaction:    *)
(* what another variant's line of the same order raises, for instance.     *)
Rollback(t) ==
  /\ pc[t] # "idle"
  /\ Finish(t)
  /\ UNCHANGED <<row, processed, emitted, adjusted, applied>>

Commit(t) ==
  /\ pc[t] = "check"
  /\ queue[t] = <<>>
  /\ row' = IF lock = t THEN view[t] ELSE row
  /\ processed' = processed \cup {Key(c) : c \in done[t]}
  /\ emitted' = emitted \cup {<<EventName(c), c.order>> :
                               c \in {d \in done[t] : d.op \in SagaOps}}
  /\ adjusted' = adjusted + delta[t]
  /\ applied' = [i \in Ids |-> IF \E c \in done[t] : c.id = i
                               THEN applied[i] + 1 ELSE applied[i]]
  /\ Finish(t)

Next ==
  \E t \in Transactions :
    \/ Begin(t) \/ Duplicate(t) \/ NotDuplicate(t) \/ Accept(t)
    \/ RejectOwnerCommand(t) \/ RejectSagaCommand(t)
    \/ Rollback(t) \/ Commit(t)

(* A transaction that was opened runs on, and PostgreSQL hands the row     *)
(* lock to every waiter in turn.  Nothing obliges anyone to open one, or   *)
(* to crash.                                                               *)
Fairness ==
  \A t \in Transactions :
    /\ WF_vars(Duplicate(t) \/ NotDuplicate(t) \/ Commit(t))
    /\ SF_vars(Accept(t) \/ RejectOwnerCommand(t) \/ RejectSagaCommand(t))

Spec == Init /\ [][Next]_vars

FairSpec == Spec /\ Fairness

-----------------------------------------------------------------------------
(* Properties.                                                             *)

(* Every variable has its type.                                            *)
TypeOK ==
  /\ row \in ProductInventory
  /\ processed \subseteq HandlerNames \X Ids
  /\ emitted \subseteq EventNames \X Orders
  /\ lock \in Transactions \cup {None}
  /\ pc \in [Transactions -> {"idle", "check", "execute"}]
  /\ queue \in [Transactions -> Seq(Command)]
  /\ view \in [Transactions -> ProductInventory]
  /\ done \in [Transactions -> SUBSET Command]
  /\ delta \in [Transactions -> Int]
  /\ adjusted \in Int
  /\ applied \in [Ids -> Nat]

(* The committed rows can always be loaded again: no quantity is negative, *)
(* available + reserved = total, and reserved is the sum of the PENDING    *)
(* reservations, so ProductInventory.__post_init__ and the CHECK           *)
(* constraints of the schema never reject what the handlers saved.         *)
InventoryLoadable == row \in ProductInventory /\ Loadable(row)

(* No unit of stock is lost or invented: what is in stock plus what was    *)
(* sold to CONFIRMED reservations is the initial stock plus what store     *)
(* owners' accepted commands added.  A lost update would break it.         *)
StockLedger ==
  row.total + Cardinality(Units(row, "CONFIRMED")) = InitialStock + adjusted

(* A reservation only moves forward: it appears as PENDING, keeps its      *)
(* quantity, and ends CONFIRMED or CANCELLED for good, whatever commands   *)
(* are delivered again.                                                    *)
Forward(old, new) ==
  \/ new = old
  \/ old.status = "NONE"
  \/ old.status = "PENDING" /\ new.qty = old.qty /\ new.status # "NONE"

ReservationsMoveForward ==
  [][\A o \in Orders :
       Forward(row.reservations[o], row'.reservations[o])]_vars

(* Events tell the saga the truth about the reservation: one order is      *)
(* never reported both confirmed and released, and what was reported stays *)
(* so.                                                                     *)
EventsMatchReservations ==
  \A o \in Orders :
    /\ <<"InventoryReservedEvent", o>> \in emitted
          => row.reservations[o].status # "NONE"
    /\ <<"InventoryConfirmedEvent", o>> \in emitted
          => row.reservations[o].status = "CONFIRMED"
    /\ <<"InventoryReleasedEvent", o>> \in emitted
          => row.reservations[o].status = "CANCELLED"

(* A repeated Idempotency-Key is answered "duplicate", and a command that   *)
(* Kafka delivers again is ignored: every command id is executed at most   *)
(* once, by whichever process, although processed_commands is read before  *)
(* the row is locked.                                                      *)
CommandExecutedOnce == \A i \in Ids : applied[i] <= 1

(* Transactions that overlap change the stock, processed_commands and the  *)
(* outbox as if each had run alone, all the commands of its batch one      *)
(* after the other, and a refused command of the saga had taken back its   *)
(* whole batch: although processed_commands is read before the row is      *)
(* locked, and each sees what others commit in between.                    *)
TransactionsAreSerial == StockSpec

(* What that takes of a deployment: one API server and one worker; ids     *)
(* that no other handler uses and that only a createOrder shares with what *)
(* the process manager sends for the same order; and one createOrder, with *)
(* all its lines, per order.                                               *)
Elements(b) == {b[i] : i \in DOMAIN b}
Commands(t) == UNION {Elements(b) : b \in Batches[t]}

Deployment ==
  /\ Api \cap Workers = {}
  /\ \A t, u \in Transactions : (t \in Api <=> u \in Api) => t = u
  /\ \A t, u \in Transactions : \A c \in Commands(t), d \in Commands(u) :
       c.id = d.id =>
         /\ HandlerName(c) = HandlerName(d)
         /\ t \in Api /\ u \in Workers => c.op = "reserve" /\ c.order = d.order
  /\ \A t \in Api : \A b \in Batches[t] :
       \A c \in Elements(b), d \in Commands(t) :
         c.op = "reserve" /\ d.op = "reserve" /\ c.order = d.order
           => d \in Elements(b)

(* Nobody waits for the row lock forever: every transaction that is opened *)
(* ends.                                                                   *)
TransactionsEnd ==
  \A t \in Transactions : (pc[t] # "idle") ~> (pc[t] = "idle")
=============================================================================
