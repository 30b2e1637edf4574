---------------------------- MODULE CheckoutSaga ----------------------------
(***************************************************************************)
(* The checkout of one order across the bounded contexts: order, inventory,*)
(* payment and store approval, driven by CheckoutProcessManager through    *)
(* the outbox and Kafka.  Every step is one committed transaction; what    *)
(* overlapping transactions, the relay and the consumer loop do inside one *)
(* is in Payment, Inventory and Messaging.                                 *)
(*                                                                         *)
(* A message is delivered to each consumer that reads its topic in any     *)
(* order: the contexts have topics of their own, and the relay's batch     *)
(* comes back in no order (UPDATE ... RETURNING).  The consumer loop goes  *)
(* past a message its handler refuses.                                     *)
(***************************************************************************)
EXTENDS Integers

CONSTANTS
  Lines,           \* the order's lines, a reservation each
  RejectionPayloads,\* what the store's rejection may carry: {{}} in the code
  Operator,        \* may an operator cancel the order?
  MaxRedeliveries, \* bound on messages delivered again after a restart
  MaxLosses,       \* bound on messages passed over after a transient error
  None

Fields == {"paymentId", "reason"} \* of a payload, those a command can lack

ASSUME CheckoutConstants ==
  /\ RejectionPayloads \subseteq SUBSET Fields
  /\ Operator \in BOOLEAN
  /\ MaxRedeliveries \in Nat
  /\ MaxLosses \in Nat
  /\ None \notin Lines

VARIABLES
  order,        \* orders.status, "NONE" before the order is placed
  lines,        \* status of the reservation of every line
  payment,      \* payments.status; SUBMITTED stands for CONFIRMING too
  approval,     \* store_approval_order_details.approval_status
  messages,     \* what the outbox relay has published or will publish
  handled,      \* <<consumer, message>> the consumer is past
  processed,    \* <<consumer, message>> recorded as processed
  redeliveries, losses

vars == <<order, lines, payment, approval, messages, handled, processed,
          redeliveries, losses>>

OrderStatus == {"NONE", "PENDING", "PAID", "APPROVED", "CANCELLED"}
ReservationStatus == {"NONE", "PENDING", "CONFIRMED", "CANCELLED"}
PaymentStatus == {"NONE", "AWAITING_SIGNATURE", "SUBMITTED", "CONFIRMED",
                  "FAILED", "EXPIRED", "CANCELLED", "REFUNDED"}
ApprovalStatus == {"NONE", "APPROVED", "REJECTED"}

CheckoutEventName ==
  {"OrderCreated", "InventoryReserved", "InventoryConfirmed",
   "PaymentConfirmed", "PaymentFailed", "PaymentExpired", "OrderApproved",
   "OrderRejected", "OrderCancelled"}
InventoryCommands == {"ReserveInventory", "ReleaseInventory", "ConfirmInventory"}
CheckoutCommandName ==
  InventoryCommands \cup {"InitiatePayment", "RequestStoreApproval",
                          "RefundPayment", "CancelOrder"}

Message == [name : CheckoutEventName \cup CheckoutCommandName,
            line : Lines \cup {None}, carries : SUBSET Fields]
Msg(n, l, f) == [name |-> n, line |-> l, carries |-> f]

(* message_id or command_id: order id, action and, for a line, the line.   *)
Id(m) == <<m.name, m.line>>
Ids == (CheckoutEventName \cup CheckoutCommandName) \X (Lines \cup {None})

(* The consumer groups and the names each of them listens to.              *)
Consumers == {"checkout", "inventory", "payment", "store", "order", "status"}
Reads ==
  [c \in Consumers |->
     CASE c = "checkout"  -> CheckoutEventName
       [] c = "inventory" -> InventoryCommands
       [] c = "payment"   -> {"InitiatePayment", "RefundPayment"}
       [] c = "store"     -> {"RequestStoreApproval"}
       [] c = "order"     -> {"CancelOrder"}
       [] c = "status"    -> {"PaymentConfirmed", "PaymentFailed",
                              "PaymentExpired", "OrderApproved",
                              "OrderRejected"}]

(* What a listener needs of a command's payload to build the command.      *)
Needs(n) ==
  {f \in Fields : \/ n = "RefundPayment" /\ f = "paymentId"
                  \/ n = "CancelOrder" /\ f = "reason"}

Init ==
  /\ order = "NONE"
  /\ lines = [l \in Lines |-> "NONE"]
  /\ payment = "NONE"
  /\ approval = "NONE"
  /\ messages = {}
  /\ handled = {}
  /\ processed = {}
  /\ redeliveries = 0
  /\ losses = 0

(* OutboxMessageRepository.save: ON CONFLICT DO NOTHING.                   *)
Send(S) ==
  messages' = messages \cup {m \in S : \A n \in messages : Id(n) # Id(m)}

-----------------------------------------------------------------------------
(* One transaction of the API places the order, reserves every line and    *)
(* starts the payment; its commands are recorded under the ids the process *)
(* manager will give them.                                                 *)
createOrder ==
  /\ order = "NONE"
  /\ order' = "PENDING"
  /\ lines' = [l \in Lines |-> "PENDING"]
  /\ payment' = "AWAITING_SIGNATURE"
  /\ Send({Msg("OrderCreated", None, {})}
            \cup {Msg("InventoryReserved", l, {}) : l \in Lines})
  /\ processed' = {<<"inventory", <<"ReserveInventory", l>>>> : l \in Lines}
                    \cup {<<"payment", <<"InitiatePayment", None>>>>}
  /\ UNCHANGED <<approval, handled, redeliveries, losses>>

PaymentMovesAnyway(from, to, S) == \* mutant: the payment's status is not looked at
  /\ payment # "NONE"
  /\ payment' = to
  /\ Send(S)
  /\ UNCHANGED <<order, lines, approval, handled, processed, redeliveries,
                 losses>>

(* The payment's own transactions, as Payment has them.                    *)
PaymentMoves(from, to, S) ==
  /\ payment = from
  /\ payment' = to
  /\ Send(S)
  /\ UNCHANGED <<order, lines, approval, handled, processed, redeliveries,
                 losses>>

submit_transaction_hash == PaymentMoves("AWAITING_SIGNATURE", "SUBMITTED", {})

cancel_payment ==
  PaymentMoves("AWAITING_SIGNATURE", "CANCELLED",
               {Msg("PaymentExpired", None, Fields)})

expire_awaiting_signature ==
  PaymentMoves("AWAITING_SIGNATURE", "EXPIRED",
               {Msg("PaymentExpired", None, Fields)})

confirm_payment_receipt ==
  \/ PaymentMoves("SUBMITTED", "CONFIRMED",
                  {Msg("PaymentConfirmed", None, {"paymentId"})})
  \/ PaymentMoves("SUBMITTED", "FAILED", {Msg("PaymentFailed", None, Fields)})

(* OperatorCancelOrderActionExecutor: the order's handler, nothing else.   *)
operator_cancel_order ==
  /\ Operator
  /\ order \notin {"NONE", "CANCELLED"}
  /\ order' = "CANCELLED"
  /\ Send({Msg("OrderCancelled", None, {})})
  /\ UNCHANGED <<lines, payment, approval, handled, processed, redeliveries,
                 losses>>

-----------------------------------------------------------------------------
(* A consumer at one message.                                              *)
Delivered(c, m) ==
  /\ m \in messages
  /\ m.name \in Reads[c]
  /\ <<c, Id(m)>> \notin handled

WellFormed(m) == Needs(m.name) \subseteq m.carries

FreshIgnoresProcessed(c, m) == \* mutant: processed commands are not looked up
  Delivered(c, m) /\ WellFormed(m)

Fresh(c, m) ==
  /\ Delivered(c, m)
  /\ <<c, Id(m)>> \notin processed
  /\ WellFormed(m)

Past(c, m) == handled' = handled \cup {<<c, Id(m)>>}

Done(c, m) ==
  /\ Past(c, m)
  /\ processed' = processed \cup {<<c, Id(m)>>}
  /\ UNCHANGED <<redeliveries, losses>>

(* Goes past a message without an effect.                                  *)
Skip(c, m) ==
  /\ Past(c, m)
  /\ UNCHANGED <<order, lines, payment, approval, messages, processed,
                 redeliveries>>

ConfirmAtPayment(n) == \* mutant: stock is sold before the store approves
  {c \in CheckoutCommandName :
     \/ /\ n = "PaymentConfirmed"
        /\ c \in {"RequestStoreApproval", "ConfirmInventory"}
     \/ /\ n \in {"PaymentFailed", "PaymentExpired", "OrderRejected"}
        /\ c \in {"ReleaseInventory", "CancelOrder"}}

CancelWithoutRelease(n) == \* mutant: expiry, failure, refusal leave the stock
  {c \in CheckoutCommandName :
     \/ n = "PaymentConfirmed" /\ c = "RequestStoreApproval"
     \/ n = "OrderApproved" /\ c = "ConfirmInventory"
     \/ /\ n \in {"PaymentFailed", "PaymentExpired", "OrderRejected"}
        /\ c = "CancelOrder"}

ReleaseAtCancel(n) == \* mutant: it is the cancelled order that releases stock
  {c \in CheckoutCommandName :
     \/ n = "PaymentConfirmed" /\ c = "RequestStoreApproval"
     \/ n = "OrderApproved" /\ c = "ConfirmInventory"
     \/ n = "OrderCancelled" /\ c = "ReleaseInventory"
     \/ /\ n \in {"PaymentFailed", "PaymentExpired", "OrderRejected"}
        /\ c = "CancelOrder"}

CommandsByEvent(n) ==
  {c \in CheckoutCommandName :
     \/ n = "OrderCreated" /\ c = "ReserveInventory"
     \/ n = "InventoryReserved" /\ c = "InitiatePayment"
     \/ n = "PaymentConfirmed" /\ c = "RequestStoreApproval"
     \/ n = "OrderApproved" /\ c = "ConfirmInventory"
     \/ /\ n \in {"PaymentFailed", "PaymentExpired", "OrderRejected"}
        /\ c \in {"ReleaseInventory", "CancelOrder"}
     \/ n = "OrderRejected" /\ c = "RefundPayment"}

(* The commands inherit the payload of the event they answer.              *)
Targets(n) == IF n \in InventoryCommands THEN Lines ELSE {None}
DecisionsWithoutPayload(m) == \* mutant: commands do not inherit the payload
  UNION {{Msg(n, l, {}) : l \in Targets(n)} : n \in CommandsByEvent(m.name)}

Decisions(m) ==
  UNION {{Msg(n, l, m.carries) : l \in Targets(n)} :
         n \in CommandsByEvent(m.name)}

CheckoutProcessManager(m) ==
  /\ Fresh("checkout", m)
  /\ Send(Decisions(m))
  /\ Done("checkout", m)
  /\ UNCHANGED <<order, lines, payment, approval>>

Reservation(m, s) ==
  /\ Done("inventory", m)
  /\ lines' = [lines EXCEPT ![m.line] = s]
  /\ UNCHANGED <<order, payment, approval>>

Releasable(m) == lines[m.line] \in {"PENDING", "CANCELLED"}
Confirmable(m) == lines[m.line] \in {"PENDING", "CONFIRMED"}

release_inventory(m) ==
  /\ Fresh("inventory", m)
  /\ m.name = "ReleaseInventory"
  /\ Releasable(m)
  /\ Reservation(m, "CANCELLED")
  /\ UNCHANGED messages

confirm_inventory(m) ==
  /\ Fresh("inventory", m)
  /\ m.name = "ConfirmInventory"
  /\ Confirmable(m)
  /\ Reservation(m, "CONFIRMED")
  /\ Send({Msg("InventoryConfirmed", m.line, {})})

refund_payment(m) ==
  /\ Fresh("payment", m)
  /\ m.name = "RefundPayment"
  /\ payment = "CONFIRMED"
  /\ payment' = "REFUNDED"
  /\ Done("payment", m)
  /\ UNCHANGED <<order, lines, approval, messages>>

(* The store reads an order as paid when its payment is, even before the   *)
(* order says so.  It may refuse a paid order for what its catalogue says. *)
ReadAsPaid == order = "PAID" \/ (order = "PENDING" /\ payment = "CONFIRMED")

request_store_approval(m) ==
  /\ Fresh("store", m)
  /\ \/ /\ ReadAsPaid
        /\ approval' = "APPROVED"
        /\ Send({Msg("OrderApproved", None, {})})
     \/ /\ approval' = "REJECTED"
        /\ \E f \in RejectionPayloads : Send({Msg("OrderRejected", None, f)})
  /\ Done("store", m)
  /\ UNCHANGED <<order, lines, payment>>

CancelStarts(m) == \* mutant: the order is left CANCELLING
  /\ Fresh("order", m)
  /\ order' = "CANCELLING"
  /\ Done("order", m)
  /\ UNCHANGED <<lines, payment, approval, messages>>

cancel_order(m) ==
  /\ Fresh("order", m)
  /\ order' = "CANCELLED"
  /\ Send({x \in {Msg("OrderCancelled", None, {})} : order # "CANCELLED"})
  /\ Done("order", m)
  /\ UNCHANGED <<lines, payment, approval>>

-----------------------------------------------------------------------------
(* OrderStatusEventProjector.                                              *)
ProjectableAnyway(n) == \* mutant: the order's status is not looked at
  n \in CheckoutEventName

Projectable(n) ==
  /\ n = "PaymentConfirmed" => order \in {"PENDING", "PAID", "APPROVED"}
  /\ n = "OrderApproved" => order \in {"PAID", "APPROVED"}

Projected(n) ==
  IF n = "PaymentConfirmed" /\ order = "PENDING" THEN "PAID"
  ELSE IF n = "OrderApproved" THEN "APPROVED"
  ELSE order

project(m) ==
  /\ Fresh("status", m)
  /\ Projectable(m.name)
  /\ order' = Projected(m.name)
  /\ Done("status", m)
  /\ UNCHANGED <<lines, payment, approval, messages>>

(* Messages the consumer loop goes past without an effect.                 *)
Duplicate(c, m) ==
  /\ Delivered(c, m)
  /\ <<c, Id(m)>> \in processed
  /\ Skip(c, m)
  /\ UNCHANGED losses

Refused(c, m) ==
  \/ ~ WellFormed(m)
  \/ c = "inventory" /\ m.name = "ReleaseInventory" /\ ~ Releasable(m)
  \/ c = "inventory" /\ m.name = "ConfirmInventory" /\ ~ Confirmable(m)
  \/ c = "payment" /\ m.name = "RefundPayment" /\ payment # "CONFIRMED"
  \/ c = "status" /\ ~ Projectable(m.name)

Reject(c, m) ==
  /\ Delivered(c, m)
  /\ <<c, Id(m)>> \notin processed
  /\ Refused(c, m)
  /\ Skip(c, m)
  /\ UNCHANGED losses

Lose(c, m) ==
  /\ Fresh(c, m)
  /\ losses < MaxLosses
  /\ losses' = losses + 1
  /\ Skip(c, m)

(* After a restart a consumer starts from its committed offset.            *)
Redeliver(c, m) ==
  /\ m \in messages
  /\ <<c, Id(m)>> \in handled
  /\ redeliveries < MaxRedeliveries
  /\ redeliveries' = redeliveries + 1
  /\ handled' = handled \ {<<c, Id(m)>>}
  /\ UNCHANGED <<order, lines, payment, approval, messages, processed, losses>>

Handler(c, m) ==
  \/ c = "checkout"  /\ CheckoutProcessManager(m)
  \/ c = "inventory" /\ (release_inventory(m) \/ confirm_inventory(m))
  \/ c = "payment"   /\ refund_payment(m)
  \/ c = "store"     /\ request_store_approval(m)
  \/ c = "order"     /\ cancel_order(m)
  \/ c = "status"    /\ project(m)

Consume(c) ==
  \E m \in messages : Handler(c, m) \/ Duplicate(c, m) \/ Reject(c, m)

Next ==
  \/ createOrder
  \/ submit_transaction_hash
  \/ cancel_payment
  \/ expire_awaiting_signature
  \/ confirm_payment_receipt
  \/ operator_cancel_order
  \/ \E c \in Consumers : Consume(c)
  \/ \E c \in Consumers, m \in messages : Lose(c, m) \/ Redeliver(c, m)

Spec == Init /\ [][Next]_vars

(* The workers run for ever: they expire an unsigned payment, ask the      *)
(* chain for the receipt of a submitted one, and poll their topics.        *)
Fairness ==
  /\ WF_vars(expire_awaiting_signature)
  /\ WF_vars(confirm_payment_receipt)
  /\ \A c \in Consumers : WF_vars(Consume(c))

FairSpec == Spec /\ Fairness

-----------------------------------------------------------------------------
TypeOK ==
  /\ order \in OrderStatus
  /\ lines \in [Lines -> ReservationStatus]
  /\ payment \in PaymentStatus
  /\ approval \in ApprovalStatus
  /\ messages \subseteq Message
  /\ handled \subseteq Consumers \X Ids
  /\ processed \subseteq Consumers \X Ids
  /\ redeliveries \in 0..MaxRedeliveries
  /\ losses \in 0..MaxLosses

(* Stock is sold only for money the store agreed to keep, and the lines of *)
(* one order are never part sold and part taken back, whatever is lost,    *)
(* delivered again or out of order, and whatever an operator cancels.      *)
GoodsOnlyForMoney ==
  /\ \A l \in Lines :
       lines[l] = "CONFIRMED" => payment = "CONFIRMED" /\ approval = "APPROVED"
  /\ \A l, k \in Lines : ~ (lines[l] = "CONFIRMED" /\ lines[k] = "CANCELLED")

(* A payment that came to nothing costs the store nothing: a command that  *)
(* takes stock back or cancels the order is never sent for an order that   *)
(* was approved, and a refund never for one that was not refused.          *)
CompensationIsDeserved ==
  \A m \in messages :
    /\ m.name \in {"ReleaseInventory", "CancelOrder"} =>
         payment \in {"FAILED", "EXPIRED", "CANCELLED"} \/ approval = "REJECTED"
    /\ m.name = "RefundPayment" => approval = "REJECTED"

(* Every consumer is past everything that was published for it.            *)
Quiet ==
  \A c \in Consumers, m \in messages :
    m.name \in Reads[c] => <<c, Id(m)>> \in handled

(* When everything is delivered and nothing was lost, a payment that       *)
(* failed, expired or was cancelled has left neither stock reserved nor    *)
(* the order open, and an approved order has its stock sold, in whatever   *)
(* order the messages came and whoever else cancelled the order.           *)
OutcomeIsComplete ==
  Quiet /\ losses = 0 =>
    /\ payment \in {"FAILED", "EXPIRED", "CANCELLED"} =>
         order = "CANCELLED" /\ \A l \in Lines : lines[l] = "CANCELLED"
    /\ approval = "APPROVED" => \A l \in Lines : lines[l] = "CONFIRMED"

(* The projector and the cancellations take an order forward only, however *)
(* their messages interleave; cancelled is for good.                       *)
After(s) ==
  {t \in OrderStatus :
     \/ s = "NONE" /\ t = "PENDING"
     \/ s = "PENDING" /\ t = "PAID"
     \/ s = "PAID" /\ t = "APPROVED"
     \/ s \in {"PENDING", "PAID", "APPROVED"} /\ t = "CANCELLED"}
OrderMovesForward == [][order' \in After(order)]_order

(* Reserved stock is sold or taken back in the end.                        *)
ReservationsEnd ==
  \A l \in Lines :
    lines[l] = "PENDING" ~> lines[l] \in {"CONFIRMED", "CANCELLED"}

(* The customer has the money back, the stock is free and the order is     *)
(* cancelled.                                                              *)
Compensated ==
  /\ payment = "REFUNDED"
  /\ order = "CANCELLED"
  /\ \A l \in Lines : lines[l] = "CANCELLED"

(* A rejection that names the payment and a reason is compensated once     *)
(* everything is delivered: nothing else in the saga stands in the way.    *)
CompleteRejectionCompensated ==
  /\ Quiet /\ losses = 0
  /\ Msg("OrderRejected", None, Fields) \in messages
  => Compensated

(* "OrderRejectedEvent: RefundPaymentCommand, ReleaseInventoryCommand,     *)
(* CancelOrderCommand" (docs/ARCHITECTURE.md): when everything is          *)
(* delivered, an order its store refused is compensated.                   *)
RejectionCompensated == Quiet /\ approval = "REJECTED" => Compensated

(* The saga implements the exchange it is there for: the customer's money, *)
(* the store's verdict and the goods move only as Exchange allows.         *)
money ==
  IF payment = "CONFIRMED" THEN "taken"
  ELSE IF payment = "REFUNDED" THEN "returned"
  ELSE IF payment \in {"FAILED", "EXPIRED", "CANCELLED"} THEN "never"
  ELSE "unpaid"
verdict ==
  IF approval = "APPROVED" THEN "agreed"
  ELSE IF approval = "REJECTED" THEN "refused"
  ELSE "open"
goodsOf(s) ==
  IF s = "PENDING" THEN "held"
  ELSE IF s = "CONFIRMED" THEN "given"
  ELSE IF s = "CANCELLED" THEN "freed"
  ELSE "free"
goods == [l \in Lines |-> goodsOf(lines[l])]

Promise == INSTANCE Exchange WITH Lines <- Lines, money <- money,
                                  verdict <- verdict, goods <- goods
ImplementsExchange == Promise!Spec
=============================================================================
